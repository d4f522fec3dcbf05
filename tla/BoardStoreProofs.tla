---- MODULE BoardStoreProofs ----
(***************************************************************************)
(* Under the exclusive regime the in-memory boards never diverge from the  *)
(* file unnoticed. The inductive invariant follows the one running call    *)
(* through getDatabase, openAndMigrate and persistDatabase, and says at    *)
(* each await what its handle, the file and the fingerprint have in        *)
(* common. With what is known of the image about to be written it shows    *)
(* that the file implements AtomicBoard. What holds of overlapping calls   *)
(* as well (types, and memory that no two processes share) is proved at    *)
(* the end.                                                                *)
(***************************************************************************)
EXTENDS BoardStore, TLAPS

\* At most one call is under way, and an idle call keeps nothing.
OneCallAtATime ==
    /\ \A c, d \in Calls : call[c].pc # "idle" /\ call[d].pc # "idle" => c = d
    /\ \A c \in Calls : call[c].pc = "idle" => call[c] = Idle

\* Each service has a database of its own.
OwnHandles ==
    \A s1, s2 \in Services : svc[s1].h # None /\ svc[s1].h = svc[s2].h => s1 = s2

\* The promise of a service with no operation past getDatabase has settled.
Settled ==
    \A s \in Services :
        Quiet(s) /\ svc[s].h # None => heap[svc[s].h].state \in {"ready", "failed"}

\* A call past getDatabase works on its service's current database.
HoldsCurrent(c) == call[c].h # None /\ svc[SvcOf(c)].h = call[c].h

\* ... and that database is what the file holds, as the fingerprint says, with what its
\* service could not write.
InStep(c) ==
    /\ file.kind = "db"
    /\ Handle(c) = Own(SvcOf(c))
    /\ svc[SvcOf(c)].fp = Fingerprint

Ready(c) == heap[call[c].h].state = "ready"

\* What a call relies on at each of its awaits.
CallInv(c) ==
    /\ call[c].pc = "compare" => call[c].seen = Fingerprint
    /\ call[c].pc = "openRead" =>
          /\ HoldsCurrent(c)
          /\ heap[call[c].h].state = "opening"
          /\ call[c].phase = "open"
          /\ svc[SvcOf(c)].fp = Fingerprint
    /\ call[c].pc \in {"trunc", "write", "stamp", "record"} =>
          /\ HoldsCurrent(c)
          /\ call[c].phase # "none"
          /\ Handle(c) = call[c].data
          /\ heap[call[c].h].state = IF call[c].phase = "open" THEN "opening" ELSE "ready"
    /\ call[c].pc = "trunc" /\ call[c].phase # "open" => file.kind = "db"
    /\ call[c].pc = "write" => file.kind \in {"writing", "torn"}
    /\ call[c].pc \in {"stamp", "record"} => file.kind = "db" /\ file.db = call[c].data
    /\ call[c].pc \in {"stamp", "record", "finish"} => unsaved[SvcOf(c)] = None
    /\ call[c].pc = "record" => call[c].seen = Fingerprint
    /\ call[c].pc = "await" =>
          /\ HoldsCurrent(c)
          /\ heap[call[c].h].state \in {"ready", "failed"}
          /\ Ready(c) => InStep(c)
    /\ call[c].pc \in {"manifests", "finish"} => HoldsCurrent(c) /\ Ready(c) /\ InStep(c)

Inv ==
    /\ TypeOK
    /\ OneCallAtATime
    /\ OwnHandles
    /\ Settled
    /\ CacheCoherent
    /\ \A c \in Calls : CallInv(c)

----------------------------------------------------------------------------
(* Types                                                                   *)

USE CallsAssumption, NoneAssumption, StampsAssumption, DbAssumption

\* The board images the operations build are board images.
LEMMA DbTypes ==
    /\ EmptyDb \in Db
    /\ \A d \in Db : [d EXCEPT !.leading = None] \in Db
    /\ \A d \in Db, t \in Tasks : [d EXCEPT !.leading = t] \in Db
    /\ \A d \in Db, t \in Tasks, v \in Values \cup {None} : [d EXCEPT !.rows[t] = v] \in Db
    /\ \A d \in Db, ts \in SUBSET Tasks : Without(d, ts) \in Db
BY DEF EmptyDb, Db, Without

\* An idle call has the type of a call.
LEMMA IdleType == Idle \in CallState
BY DbTypes DEF Idle, Ops, CallState

\* The initial state satisfies the invariant.
LEMMA InitInv == Init => Inv
<1> SUFFICES ASSUME Init PROVE Inv
    OBVIOUS
<1>1. TypeOK
    BY DbTypes, IdleType DEF Init, TypeOK, Free
<1>2. OneCallAtATime /\ OwnHandles /\ Settled /\ CacheCoherent
    BY DEF Init, OneCallAtATime, OwnHandles, Settled, CacheCoherent, Idle
<1>3. \A c \in Calls : CallInv(c)
    BY DEF Init, CallInv, Idle
<1> QED
    BY <1>1, <1>2, <1>3 DEF Inv

----------------------------------------------------------------------------
(* One lemma per kind of step                                              *)

\* While a call is under way every other call is idle.
LEMMA OthersIdle ==
    ASSUME Inv, NEW c \in Calls, call[c].pc # "idle", NEW d \in Calls, d # c
    PROVE  call[d] = Idle
BY DEF Inv, OneCallAtATime

\* A call that holds a settled database returns or throws: it leaves its service's
\* copy as the file is, or failed.
LEMMA ReturnInv ==
    ASSUME Inv, NEW c \in Calls, Return(c),
           HoldsCurrent(c), heap[call[c].h].state \in {"ready", "failed"}, Ready(c) => InStep(c)
    PROVE  Inv'
<1>1. TypeOK'
    BY IdleType DEF Inv, TypeOK, Return
<1>2. OneCallAtATime' /\ OwnHandles'
    BY DEF Inv, TypeOK, Return, OneCallAtATime, OwnHandles, Idle
<1>3. Settled'
    BY DEF Inv, TypeOK, Return, Settled, Quiet, HoldsCurrent
<1>4. CacheCoherent'
    BY DEF Inv, TypeOK, Return, CacheCoherent, Quiet, HoldsCurrent, Ready, InStep, Handle,
           Fingerprint, Own
<1>5. \A d \in Calls : CallInv(d)'
    BY DEF Inv, TypeOK, Return, CallInv, Idle, HoldsCurrent, InStep, Ready, Handle, Fingerprint, Own
<1> QED
    BY <1>1, <1>2, <1>3, <1>4, <1>5 DEF Inv

\* A synchronous mutation and export: handle and exported image agree.
LEMMA MutateInv ==
    ASSUME Inv, NEW c \in Calls, NEW d \in Db, NEW phase \in {"write", "delete"},
           call[c].pc # "idle", HoldsCurrent(c), Ready(c), file.kind = "db", Mutate(c, d, phase)
    PROVE  Inv'
<1> DEFINE new == [call[c] EXCEPT !.pc = "trunc", !.data = d, !.phase = phase]
           mem == [heap[call[c].h] EXCEPT !.db = d]
<1>1. /\ call' = [call EXCEPT ![c] = new]
      /\ heap' = [heap EXCEPT ![call[c].h] = mem]
      /\ file' = file /\ svc' = svc /\ unsaved' = unsaved
    BY DEF Mutate
<1>2. call[c].h \in Handles
    BY DEF Inv, TypeOK, HoldsCurrent, CallState
<1>3. /\ new \in CallState
      /\ new.pc = "trunc" /\ new.data = d /\ new.phase = phase /\ new.h = call[c].h
    <2>1. call[c] \in CallState
        BY DEF Inv, TypeOK
    <2> QED
        BY <2>1 DEF CallState
<1>4. /\ mem \in [state : {"free", "opening", "ready", "failed"}, db : Db]
      /\ mem.state = "ready" /\ mem.db = d
    BY <1>2 DEF Inv, TypeOK, Ready
<1> HIDE DEF new, mem
<1>5. TypeOK'
    BY <1>1, <1>2, <1>3, <1>4 DEF Inv, TypeOK
<1>6. OneCallAtATime' /\ OwnHandles'
    BY <1>1, <1>3 DEF Inv, TypeOK, OneCallAtATime, OwnHandles
<1>7. \A s \in Services : s # SvcOf(c) => svc[s].h # call[c].h
    BY DEF Inv, TypeOK, OwnHandles, HoldsCurrent
<1>8. ~Quiet(SvcOf(c))' /\ \A s \in Services : s # SvcOf(c) => (Quiet(s)' <=> Quiet(s))
    BY <1>1, <1>3 DEF Inv, TypeOK, Quiet
<1>9. Settled' /\ CacheCoherent'
    BY <1>1, <1>7, <1>8 DEF Inv, TypeOK, Settled, CacheCoherent, Fingerprint, Own
<1>10. \A e \in Calls : CallInv(e)'
    <2> SUFFICES ASSUME NEW e \in Calls PROVE CallInv(e)'
        OBVIOUS
    <2>1. CASE e = c
        BY <1>1, <1>2, <1>3, <1>4, <2>1 DEF Inv, TypeOK, CallInv, HoldsCurrent, Handle
    <2>2. CASE e # c
        BY <1>1, <2>2, OthersIdle DEF Inv, TypeOK, CallInv, Idle
    <2> QED
        BY <2>1, <2>2
<1> QED
    BY <1>5, <1>6, <1>9, <1>10 DEF Inv

\* A step of call c while the others are idle: what is left to show is what the step
\* does to the types, to the services' databases and to c itself.
LEMMA OnlyOneMoves ==
    ASSUME Inv, NEW c \in Calls, \A d \in Calls \ {c} : call[d] = Idle,
           NEW new \in CallState, new.pc # "idle", call' = [call EXCEPT ![c] = new],
           TypeOK', OwnHandles', Settled', CacheCoherent', CallInv(c)'
    PROVE  Inv'
<1>1. call'[c] = new /\ \A d \in Calls \ {c} : call'[d] = Idle
    BY DEF Inv, TypeOK
<1>2. OneCallAtATime'
    <2>1. Idle.pc = "idle"
        BY DEF Idle
    <2> QED
        BY <1>1, <2>1 DEF OneCallAtATime
<1>3. \A d \in Calls \ {c} : CallInv(d)'
    BY <1>1 DEF CallInv, Idle
<1> QED
    BY <1>2, <1>3 DEF Inv

\* A call begins on an idle board: it only records whether its service has a database.
LEMMA StartInv ==
    ASSUME Inv, Exclusive, NEW c \in Calls, NEW op \in Ops, NEW t \in Tasks \cup {None},
           NEW v \in Values \cup {None}, NEW ts \in SUBSET Tasks, Start(c, op, t, v, ts)
    PROVE  Inv'
<1> DEFINE new == [Idle EXCEPT !.pc = "stat", !.op = op, !.task = t, !.value = v, !.list = ts,
                               !.first = svc[SvcOf(c)].h = None]
<1>1. new \in CallState /\ new.pc = "stat"
    BY DbTypes DEF CallState, Idle, Ops
<1>2. /\ \A d \in Calls : call[d] = Idle
      /\ call' = [call EXCEPT ![c] = new]
      /\ file' = file /\ heap' = heap /\ svc' = svc /\ unsaved' = unsaved
    BY DEF Start, Inv, OneCallAtATime
<1> HIDE DEF new
<1>3. \A s \in Services : Quiet(s)' <=> Quiet(s)
    BY <1>1, <1>2 DEF Quiet, Inv, TypeOK, Idle
<1>4. TypeOK' /\ OwnHandles' /\ Settled' /\ CacheCoherent'
    BY <1>1, <1>2, <1>3 DEF Inv, TypeOK, OwnHandles, Settled, CacheCoherent, Fingerprint, Own
<1>5. CallInv(c)'
    BY <1>1, <1>2 DEF CallInv, Inv, TypeOK
<1> QED
    BY <1>1, <1>2, <1>4, <1>5, OnlyOneMoves

\* The stat reads the fingerprint the file has now.
LEMMA StatInv ==
    ASSUME Inv, NEW c \in Calls, Stat(c)
    PROVE  Inv'
<1> DEFINE new == [call[c] EXCEPT !.pc = "compare", !.seen = Fingerprint]
<1>1. /\ \A d \in Calls \ {c} : call[d] = Idle
      /\ call' = [call EXCEPT ![c] = new]
      /\ file' = file /\ heap' = heap /\ svc' = svc /\ unsaved' = unsaved
    BY OthersIdle DEF Stat
<1>2. call[c] \in CallState /\ call[c].pc = "stat" /\ Fingerprint \in Stamps \cup {"null"}
    BY DEF Inv, TypeOK, Stat, Fingerprint
<1>3. new \in CallState /\ new.pc = "compare" /\ new.seen = Fingerprint
    BY <1>2 DEF CallState
<1> HIDE DEF new
<1>4. \A s \in Services : Quiet(s)' <=> Quiet(s)
    BY <1>1, <1>2, <1>3 DEF Quiet, Inv, TypeOK
<1>5. TypeOK' /\ OwnHandles' /\ Settled' /\ CacheCoherent'
    BY <1>1, <1>3, <1>4 DEF Inv, TypeOK, OwnHandles, Settled, CacheCoherent, Fingerprint, Own
<1>6. CallInv(c)'
    BY <1>1, <1>3 DEF CallInv, Inv, TypeOK, Fingerprint
<1> QED
    BY <1>1, <1>3, <1>5, <1>6, OnlyOneMoves

\* A fingerprint that is still the remembered one leads to a current database.
LEMMA UseCachedInv ==
    ASSUME Inv, NEW c \in Calls, UseCached(c)
    PROVE  Inv'
<1> DEFINE s == SvcOf(c)
           new == [call[c] EXCEPT !.pc = "await", !.h = svc[s].h, !.seen = "null"]
<1>1. /\ \A d \in Calls \ {c} : call[d] = Idle
      /\ call' = [call EXCEPT ![c] = new]
      /\ file' = file /\ heap' = heap /\ svc' = svc /\ unsaved' = unsaved
    BY OthersIdle DEF UseCached
<1>2. /\ s \in Services /\ call[c] \in CallState /\ call[c].pc = "compare"
      /\ svc[s].h \in Handles /\ svc[s].fp = Fingerprint
    BY DEF Inv, TypeOK, UseCached, MustOpen, CallInv
<1>3. new \in CallState /\ new.pc = "await" /\ new.h = svc[s].h
    BY <1>2 DEF CallState
<1>4. Quiet(s) /\ \A s2 \in Services \ {s} : Quiet(s2)' <=> Quiet(s2)
    BY <1>1, <1>2 DEF Quiet, Inv, TypeOK, Idle
<1>5. ~Quiet(s)'
    BY <1>1, <1>3 DEF Quiet, Inv, TypeOK
<1> HIDE DEF new, s
<1>6. TypeOK' /\ OwnHandles' /\ Settled' /\ CacheCoherent'
    BY <1>1, <1>3, <1>4, <1>5 DEF Inv, TypeOK, OwnHandles, Settled, CacheCoherent, Fingerprint, Own
<1>7. /\ heap[svc[s].h].state \in {"ready", "failed"}
      /\ heap[svc[s].h].state = "ready" => file.kind = "db" /\ heap[svc[s].h].db = Own(s)
    BY <1>2, <1>4, NoneAssumption DEF Inv, Settled, CacheCoherent
<1>8. HoldsCurrent(c)' /\ (Ready(c) => InStep(c))' /\ heap'[call'[c].h].state \in {"ready", "failed"}
    BY <1>1, <1>2, <1>3, <1>7 DEF HoldsCurrent, Ready, InStep, Handle, Inv, TypeOK, s, Fingerprint, Own
<1>9. CallInv(c)'
    BY <1>1, <1>3, <1>8 DEF CallInv, Inv, TypeOK
<1> QED
    BY <1>1, <1>3, <1>6, <1>9, OnlyOneMoves

\* The fingerprint recorded by Reopen is the file's, and its new handle is nobody's.
LEMMA ReopenInv ==
    ASSUME Inv, NEW c \in Calls, NEW h \in Handles, Reopen(c, h)
    PROVE  Inv'
<1> DEFINE s == SvcOf(c)
           new == [call[c] EXCEPT !.pc = "openRead", !.h = h, !.phase = "open", !.seen = "null"]
<1>1. /\ \A d \in Calls \ {c} : call[d] = Idle
      /\ call' = [call EXCEPT ![c] = new]
      /\ file' = file
      /\ svc' = [svc EXCEPT ![s] = [h |-> h, fp |-> call[c].seen]]
      /\ unsaved' = [unsaved EXCEPT ![s] = None]
    BY OthersIdle DEF Reopen
<1>2. /\ s \in Services /\ call[c] \in CallState /\ call[c].seen = Fingerprint
      /\ \A g \in Services : svc[g].h # h
    BY DEF Inv, TypeOK, Reopen, CallInv
<1>3. new \in CallState /\ new.pc = "openRead" /\ new.h = h /\ new.phase = "open"
    BY <1>2 DEF CallState
<1>4. heap' = [g \in Handles |->
                  IF g = h THEN [state |-> "opening", db |-> EmptyDb]
                  ELSE IF HeldElsewhere(g, s, {c}) THEN heap[g] ELSE Free]
    BY DEF Reopen
<1>5. /\ heap' \in [Handles -> [state : {"free", "opening", "ready", "failed"}, db : Db]]
      /\ heap'[h].state = "opening"
      /\ \A s2 \in Services \ {s} : svc[s2].h # None => heap'[svc[s2].h] = heap[svc[s2].h]
    BY <1>2, <1>4, DbTypes DEF Inv, TypeOK, Free, HeldElsewhere
<1>6. ~Quiet(s)' /\ \A s2 \in Services \ {s} : Quiet(s2)' <=> Quiet(s2)
    BY <1>1, <1>3 DEF Quiet, Inv, TypeOK, Idle
<1>7. svc' \in [Services -> [h : Handles \cup {None}, fp : Stamps \cup {"null", "undefined"}]]
    BY <1>1, <1>2 DEF Inv, TypeOK, CallState
<1>8. /\ svc'[s].h = h /\ svc'[s].fp = Fingerprint
      /\ \A s2 \in Services \ {s} : svc'[s2] = svc[s2] /\ unsaved'[s2] = unsaved[s2]
    BY <1>1, <1>2 DEF Inv, TypeOK
<1> HIDE DEF new
<1>9. TypeOK'
    BY <1>1, <1>3, <1>5, <1>7 DEF Inv, TypeOK
<1>10. OwnHandles'
    BY <1>2, <1>8 DEF Inv, OwnHandles
<1>11. Settled' /\ CacheCoherent'
    BY <1>1, <1>5, <1>6, <1>8 DEF Inv, Settled, CacheCoherent, Fingerprint, Own
<1>12. CallInv(c)'
    BY <1>1, <1>3, <1>5, <1>8 DEF CallInv, Inv, TypeOK, HoldsCurrent, Fingerprint
<1> QED
    BY <1>1, <1>3, <1>9, <1>10, <1>11, <1>12, OnlyOneMoves

\* What is read from the file is what the handle holds and what migrations will persist.
LEMMA OpenReadInv ==
    ASSUME Inv, NEW c \in Calls, OpenRead(c)
    PROVE  Inv'
<1> DEFINE new == [call[c] EXCEPT !.pc = "trunc", !.data = Readable]
           mem == [heap[call[c].h] EXCEPT !.db = Readable]
<1>1. /\ \A d \in Calls \ {c} : call[d] = Idle
      /\ call' = [call EXCEPT ![c] = new]
      /\ heap' = [heap EXCEPT ![call[c].h] = mem]
      /\ file' = file /\ svc' = svc /\ unsaved' = unsaved
    BY OthersIdle DEF OpenRead
<1>2. call[c] \in CallState /\ call[c].pc = "openRead" /\ Readable \in Db /\ HoldsCurrent(c)
    BY DbTypes DEF Inv, TypeOK, OpenRead, Readable, CallInv
<1>3. new \in CallState /\ new.pc = "trunc" /\ new.data = Readable /\ new.h = call[c].h
      /\ new.phase = call[c].phase
    BY <1>2 DEF CallState
<1>4. call[c].h \in Handles
    BY <1>2 DEF CallState, HoldsCurrent
<1>5. heap[call[c].h] \in [state : {"free", "opening", "ready", "failed"}, db : Db]
    BY <1>4 DEF Inv, TypeOK
<1>6. /\ mem \in [state : {"free", "opening", "ready", "failed"}, db : Db]
      /\ mem.state = heap[call[c].h].state /\ mem.db = Readable
    BY <1>2, <1>5
<1>7. call[c].phase = "open" /\ heap[call[c].h].state = "opening"
    BY <1>2 DEF Inv, CallInv
<1> HIDE DEF new, mem
<1>8. TypeOK' /\ OwnHandles'
    BY <1>1, <1>3, <1>4, <1>6 DEF Inv, TypeOK, OwnHandles
<1>9. ~Quiet(SvcOf(c))' /\ \A s \in Services \ {SvcOf(c)} : Quiet(s)' <=> Quiet(s)
    BY <1>1, <1>3 DEF Quiet, Inv, TypeOK
<1>10. \A s \in Services \ {SvcOf(c)} : svc[s].h # call[c].h
    BY <1>2 DEF Inv, TypeOK, OwnHandles, HoldsCurrent
<1>11. Settled' /\ CacheCoherent'
    BY <1>1, <1>9, <1>10 DEF Inv, TypeOK, Settled, CacheCoherent, Fingerprint, Own
<1>12. CallInv(c)'
    BY <1>1, <1>2, <1>3, <1>4, <1>6, <1>7 DEF CallInv, Inv, TypeOK, HoldsCurrent, Handle
<1> QED
    BY <1>1, <1>3, <1>8, <1>11, <1>12, OnlyOneMoves

\* A file operation fails: the promise of a database that is being opened settles, and any
\* other database is coherent, or the file has a new fingerprint.
LEMMA ThrowInv ==
    ASSUME Inv, NEW c \in Calls, call[c].pc \in {"openRead", "trunc", "write", "stamp"}, Throw(c),
           file' \in [kind : {"absent", "writing", "torn", "db"}, db : Db,
                      stamp : Stamps \cup {"null"}],
           unsaved' \in [Services -> Db \cup {None}],
           \/ file' = file /\ \A s \in Services \ {SvcOf(c)} : unsaved'[s] = unsaved[s]
           \/ \A s \in Services : svc[s].fp # Fingerprint',
           call[c].phase # "open" /\ svc[SvcOf(c)].fp = Fingerprint' =>
               file'.kind = "db" /\ Handle(c) = Own(SvcOf(c))'
    PROVE  Inv'
<1> DEFINE open == call[c].phase = "open"
           mem == IF open THEN [heap[call[c].h] EXCEPT !.state = "failed"] ELSE heap[call[c].h]
<1>1. /\ \A d \in Calls \ {c} : call[d] = Idle
      /\ call' = [call EXCEPT ![c] = Idle]
      /\ svc' = svc
    BY OthersIdle DEF Throw
<1>2. /\ call[c] \in CallState /\ HoldsCurrent(c) /\ SvcOf(c) \in Services
      /\ call[c].pc \notin {"idle", "stat", "compare"}
      /\ heap[call[c].h].state = IF open THEN "opening" ELSE "ready"
    BY DEF Inv, TypeOK, CallInv
<1>3. call[c].h \in Handles
    BY <1>2 DEF CallState, HoldsCurrent
<1>4. heap[call[c].h] \in [state : {"free", "opening", "ready", "failed"}, db : Db]
    BY <1>3 DEF Inv, TypeOK
<1>5. /\ mem \in [state : {"free", "opening", "ready", "failed"}, db : Db]
      /\ mem.state = IF open THEN "failed" ELSE "ready"
      /\ ~open => mem.db = Handle(c)
    BY <1>2, <1>4 DEF Handle
<1>6. heap' = [heap EXCEPT ![call[c].h] = mem]
    BY <1>3 DEF Throw, Inv, TypeOK
<1>7. Idle.pc = "idle"
    BY DEF Idle
<1> HIDE DEF mem
<1>8. TypeOK' /\ OwnHandles'
    BY <1>1, <1>3, <1>5, <1>6, IdleType DEF Inv, TypeOK, OwnHandles
<1>9. \A s \in Services \ {SvcOf(c)} : svc[s].h # call[c].h /\ (Quiet(s)' <=> Quiet(s))
    BY <1>1, <1>2 DEF Inv, TypeOK, OwnHandles, HoldsCurrent, Quiet
<1>10. /\ heap'[svc[SvcOf(c)].h] = mem
       /\ \A s \in Services \ {SvcOf(c)} : svc[s].h # None => heap'[svc[s].h] = heap[svc[s].h]
    BY <1>2, <1>3, <1>6, <1>9 DEF Inv, TypeOK, HoldsCurrent
<1>11. Settled'
    BY <1>1, <1>5, <1>9, <1>10 DEF Inv, Settled
<1>12. CacheCoherent'
    <2> SUFFICES ASSUME NEW s \in Services, Quiet(s)', svc[s].h # None,
                        heap'[svc[s].h].state = "ready", svc[s].fp = Fingerprint'
                 PROVE  file'.kind = "db" /\ heap'[svc[s].h].db = Own(s)'
        BY <1>1 DEF CacheCoherent
    <2>1. CASE s = SvcOf(c)
        BY <1>5, <1>10, <2>1
    <2>2. CASE s # SvcOf(c)
        <3>1. file' = file /\ unsaved'[s] = unsaved[s]
            BY <2>2
        <3>2. Quiet(s) /\ heap'[svc[s].h] = heap[svc[s].h] /\ svc[s].fp = Fingerprint
            BY <1>9, <1>10, <2>2, <3>1 DEF Fingerprint
        <3> QED
            BY <3>1, <3>2 DEF Inv, CacheCoherent, Own
    <2> QED
        BY <2>1, <2>2
<1>13. \A d \in Calls : call'[d] = Idle
    BY <1>1 DEF Inv, TypeOK
<1>14. OneCallAtATime' /\ \A d \in Calls : CallInv(d)'
    BY <1>7, <1>13 DEF OneCallAtATime, CallInv
<1> QED
    BY <1>8, <1>11, <1>12, <1>14 DEF Inv

\* Each failure of a file operation, after what it leaves of the file.
LEMMA FailsInv ==
    ASSUME Inv, NEW c \in Calls,
           OpenFails(c) \/ TruncateFails(c) \/ WriteFails(c) \/ StatWrittenFails(c)
    PROVE  Inv'
<1>1. CallInv(c) /\ SvcOf(c) \in Services /\ call[c] \in CallState
    BY DEF Inv, TypeOK
<1>2. CASE OpenFails(c)
    <2>1. call[c].pc = "openRead" /\ Throw(c) /\ file' = file /\ unsaved' = unsaved
        BY <1>2 DEF OpenFails
    <2>2. call[c].phase = "open"
        BY <1>1, <2>1 DEF CallInv
    <2>3. TypeOK
        BY DEF Inv
    <2> QED
        BY <2>1, <2>2, <2>3, ThrowInv DEF TypeOK
<1>3. CASE TruncateFails(c)
    <2>1. call[c].pc = "trunc" /\ Throw(c) /\ file' = file
        BY <1>3 DEF TruncateFails
    <2>2. /\ Handle(c) = call[c].data /\ call[c].data \in Db
          /\ call[c].phase # "open" => file.kind = "db"
        BY <1>1, <2>1 DEF CallInv, CallState
    <2>3. unsaved' = IF call[c].phase = "open" THEN unsaved
                     ELSE [unsaved EXCEPT ![SvcOf(c)] = Handle(c)]
        BY <1>3 DEF TruncateFails, Handle
    <2>4. unsaved' \in [Services -> Db \cup {None}]
          /\ \A s \in Services \ {SvcOf(c)} : unsaved'[s] = unsaved[s]
        BY <2>2, <2>3 DEF Inv, TypeOK
    <2>5. call[c].phase # "open" => file'.kind = "db" /\ Handle(c) = Own(SvcOf(c))'
        BY <1>1, <2>1, <2>2, <2>3 DEF Inv, TypeOK, Own
    <2>6. file' \in [kind : {"absent", "writing", "torn", "db"}, db : Db,
                      stamp : Stamps \cup {"null"}]
        BY <2>1 DEF Inv, TypeOK
    <2> QED
        BY <2>1, <2>4, <2>5, <2>6, ThrowInv
<1>4. CASE WriteFails(c)
    <2>1. call[c].pc = "write" /\ Throw(c) /\ unsaved' = [s \in Services |-> None]
        BY <1>4 DEF WriteFails
    <2>2. PICK x \in FreshStamps : file' = [file EXCEPT !.kind = "torn", !.stamp = x]
        BY <1>4 DEF WriteFails
    <2>3. /\ file' \in [kind : {"absent", "writing", "torn", "db"}, db : Db,
                         stamp : Stamps \cup {"null"}]
          /\ Fingerprint' = x /\ \A s \in Services : svc[s].fp # x
        BY <2>2 DEF Inv, TypeOK, FreshStamps, Fingerprint
    <2> QED
        BY <1>1, <2>1, <2>3, ThrowInv
<1>5. CASE StatWrittenFails(c)
    <2>1. call[c].pc = "stamp" /\ Throw(c) /\ file' = file /\ unsaved' = unsaved
        BY <1>5 DEF StatWrittenFails
    <2>2. file.kind = "db" /\ file.db = call[c].data /\ Handle(c) = call[c].data
          /\ unsaved[SvcOf(c)] = None
        BY <1>1, <2>1 DEF CallInv
    <2>3. file'.kind = "db" /\ Handle(c) = Own(SvcOf(c))'
        BY <2>1, <2>2 DEF Own
    <2>4. TypeOK
        BY DEF Inv
    <2> QED
        BY <2>1, <2>3, <2>4, ThrowInv DEF TypeOK
<1> QED
    BY <1>2, <1>3, <1>4, <1>5

\* The first stat fails: the call ends before it has a database.
LEMMA StatFailsInv ==
    ASSUME Inv, NEW c \in Calls, StatFails(c)
    PROVE  Inv'
<1>1. /\ \A d \in Calls \ {c} : call[d] = Idle
      /\ call' = [call EXCEPT ![c] = Idle] /\ call[c].pc = "stat"
      /\ file' = file /\ heap' = heap /\ svc' = svc /\ unsaved' = unsaved
    BY OthersIdle DEF StatFails, Return
<1>2. \A d \in Calls : call'[d] = Idle
    BY <1>1 DEF Inv, TypeOK
<1>3. Idle.pc = "idle"
    BY DEF Idle
<1>4. TypeOK' /\ OwnHandles'
    BY <1>1, IdleType DEF Inv, TypeOK, OwnHandles
<1>5. \A s \in Services : Quiet(s)
    BY <1>1, <1>3 DEF Quiet
<1>6. Settled' /\ CacheCoherent'
    BY <1>1, <1>5 DEF Inv, Settled, CacheCoherent, Fingerprint, Own
<1>7. OneCallAtATime' /\ \A d \in Calls : CallInv(d)'
    BY <1>2, <1>3 DEF OneCallAtATime, CallInv
<1> QED
    BY <1>4, <1>6, <1>7 DEF Inv

\* A write of the file gives it a fingerprint no service remembers: every other
\* service will find its copy outdated.
LEMMA FileStepInv ==
    ASSUME Inv, NEW c \in Calls, NEW x \in FreshStamps,
           NEW kind \in {"writing", "torn", "db"}, NEW d \in Db,
           NEW pc \in {"write", "stamp"},
           call[c].pc \in {"trunc", "write"},
           file' = [kind |-> kind, db |-> d, stamp |-> x],
           call' = [call EXCEPT ![c].pc = pc],
           heap' = heap, svc' = svc, unsaved' \in [Services -> Db \cup {None}],
           pc = "stamp" => unsaved'[SvcOf(c)] = None,
           pc = "write" => kind \in {"writing", "torn"},
           pc = "stamp" => kind = "db" /\ d = call[c].data
    PROVE  Inv'
<1> DEFINE new == [call[c] EXCEPT !.pc = pc]
<1>1. \A e \in Calls \ {c} : call[e] = Idle
    BY OthersIdle
<1>2. call[c] \in CallState
    BY DEF Inv, TypeOK
<1>3. new \in CallState /\ new.pc = pc /\ new.h = call[c].h /\ new.data = call[c].data
      /\ new.phase = call[c].phase
    BY <1>2 DEF CallState
<1>4. call' = [call EXCEPT ![c] = new]
    OBVIOUS
<1> HIDE DEF new
<1>5. TypeOK' /\ OwnHandles'
    <2>1. file' \in [kind : {"absent", "writing", "torn", "db"}, db : Db,
                     stamp : Stamps \cup {"null"}]
        BY DEF FreshStamps
    <2>2. call' \in [Calls -> CallState]
        BY <1>3, <1>4 DEF Inv, TypeOK
    <2> QED
        BY <2>1, <2>2 DEF Inv, TypeOK, OwnHandles
<1>6. ~Quiet(SvcOf(c))' /\ \A s \in Services \ {SvcOf(c)} : Quiet(s)' <=> Quiet(s)
    BY <1>3, <1>4 DEF Quiet, Inv, TypeOK
<1>7. \A s \in Services : svc[s].fp # x
    BY DEF FreshStamps
<1>8. Fingerprint' = x
    BY DEF Fingerprint
<1>9. Settled' /\ CacheCoherent'
    BY <1>6, <1>7, <1>8 DEF Inv, Settled, CacheCoherent
<1>10. /\ HoldsCurrent(c) /\ call[c].phase # "none" /\ Handle(c) = call[c].data
       /\ heap[call[c].h].state = IF call[c].phase = "open" THEN "opening" ELSE "ready"
    BY DEF Inv, CallInv
<1>11. CallInv(c)'
    BY <1>3, <1>4, <1>10 DEF CallInv, Inv, TypeOK, HoldsCurrent, Handle
<1> QED
    BY <1>1, <1>3, <1>4, <1>5, <1>9, <1>11, OnlyOneMoves

\* Truncation gives the file a fingerprint that no service remembers.
LEMMA TruncateInv ==
    ASSUME Inv, NEW c \in Calls, Truncate(c)
    PROVE  Inv'
<1>1. PICK x \in FreshStamps :
          file' = [file EXCEPT !.kind = IF @ = "torn" THEN "torn" ELSE "writing", !.stamp = x]
    BY DEF Truncate
<1> DEFINE kind == IF file.kind = "torn" THEN "torn" ELSE "writing"
<1>2. file' = [kind |-> kind, db |-> file.db, stamp |-> x] /\ file.db \in Db
    BY <1>1 DEF Inv, TypeOK
<1>3. call[c].pc = "trunc" /\ call' = [call EXCEPT ![c].pc = "write"] /\ heap' = heap /\ svc' = svc
    BY DEF Truncate
<1>4. unsaved' \in [Services -> Db \cup {None}]
    BY DEF Truncate, Inv, TypeOK
<1> QED
    BY <1>2, <1>3, <1>4, FileStepInv

\* The written image is the handle's content, since no other call writes meanwhile.
LEMMA WriteInv ==
    ASSUME Inv, NEW c \in Calls, Write(c)
    PROVE  Inv'
<1>1. call[c].pc = "write" /\ call' = [call EXCEPT ![c].pc = "stamp"] /\ heap' = heap /\ svc' = svc
    BY DEF Write
<1>2. file.kind # "db"
    BY <1>1 DEF Inv, CallInv
<1>3. PICK x \in FreshStamps : file' = [kind |-> "db", db |-> call[c].data, stamp |-> x]
    BY <1>2 DEF Write
<1>4. call[c].data \in Db /\ SvcOf(c) \in Services
      /\ unsaved' = [s \in Services |-> None]
    BY DEF Inv, TypeOK, CallState, Write
<1> QED
    BY <1>1, <1>3, <1>4, FileStepInv

\* The stat after a write reads the fingerprint of that very write.
LEMMA StatWrittenInv ==
    ASSUME Inv, NEW c \in Calls, StatWritten(c)
    PROVE  Inv'
<1> DEFINE new == [call[c] EXCEPT !.pc = "record", !.seen = Fingerprint]
<1>1. /\ \A d \in Calls \ {c} : call[d] = Idle
      /\ call' = [call EXCEPT ![c] = new]
      /\ file' = file /\ heap' = heap /\ svc' = svc /\ unsaved' = unsaved
    BY OthersIdle DEF StatWritten
<1>2. call[c] \in CallState /\ call[c].pc = "stamp" /\ Fingerprint \in Stamps \cup {"null"}
    BY DEF Inv, TypeOK, StatWritten, Fingerprint
<1>3. /\ new \in CallState /\ new.pc = "record" /\ new.seen = Fingerprint
      /\ new.h = call[c].h /\ new.data = call[c].data /\ new.phase = call[c].phase
    BY <1>2 DEF CallState
<1> HIDE DEF new
<1>4. \A s \in Services : Quiet(s)' <=> Quiet(s)
    BY <1>1, <1>2, <1>3 DEF Quiet, Inv, TypeOK
<1>5. TypeOK' /\ OwnHandles' /\ Settled' /\ CacheCoherent'
    BY <1>1, <1>3, <1>4 DEF Inv, TypeOK, OwnHandles, Settled, CacheCoherent, Fingerprint, Own
<1>6. CallInv(c)
    BY DEF Inv
<1>7. CallInv(c)'
    BY <1>1, <1>2, <1>3, <1>6 DEF CallInv, Inv, TypeOK, Fingerprint, HoldsCurrent, Handle
<1> QED
    BY <1>1, <1>3, <1>5, <1>7, OnlyOneMoves

\* The call records the fingerprint of the image it wrote, which is its handle's.
LEMMA RecordInv ==
    ASSUME Inv, NEW c \in Calls, Record(c)
    PROVE  Inv'
<1> DEFINE s == SvcOf(c)
           open == call[c].phase = "open"
           new == [call[c] EXCEPT !.pc = IF open THEN "await" ELSE "finish", !.seen = "null",
                                  !.data = EmptyDb, !.phase = IF open THEN "none" ELSE call[c].phase]
           own == [svc[s] EXCEPT !.fp = call[c].seen]
           mem == IF open THEN [heap[call[c].h] EXCEPT !.state = "ready"] ELSE heap[call[c].h]
<1>1. /\ \A d \in Calls \ {c} : call[d] = Idle
      /\ call' = [call EXCEPT ![c] = new]
      /\ svc' = [svc EXCEPT ![s] = own]
      /\ file' = file /\ unsaved' = unsaved
    <2>1. call[c].pc = "record"
        BY DEF Record
    <2>2. \A d \in Calls \ {c} : call[d] = Idle
        BY <2>1, OthersIdle
    <2>3. call' = [call EXCEPT ![c] = new]
        BY DEF Record
    <2>4. svc' = [svc EXCEPT ![s] = own] /\ file' = file /\ unsaved' = unsaved
        BY DEF Record
    <2> QED
        BY <2>2, <2>3, <2>4
<1>2. /\ call[c] \in CallState /\ call[c].pc = "record" /\ s \in Services
      /\ svc[s] \in [h : Handles \cup {None}, fp : Stamps \cup {"null", "undefined"}]
    BY DEF Inv, TypeOK, Record
<1>3. /\ HoldsCurrent(c) /\ Handle(c) = call[c].data
      /\ heap[call[c].h].state = IF open THEN "opening" ELSE "ready"
      /\ file.kind = "db" /\ file.db = call[c].data /\ call[c].seen = Fingerprint
      /\ unsaved[s] = None
    BY <1>2 DEF Inv, CallInv
<1>4. call[c].h \in Handles
    BY <1>2, <1>3 DEF CallState, HoldsCurrent
<1>5. /\ new \in CallState /\ new.pc \in {"await", "finish"} /\ new.h = call[c].h
    BY <1>2, DbTypes DEF CallState
<1>6. heap[call[c].h] \in [state : {"free", "opening", "ready", "failed"}, db : Db]
    BY <1>4 DEF Inv, TypeOK
<1>7. /\ mem \in [state : {"free", "opening", "ready", "failed"}, db : Db]
      /\ mem.state = "ready" /\ mem.db = file.db
    BY <1>3, <1>6 DEF Handle
<1>8. heap' = [heap EXCEPT ![call[c].h] = mem]
    BY <1>4 DEF Record, Inv, TypeOK
<1>9. /\ own \in [h : Handles \cup {None}, fp : Stamps \cup {"null", "undefined"}]
      /\ own.h = call[c].h /\ own.fp = Fingerprint
    BY <1>2, <1>3 DEF CallState, HoldsCurrent
<1> HIDE DEF new, own, mem, open
<1>10. TypeOK'
    BY <1>1, <1>2, <1>4, <1>5, <1>7, <1>8, <1>9 DEF Inv, TypeOK
<1>11. \A s2 \in Services : svc'[s2].h = svc[s2].h
    BY <1>1, <1>2, <1>3, <1>9 DEF Inv, TypeOK, HoldsCurrent
<1>12. OwnHandles'
    BY <1>11 DEF Inv, OwnHandles
<1>13. \A s2 \in Services \ {s} : svc'[s2] = svc[s2] /\ svc[s2].h # call[c].h
                                 /\ (Quiet(s2)' <=> Quiet(s2))
    BY <1>1, <1>2, <1>3, <1>4 DEF Inv, TypeOK, HoldsCurrent, OwnHandles, Quiet
<1>14. ~Quiet(s)'
    BY <1>1, <1>5 DEF Inv, TypeOK, Quiet
<1>15. Settled' /\ CacheCoherent'
    BY <1>1, <1>8, <1>13, <1>14 DEF Inv, TypeOK, Settled, CacheCoherent, Fingerprint, Own
<1>16. CallInv(c)'
    BY <1>1, <1>2, <1>3, <1>4, <1>5, <1>7, <1>8, <1>9
       DEF CallInv, Inv, TypeOK, HoldsCurrent, InStep, Ready, Handle, Fingerprint, Own
<1> QED
    BY <1>1, <1>5, <1>10, <1>12, <1>15, <1>16, OnlyOneMoves

\* Waiting for the agents' manifests changes nothing the invariant speaks of.
LEMMA AskManifestsInv ==
    ASSUME Inv, NEW c \in Calls, HasDatabase(c), call' = [call EXCEPT ![c].pc = "manifests"],
           file' = file, heap' = heap, svc' = svc, unsaved' = unsaved
    PROVE  Inv'
<1> DEFINE new == [call[c] EXCEPT !.pc = "manifests"]
<1>1. call[c] \in CallState /\ call[c].pc = "await" /\ \A d \in Calls \ {c} : call[d] = Idle
    BY OthersIdle DEF Inv, TypeOK, HasDatabase
<1>2. new \in CallState /\ new.pc = "manifests" /\ new.h = call[c].h
    BY <1>1 DEF CallState
<1>3. call' = [call EXCEPT ![c] = new]
    OBVIOUS
<1> HIDE DEF new
<1>4. \A s \in Services : Quiet(s)' <=> Quiet(s)
    BY <1>1, <1>2, <1>3 DEF Quiet, Inv, TypeOK
<1>5. TypeOK' /\ OwnHandles' /\ Settled' /\ CacheCoherent'
    BY <1>2, <1>3, <1>4 DEF Inv, TypeOK, OwnHandles, Settled, CacheCoherent, Fingerprint, Own
<1>6. HoldsCurrent(c) /\ Ready(c) /\ InStep(c)
    BY <1>1 DEF Inv, CallInv, HasDatabase, Ready
<1>7. CallInv(c)'
    BY <1>2, <1>3, <1>6 DEF CallInv, Inv, TypeOK, HoldsCurrent, Ready, InStep, Handle, Fingerprint, Own
<1> QED
    BY <1>1, <1>2, <1>3, <1>5, <1>7, OnlyOneMoves

\* A killed process takes its own database along; the others' stay as they were.
LEMMA CrashInv ==
    ASSUME Inv, NEW s \in Services, Crash(s)
    PROVE  Inv'
<1> DEFINE mine == {c \in Calls : SvcOf(c) = s}
           gone == [h |-> None, fp |-> "undefined"]
<1>1. /\ svc' = [svc EXCEPT ![s] = gone]
      /\ unsaved' = [unsaved EXCEPT ![s] = None]
      /\ heap' = [g \in Handles |-> IF HeldElsewhere(g, s, mine) THEN heap[g] ELSE Free]
      /\ call' = [c \in Calls |-> IF c \in mine THEN Idle ELSE call[c]]
      /\ file' \in {file, [file EXCEPT !.kind = "torn"]}
      /\ file' # file => file.kind = "writing" /\ \E c \in mine : call[c].pc = "write"
    BY DEF Crash
<1>2. file' \in [kind : {"absent", "writing", "torn", "db"}, db : Db, stamp : Stamps \cup {"null"}]
    BY <1>1 DEF Inv, TypeOK
<1>3. heap' \in [Handles -> [state : {"free", "opening", "ready", "failed"}, db : Db]]
    BY <1>1, DbTypes DEF Inv, TypeOK, Free
<1>4. TypeOK'
    BY <1>1, <1>2, <1>3, IdleType DEF Inv, TypeOK
<1>5. /\ svc'[s].h = None
      /\ \A s2 \in Services \ {s} :
            svc'[s2] = svc[s2] /\ unsaved'[s2] = unsaved[s2] /\ (svc[s2].h # None => heap'[svc[s2].h] = heap[svc[s2].h])
    BY <1>1 DEF Inv, TypeOK, HeldElsewhere
<1>6. OwnHandles'
    BY <1>5 DEF Inv, OwnHandles
<1>7. \A s2 \in Services \ {s} : Quiet(s2)' <=> Quiet(s2)
    BY <1>1 DEF Quiet, Inv, TypeOK
<1>8. Settled'
    BY <1>5, <1>7 DEF Inv, Settled
<1>9. file.kind = "db" => file' = file
    BY <1>1
<1>10. Fingerprint' = Fingerprint
    BY <1>1 DEF Fingerprint, Inv, TypeOK
<1>11. CacheCoherent'
    BY <1>5, <1>7, <1>9, <1>10 DEF Inv, CacheCoherent, Own
<1>12. Idle.pc = "idle"
    BY DEF Idle
<1>13. \A c \in Calls : call'[c] = Idle \/ (c \notin mine /\ call'[c] = call[c])
    BY <1>1
<1>14. OneCallAtATime'
    BY <1>12, <1>13 DEF Inv, OneCallAtATime
<1>15. ASSUME NEW c \in Calls PROVE CallInv(c)'
    <2>1. CASE call'[c] = Idle
        BY <2>1, <1>12 DEF CallInv
    <2>2. CASE c \notin mine /\ call'[c] = call[c] /\ call[c].pc # "idle"
        <3>1. file' = file
            BY <2>2, <1>1, OthersIdle, <1>12 DEF Inv, OneCallAtATime
        <3>2. SvcOf(c) \in Services \ {s} /\ svc'[SvcOf(c)] = svc[SvcOf(c)]
             /\ unsaved'[SvcOf(c)] = unsaved[SvcOf(c)]
            BY <2>2, <1>5
        <3>3. call[c].h # None => heap'[call[c].h] = heap[call[c].h]
            BY <2>2, <1>1 DEF Inv, TypeOK, CallState, HeldElsewhere
        <3> QED
            BY <2>2, <3>1, <3>2, <3>3
               DEF CallInv, Inv, HoldsCurrent, InStep, Ready, Handle, Fingerprint, Own
    <2> QED
        BY <2>1, <2>2, <1>13 DEF Inv, OneCallAtATime
<1> QED
    BY <1>4, <1>6, <1>8, <1>11, <1>14, <1>15 DEF Inv

\* A call that has its database, before, during and after its operation, holds its
\* service's current copy of the file.
LEMMA HandleIsCurrent ==
    ASSUME Inv, NEW c \in Calls, HasDatabase(c) \/ call[c].pc \in {"manifests", "finish"}
    PROVE  /\ HoldsCurrent(c) /\ Ready(c) /\ InStep(c)
           /\ Handle(c) \in Db /\ call[c] \in CallState /\ call[c].pc # "idle"
BY DEF Inv, TypeOK, CallInv, HasDatabase, Ready, HoldsCurrent, Handle, CallState

\* Operations that hold a database, one step per operation.
LEMMA OperationInv ==
    ASSUME Inv, NEW c \in Calls,
           \/ Get(c) \/ GetLeading(c) \/ SetLeading(c) \/ ClearLeading(c) \/ Reset(c)
           \/ AskManifests(c) \/ Refuse(c) \/ Create(c) \/ Update(c) \/ Delete(c) \/ Finish(c)
    PROVE  Inv'
<1>1. HasDatabase(c) \/ call[c].pc \in {"manifests", "finish"}
    BY DEF Get, GetLeading, SetLeading, ClearLeading, Reset, AskManifests, Refuse, Create, Update,
           Delete, Finish
<1>2. /\ HoldsCurrent(c) /\ Ready(c) /\ InStep(c) /\ file.kind = "db"
      /\ Handle(c) \in Db /\ call[c] \in CallState /\ call[c].pc # "idle"
    BY <1>1, HandleIsCurrent DEF InStep
<1>3. ASSUME Return(c) PROVE Inv'
    BY <1>2, <1>3, ReturnInv DEF Ready
<1>4. ASSUME NEW d \in Db, NEW phase \in {"write", "delete"}, Mutate(c, d, phase) PROVE Inv'
    BY <1>2, <1>4, MutateInv
<1>5. /\ [Handle(c) EXCEPT !.leading = None] \in Db
      /\ \A t \in Tasks : [Handle(c) EXCEPT !.leading = t] \in Db
      /\ \A t \in Tasks, v \in Values \cup {None} : [Handle(c) EXCEPT !.rows[t] = v] \in Db
      /\ \A ts \in SUBSET Tasks : Without(Handle(c), ts) \in Db
    BY <1>2, DbTypes
<1>6. call[c].task \in Tasks \cup {None} /\ call[c].value \in Values \cup {None}
      /\ call[c].list \in SUBSET Tasks
    BY <1>2 DEF CallState
<1>7. CASE Get(c)
    BY <1>3, <1>7 DEF Get
<1>8. CASE GetLeading(c)
    BY <1>3, <1>4, <1>5, <1>8 DEF GetLeading
<1>9. CASE SetLeading(c)
    BY <1>3, <1>4, <1>5, <1>6, <1>9 DEF SetLeading, Exists
<1>10. CASE ClearLeading(c)
    BY <1>4, <1>5, <1>10 DEF ClearLeading
<1>11. CASE Reset(c)
    BY <1>2, <1>3, <1>4, <1>5, <1>6, <1>11 DEF Reset, Exists
<1>12. CASE AskManifests(c)
    <2>1. CASE Return(c)
        BY <2>1, <1>3
    <2>2. CASE ~Return(c)
        BY <2>2, <1>12, AskManifestsInv DEF AskManifests
    <2> QED
        BY <2>1, <2>2
<1>13. CASE Refuse(c)
    BY <1>3, <1>13 DEF Refuse
<1>14. CASE Create(c)
    <2>1. call[c].task \in Tasks => [Handle(c) EXCEPT !.rows[call[c].task] = call[c].value] \in Db
        BY <1>5, <1>6
    <2>2. [Handle(c) EXCEPT !.rows[None] = call[c].value] \in Db
        <3>1. Handle(c) \in [rows : [Tasks -> Values \cup {None}], leading : Tasks \cup {None}]
            BY <1>2 DEF Db
        <3>2. [Handle(c).rows EXCEPT ![None] = call[c].value] = Handle(c).rows
            BY <3>1, NoneAssumption
        <3> QED
            BY <3>1, <3>2 DEF Db
    <2> QED
        BY <2>1, <2>2, <1>4, <1>6, <1>14 DEF Create
<1>15. CASE Update(c)
    BY <1>2, <1>4, <1>5, <1>6, <1>15 DEF Update, Exists
<1>16. CASE Delete(c)
    BY <1>3, <1>4, <1>5, <1>6, <1>16 DEF Delete
<1>17. CASE Finish(c)
    BY <1>3, <1>4, <1>5, <1>17 DEF Finish
<1> QED
    BY <1>7, <1>8, <1>9, <1>10, <1>11, <1>12, <1>13, <1>14, <1>15, <1>16, <1>17

----------------------------------------------------------------------------
(* The theorems                                                            *)

\* Every step of the exclusive regime preserves the invariant.
LEMMA NextInv == ASSUME Exclusive, Inv, [Next]_vars PROVE Inv'
<1>1. CASE \E c \in Calls : Begin(c)
    BY <1>1, StartInv DEF Begin
<1>2. CASE \E c \in Calls : Step(c)
    <2>1. PICK c \in Calls : Step(c)
        BY <1>2
    <2>2. CASE Stat(c) \/ StatFails(c) \/ UseCached(c) \/ (\E h \in Handles : Reopen(c, h))
        BY <2>2, StatInv, StatFailsInv, UseCachedInv, ReopenInv
    <2>3. CASE \/ OpenRead(c) \/ OpenFails(c) \/ TruncateFails(c)
               \/ WriteFails(c) \/ StatWrittenFails(c)
        BY <2>3, OpenReadInv, FailsInv
    <2>4. CASE Truncate(c) \/ Write(c) \/ StatWritten(c) \/ Record(c)
        BY <2>4, TruncateInv, WriteInv, StatWrittenInv, RecordInv
    <2>5. CASE AwaitFails(c)
        <3>1. HoldsCurrent(c) /\ heap[call[c].h].state = "failed" /\ Return(c)
            BY <2>5 DEF AwaitFails, Inv, CallInv
        <3> QED
            BY <3>1, ReturnInv DEF Ready
    <2>6. CASE \/ Get(c) \/ GetLeading(c) \/ SetLeading(c) \/ ClearLeading(c) \/ Reset(c)
               \/ AskManifests(c) \/ Refuse(c) \/ Create(c) \/ Update(c) \/ Delete(c) \/ Finish(c)
        BY <2>6, OperationInv
    <2> QED
        BY <2>1, <2>2, <2>3, <2>4, <2>5, <2>6 DEF Step
<1>3. CASE \E s \in Services : Crash(s)
    BY <1>3, CrashInv
<1>4. CASE UNCHANGED vars
    <2>1. file' = file /\ heap' = heap /\ svc' = svc /\ unsaved' = unsaved /\ call' = call
        BY <1>4 DEF vars
    <2> QED
        BY <2>1 DEF Inv, TypeOK, OneCallAtATime, OwnHandles, Settled, CacheCoherent, Quiet,
                    Fingerprint, CallInv, HoldsCurrent, InStep, Ready, Handle, Own
<1> QED
    BY <1>1, <1>2, <1>3, <1>4 DEF Next

\* With one call at a time the strengthened invariant always holds.
THEOREM Invariance == ASSUME Exclusive PROVE Spec => []Inv
<1>1. Init => Inv
    BY InitInv
<1>2. Inv /\ [Next]_vars => Inv'
    BY NextInv
<1> QED
    BY <1>1, <1>2, PTL DEF Spec

\* With one call at a time, a service whose fingerprint matches the file holds the file's
\* board: it never misses what another process wrote (getDatabase, board.service.ts).
THEOREM CacheIsCoherent == ASSUME Exclusive PROVE Spec => []CacheCoherent
<1>1. Inv => CacheCoherent
    BY DEF Inv
<1> QED
    BY <1>1, Invariance, PTL

\* With one call at a time, no operation reads a stale board, even across the await of
\* listManifests.
THEOREM OperationsReadTheFile == ASSUME Exclusive PROVE Spec => []OperatesOnCurrentBoard
<1>1. Inv => OperatesOnCurrentBoard
    BY HandleIsCurrent DEF OperatesOnCurrentBoard, InStep
<1> QED
    BY <1>1, Invariance, PTL

\* With one call at a time, what a writing operation leaves in memory is on disk before
\* it returns to its caller.
THEOREM AcknowledgedIsDurable == ASSUME Exclusive PROVE Spec => []ReturnedIsOnDisk
<1>1. Inv => ReturnedIsOnDisk
    BY HandleIsCurrent DEF ReturnedIsOnDisk, InStep, Inv, CallInv, Own
<1> QED
    BY <1>1, Invariance, PTL

\* With one call at a time, a writer's handle is its service's current database and no
\* other service's: no update is made to an abandoned copy.
THEOREM NoAbandonedWriter == ASSUME Exclusive PROVE Spec => []WritersHoldTheCurrentHandle
<1>1. Inv => WritersHoldTheCurrentHandle
    BY DEF Inv, CallInv, HoldsCurrent, OwnHandles, WritersHoldTheCurrentHandle
<1> QED
    BY <1>1, Invariance, PTL

----------------------------------------------------------------------------
(* The file goes through the steps of AtomicBoard.  What is written must   *)
(* be one change away from what the file held when it is written, several  *)
(* awaits after the change was made in memory.                             *)

\* e is d after at most one change of AtomicBoard.
OneChange(d, e) ==
    \/ e = d
    \/ \E t \in Tasks, v \in Values : e = [d EXCEPT !.rows[t] = v]
    \/ \E ts \in SUBSET Tasks : (\A t \in ts : d.rows[t] # None) /\ e = Without(d, ts)
    \/ \E t \in Tasks : d.rows[t] # None /\ e = [d EXCEPT !.leading = t]
    \/ e = [d EXCEPT !.leading = None]

\* A call has the arguments that its operation takes.
Supplied(c) ==
    /\ call[c].op \in {"create", "update", "reset", "setLeading"} => call[c].task \in Tasks
    /\ call[c].op \in {"create", "update", "reset"} => call[c].value \in Values

\* The image a call is about to write: the file's own when the call opened it, else one
\* change away from what its service worked on.  The second image of a deletion names no leading task.
ImageInv(c) ==
    /\ Supplied(c)
    /\ call[c].pc \in {"stat", "compare"} => call[c].phase = "none"
    /\ call[c].pc \in {"trunc", "write"} =>
          IF call[c].phase = "open"
          THEN call[c].data = IF file.kind = "torn" THEN EmptyDb ELSE file.db
          ELSE file.kind # "torn" /\ OneChange(Own(SvcOf(c)), call[c].data)
    /\ call[c].pc \in {"openRead", "trunc", "write"} /\ call[c].phase = "open" =>
          unsaved[SvcOf(c)] = None
    /\ call[c].pc = "write" => \A s \in Services \ {SvcOf(c)} : unsaved[s] = None
    /\ call[c].op = "delete" /\ call[c].phase = "write" => Handle(c).leading = None
    /\ call[c].pc = "finish" => call[c].phase \in {"write", "delete"}

\* A file that is truncated has somebody who writes it.
Images ==
    /\ file.kind = "absent" => file.db = EmptyDb
    /\ file.kind = "writing" => \E c \in Calls : call[c].pc = "write"
    /\ \A c \in Calls : ImageInv(c)

\* An idle call writes nothing.
LEMMA IdleWritesNothing ==
    ASSUME NEW c \in Calls, call[c] = Idle
    PROVE  ImageInv(c)
BY DEF Idle, ImageInv, Supplied

\* Nothing is to be written at the start.
LEMMA InitImages == Init => Images
<1> SUFFICES ASSUME Init PROVE Images
    OBVIOUS
<1>1. \A c \in Calls : ImageInv(c)
    BY IdleWritesNothing DEF Init
<1> QED
    BY <1>1 DEF Init, Images

\* While no call is at its write the file is not half written.
LEMMA NobodyWrites ==
    ASSUME Inv, Images, NEW c \in Calls, call[c].pc # "write",
           \A d \in Calls \ {c} : call[d] = Idle
    PROVE  file.kind # "writing"
BY DEF Images, Idle

\* A step of one call that leaves the file alone.
LEMMA FileRests ==
    ASSUME Inv, Images, NEW c \in Calls, NEW new, call[c].pc # "write",
           \A d \in Calls \ {c} : call[d] = Idle, call' = [call EXCEPT ![c] = new],
           file' = file, ImageInv(c)'
    PROVE  Images'
<1>1. \A d \in Calls \ {c} : call'[d] = Idle
    BY DEF Inv, TypeOK
<1>2. \A d \in Calls \ {c} : ImageInv(d)'
    BY <1>1 DEF Idle, ImageInv, Supplied
<1>3. file'.kind # "writing"
    BY NobodyWrites
<1> QED
    BY <1>2, <1>3 DEF Images

\* A call that ends.
LEMMA EndImages ==
    ASSUME Inv, Images, NEW c \in Calls, call[c].pc \notin {"idle", "write"},
           call' = [call EXCEPT ![c] = Idle], file' = file
    PROVE  Images'
<1>1. \A d \in Calls \ {c} : call[d] = Idle
    BY OthersIdle
<1>2. call'[c] = Idle
    BY DEF Inv, TypeOK
<1>3. ImageInv(c)'
    BY <1>2 DEF Idle, ImageInv, Supplied
<1> QED
    BY <1>1, <1>3, FileRests

\* A change of the board in memory: the file is not touched yet, and holds what the
\* handle held.
LEMMA MutateImages ==
    ASSUME Inv, Images, NEW c \in Calls, NEW d \in Db, NEW phase \in {"write", "delete"},
           HasDatabase(c) \/ call[c].pc \in {"manifests", "finish"},
           Mutate(c, d, phase), OneChange(Own(SvcOf(c)), d),
           call[c].op = "delete" /\ phase = "write" => d.leading = None
    PROVE  Images'
<1> DEFINE new == [call[c] EXCEPT !.pc = "trunc", !.data = d, !.phase = phase]
<1>1. /\ HoldsCurrent(c) /\ InStep(c) /\ call[c] \in CallState
      /\ call[c].pc \notin {"idle", "write"}
    BY HandleIsCurrent DEF HasDatabase
<1>2. /\ call' = [call EXCEPT ![c] = new] /\ file' = file /\ unsaved' = unsaved
      /\ heap' = [heap EXCEPT ![call[c].h] = [@ EXCEPT !.db = d]]
    BY DEF Mutate
<1>3. /\ new.pc = "trunc" /\ new.data = d /\ new.phase = phase /\ new.h = call[c].h
      /\ new.op = call[c].op /\ new.task = call[c].task /\ new.value = call[c].value
    BY <1>1 DEF CallState
<1>4. \A e \in Calls \ {c} : call[e] = Idle
    BY <1>1, OthersIdle
<1>5. call'[c] = new
    BY <1>2 DEF Inv, TypeOK
<1>6. call[c].h \in Handles
    BY <1>1 DEF HoldsCurrent, CallState
<1>7. heap'[call[c].h].db = d
    BY <1>2, <1>6 DEF Inv, TypeOK
<1> HIDE DEF new
<1>8. Supplied(c)'
    BY <1>3, <1>5 DEF Images, ImageInv, Supplied
<1>9. OneChange(Own(SvcOf(c)), call[c].data)'
    <2>1. Own(SvcOf(c))' = Own(SvcOf(c)) /\ call'[c].data = d
        BY <1>2, <1>3, <1>5 DEF Own
    <2> QED
        BY <2>1 DEF OneChange, Without
<1>10. ImageInv(c)'
    BY <1>1, <1>2, <1>3, <1>5, <1>7, <1>8, <1>9 DEF ImageInv, Handle, InStep
<1> QED
    BY <1>1, <1>2, <1>4, <1>10, FileRests

\* A call begins with the arguments of its operation.
LEMMA BeginImages ==
    ASSUME Exclusive, Inv, Images, NEW c \in Calls, Begin(c)
    PROVE  Images'
<1>1. PICK op \in Ops, t \in Tasks \cup {None}, v \in Values \cup {None}, ts \in SUBSET Tasks :
          Input(op, t, v, ts) /\ Start(c, op, t, v, ts)
    BY DEF Begin
<1> DEFINE new == [Idle EXCEPT !.pc = "stat", !.op = op, !.task = t, !.value = v, !.list = ts,
                               !.first = svc[SvcOf(c)].h = None]
<1>2. /\ new.pc = "stat" /\ new.op = op /\ new.task = t /\ new.value = v /\ new.phase = "none"
    BY DEF Idle
<1>3. /\ \A d \in Calls : call[d] = Idle /\ call[d].pc = "idle"
      /\ call' = [call EXCEPT ![c] = new] /\ file' = file
    BY <1>1 DEF Start, Inv, OneCallAtATime
<1>4. call'[c] = new
    BY <1>3 DEF Inv, TypeOK
<1> HIDE DEF new
<1>5. ImageInv(c)'
    BY <1>1, <1>2, <1>4 DEF ImageInv, Supplied, Input, Ops
<1> QED
    BY <1>3, <1>5, FileRests

\* Looking at the file and opening it: what was read is what will be written back.
LEMMA OpeningImages ==
    ASSUME Inv, Images, NEW c \in Calls,
           Stat(c) \/ UseCached(c) \/ (\E h \in Handles : Reopen(c, h)) \/ OpenRead(c)
    PROVE  Images'
<1>1. /\ call[c] \in CallState /\ call[c].pc \in {"stat", "compare", "openRead"}
      /\ \A d \in Calls \ {c} : call[d] = Idle
    BY OthersIdle DEF Inv, TypeOK, Stat, UseCached, Reopen, OpenRead
<1>2. ImageInv(c) /\ CallInv(c) /\ file.kind # "writing"
    BY <1>1, NobodyWrites DEF Inv, Images
<1>3. CASE Stat(c)
    <2> DEFINE new == [call[c] EXCEPT !.pc = "compare", !.seen = Fingerprint]
    <2>1. call' = [call EXCEPT ![c] = new] /\ file' = file /\ heap' = heap /\ call[c].pc = "stat"
        BY <1>3 DEF Stat
    <2>2. call'[c] = new
        BY <2>1 DEF Inv, TypeOK
    <2>3. ImageInv(c)'
        BY <1>1, <1>2, <2>1, <2>2 DEF ImageInv, Supplied, CallState
    <2> QED
        BY <1>1, <2>1, <2>3, FileRests
<1>4. CASE UseCached(c)
    <2> DEFINE new == [call[c] EXCEPT !.pc = "await", !.h = svc[SvcOf(c)].h, !.seen = "null"]
    <2>1. call' = [call EXCEPT ![c] = new] /\ file' = file /\ call[c].pc = "compare"
        BY <1>4 DEF UseCached
    <2>2. call'[c] = new
        BY <2>1 DEF Inv, TypeOK
    <2>3. ImageInv(c)'
        BY <1>1, <1>2, <2>1, <2>2 DEF ImageInv, Supplied, CallState
    <2> QED
        BY <1>1, <2>1, <2>3, FileRests
<1>5. CASE \E h \in Handles : Reopen(c, h)
    <2>1. PICK h \in Handles : Reopen(c, h)
        BY <1>5
    <2> DEFINE new == [call[c] EXCEPT !.pc = "openRead", !.h = h, !.phase = "open", !.seen = "null"]
    <2>2. call' = [call EXCEPT ![c] = new] /\ file' = file /\ call[c].pc = "compare"
        BY <2>1 DEF Reopen
    <2>3. call'[c] = new /\ unsaved'[SvcOf(c)] = None
        BY <2>1, <2>2 DEF Inv, TypeOK, Reopen
    <2>4. ImageInv(c)'
        BY <1>1, <1>2, <2>3 DEF ImageInv, Supplied, CallState
    <2> QED
        BY <1>1, <2>2, <2>4, FileRests
<1>6. CASE OpenRead(c)
    <2> DEFINE new == [call[c] EXCEPT !.pc = "trunc", !.data = Readable]
    <2>1. call' = [call EXCEPT ![c] = new] /\ file' = file /\ call[c].pc = "openRead"
          /\ unsaved' = unsaved
        BY <1>6 DEF OpenRead
    <2>2. call'[c] = new
        BY <2>1 DEF Inv, TypeOK
    <2>3. new.pc = "trunc" /\ new.data = Readable /\ new.phase = "open" /\ new.op = call[c].op
          /\ new.task = call[c].task /\ new.value = call[c].value
        BY <1>1, <1>2, <2>1 DEF CallInv, CallState
    <2>4. Readable = IF file.kind = "torn" THEN EmptyDb ELSE file.db
        BY <1>2 DEF Images, Readable, Inv, TypeOK
    <2>5. Supplied(c)'
        BY <1>2, <2>2, <2>3 DEF ImageInv, Supplied
    <2> HIDE DEF new
    <2>6. (IF file.kind = "torn" THEN EmptyDb ELSE file.db)'
              = IF file.kind = "torn" THEN EmptyDb ELSE file.db
        BY <2>1 DEF EmptyDb
    <2>7. unsaved'[SvcOf(c)] = None
        BY <1>2, <2>1 DEF CallInv, ImageInv
    <2>8. ImageInv(c)'
        BY <1>2, <2>1, <2>2, <2>3, <2>4, <2>5, <2>6, <2>7 DEF ImageInv
    <2> QED
        BY <1>1, <2>1, <2>8, FileRests
<1> QED
    BY <1>3, <1>4, <1>5, <1>6

\* What follows the write, and the wait for the agents' manifests, writes nothing.
LEMMA RestImages ==
    ASSUME Inv, Images, NEW c \in Calls,
           \/ StatWritten(c) \/ Record(c)
           \/ HasDatabase(c) /\ call' = [call EXCEPT ![c].pc = "manifests"]
              /\ file' = file /\ heap' = heap
    PROVE  Images'
<1>1. /\ call[c] \in CallState /\ call[c].pc \in {"stamp", "record", "await"}
      /\ \A d \in Calls \ {c} : call[d] = Idle
    BY OthersIdle DEF Inv, TypeOK, StatWritten, Record, HasDatabase
<1>2. ImageInv(c) /\ CallInv(c)
    BY DEF Inv, Images
<1>3. CASE StatWritten(c)
    <2> DEFINE new == [call[c] EXCEPT !.pc = "record", !.seen = Fingerprint]
    <2>1. call' = [call EXCEPT ![c] = new] /\ file' = file /\ heap' = heap
        BY <1>3 DEF StatWritten
    <2>2. call'[c] = new
        BY <2>1 DEF Inv, TypeOK
    <2>3. ImageInv(c)'
        BY <1>1, <1>2, <2>1, <2>2 DEF ImageInv, Supplied, Handle, CallState
    <2> QED
        BY <1>1, <2>1, <2>3, FileRests
<1>4. CASE Record(c)
    <2> DEFINE open == call[c].phase = "open"
               new == [call[c] EXCEPT !.pc = IF open THEN "await" ELSE "finish", !.seen = "null",
                                      !.data = EmptyDb, !.phase = IF open THEN "none" ELSE call[c].phase]
    <2>1. call' = [call EXCEPT ![c] = new] /\ file' = file /\ (~open => heap' = heap)
          /\ call[c].pc = "record"
        BY <1>4 DEF Record
    <2>2. call'[c] = new
        BY <2>1 DEF Inv, TypeOK
    <2>3. call[c].phase # "none"
        BY <1>2, <2>1 DEF CallInv
    <2>4. ImageInv(c)'
        BY <1>1, <1>2, <2>1, <2>2, <2>3 DEF ImageInv, Supplied, Handle, CallState
    <2> QED
        BY <1>1, <2>1, <2>4, FileRests
<1>5. CASE HasDatabase(c) /\ call' = [call EXCEPT ![c].pc = "manifests"]
           /\ file' = file /\ heap' = heap
    <2> DEFINE new == [call[c] EXCEPT !.pc = "manifests"]
    <2>1. call' = [call EXCEPT ![c] = new] /\ file' = file /\ heap' = heap
        BY <1>5
    <2>2. call'[c] = new
        BY <2>1 DEF Inv, TypeOK
    <2>3. ImageInv(c)'
        BY <1>1, <1>2, <2>1, <2>2 DEF ImageInv, Supplied, Handle, CallState
    <2> QED
        BY <1>1, <2>1, <2>3, FileRests
<1> QED
    BY <1>3, <1>4, <1>5

\* Every operation changes the board once, or twice with a write in between.
LEMMA OperationImages ==
    ASSUME Inv, Images, NEW c \in Calls,
           \/ Get(c) \/ GetLeading(c) \/ SetLeading(c) \/ ClearLeading(c) \/ Reset(c)
           \/ AskManifests(c) \/ Refuse(c) \/ Create(c) \/ Update(c) \/ Delete(c) \/ Finish(c)
    PROVE  Images' /\ file' = file
<1>1. HasDatabase(c) \/ call[c].pc \in {"manifests", "finish"}
    BY DEF Get, GetLeading, SetLeading, ClearLeading, Reset, AskManifests, Refuse, Create, Update,
           Delete, Finish
<1> DEFINE own == Own(SvcOf(c))
<1>2. /\ Handle(c) = own /\ own \in Db
      /\ call[c] \in CallState /\ call[c].pc \notin {"idle", "write"}
    BY <1>1, HandleIsCurrent DEF InStep, HasDatabase
<1>3. ASSUME Return(c) PROVE Images' /\ file' = file
    BY <1>2, <1>3, EndImages DEF Return
<1>4. ASSUME NEW d \in Db, NEW phase \in {"write", "delete"}, Mutate(c, d, phase),
             OneChange(own, d), call[c].op = "delete" /\ phase = "write" => d.leading = None
      PROVE  Images' /\ file' = file
    BY <1>1, <1>4, MutateImages DEF Mutate
<1> HIDE DEF own
<1>5. /\ OneChange(own, own)
      /\ OneChange(own, [own EXCEPT !.leading = None])
      /\ \A t \in Tasks, v \in Values : OneChange(own, [own EXCEPT !.rows[t] = v])
      /\ \A t \in Tasks : own.rows[t] # None => OneChange(own, [own EXCEPT !.leading = t])
      /\ \A ts \in SUBSET Tasks :
            (\A t \in ts : own.rows[t] # None) => OneChange(own, Without(own, ts))
    BY DEF OneChange
<1>6. /\ [own EXCEPT !.leading = None] \in Db
      /\ [own EXCEPT !.leading = None].leading = None
      /\ \A t \in Tasks : [own EXCEPT !.leading = t] \in Db
      /\ \A t \in Tasks, v \in Values \cup {None} : [own EXCEPT !.rows[t] = v] \in Db
      /\ \A ts \in SUBSET Tasks : Without(own, ts) \in Db
    BY <1>2, DbTypes DEF Db
<1>7. Supplied(c)
    BY DEF Images, ImageInv
<1>8. /\ Exists(c) => call[c].task \in Tasks /\ own.rows[call[c].task] # None
      /\ call[c].list \in SUBSET Tasks
    BY <1>2 DEF Exists, CallState
<1>9. CASE Get(c)
    BY <1>3, <1>9 DEF Get
<1>10. CASE GetLeading(c)
    BY <1>2, <1>3, <1>4, <1>5, <1>6, <1>10 DEF GetLeading
<1>11. CASE SetLeading(c)
    BY <1>2, <1>3, <1>4, <1>5, <1>6, <1>8, <1>11 DEF SetLeading
<1>12. CASE ClearLeading(c)
    BY <1>2, <1>4, <1>5, <1>6, <1>12 DEF ClearLeading
<1>13. CASE Reset(c)
    BY <1>2, <1>3, <1>4, <1>5, <1>6, <1>7, <1>8, <1>13 DEF Reset, Supplied
<1>14. CASE AskManifests(c)
    <2>1. CASE Return(c)
        BY <2>1, <1>3
    <2>2. CASE ~Return(c)
        BY <2>2, <1>14, RestImages DEF AskManifests
    <2> QED
        BY <2>1, <2>2
<1>15. CASE Refuse(c)
    BY <1>3, <1>15 DEF Refuse
<1>16. CASE Create(c)
    BY <1>2, <1>4, <1>5, <1>6, <1>7, <1>16 DEF Create, Supplied
<1>17. CASE Update(c)
    BY <1>2, <1>4, <1>5, <1>6, <1>7, <1>17 DEF Update, Supplied
<1>18. CASE Delete(c)
    BY <1>2, <1>3, <1>4, <1>5, <1>6, <1>8, <1>18 DEF Delete
<1>19. CASE Finish(c)
    BY <1>2, <1>3, <1>4, <1>5, <1>6, <1>19 DEF Finish
<1> QED
    BY <1>9, <1>10, <1>11, <1>12, <1>13, <1>14, <1>15, <1>16, <1>17, <1>18, <1>19

\* What these services could not write is forgotten.
Forgets(ss) == unsaved' = [s \in Services |-> IF s \in ss THEN None ELSE unsaved[s]]

\* A truncated file still stands for the board it held, unless it was torn before.
LEMMA TruncateImages ==
    ASSUME Inv, Images, NEW c \in Calls, Truncate(c)
    PROVE  /\ Images' /\ file'.db = file.db /\ (file'.kind = "torn") = (file.kind = "torn")
           /\ Forgets(Services \ {SvcOf(c)})
<1>1. /\ call[c].pc = "trunc" /\ call' = [call EXCEPT ![c].pc = "write"] /\ heap' = heap
      /\ file'.db = file.db /\ file'.kind = IF file.kind = "torn" THEN "torn" ELSE "writing"
      /\ unsaved' = [s \in Services |-> IF s = SvcOf(c) THEN unsaved[s] ELSE None]
      /\ SvcOf(c) \in Services
    BY DEF Truncate, Inv, TypeOK
<1>2. /\ call[c] \in CallState /\ \A d \in Calls \ {c} : call[d] = Idle
    BY <1>1, OthersIdle DEF Inv, TypeOK
<1> DEFINE new == [call[c] EXCEPT !.pc = "write"]
<1>3. /\ new.pc = "write" /\ new.data = call[c].data /\ new.phase = call[c].phase
      /\ new.op = call[c].op /\ new.task = call[c].task /\ new.value = call[c].value
      /\ new.h = call[c].h
    BY <1>2 DEF CallState
<1>4. call'[c] = new /\ \A d \in Calls \ {c} : call'[d] = Idle
    BY <1>1, <1>2 DEF Inv, TypeOK
<1> HIDE DEF new
<1>5. ImageInv(c)
    BY DEF Images
<1>6. Supplied(c)'
    BY <1>3, <1>4, <1>5 DEF ImageInv, Supplied
<1>7. OneChange(Own(SvcOf(c)), call[c].data) => OneChange(Own(SvcOf(c)), call[c].data)'
    <2>1. call'[c].data = call[c].data /\ Own(SvcOf(c))' = Own(SvcOf(c))
        BY <1>1, <1>3, <1>4 DEF Own
    <2> QED
        BY <2>1 DEF OneChange, Without
<1>8. ImageInv(c)'
    <2>1. CASE call[c].phase = "open"
        BY <1>1, <1>3, <1>4, <1>5, <1>6, <2>1 DEF ImageInv, EmptyDb
    <2>2. CASE call[c].phase # "open"
        BY <1>1, <1>3, <1>4, <1>5, <1>6, <1>7, <2>2 DEF ImageInv, Handle
    <2> QED
        BY <2>1, <2>2
<1>9. \A d \in Calls \ {c} : ImageInv(d)'
    BY <1>4 DEF Idle, ImageInv, Supplied
<1>10. Images'
    BY <1>1, <1>3, <1>4, <1>8, <1>9 DEF Images
<1>11. Forgets(Services \ {SvcOf(c)})
    BY <1>1 DEF Forgets, Inv, TypeOK
<1> QED
    BY <1>1, <1>10, <1>11

\* The write puts the image on disk: the board changes once, or a torn file starts again.
LEMMA WriteImages ==
    ASSUME Inv, Images, NEW c \in Calls, Write(c)
    PROVE  /\ Images' /\ file'.kind = "db"
           /\ IF file.kind = "torn" THEN file'.db = EmptyDb ELSE OneChange(Own(SvcOf(c)), file'.db)
           /\ unsaved' = [s \in Services |-> None]
<1>1. /\ call[c].pc = "write" /\ call' = [call EXCEPT ![c].pc = "stamp"] /\ heap' = heap
    BY DEF Write
<1>2. file.kind # "db"
    BY <1>1 DEF Inv, CallInv
<1>3. file'.kind = "db" /\ file'.db = call[c].data
    BY <1>2 DEF Write
<1>4. /\ call[c] \in CallState /\ \A d \in Calls \ {c} : call[d] = Idle
    BY <1>1, OthersIdle DEF Inv, TypeOK
<1> DEFINE new == [call[c] EXCEPT !.pc = "stamp"]
<1>5. /\ new.pc = "stamp" /\ new.phase = call[c].phase /\ new.op = call[c].op
      /\ new.task = call[c].task /\ new.value = call[c].value /\ new.h = call[c].h
    BY <1>4 DEF CallState
<1>6. call'[c] = new /\ \A d \in Calls \ {c} : call'[d] = Idle
    BY <1>1, <1>4 DEF Inv, TypeOK
<1> HIDE DEF new
<1>7. ImageInv(c)
    BY DEF Images
<1>8. Supplied(c)'
    BY <1>5, <1>6, <1>7 DEF ImageInv, Supplied
<1>9. ImageInv(c)'
    BY <1>1, <1>5, <1>6, <1>7, <1>8 DEF ImageInv, Handle
<1>10. \A d \in Calls \ {c} : ImageInv(d)'
    BY <1>6 DEF Idle, ImageInv, Supplied
<1>11. Images'
    BY <1>3, <1>9, <1>10 DEF Images
<1>12. OneChange(file.db, file.db) /\ (unsaved[SvcOf(c)] = None => Own(SvcOf(c)) = file.db)
    BY DEF OneChange, Own
<1>13. unsaved' = [s \in Services |-> None]
    BY DEF Write
<1> QED
    BY <1>1, <1>3, <1>7, <1>11, <1>12, <1>13 DEF ImageInv

\* A file operation fails: the change is kept in memory, or the file is cut short, or it
\* was written before.
LEMMA FailsImages ==
    ASSUME Inv, Images, NEW c \in Calls,
           OpenFails(c) \/ TruncateFails(c) \/ WriteFails(c) \/ StatWrittenFails(c)
    PROVE  /\ Images' /\ file'.db = file.db
           /\ \/ file' = file /\ unsaved' = unsaved
              \/ /\ file' = file /\ file.kind # "torn"
                 /\ \E e \in Db : /\ OneChange(Own(SvcOf(c)), e)
                                  /\ unsaved' = [unsaved EXCEPT ![SvcOf(c)] = e]
              \/ file'.kind = "torn" /\ unsaved' = [s \in Services |-> None]
<1>1. /\ call[c].pc \in {"openRead", "trunc", "write", "stamp"}
      /\ call' = [call EXCEPT ![c] = Idle]
    BY DEF OpenFails, TruncateFails, WriteFails, StatWrittenFails, Throw
<1>2. ImageInv(c) /\ CallInv(c) /\ call[c] \in CallState
    BY DEF Images, Inv, TypeOK
<1>3. CASE OpenFails(c) \/ StatWrittenFails(c)
    <2>1. file' = file /\ unsaved' = unsaved /\ call[c].pc \notin {"idle", "write"}
        BY <1>3 DEF OpenFails, StatWrittenFails
    <2> QED
        BY <1>1, <2>1, EndImages
<1>4. CASE TruncateFails(c)
    <2>1. file' = file /\ call[c].pc = "trunc"
        BY <1>4 DEF TruncateFails
    <2>2. unsaved' = IF call[c].phase = "open" THEN unsaved
                     ELSE [unsaved EXCEPT ![SvcOf(c)] = Handle(c)]
        BY <1>4 DEF TruncateFails, Handle
    <2>3. Handle(c) = call[c].data /\ call[c].data \in Db
        BY <1>2, <2>1 DEF CallInv, CallState
    <2>4. call[c].phase # "open" => file.kind # "torn" /\ OneChange(Own(SvcOf(c)), call[c].data)
        BY <1>2, <2>1 DEF ImageInv
    <2> QED
        BY <1>1, <2>1, <2>2, <2>3, <2>4, EndImages
<1>5. CASE WriteFails(c)
    <2>1. file'.kind = "torn" /\ file'.db = file.db /\ unsaved' = [s \in Services |-> None]
          /\ call[c].pc = "write"
        BY <1>5 DEF WriteFails, Inv, TypeOK
    <2>2. \A d \in Calls : call'[d] = Idle
        BY <1>1, <2>1, OthersIdle DEF Inv, TypeOK
    <2>3. \A d \in Calls : ImageInv(d)'
        BY <2>2 DEF Idle, ImageInv, Supplied
    <2> QED
        BY <2>1, <2>3 DEF Images
<1> QED
    BY <1>3, <1>4, <1>5

\* A killed process tears the file it was writing, and no other.
LEMMA CrashImages ==
    ASSUME Inv, Images, NEW s \in Services, Crash(s)
    PROVE  /\ Images' /\ file'.db = file.db
           /\ \/ file' = file /\ Forgets({s})
              \/ file'.kind = "torn" /\ unsaved' = [g \in Services |-> None]
<1> DEFINE mine == {c \in Calls : SvcOf(c) = s}
<1>1. /\ heap' = [g \in Handles |-> IF HeldElsewhere(g, s, mine) THEN heap[g] ELSE Free]
      /\ call' = [c \in Calls |-> IF c \in mine THEN Idle ELSE call[c]]
      /\ unsaved' = [unsaved EXCEPT ![s] = None]
      /\ file' = IF file.kind = "writing" /\ \E c \in mine : call[c].pc = "write"
                 THEN [file EXCEPT !.kind = "torn"] ELSE file
    BY DEF Crash
<1>2. Idle.pc = "idle"
    BY DEF Idle
<1>3. CASE file.kind = "writing" /\ \E c \in mine : call[c].pc = "write"
    <2>1. PICK w \in mine : call[w].pc = "write"
        BY <1>3
    <2>2. \A c \in Calls \ {w} : call[c] = Idle
        BY <2>1, OthersIdle
    <2>3. \A c \in Calls : call'[c] = Idle
        BY <1>1, <2>2
    <2>4. \A c \in Calls : ImageInv(c)'
        BY <2>3 DEF Idle, ImageInv, Supplied
    <2>5. file'.kind = "torn" /\ file'.db = file.db
        BY <1>1, <1>3 DEF Inv, TypeOK
    <2>6. \A g \in Services \ {s} : unsaved[g] = None
        BY <2>1 DEF Images, ImageInv
    <2>7. unsaved' = [g \in Services |-> None]
        BY <1>1, <2>6 DEF Inv, TypeOK
    <2> QED
        BY <2>4, <2>5, <2>7 DEF Images
<1>4. CASE ~(file.kind = "writing" /\ \E c \in mine : call[c].pc = "write")
    <2>1. file' = file
        BY <1>1, <1>4
    <2>2. file.kind = "writing" => \E c \in Calls : call'[c].pc = "write"
        BY <1>1, <1>4 DEF Images
    <2>3. ASSUME NEW c \in Calls PROVE ImageInv(c)'
        <3>1. CASE call'[c] = Idle
            BY <3>1 DEF Idle, ImageInv, Supplied
        <3>2. CASE c \notin mine /\ call'[c] = call[c]
            <4>1. call[c].h # None => heap'[call[c].h] = heap[call[c].h]
                BY <1>1, <3>2 DEF Inv, TypeOK, CallState, HeldElsewhere
            <4>2. CallInv(c) /\ call[c] \in CallState /\ ImageInv(c)
                BY DEF Inv, TypeOK, Images
            <4>3. call[c].pc = "idle" => call[c] = Idle
                BY DEF Inv, OneCallAtATime
            <4>4. call[c].phase = "write" => call[c].h # None
                BY <4>2, <4>3 DEF CallInv, CallState, HoldsCurrent, ImageInv, Idle
            <4>5. Supplied(c)'
                BY <3>2, <4>2 DEF ImageInv, Supplied
            <4>6. SvcOf(c) \in Services \ {s} /\ \A g \in Services \ {s} : unsaved'[g] = unsaved[g]
                BY <1>1, <3>2 DEF Inv, TypeOK
            <4>7. OneChange(Own(SvcOf(c)), call[c].data) => OneChange(Own(SvcOf(c)), call[c].data)'
                <5>1. Own(SvcOf(c))' = Own(SvcOf(c)) /\ call'[c].data = call[c].data
                    BY <2>1, <3>2, <4>6 DEF Own
                <5> QED
                    BY <5>1 DEF OneChange, Without
            <4>8. unsaved'[s] = None
                BY <1>1 DEF Inv, TypeOK
            <4> QED
                BY <2>1, <3>2, <4>1, <4>2, <4>4, <4>5, <4>6, <4>7, <4>8 DEF ImageInv, Handle, EmptyDb
        <3> QED
            BY <1>1, <3>1, <3>2
    <2>4. Forgets({s})
        BY <1>1 DEF Forgets, Inv, TypeOK
    <2> QED
        BY <2>1, <2>2, <2>3, <2>4 DEF Images
<1> QED
    BY <1>3, <1>4

\* What a step may do to the file's board and to the changes that could not be written:
\* forget some, write one change, keep one that was refused, tear the file, or start again.
FileStep ==
    \/ /\ file'.db = file.db /\ (file'.kind = "torn") = (file.kind = "torn")
       /\ \E ss \in SUBSET Services : Forgets(ss)
    \/ /\ file.kind # "torn" /\ file'.kind # "torn"
       /\ \E s \in Services : OneChange(Own(s), file'.db)
       /\ Forgets(Services)
    \/ /\ file' = file /\ file.kind # "torn"
       /\ \E s \in Services, e \in Db :
             OneChange(Own(s), e) /\ unsaved' = [unsaved EXCEPT ![s] = e]
    \/ file'.kind = "torn" /\ file'.db = file.db /\ Forgets(Services)
    \/ file.kind = "torn" /\ file'.kind # "torn" /\ file'.db = EmptyDb /\ Forgets(Services)

\* Every step of the exclusive regime keeps the images in order, and takes the file's
\* board by such a step.
LEMMA NextImages == ASSUME Exclusive, Inv, Images, [Next]_vars PROVE Images' /\ FileStep
<1>1. ASSUME file' = file, unsaved' = unsaved PROVE FileStep
    <2>1. Forgets({})
        BY <1>1 DEF Forgets, Inv, TypeOK
    <2> QED
        BY <1>1, <2>1 DEF FileStep
<1>2. ASSUME unsaved' = [s \in Services |-> None] PROVE Forgets(Services)
    BY <1>2 DEF Forgets
<1>3. CASE \E c \in Calls : Begin(c)
    BY <1>1, <1>3, BeginImages DEF Begin, Start
<1>4. CASE \E c \in Calls : Step(c)
    <2>1. PICK c \in Calls : Step(c)
        BY <1>4
    <2>2. SvcOf(c) \in Services
        OBVIOUS
    <2>3. CASE Stat(c) \/ UseCached(c) \/ OpenRead(c)
        BY <1>1, <2>3, OpeningImages DEF Stat, UseCached, OpenRead
    <2>4. CASE \E h \in Handles : Reopen(c, h)
        <3>1. file' = file /\ unsaved' = [unsaved EXCEPT ![SvcOf(c)] = None]
            BY <2>4 DEF Reopen
        <3>2. Forgets({SvcOf(c)})
            BY <3>1 DEF Forgets, Inv, TypeOK
        <3> QED
            BY <2>2, <2>4, <3>1, <3>2, OpeningImages DEF FileStep
    <2>5. CASE StatFails(c) \/ AwaitFails(c)
        <3>1. file' = file /\ unsaved' = unsaved /\ call' = [call EXCEPT ![c] = Idle]
              /\ call[c].pc \notin {"idle", "write"}
            BY <2>5 DEF StatFails, AwaitFails, Return
        <3> QED
            BY <1>1, <3>1, EndImages
    <2>6. CASE Truncate(c)
        BY <2>6, TruncateImages DEF FileStep
    <2>7. CASE Write(c)
        BY <1>2, <2>2, <2>7, WriteImages DEF FileStep
    <2>8. CASE OpenFails(c) \/ TruncateFails(c) \/ WriteFails(c) \/ StatWrittenFails(c)
        <3>1. Images' /\ file'.db = file.db
            BY <2>8, FailsImages
        <3>2. CASE file' = file /\ unsaved' = unsaved
            BY <1>1, <3>1, <3>2
        <3>3. CASE /\ file' = file /\ file.kind # "torn"
                   /\ \E e \in Db : /\ OneChange(Own(SvcOf(c)), e)
                                    /\ unsaved' = [unsaved EXCEPT ![SvcOf(c)] = e]
            BY <2>2, <3>1, <3>3 DEF FileStep
        <3>4. CASE file'.kind = "torn" /\ unsaved' = [s \in Services |-> None]
            <4>1. Forgets(Services)
                BY <3>4 DEF Forgets
            <4> QED
                BY <3>1, <3>4, <4>1 DEF FileStep
        <3> QED
            BY <2>8, <3>2, <3>3, <3>4, FailsImages
    <2>9. CASE StatWritten(c) \/ Record(c)
        BY <1>1, <2>9, RestImages DEF StatWritten, Record
    <2>10. CASE \/ Get(c) \/ GetLeading(c) \/ SetLeading(c) \/ ClearLeading(c) \/ Reset(c)
                \/ AskManifests(c) \/ Refuse(c) \/ Create(c) \/ Update(c) \/ Delete(c) \/ Finish(c)
        <3>1. unsaved' = unsaved
            BY <2>10 DEF Get, GetLeading, SetLeading, ClearLeading, Reset, AskManifests, Refuse,
                         Create, Update, Delete, Finish, Mutate, Return
        <3> QED
            BY <1>1, <2>10, <3>1, OperationImages
    <2> QED
        BY <2>1, <2>3, <2>4, <2>5, <2>6, <2>7, <2>8, <2>9, <2>10 DEF Step
<1>5. CASE \E s \in Services : Crash(s)
    <2>1. PICK s \in Services : Crash(s)
        BY <1>5
    <2>2. Images' /\ file'.db = file.db
        BY <2>1, CrashImages
    <2>3. CASE file' = file /\ Forgets({s})
        BY <2>2, <2>3 DEF FileStep
    <2>4. CASE file'.kind = "torn" /\ unsaved' = [g \in Services |-> None]
        <3>1. Forgets(Services)
            BY <2>4 DEF Forgets
        <3> QED
            BY <2>2, <2>4, <3>1 DEF FileStep
    <2> QED
        BY <2>1, <2>2, <2>3, <2>4, CrashImages
<1>6. CASE UNCHANGED vars
    <2>1. file' = file /\ heap' = heap /\ call' = call /\ unsaved' = unsaved
        BY <1>6 DEF vars
    <2>2. ASSUME NEW c \in Calls, OneChange(Own(SvcOf(c)), call[c].data)
          PROVE  OneChange(Own(SvcOf(c)), call[c].data)'
        <3>1. Own(SvcOf(c))' = Own(SvcOf(c)) /\ call'[c].data = call[c].data
            BY <2>1 DEF Own
        <3> QED
            BY <2>2, <3>1 DEF OneChange, Without
    <2>3. \A c \in Calls : ImageInv(c)'
        BY <2>1, <2>2 DEF Images, ImageInv, Supplied, Handle, EmptyDb
    <2> QED
        BY <1>1, <2>1, <2>3 DEF Images
<1> QED
    BY <1>3, <1>4, <1>5, <1>6 DEF Next

\* One change is a change of AtomicBoard.
LEMMA ChangesAgree ==
    ASSUME NEW d, NEW e, OneChange(d, e)
    PROVE  Board!Change(d, e)
<1>1. CASE e = d \/ e = [d EXCEPT !.leading = None]
    BY <1>1 DEF Board!Change, Board!ClearLeading
<1>2. CASE \E t \in Tasks, v \in Values : e = [d EXCEPT !.rows[t] = v]
    BY <1>2 DEF Board!Change, Board!Create, Board!SetRow
<1>3. CASE \E ts \in SUBSET Tasks : (\A t \in ts : d.rows[t] # None) /\ e = Without(d, ts)
    BY <1>3 DEF Board!Change, Board!Delete, Without
<1>4. CASE \E t \in Tasks : d.rows[t] # None /\ e = [d EXCEPT !.leading = t]
    BY <1>4 DEF Board!Change, Board!SetLeading
<1> QED
    BY <1>1, <1>2, <1>3, <1>4 DEF OneChange

\* Such a step is a step of AtomicBoard.
LEMMA FileStepIsAtomic ==
    ASSUME FileStep
    PROVE  [Board!Next]_(Board!vars)
<1>1. ASSUME Forgets(Services) PROVE unsaved' = Board!Nothing
    BY <1>1 DEF Forgets, Board!Nothing
<1>2. \A s : Board!Own(s) = Own(s)
    BY DEF Board!Own, Own
<1>3. CASE /\ file'.db = file.db /\ (file'.kind = "torn") = (file.kind = "torn")
           /\ \E ss \in SUBSET Services : Forgets(ss)
    BY <1>3 DEF Forgets, Board!Forget, Board!Next
<1>4. CASE /\ file.kind # "torn" /\ file'.kind # "torn"
           /\ \E s \in Services : OneChange(Own(s), file'.db)
           /\ Forgets(Services)
    BY <1>1, <1>2, <1>4, ChangesAgree DEF Board!Apply, Board!Next
<1>5. CASE /\ file' = file /\ file.kind # "torn"
           /\ \E s \in Services, e \in Db :
                 OneChange(Own(s), e) /\ unsaved' = [unsaved EXCEPT ![s] = e]
    BY <1>2, <1>5, ChangesAgree DEF Board!Reject, Board!Next, Board!Db, Db
<1>6. CASE file'.kind = "torn" /\ file'.db = file.db /\ Forgets(Services)
    BY <1>1, <1>6 DEF Board!Tear, Board!Next
<1>7. CASE file.kind = "torn" /\ file'.kind # "torn" /\ file'.db = EmptyDb /\ Forgets(Services)
    BY <1>1, <1>7 DEF Board!Restart, Board!Next, Board!EmptyDb, EmptyDb
<1> QED
    BY <1>3, <1>4, <1>5, <1>6, <1>7 DEF FileStep

\* With one call at a time boards.sqlite behaves as one atomic board, whichever service
\* works with it, wherever processes are killed and file operations fail: each write is one
\* operation, with those before it that the same service could not write; rows vanish only
\* when their list is deleted or in a write that was cut short, and the leading task is set to
\* a task that exists (BoardService, board.service.ts).
THEOREM FileIsAnAtomicBoard == ASSUME Exclusive PROVE Spec => ImplementsAtomicBoard
<1>1. Init => Inv /\ Images /\ Board!Init
    BY InitInv, InitImages DEF Init, Board!Init, Board!EmptyDb, EmptyDb, Board!Nothing
<1>2. Inv /\ Images /\ [Next]_vars => Inv' /\ Images' /\ [Board!Next]_(Board!vars)
    <2> SUFFICES ASSUME Inv, Images, [Next]_vars
                 PROVE  Inv' /\ Images' /\ [Board!Next]_(Board!vars)
        OBVIOUS
    <2> QED
        BY NextInv, NextImages, FileStepIsAtomic
<1> QED
    BY <1>1, <1>2, PTL DEF Spec, ImplementsAtomicBoard, Board!Spec

\* A call that returns from a finished operation does so by itself: others are idle, and
\* a crash of its process would leave its service without a database.
LEMMA FinishReturns ==
    ASSUME Exclusive, Inv, Next, NEW c \in Calls, call[c].pc = "finish", Returns(c)
    PROVE  Finish(c) /\ Return(c)
<1>1. HoldsCurrent(c) /\ SvcOf(c) \in Services
    BY DEF Inv, CallInv
<1>2. ASSUME NEW d \in Calls, Begin(d) PROVE FALSE
    BY <1>2 DEF Begin, Start
<1>3. ASSUME NEW d \in Calls, Step(d) PROVE d = c
    <2>1. call[d].pc # "idle"
        BY <1>3 DEF Step, Stat, StatFails, UseCached, Reopen, OpenRead, OpenFails, Truncate,
                    TruncateFails, Write, WriteFails, StatWritten, StatWrittenFails,
                    Record, AwaitFails, Get, GetLeading, SetLeading, ClearLeading, Reset,
                    AskManifests, Refuse, Create, Update, Delete, Finish, HasDatabase
    <2> QED
        BY <2>1 DEF Inv, OneCallAtATime
<1>4. ASSUME NEW s \in Services, Crash(s) PROVE FALSE
    <2>1. CASE s = SvcOf(c)
        <3>1. svc'[s].h = None
            BY <1>4, <2>1 DEF Crash, Inv, TypeOK
        <3> QED
            BY <1>1, <2>1, <3>1 DEF Returns, HoldsCurrent
    <2>2. CASE s # SvcOf(c)
        BY <1>4, <2>2 DEF Crash, Returns
    <2> QED
        BY <2>1, <2>2
<1>5. Step(c)
    BY <1>2, <1>3, <1>4 DEF Next
<1>6. Finish(c)
    BY <1>5 DEF Step, Stat, StatFails, UseCached, Reopen, OpenRead, OpenFails, Truncate,
                    TruncateFails, Write, WriteFails, StatWritten, StatWrittenFails,
                Record, AwaitFails, Get, GetLeading, SetLeading, ClearLeading, Reset,
                AskManifests, Refuse, Create, Update, Delete, HasDatabase
<1>7. ASSUME NEW d, Mutate(c, d, "write") PROVE FALSE
    <2>1. call'[c].pc = "trunc"
        BY <1>7 DEF Mutate, Inv, TypeOK, CallState
    <2> QED
        BY <2>1 DEF Returns
<1> QED
    BY <1>6, <1>7 DEF Finish

\* deleteTasks never succeeds while memory or file names a deleted task as leading, for
\* either it has found another one or its second write has cleared it (board.service.ts).
THEOREM DeletionsClearTheLeading == ASSUME Exclusive PROVE Spec => DeletionClearsLeading
<1> DEFINE A == \A c \in Calls :
                   Returns(c) /\ call[c].pc = "finish" /\ call[c].op = "delete" =>
                       Handle(c).leading \notin call[c].list /\ file.db.leading \notin call[c].list
<1>1. Init => Inv /\ Images
    BY InitInv, InitImages
<1>2. Inv /\ Images /\ [Next]_vars => Inv' /\ Images'
    BY NextInv, NextImages
<1>3. Inv /\ Images /\ [Next]_vars => [A]_vars
    <2> SUFFICES ASSUME Inv, Images, Next, NEW c \in Calls,
                        Returns(c), call[c].pc = "finish", call[c].op = "delete"
                 PROVE  Handle(c).leading \notin call[c].list /\ file.db.leading \notin call[c].list
        OBVIOUS
    <2>1. Finish(c) /\ Return(c)
        BY FinishReturns
    <2>2. Handle(c) = file.db
        BY HandleIsCurrent DEF InStep, Inv, CallInv, Own
    <2>3. ImageInv(c)
        BY DEF Images
    <2>4. CASE call[c].phase = "write"
        BY <2>2, <2>3, <2>4 DEF ImageInv, Inv, TypeOK, CallState
    <2>5. CASE call[c].phase = "delete"
        <3>1. Handle(c).leading \notin call[c].list
            <4> SUFFICES ASSUME Handle(c).leading \in call[c].list PROVE FALSE
                OBVIOUS
            <4>1. Mutate(c, [Handle(c) EXCEPT !.leading = None], "write")
                BY <2>1, <2>5 DEF Finish
            <4>2. call'[c].pc = "trunc"
                BY <4>1 DEF Mutate, Inv, TypeOK, CallState
            <4> QED
                BY <4>2 DEF Returns
        <3> QED
            BY <2>2, <3>1
    <2> QED
        BY <2>3, <2>4, <2>5 DEF ImageInv
<1> QED
    BY <1>1, <1>2, <1>3, PTL DEF Spec, DeletionClearsLeading

----------------------------------------------------------------------------
(* What holds however calls overlap                                        *)

\* A call past getDatabase has a database.
WithDatabase == {"openRead", "trunc", "write", "stamp", "record", "await", "manifests", "finish"}
DatabasesInHand == \A c \in Calls : call[c].pc \in WithDatabase => call[c].h \in Handles

\* What is in one process's memory is in no other's.
PrivateMemory ==
    /\ OwnHandles
    /\ \A c \in Calls, s \in Services : call[c].h # None /\ call[c].h = svc[s].h => s = SvcOf(c)
    /\ \A c, d \in Calls : call[c].h # None /\ call[c].h = call[d].h => SvcOf(c) = SvcOf(d)

Overlapping == TypeOK /\ DatabasesInHand /\ PrivateMemory

\* Nothing is open at the start.
LEMMA InitOverlapping == Init => Overlapping
BY InitInv DEF Inv, Init, Idle, Overlapping, DatabasesInHand, PrivateMemory, WithDatabase

\* A step of a call that keeps its database, or lets go of it, and opens no other.
LEMMA SameDatabase ==
    ASSUME Overlapping, NEW c \in Calls, NEW new \in CallState, call' = [call EXCEPT ![c] = new],
           new.h \in {call[c].h, None}, new.pc \in WithDatabase => new.h \in Handles,
           file' \in [kind : {"absent", "writing", "torn", "db"}, db : Db, stamp : Stamps \cup {"null"}],
           heap' \in [Handles -> [state : {"free", "opening", "ready", "failed"}, db : Db]],
           svc' \in [Services -> [h : Handles \cup {None}, fp : Stamps \cup {"null", "undefined"}]],
           \A s \in Services : svc'[s].h = svc[s].h,
           unsaved' \in [Services -> Db \cup {None}]
    PROVE  Overlapping'
<1>1. /\ call'[c] = new /\ call' \in [Calls -> CallState]
      /\ \A d \in Calls : d # c => call'[d] = call[d]
    BY DEF Overlapping, TypeOK
<1>2. TypeOK' /\ DatabasesInHand'
    BY <1>1 DEF Overlapping, TypeOK, DatabasesInHand
<1>3. PrivateMemory'
    BY <1>1 DEF Overlapping, PrivateMemory, OwnHandles
<1> QED
    BY <1>2, <1>3 DEF Overlapping

\* A call that ends.
LEMMA EndOverlapping ==
    ASSUME Overlapping, NEW c \in Calls, call' = [call EXCEPT ![c] = Idle], svc' = svc,
           heap' \in [Handles -> [state : {"free", "opening", "ready", "failed"}, db : Db]],
           file' \in [kind : {"absent", "writing", "torn", "db"}, db : Db, stamp : Stamps \cup {"null"}],
           unsaved' \in [Services -> Db \cup {None}]
    PROVE  Overlapping'
<1>1. Idle.h = None /\ Idle.pc \notin WithDatabase
    BY DEF Idle, WithDatabase
<1> QED
    BY <1>1, IdleType, SameDatabase DEF Overlapping, TypeOK

\* A change in memory.
LEMMA MutateOverlapping ==
    ASSUME Overlapping, NEW c \in Calls, NEW d \in Db, NEW phase \in {"write", "delete"},
           call[c].pc \in WithDatabase, Mutate(c, d, phase)
    PROVE  Overlapping'
<1> DEFINE new == [call[c] EXCEPT !.pc = "trunc", !.data = d, !.phase = phase]
<1>1. call[c] \in CallState /\ call[c].h \in Handles
    BY DEF Overlapping, TypeOK, DatabasesInHand
<1>2. new \in CallState /\ new.h = call[c].h
    BY <1>1 DEF CallState
<1>3. /\ call' = [call EXCEPT ![c] = new] /\ file' = file /\ svc' = svc /\ unsaved' = unsaved
      /\ heap' = [heap EXCEPT ![call[c].h] = [@ EXCEPT !.db = d]]
    BY DEF Mutate
<1> HIDE DEF new
<1>4. heap' \in [Handles -> [state : {"free", "opening", "ready", "failed"}, db : Db]]
    BY <1>1, <1>3 DEF Overlapping, TypeOK
<1> QED
    BY <1>1, <1>2, <1>3, <1>4, SameDatabase DEF Overlapping, TypeOK

\* getDatabase, openAndMigrate and persistDatabase.
LEMMA GettingOverlapping ==
    ASSUME Overlapping, NEW c \in Calls,
           \/ Stat(c) \/ StatFails(c) \/ UseCached(c) \/ (\E h \in Handles : Reopen(c, h))
           \/ OpenRead(c) \/ OpenFails(c) \/ Truncate(c) \/ TruncateFails(c) \/ Write(c) \/ WriteFails(c)
           \/ StatWritten(c) \/ StatWrittenFails(c) \/ Record(c)
    PROVE  Overlapping'
<1> DEFINE s == SvcOf(c)
<1>1. /\ call[c] \in CallState /\ s \in Services
      /\ call[c].pc \in WithDatabase => call[c].h \in Handles
      /\ Fingerprint \in Stamps \cup {"null"} /\ Readable \in Db
    BY DbTypes DEF Overlapping, TypeOK, DatabasesInHand, Fingerprint, Readable
<1>2. CASE Stat(c)
    <2> DEFINE new == [call[c] EXCEPT !.pc = "compare", !.seen = Fingerprint]
    <2>1. new \in CallState /\ new.h = call[c].h /\ new.pc \notin WithDatabase
        BY <1>1 DEF CallState, WithDatabase
    <2>2. call' = [call EXCEPT ![c] = new] /\ file' = file /\ heap' = heap /\ svc' = svc /\ unsaved' = unsaved
        BY <1>2 DEF Stat
    <2> HIDE DEF new
    <2> QED
        BY <2>1, <2>2, SameDatabase DEF Overlapping, TypeOK
<1>3. CASE UseCached(c)
    <2> DEFINE new == [call[c] EXCEPT !.pc = "await", !.h = svc[s].h, !.seen = "null"]
    <2>1. /\ call' = [call EXCEPT ![c] = new] /\ file' = file /\ heap' = heap /\ svc' = svc /\ unsaved' = unsaved
          /\ svc[s].h \in Handles
        BY <1>1, <1>3 DEF UseCached, MustOpen, Overlapping, TypeOK
    <2>2. new \in CallState /\ new.h = svc[s].h
        BY <1>1, <2>1 DEF CallState
    <2> HIDE DEF new
    <2>3. /\ call'[c] = new /\ call' \in [Calls -> CallState]
          /\ \A d \in Calls : d # c => call'[d] = call[d]
        BY <2>1, <2>2 DEF Overlapping, TypeOK
    <2>4. TypeOK' /\ DatabasesInHand'
        BY <2>1, <2>2, <2>3 DEF Overlapping, TypeOK, DatabasesInHand
    <2>5. PrivateMemory'
        BY <1>1, <2>1, <2>2, <2>3 DEF Overlapping, PrivateMemory, OwnHandles
    <2> QED
        BY <2>4, <2>5 DEF Overlapping
<1>4. ASSUME NEW h \in Handles, Reopen(c, h) PROVE Overlapping'
    <2> DEFINE new == [call[c] EXCEPT !.pc = "openRead", !.h = h, !.phase = "open", !.seen = "null"]
    <2>1. /\ call' = [call EXCEPT ![c] = new] /\ file' = file
          /\ svc' = [svc EXCEPT ![s] = [h |-> h, fp |-> call[c].seen]]
          /\ unsaved' = [unsaved EXCEPT ![s] = None]
          /\ heap' = [g \in Handles |->
                        IF g = h THEN [state |-> "opening", db |-> EmptyDb]
                        ELSE IF HeldElsewhere(g, s, {c}) THEN heap[g] ELSE Free]
          /\ \A g \in Services : svc[g].h # h
          /\ \A d \in Calls : call[d].h # h
        BY <1>4 DEF Reopen
    <2>2. new \in CallState /\ new.h = h
        BY <1>1 DEF CallState
    <2> HIDE DEF new
    <2>3. /\ call'[c] = new /\ call' \in [Calls -> CallState]
          /\ \A d \in Calls : d # c => call'[d] = call[d]
        BY <2>1, <2>2 DEF Overlapping, TypeOK
    <2>4. /\ heap' \in [Handles -> [state : {"free", "opening", "ready", "failed"}, db : Db]]
          /\ svc' \in [Services -> [h : Handles \cup {None}, fp : Stamps \cup {"null", "undefined"}]]
          /\ svc'[s].h = h /\ \A g \in Services : g # s => svc'[g] = svc[g]
        BY <1>1, <2>1, DbTypes DEF Overlapping, TypeOK, Free, CallState
    <2>5. TypeOK' /\ DatabasesInHand'
        BY <2>1, <2>2, <2>3, <2>4 DEF Overlapping, TypeOK, DatabasesInHand
    <2>6. PrivateMemory'
        BY <1>1, <2>1, <2>2, <2>3, <2>4 DEF Overlapping, PrivateMemory, OwnHandles
    <2> QED
        BY <2>5, <2>6 DEF Overlapping
<1>5. CASE OpenRead(c)
    <2> DEFINE new == [call[c] EXCEPT !.pc = "trunc", !.data = Readable]
    <2>1. new \in CallState /\ new.h = call[c].h
        BY <1>1 DEF CallState
    <2>2. /\ call' = [call EXCEPT ![c] = new] /\ file' = file /\ svc' = svc /\ unsaved' = unsaved
          /\ call[c].h \in Handles
          /\ heap' = [heap EXCEPT ![call[c].h] = [@ EXCEPT !.db = Readable]]
        BY <1>1, <1>5 DEF OpenRead, WithDatabase
    <2> HIDE DEF new
    <2>3. heap' \in [Handles -> [state : {"free", "opening", "ready", "failed"}, db : Db]]
        BY <1>1, <2>2 DEF Overlapping, TypeOK
    <2> QED
        BY <2>1, <2>2, <2>3, SameDatabase DEF Overlapping, TypeOK
<1>6. CASE \/ StatFails(c) \/ OpenFails(c) \/ TruncateFails(c)
           \/ WriteFails(c) \/ StatWrittenFails(c)
    <2>1. call' = [call EXCEPT ![c] = Idle] /\ svc' = svc
        BY <1>6 DEF StatFails, OpenFails, TruncateFails, WriteFails, StatWrittenFails, Return, Throw
    <2>2. heap' \in [Handles -> [state : {"free", "opening", "ready", "failed"}, db : Db]]
        <3>1. \/ heap' = heap
              \/ heap' = [heap EXCEPT ![call[c].h] = [@ EXCEPT !.state = "failed"]]
            BY <1>6 DEF StatFails, OpenFails, TruncateFails, WriteFails, StatWrittenFails, Return, Throw
        <3> QED
            BY <1>1, <3>1 DEF Overlapping, TypeOK
    <2>3. file' \in [kind : {"absent", "writing", "torn", "db"}, db : Db, stamp : Stamps \cup {"null"}]
        BY <1>6 DEF StatFails, OpenFails, TruncateFails, WriteFails, StatWrittenFails, Return,
                    FreshStamps, Overlapping, TypeOK
    <2>4. unsaved' \in [Services -> Db \cup {None}]
        BY <1>1, <1>6 DEF StatFails, OpenFails, TruncateFails, WriteFails, StatWrittenFails, Return,
                          WithDatabase, Overlapping, TypeOK
    <2> QED
        BY <2>1, <2>2, <2>3, <2>4, EndOverlapping
<1>7. CASE Truncate(c) \/ Write(c)
    <2>1. PICK pc \in {"write", "stamp"} : call' = [call EXCEPT ![c].pc = pc]
        BY <1>7 DEF Truncate, Write
    <2> DEFINE new == [call[c] EXCEPT !.pc = pc]
    <2>2. new \in CallState /\ new.h = call[c].h
        BY <1>1 DEF CallState
    <2>3. /\ call' = [call EXCEPT ![c] = new] /\ heap' = heap /\ svc' = svc /\ call[c].h \in Handles
        BY <1>1, <1>7, <2>1 DEF Truncate, Write, WithDatabase
    <2>4. file' \in [kind : {"absent", "writing", "torn", "db"}, db : Db, stamp : Stamps \cup {"null"}]
        <3>1. FreshStamps \subseteq Stamps /\ call[c].data \in Db
            BY <1>1 DEF FreshStamps, CallState
        <3>2. CASE Truncate(c)
            <4>1. PICK x \in FreshStamps :
                      file' = [file EXCEPT !.kind = IF @ = "torn" THEN "torn" ELSE "writing", !.stamp = x]
                BY <3>2 DEF Truncate
            <4> QED
                BY <3>1, <4>1 DEF Overlapping, TypeOK
        <3>3. CASE Write(c)
            <4>1. PICK x \in FreshStamps :
                      \/ file' = [kind |-> "db", db |-> call[c].data, stamp |-> x]
                      \/ file' = [kind |-> "torn", db |-> call[c].data, stamp |-> x]
                BY <3>3 DEF Write
            <4> QED
                BY <3>1, <4>1
        <3> QED
            BY <1>7, <3>2, <3>3
    <2>5. unsaved' \in [Services -> Db \cup {None}]
        BY <1>7 DEF Truncate, Write, Overlapping, TypeOK
    <2> HIDE DEF new
    <2> QED
        BY <2>2, <2>3, <2>4, <2>5, SameDatabase DEF Overlapping, TypeOK
<1>8. CASE StatWritten(c)
    <2> DEFINE new == [call[c] EXCEPT !.pc = "record", !.seen = Fingerprint]
    <2>1. new \in CallState /\ new.h = call[c].h
        BY <1>1 DEF CallState
    <2>2. /\ call' = [call EXCEPT ![c] = new] /\ file' = file /\ heap' = heap /\ svc' = svc /\ unsaved' = unsaved
          /\ call[c].h \in Handles
        BY <1>1, <1>8 DEF StatWritten, WithDatabase
    <2> HIDE DEF new
    <2> QED
        BY <2>1, <2>2, SameDatabase DEF Overlapping, TypeOK
<1>9. CASE Record(c)
    <2> DEFINE open == call[c].phase = "open"
               new == [call[c] EXCEPT !.pc = IF open THEN "await" ELSE "finish", !.seen = "null",
                                      !.data = EmptyDb, !.phase = IF open THEN "none" ELSE call[c].phase]
               own == [svc[s] EXCEPT !.fp = call[c].seen]
    <2>1. new \in CallState /\ new.h = call[c].h
        BY <1>1, DbTypes DEF CallState
    <2>2. /\ call' = [call EXCEPT ![c] = new] /\ file' = file /\ unsaved' = unsaved
          /\ call[c].h \in Handles
          /\ svc' = [svc EXCEPT ![s] = own]
          /\ heap' = IF open THEN [heap EXCEPT ![call[c].h] = [@ EXCEPT !.state = "ready"]] ELSE heap
        BY <1>1, <1>9 DEF Record, WithDatabase
    <2>3. /\ own \in [h : Handles \cup {None}, fp : Stamps \cup {"null", "undefined"}]
          /\ own.h = svc[s].h
        BY <1>1 DEF Overlapping, TypeOK, CallState
    <2> HIDE DEF new, own, open
    <2>4. /\ heap' \in [Handles -> [state : {"free", "opening", "ready", "failed"}, db : Db]]
          /\ svc' \in [Services -> [h : Handles \cup {None}, fp : Stamps \cup {"null", "undefined"}]]
          /\ \A g \in Services : svc'[g].h = svc[g].h
        BY <1>1, <2>2, <2>3 DEF Overlapping, TypeOK
    <2> QED
        BY <2>1, <2>2, <2>4, SameDatabase DEF Overlapping, TypeOK
<1> QED
    BY <1>2, <1>3, <1>4, <1>5, <1>6, <1>7, <1>8, <1>9

\* The operations change databases that are open.
LEMMA OperationsOverlapping ==
    ASSUME Overlapping, NEW c \in Calls,
           \/ AwaitFails(c) \/ Get(c) \/ GetLeading(c) \/ SetLeading(c) \/ ClearLeading(c)
           \/ Reset(c) \/ AskManifests(c) \/ Refuse(c)
           \/ Create(c) \/ Update(c) \/ Delete(c) \/ Finish(c)
    PROVE  Overlapping'
<1>1. call[c].pc \in WithDatabase
    BY DEF AwaitFails, Get, GetLeading, SetLeading, ClearLeading, Reset, AskManifests, Refuse,
           Create, Update, Delete, Finish, HasDatabase, WithDatabase
<1>2. call[c] \in CallState /\ call[c].h \in Handles /\ Handle(c) \in Db
    BY <1>1 DEF Overlapping, TypeOK, DatabasesInHand, Handle
<1>3. ASSUME Return(c) PROVE Overlapping'
    BY <1>3, EndOverlapping DEF Return, Overlapping, TypeOK
<1>4. ASSUME NEW d \in Db, NEW phase \in {"write", "delete"}, Mutate(c, d, phase) PROVE Overlapping'
    BY <1>1, <1>4, MutateOverlapping
<1>5. /\ [Handle(c) EXCEPT !.leading = None] \in Db
      /\ \A t \in Tasks : [Handle(c) EXCEPT !.leading = t] \in Db
      /\ \A t \in Tasks, v \in Values \cup {None} : [Handle(c) EXCEPT !.rows[t] = v] \in Db
      /\ \A ts \in SUBSET Tasks : Without(Handle(c), ts) \in Db
    BY <1>2, DbTypes
<1>6. call[c].task \in Tasks \cup {None} /\ call[c].value \in Values \cup {None}
      /\ call[c].list \in SUBSET Tasks
    BY <1>2 DEF CallState
<1>7. CASE AwaitFails(c) \/ Get(c) \/ Refuse(c)
    BY <1>3, <1>7 DEF AwaitFails, Get, Refuse
<1>8. CASE GetLeading(c)
    BY <1>3, <1>4, <1>5, <1>8 DEF GetLeading
<1>9. CASE SetLeading(c)
    BY <1>3, <1>4, <1>5, <1>6, <1>9 DEF SetLeading, Exists
<1>10. CASE ClearLeading(c)
    BY <1>4, <1>5, <1>10 DEF ClearLeading
<1>11. CASE Reset(c)
    BY <1>2, <1>3, <1>4, <1>5, <1>6, <1>11 DEF Reset, Exists
<1>12. CASE AskManifests(c)
    <2> DEFINE new == [call[c] EXCEPT !.pc = "manifests"]
    <2>1. new \in CallState /\ new.h = call[c].h
        BY <1>2 DEF CallState
    <2>2. \/ Return(c)
          \/ /\ call' = [call EXCEPT ![c] = new] /\ file' = file
             /\ heap' = heap /\ svc' = svc /\ unsaved' = unsaved
        BY <1>12 DEF AskManifests
    <2> HIDE DEF new
    <2> QED
        BY <1>2, <1>3, <2>1, <2>2, SameDatabase DEF Overlapping, TypeOK
<1>13. CASE Create(c)
    <2>1. [Handle(c) EXCEPT !.rows[None] = call[c].value] \in Db
        <3>1. Handle(c) \in [rows : [Tasks -> Values \cup {None}], leading : Tasks \cup {None}]
            BY <1>2 DEF Db
        <3>2. [Handle(c).rows EXCEPT ![None] = call[c].value] = Handle(c).rows
            BY <3>1, NoneAssumption
        <3> QED
            BY <3>1, <3>2 DEF Db
    <2> QED
        BY <2>1, <1>4, <1>5, <1>6, <1>13 DEF Create
<1>14. CASE Update(c)
    BY <1>2, <1>4, <1>5, <1>6, <1>14 DEF Update, Exists
<1>15. CASE Delete(c)
    BY <1>3, <1>4, <1>5, <1>6, <1>15 DEF Delete
<1>16. CASE Finish(c)
    BY <1>3, <1>4, <1>5, <1>16 DEF Finish
<1> QED
    BY <1>7, <1>8, <1>9, <1>10, <1>11, <1>12, <1>13, <1>14, <1>15, <1>16

\* A killed process lets go of what was its own.
LEMMA CrashOverlapping ==
    ASSUME Overlapping, NEW s \in Services, Crash(s)
    PROVE  Overlapping'
<1> DEFINE mine == {c \in Calls : SvcOf(c) = s}
           gone == [h |-> None, fp |-> "undefined"]
<1>1. /\ svc' = [svc EXCEPT ![s] = gone]
      /\ unsaved' = [unsaved EXCEPT ![s] = None]
      /\ heap' = [g \in Handles |-> IF HeldElsewhere(g, s, mine) THEN heap[g] ELSE Free]
      /\ call' = [c \in Calls |-> IF c \in mine THEN Idle ELSE call[c]]
      /\ file' \in {file, [file EXCEPT !.kind = "torn"]}
    BY DEF Crash
<1>2. Idle.h = None /\ Idle.pc \notin WithDatabase
    BY DEF Idle, WithDatabase
<1>3. \A c \in Calls : call'[c] = call[c] \/ call'[c] = Idle
    BY <1>1
<1>4. \A g \in Services : svc'[g].h \in {svc[g].h, None}
    BY <1>1 DEF Overlapping, TypeOK
<1>5. TypeOK'
    BY <1>1, IdleType, DbTypes DEF Overlapping, TypeOK, Free
<1>6. DatabasesInHand' /\ PrivateMemory'
    <2>1. \A c \in Calls : call'[c].h \in {call[c].h, None}
                           /\ (call'[c].pc \in WithDatabase => call'[c] = call[c])
        BY <1>2, <1>3
    <2> QED
        BY <1>4, <2>1 DEF Overlapping, DatabasesInHand, PrivateMemory, OwnHandles
<1> QED
    BY <1>5, <1>6 DEF Overlapping

\* Every step, of calls that overlap or not.
LEMMA NextOverlapping == Overlapping /\ [Next]_vars => Overlapping'
<1> SUFFICES ASSUME Overlapping, [Next]_vars PROVE Overlapping'
    OBVIOUS
<1>1. ASSUME NEW c \in Calls, Begin(c) PROVE Overlapping'
    <2>1. PICK op \in Ops, t \in Tasks \cup {None}, v \in Values \cup {None}, ts \in SUBSET Tasks :
              Start(c, op, t, v, ts)
        BY <1>1 DEF Begin
    <2> DEFINE new == [Idle EXCEPT !.pc = "stat", !.op = op, !.task = t, !.value = v, !.list = ts,
                                   !.first = svc[SvcOf(c)].h = None]
    <2>2. new \in CallState /\ new.h = None /\ new.pc \notin WithDatabase
        BY DbTypes DEF CallState, Idle, Ops, WithDatabase
    <2>3. call' = [call EXCEPT ![c] = new] /\ file' = file /\ heap' = heap /\ svc' = svc /\ unsaved' = unsaved
        BY <2>1 DEF Start
    <2> HIDE DEF new
    <2> QED
        BY <2>2, <2>3, SameDatabase DEF Overlapping, TypeOK
<1>2. ASSUME NEW c \in Calls, Step(c) PROVE Overlapping'
    BY <1>2, GettingOverlapping, OperationsOverlapping DEF Step
<1>3. ASSUME NEW s \in Services, Crash(s) PROVE Overlapping'
    BY <1>3, CrashOverlapping
<1>4. CASE UNCHANGED vars
    BY <1>4 DEF vars, Overlapping, TypeOK, DatabasesInHand, PrivateMemory, OwnHandles
<1> QED
    BY <1>1, <1>2, <1>3, <1>4 DEF Next

\* Every variable keeps its type, over any number of services, tasks and fingerprints, and
\* however calls overlap.
THEOREM TypeCorrect == Spec => []TypeOK
<1>1. Overlapping => TypeOK
    BY DEF Overlapping
<1> QED
    BY <1>1, InitOverlapping, NextOverlapping, PTL DEF Spec

\* However calls overlap and processes are killed, no service and no call ever works on
\* the in-memory database of another process, though handles are used again: processes
\* meet in the file only.
THEOREM MemoryIsPrivate == Spec => []PrivateMemory
<1>1. Overlapping => PrivateMemory
    BY DEF Overlapping
<1> QED
    BY <1>1, InitOverlapping, NextOverlapping, PTL DEF Spec
====

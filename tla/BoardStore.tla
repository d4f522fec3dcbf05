---- MODULE BoardStore ----
(***************************************************************************)
(* BoardService (packages/core/src/core/boards/application) over sql.js.   *)
(* Every process that works with the board (the sidecar, each CLI command, *)
(* each agent) holds a whole copy of boards.sqlite in memory and writes    *)
(* the whole file back after every change.  A service remembers the file's *)
(* size and mtime as it last saw them (its fingerprint) and opens the file *)
(* again when an operation finds another fingerprint on disk.  Nothing     *)
(* locks: calls of one service interleave at every await, and services     *)
(* interleave at every file operation.  A process may be killed at any     *)
(* point, and any file operation may fail with the process alive.          *)
(*                                                                         *)
(* Exclusive selects the regime: TRUE lets one call run at a time over all *)
(* services (the regime under which the board keeps its promises), FALSE   *)
(* lets calls overlap as the code does.                                    *)
(***************************************************************************)
CONSTANTS
    Services,   \* BoardService instances, each in a process of its own
    Calls,      \* asynchronous calls that may be in flight
    SvcOf(_),   \* the service a call is made on
    Tasks,      \* task ids
    Values,     \* what a task's rows may say
    Handles,    \* in-memory sql.js databases
    Stamps,     \* file fingerprints ("size:mtimeMs")
    None,       \* no row, no leading task, no handle
    Exclusive   \* one call at a time over all services

ASSUME CallsAssumption == \A c \in Calls : SvcOf(c) \in Services
ASSUME NoneAssumption == None \notin Tasks \cup Values \cup Handles \cup Stamps
ASSUME StampsAssumption == {"null", "undefined"} \cap Stamps = {}
ASSUME ExclusiveAssumption == Exclusive \in BOOLEAN

VARIABLES
    file,   \* boards.sqlite: what it holds and its fingerprint
    heap,   \* each in-memory database and whether its promise has settled
    svc,    \* per service: dbPromise and dbFileFingerprint
    call,   \* per call: where it is and its local variables
    unsaved \* history: per service, its database if it has what a failed write left unwritten

vars == <<file, heap, svc, call, unsaved>>

Db == [rows : [Tasks -> Values \cup {None}], leading : Tasks \cup {None}]
EmptyDb == [rows |-> [t \in Tasks |-> None], leading |-> None]

ASSUME DbAssumption == None \notin Db

\* Mutant: a missing file has no fingerprint at all.
FingerprintUndefined == IF file.kind = "absent" THEN "undefined" ELSE file.stamp

\* readDbFileFingerprint: null when there is no file.
Fingerprint == IF file.kind = "absent" THEN "null" ELSE file.stamp

Ops == {"get", "getLeading", "setLeading", "clearLeading",
        "reset", "create", "update", "delete"}

\* The operations that await listManifests before they touch the handle.
AwaitsManifests == {"create", "update", "delete"}

Idle == [pc |-> "idle", op |-> "get", task |-> None, value |-> None, list |-> {}, first |-> FALSE,
         seen |-> "null", h |-> None, data |-> EmptyDb, phase |-> "none"]

Free == [state |-> "free", db |-> EmptyDb]

Init ==
    /\ file = [kind |-> "absent", db |-> EmptyDb, stamp |-> "null"]
    /\ heap = [h \in Handles |-> Free]
    /\ svc = [s \in Services |-> [h |-> None, fp |-> "undefined"]]
    /\ call = [c \in Calls |-> Idle]
    /\ unsaved = [s \in Services |-> None]

----------------------------------------------------------------------------
(* Fresh fingerprints, handles and task ids                                *)

\* Mutant: a fingerprint that can repeat (the size alone).
StampsThatRepeat == Stamps

\* Every write gives the file a size and mtime that nobody remembers.
FreshStamps ==
    Stamps \ ({file.stamp} \cup {svc[s].fp : s \in Services} \cup {call[c].seen : c \in Calls})

\* Handle h is still reachable from a service other than s or a call other than c.
HeldElsewhere(h, s, cs) ==
    \/ \E s2 \in Services \ {s} : svc[s2].h = h
    \/ \E d \in Calls \ cs : call[d].h = h

\* createEntityId: no database image holds the id of a new task.
FreshTask(t) ==
    /\ file.db.rows[t] = None
    /\ \A h \in Handles : heap[h].db.rows[t] = None
    /\ \A c \in Calls : call[c].data.rows[t] = None

----------------------------------------------------------------------------
(* getDatabase                                                             *)

\* A call is made: pathChanged is computed before the first await.
Start(c, op, t, v, ts) ==
    /\ call[c].pc = "idle"
    /\ Exclusive => \A d \in Calls : call[d].pc = "idle"
    /\ call' = [call EXCEPT ![c] = [Idle EXCEPT !.pc = "stat", !.op = op, !.task = t, !.value = v,
                                      !.list = ts, !.first = svc[SvcOf(c)].h = None]]
    /\ UNCHANGED <<file, heap, svc, unsaved>>

\* The call returns or throws.
Return(c) ==
    /\ call' = [call EXCEPT ![c] = Idle]
    /\ UNCHANGED <<file, heap, svc, unsaved>>

\* The stat of the file.
Stat(c) ==
    /\ call[c].pc = "stat"
    /\ call' = [call EXCEPT ![c] = [@ EXCEPT !.pc = "compare", !.seen = Fingerprint]]
    /\ UNCHANGED <<file, heap, svc, unsaved>>

\* It fails, and not because there is no file: getDatabase throws.
StatFails(c) == call[c].pc = "stat" /\ Return(c)

\* Mutant: the database is opened once and the file never compared again.
MustOpenOnce(c) == svc[SvcOf(c)].h = None \/ call[c].first

MustOpen(c) ==
    LET s == svc[SvcOf(c)]
    IN  s.h = None \/ call[c].first \/ s.fp # call[c].seen

\* The continuation of the stat finds the cached database current ...
UseCached(c) ==
    /\ call[c].pc = "compare"
    /\ ~MustOpen(c)
    /\ call' = [call EXCEPT ![c] = [@ EXCEPT !.pc = "await", !.h = svc[SvcOf(c)].h, !.seen = "null"]]
    /\ UNCHANGED <<file, heap, svc, unsaved>>

\* ... or replaces the promise by one for a new in-memory database.
Reopen(c, h) ==
    LET s == SvcOf(c)
    IN  /\ call[c].pc = "compare"
        /\ MustOpen(c)
        /\ \A g \in Services : svc[g].h # h
        /\ \A d \in Calls : call[d].h # h
        /\ svc' = [svc EXCEPT ![s] = [h |-> h, fp |-> call[c].seen]]
        /\ heap' = [g \in Handles |->
                        IF g = h THEN [state |-> "opening", db |-> EmptyDb]
                        ELSE IF HeldElsewhere(g, s, {c}) THEN heap[g] ELSE Free]
        /\ call' = [call EXCEPT ![c] = [@ EXCEPT !.pc = "openRead", !.h = h, !.phase = "open",
                                     !.seen = "null"]]
        /\ unsaved' = [unsaved EXCEPT ![s] = None]
        /\ UNCHANGED file

----------------------------------------------------------------------------
(* openAndMigrate: read, migrate, persist, and only then settle            *)

\* The file as sql.js sees it: none and a truncated one are empty databases.
Readable == IF file.kind = "db" THEN file.db ELSE EmptyDb

OpenRead(c) ==
    /\ call[c].pc = "openRead"
    /\ heap' = [heap EXCEPT ![call[c].h] = [@ EXCEPT !.db = Readable]]
    /\ call' = [call EXCEPT ![c] = [@ EXCEPT !.pc = "trunc", !.data = Readable]]
    /\ UNCHANGED <<file, svc, unsaved>>

\* A file operation rejects, and so does the call. While the database is being opened
\* the rejected promise stays the service's dbPromise.
Throw(c) ==
    /\ call' = [call EXCEPT ![c] = Idle]
    /\ heap' = IF call[c].phase = "open"
               THEN [heap EXCEPT ![call[c].h] = [@ EXCEPT !.state = "failed"]] ELSE heap
    /\ UNCHANGED svc

\* The file cannot be read, or it was cut short after its first page.
OpenFails(c) ==
    /\ call[c].pc = "openRead"
    /\ Throw(c)
    /\ UNCHANGED <<file, unsaved>>

----------------------------------------------------------------------------
(* persistDatabase: export, overwrite the file, remember its fingerprint   *)

\* writeFile opens the file for writing, which truncates it.  file.db keeps
\* what the file held, for the properties: no action reads it before Write.
Truncate(c) ==
    /\ call[c].pc = "trunc"
    /\ \E x \in FreshStamps :
          file' = [file EXCEPT !.kind = IF @ = "torn" THEN "torn" ELSE "writing", !.stamp = x]
    /\ call' = [call EXCEPT ![c].pc = "write"]
    /\ unsaved' = [s \in Services |-> IF s = SvcOf(c) THEN unsaved[s] ELSE None]
    /\ UNCHANGED <<heap, svc>>

\* The file cannot be opened for writing: it is as it was, and the database in memory
\* keeps the change that its caller is told has failed.
TruncateFails(c) ==
    /\ call[c].pc = "trunc"
    /\ Throw(c)
    /\ unsaved' = IF call[c].phase = "open" THEN unsaved
                  ELSE [unsaved EXCEPT ![SvcOf(c)] = heap[call[c].h].db]
    /\ UNCHANGED file

\* ... and writes the exported image.  Over the image another writer put there
\* since the truncation, the end of the longer one remains.
Write(c) ==
    /\ call[c].pc = "write"
    /\ \E x \in FreshStamps :
          \/ file' = [kind |-> "db", db |-> call[c].data, stamp |-> x]
          \/ file.kind = "db" /\ file' = [kind |-> "torn", db |-> call[c].data, stamp |-> x]
    /\ call' = [call EXCEPT ![c].pc = "stamp"]
    /\ unsaved' = [s \in Services |-> None]
    /\ UNCHANGED <<heap, svc>>

\* The disk is full: what could be written of the image stays in the file.
WriteFails(c) ==
    /\ call[c].pc = "write"
    /\ \E x \in FreshStamps : file' = [file EXCEPT !.kind = "torn", !.stamp = x]
    /\ Throw(c)
    /\ unsaved' = [s \in Services |-> None]

StatWritten(c) ==
    /\ call[c].pc = "stamp"
    /\ call' = [call EXCEPT ![c] = [@ EXCEPT !.pc = "record", !.seen = Fingerprint]]
    /\ UNCHANGED <<file, heap, svc, unsaved>>

\* The image is written, but the fingerprint stays the old one: the service will open the file.
StatWrittenFails(c) ==
    /\ call[c].pc = "stamp"
    /\ Throw(c)
    /\ UNCHANGED <<file, unsaved>>

\* The fingerprint is recorded whatever database the service holds by now.
\* After openAndMigrate the promise settles and its waiters go on.
Record(c) ==
    LET opening == call[c].phase = "open"
    IN  /\ call[c].pc = "record"
        /\ svc' = [svc EXCEPT ![SvcOf(c)] = [@ EXCEPT !.fp = call[c].seen]]
        /\ heap' = IF opening THEN [heap EXCEPT ![call[c].h] = [@ EXCEPT !.state = "ready"]] ELSE heap
        /\ call' = [call EXCEPT ![c] = [@ EXCEPT !.pc = IF opening THEN "await" ELSE "finish",
                                     !.seen = "null", !.data = EmptyDb,
                                     !.phase = IF opening THEN "none" ELSE call[c].phase]]
        /\ UNCHANGED <<file, unsaved>>

----------------------------------------------------------------------------
(* The operations on the handle                                            *)

Handle(c) == heap[call[c].h].db
\* The database without the rows of these tasks.
Without(db, ts) == [db EXCEPT !.rows = [t \in Tasks |-> IF t \in ts THEN None ELSE @[t]]]

Exists(c) == call[c].task # None /\ Handle(c).rows[call[c].task] # None
HasDatabase(c) == call[c].pc = "await" /\ heap[call[c].h].state = "ready"

\* Mutant: the image is exported before the change.
MutateAfterExport(c, db, phase) ==
    /\ heap' = [heap EXCEPT ![call[c].h].db = db]
    /\ call' = [call EXCEPT ![c] = [@ EXCEPT !.pc = "trunc", !.data = Handle(c), !.phase = phase]]
    /\ UNCHANGED <<file, svc, unsaved>>

\* Mutate the handle and export it: one synchronous step.
Mutate(c, db, phase) ==
    /\ heap' = [heap EXCEPT ![call[c].h] = [@ EXCEPT !.db = db]]
    /\ call' = [call EXCEPT ![c] = [@ EXCEPT !.pc = "trunc", !.data = db, !.phase = phase]]
    /\ UNCHANGED <<file, svc, unsaved>>

\* The promise had rejected: so does the call.
AwaitFails(c) ==
    /\ call[c].pc = "await"
    /\ heap[call[c].h].state = "failed"
    /\ Return(c)

\* listTasks, getTask and the other readers.
Get(c) == HasDatabase(c) /\ call[c].op = "get" /\ Return(c)

\* getLeadingTask clears a reference to a task that is gone.
GetLeading(c) ==
    /\ HasDatabase(c)
    /\ call[c].op = "getLeading"
    /\ LET l == Handle(c).leading
       IN  IF l = None \/ Handle(c).rows[l] # None
           THEN Return(c)
           ELSE Mutate(c, [Handle(c) EXCEPT !.leading = None], "write")

SetLeading(c) ==
    /\ HasDatabase(c)
    /\ call[c].op = "setLeading"
    /\ IF Exists(c) THEN Mutate(c, [Handle(c) EXCEPT !.leading = call[c].task], "write")
                    ELSE Return(c)

ClearLeading(c) ==
    /\ HasDatabase(c)
    /\ call[c].op = "clearLeading"
    /\ Mutate(c, [Handle(c) EXCEPT !.leading = None], "write")

\* resetTaskStatusTimeout persists even when no row changed.
Reset(c) ==
    /\ HasDatabase(c)
    /\ call[c].op = "reset"
    /\ IF Exists(c)
       THEN \/ Mutate(c, Handle(c), "write")
            \/ Mutate(c, [Handle(c) EXCEPT !.rows[call[c].task] = call[c].value], "write")
       ELSE Return(c)

\* updateTaskStatus and addTask* look the task up before they await.
AskManifests(c) ==
    /\ HasDatabase(c)
    /\ call[c].op \in AwaitsManifests
    /\ IF call[c].op = "update" /\ ~Exists(c)
       THEN Return(c)
       ELSE /\ call' = [call EXCEPT ![c].pc = "manifests"]
            /\ UNCHANGED <<file, heap, svc, unsaved>>

\* An unknown agent, no permission, or arguments that do not validate.
Refuse(c) == call[c].pc = "manifests" /\ Return(c)

Create(c) ==
    /\ call[c].pc = "manifests"
    /\ call[c].op = "create"
    /\ FreshTask(call[c].task)
    /\ Mutate(c, [Handle(c) EXCEPT !.rows[call[c].task] = call[c].value], "write")

\* The row may have been deleted from this handle during the await: the UPDATE
\* then changes nothing, and the database is persisted all the same.
Update(c) ==
    /\ call[c].pc = "manifests"
    /\ call[c].op = "update"
    /\ Mutate(c, IF Exists(c) THEN [Handle(c) EXCEPT !.rows[call[c].task] = call[c].value]
                              ELSE Handle(c), "write")

\* deleteTasks: of the listed tasks all must exist, and all rows go in one write.
Delete(c) ==
    /\ call[c].pc = "manifests"
    /\ call[c].op = "delete"
    /\ IF call[c].list # {} /\ \A t \in call[c].list : Handle(c).rows[t] # None
       THEN Mutate(c, Without(Handle(c), call[c].list), "delete")
       ELSE Return(c)

\* After persisting: deleteTasks clears the leading task it deleted and persists
\* again, every other operation returns.
Finish(c) ==
    /\ call[c].pc = "finish"
    /\ IF call[c].phase = "delete" /\ Handle(c).leading \in call[c].list
       THEN Mutate(c, [Handle(c) EXCEPT !.leading = None], "write")
       ELSE Return(c)

----------------------------------------------------------------------------
(* A process is killed: its memory is gone, its write is cut short         *)

Crash(s) ==
    LET mine == {c \in Calls : SvcOf(c) = s}
    IN  /\ svc[s].h # None
        /\ file' = IF file.kind = "writing" /\ \E c \in mine : call[c].pc = "write"
                   THEN [file EXCEPT !.kind = "torn"] ELSE file
        /\ svc' = [svc EXCEPT ![s] = [h |-> None, fp |-> "undefined"]]
        /\ heap' = [g \in Handles |-> IF HeldElsewhere(g, s, mine) THEN heap[g] ELSE Free]
        /\ call' = [c \in Calls |-> IF c \in mine THEN Idle ELSE call[c]]
        /\ unsaved' = [unsaved EXCEPT ![s] = None]

----------------------------------------------------------------------------
\* Inputs: readers take no task; only writers of rows take a value; a deletion takes a list.
Input(op, t, v, ts) ==
    /\ (op \in {"get", "getLeading", "clearLeading", "delete"}) = (t = None)
    /\ (op \in {"create", "update", "reset"}) = (v # None)
    /\ op # "delete" => ts = {}

Step(c) ==
    \/ Stat(c) \/ StatFails(c) \/ UseCached(c) \/ \E h \in Handles : Reopen(c, h)
    \/ OpenRead(c) \/ OpenFails(c)
    \/ Truncate(c) \/ TruncateFails(c) \/ Write(c) \/ WriteFails(c)
    \/ StatWritten(c) \/ StatWrittenFails(c) \/ Record(c)
    \/ AwaitFails(c) \/ Get(c) \/ GetLeading(c) \/ SetLeading(c) \/ ClearLeading(c)
    \/ Reset(c) \/ AskManifests(c) \/ Refuse(c)
    \/ Create(c) \/ Update(c) \/ Delete(c) \/ Finish(c)

Begin(c) ==
    \E op \in Ops, t \in Tasks \cup {None}, v \in Values \cup {None}, ts \in SUBSET Tasks :
        Input(op, t, v, ts) /\ Start(c, op, t, v, ts)

Next ==
    \/ \E c \in Calls : Begin(c) \/ Step(c)
    \/ \E s \in Services : Crash(s)

Spec == Init /\ [][Next]_vars

----------------------------------------------------------------------------
(* Properties                                                              *)

\* A call's program counter and local variables.
CallState ==
    [pc : {"idle", "stat", "compare", "openRead", "trunc", "write", "stamp", "record",
           "await", "manifests", "finish"},
     op : Ops, task : Tasks \cup {None}, value : Values \cup {None}, list : SUBSET Tasks,
     first : BOOLEAN,
     seen : Stamps \cup {"null"}, h : Handles \cup {None}, data : Db,
     phase : {"none", "open", "write", "delete"}]

\* Every variable has its type; a settled handle is one somebody opened.
TypeOK ==
    /\ file \in [kind : {"absent", "writing", "torn", "db"}, db : Db, stamp : Stamps \cup {"null"}]
    /\ heap \in [Handles -> [state : {"free", "opening", "ready", "failed"}, db : Db]]
    /\ svc \in [Services -> [h : Handles \cup {None},
                             fp : Stamps \cup {"null", "undefined"}]]
    /\ call \in [Calls -> CallState]
    /\ unsaved \in [Services -> Db \cup {None}]

\* The board a service works on: the file's, with its own changes that could not be written.
Own(s) == IF unsaved[s] = None THEN file.db ELSE unsaved[s]

Quiet(s) == \A c \in Calls : SvcOf(c) = s => call[c].pc \in {"idle", "stat", "compare"}

\* A service that finds the file with the fingerprint it remembers may use its copy:
\* whenever no operation of a service is past getDatabase, its in-memory database is
\* the file's content with what the service failed to write, or the next getDatabase sees
\* another fingerprint and reloads.
\* This is what lets a service see what other processes wrote.
CacheCoherent ==
    \A s \in Services :
        Quiet(s) /\ svc[s].h # None /\ heap[svc[s].h].state = "ready" /\ svc[s].fp = Fingerprint
            => file.kind = "db" /\ heap[svc[s].h].db = Own(s)

\* A service that will use its copy at its next operation.
Remembers(s) ==
    svc[s].h # None /\ heap[svc[s].h].state = "ready" /\ svc[s].fp = Fingerprint

\* "reloads database state when another process updates boards.sqlite"
\* (test/core/board.service.test.ts): when no call is under way anywhere and another process
\* has updated the file, a service that remembers the file's fingerprint has the file's content,
\* unless it failed to write a change of its own. If not, its next listTasks shows a board
\* without the other process's update, and its next write drops it.
ReloadsWhenAnotherProcessUpdates ==
    \A s, other \in Services :
        /\ \A c \in Calls : call[c].pc = "idle"
        /\ Remembers(other) /\ heap[svc[other].h].db = file.db
        /\ Remembers(s) /\ unsaved[s] = None
        => heap[svc[s].h].db = file.db

\* What an operation reads from its handle, before and after it waits for the agents'
\* manifests, is what the file holds: no operation works on a stale board. Only its service's
\* own changes may be ahead of the file, which were not written and whose callers were told so.
OperatesOnCurrentBoard ==
    \A c \in Calls :
        HasDatabase(c) \/ call[c].pc = "manifests" =>
            file.kind = "db" /\ Handle(c) = Own(SvcOf(c))

\* When an operation that writes is about to return, the file holds the board it
\* leaves in memory: what a caller was told is done is on disk.
ReturnedIsOnDisk ==
    \A c \in Calls : call[c].pc = "finish" => file.kind = "db" /\ Handle(c) = file.db

\* Two services never share an in-memory database, and one service never mutates a
\* database that its dbPromise no longer names: an update made there would be lost.
WritersHoldTheCurrentHandle ==
    \A c \in Calls :
        call[c].pc \in {"trunc", "write", "stamp", "record"} =>
            /\ svc[SvcOf(c)].h = call[c].h
            /\ \A s \in Services \ {SvcOf(c)} : svc[s].h # call[c].h

\* deleteTasks deletes the rows and clears the leading task in two writes of the file. When
\* it succeeds, neither memory nor file names a deleted task as leading, whichever
\* service set it and wherever crashes fell before.
Returns(c) == call[c].pc # "idle" /\ call'[c].pc = "idle" /\ svc' = svc
DeletionClearsLeading ==
    [][\A c \in Calls :
          Returns(c) /\ call[c].pc = "finish" /\ call[c].op = "delete" =>
              Handle(c).leading \notin call[c].list /\ file.db.leading \notin call[c].list]_vars

\* Each write of boards.sqlite is one change of the board: tasks vanish only through
\* deleteTasks, those of one list at once, or because a write was cut short; other rows change
\* one at a time; the leading task is set to a task that exists. Changes whose write failed may
\* come with a later one of the same service, and of no other.
Board == INSTANCE AtomicBoard
            WITH db <- file.db, torn <- (file.kind = "torn"), rejected <- unsaved
ImplementsAtomicBoard == Board!Spec
====

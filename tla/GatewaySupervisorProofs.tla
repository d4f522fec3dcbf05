---- MODULE GatewaySupervisorProofs ----
(***************************************************************************)
(* Whatever the number of processes, ports and stops, and whenever they    *)
(* boot, exit or are asked to: one restart at a time, a connection that is *)
(* watched, a limit that is kept, and a stop that is final when gateways   *)
(* exit in time.  The argument is about the exit handlers: at most one     *)
(* process has one, and which one it is says what start() is doing.        *)
(***************************************************************************)
EXTENDS GatewayClient, TLAPS

\* The types of the variables, without the bound on tries.
Types ==
    /\ gateway \in [Gateways -> [state : {"gone", "booting", "listening", "exited"},
                                 port : Ports \cup {None},
                                 handler : {"none", "startup", "restart"}]]
    /\ processState \in Gateways \cup {None}
    /\ stopping \in BOOLEAN /\ recent \in BOOLEAN /\ clash \in BOOLEAN /\ late \in BOOLEAN
    /\ attempts \in 0..(MaxRestarts + 1)
    /\ start \in [pc : {"starting", "waiting", "backoff", "idle", "givenUp", "dead"},
                  child : Gateways \cup {None}]
    /\ stop \in [Stops -> [pc : {"none", "waiting", "stopped", "returned"},
                           child : Gateways \cup {None}]]
    /\ target \in Ports \cup {None}
    /\ foreign \subseteq {PreferredPort}
    /\ tries \in Nat

\* No handler is left on a process that is over; start() waits for a process.
Handlers ==
    /\ \A g \in Gateways : gateway[g].state = "gone" => gateway[g].handler = "none"
    /\ \A g \in Gateways : gateway[g].port = None => gateway[g].state = "gone"
    /\ start.pc = "waiting" => start.child \in Gateways
    /\ OneRestartAtATime

\* #restartAttempts counts the restarts that were begun, ahead of them during the pause.
Counting ==
    /\ tries <= attempts
    /\ ~recent => tries = 0
    /\ start.pc \in {"backoff", "givenUp"} => tries < attempts
    /\ start.pc # "givenUp" => attempts <= MaxRestarts

\* Until the sidecar is up there is no connection, no restart and no stop.
ComingUp ==
    target = None =>
        /\ processState = None /\ ~stopping /\ ~recent /\ attempts = 0
        /\ start.pc \in {"starting", "waiting", "dead"}
        /\ \A s \in Stops : stop[s].pc = "none"

\* A stop waits for a process whose handler is the restart handler, and #stopping is set
\* only while a stop waits for the connected one.
Stopping ==
    /\ \A s \in Stops : stop[s].pc = "waiting" =>
          /\ stop[s].child \in Gateways
          /\ gateway[stop[s].child].handler = "restart"
          /\ ~late => stopping
    /\ stopping => \E s \in Stops : stop[s] = [pc |-> "waiting", child |-> processState]

\* As long as the preferred port was free at every start, nothing else was given out.
PortsInUse ==
    ~clash => /\ target \in {PreferredPort, None}
              /\ \A g \in Gateways : gateway[g].handler # "none" => gateway[g].port = PreferredPort

Inv ==
    /\ Types
    /\ Handlers
    /\ Counting
    /\ ComingUp
    /\ ConnectionIsWatched
    /\ Stopping
    /\ StopExcludesRestart
    /\ StoppedStaysStopped
    /\ PortsInUse

\* The invariant gives the properties that are not its conjuncts.
LEMMA InvGives ==
    ASSUME Inv
    PROVE  TypeOK /\ ClientFollowsTheGateway
<1> USE PortsAssumption, LimitsAssumption
<1>1. tries \in 0..MaxRestarts
  BY DEF Inv, Types, Counting
<1>2. TypeOK
  <2>1. Types
    BY DEF Inv
  <2> QED BY <1>1, <2>1, Zenon DEF Types, TypeOK
<1>3. ASSUME processState # None, ~clash
      PROVE  gateway[processState].port = target
  <2>1. processState \in Gateways /\ gateway[processState].handler = "restart"
    BY <1>3 DEF Inv, Types, ConnectionIsWatched
  <2>2. gateway[processState].port = PreferredPort
    BY <1>3, <2>1 DEF Inv, PortsInUse
  <2>3. target # None /\ target \in {PreferredPort, None}
    BY <1>3 DEF Inv, ComingUp, PortsInUse
  <2> QED BY <2>2, <2>3
<1>4. ClientFollowsTheGateway
  BY <1>3 DEF ClientFollowsTheGateway
<1> QED BY <1>2, <1>4

\* The sidecar starts within the invariant.
LEMMA InitInv == Init => Inv
<1> SUFFICES ASSUME Init PROVE Inv
  OBVIOUS
<1> USE PortsAssumption, LimitsAssumption
<1>1. \A g \in Gateways : gateway[g] = Gone
  BY DEF Init
<1>2. \A s \in Stops : stop[s].pc = "none"
  BY DEF Init
<1>3. start.pc = "starting" /\ start.child = None
  BY DEF Init
<1>4. Types
  <2>1. gateway \in [Gateways -> [state : {"gone", "booting", "listening", "exited"},
                                 port : Ports \cup {None},
                                 handler : {"none", "startup", "restart"}]]
    BY DEF Init, Gone
  <2>2. start \in [pc : {"starting", "waiting", "backoff", "idle", "givenUp", "dead"},
                   child : Gateways \cup {None}]
    BY DEF Init
  <2>3. stop \in [Stops -> [pc : {"none", "waiting", "stopped", "returned"},
                            child : Gateways \cup {None}]]
    BY DEF Init
  <2>4. attempts \in 0..(MaxRestarts + 1) /\ tries \in Nat /\ foreign \subseteq {PreferredPort}
    BY DEF Init
  <2> QED BY <2>1, <2>2, <2>3, <2>4 DEF Init, Types
<1>5. Handlers
  BY <1>1, <1>3 DEF Handlers, OneRestartAtATime, Gone
<1>6. Counting /\ ComingUp
  BY <1>2, <1>3 DEF Init, Counting, ComingUp
<1>7. ConnectionIsWatched /\ Stopping /\ StopExcludesRestart /\ StoppedStaysStopped
  BY <1>1, <1>2 DEF Init, ConnectionIsWatched, Stopping, StopExcludesRestart, StoppedStaysStopped, Gone
<1>8. PortsInUse
  BY <1>1 DEF Init, PortsInUse, Gone
<1> QED BY <1>4, <1>5, <1>6, <1>7, <1>8 DEF Inv

\* After a failed start, the processes and the connection being as they are: the restart
\* that is scheduled, or the end.
LEMMA RejectedKeeps ==
    ASSUME Inv, NEW within \in BOOLEAN, within => recent,
           start.pc # "givenUp",
           Rejected(within), target' = target, processState' = processState,
           stopping' = stopping, stop' = stop,
           recent' = within,
           tries' \in {0, tries}, ~within => tries' = 0
    PROVE  /\ start'.pc \in {"backoff", "givenUp", "dead"}
           /\ start'.child = None
           /\ start' \in [pc : {"backoff", "givenUp", "dead"}, child : {None}]
           /\ attempts' \in 0..(MaxRestarts + 1)
           /\ Counting'
           /\ ComingUp'
<1> USE LimitsAssumption
<1>0. attempts \in 0..MaxRestarts /\ tries \in Nat /\ tries <= attempts
  BY DEF Inv, Types, Counting
<1>1. CASE target # None
  <2> DEFINE n == (IF within THEN attempts ELSE 0) + 1
  <2>1. /\ attempts' = n
        /\ start' = [pc |-> IF n > MaxRestarts THEN "givenUp" ELSE "backoff", child |-> None]
    BY <1>1 DEF Rejected, ScheduleRestart
  <2>2. tries' < n /\ n \in 0..(MaxRestarts + 1)
    BY <1>0
  <2> HIDE DEF n
  <2>3. ~recent' => tries' = 0
    BY <1>0 DEF Inv, Counting
  <2>4. Counting'
    <3>1. tries' <= attempts' /\ tries' < attempts'
      BY <2>1, <2>2, <1>0
    <3>2. start'.pc # "givenUp" => attempts' <= MaxRestarts
      BY <2>1, <2>2
    <3> QED BY <3>1, <3>2, <2>3 DEF Counting
  <2>5. ComingUp'
    BY <1>1 DEF ComingUp
  <2> QED BY <2>1, <2>2, <2>4, <2>5
<1>2. CASE target = None
  <2>1. start' = [pc |-> "dead", child |-> None] /\ attempts' = attempts
    BY <1>2 DEF Rejected
  <2>2. ~recent /\ tries = 0
    BY <1>2 DEF Inv, ComingUp, Counting
  <2> QED BY <2>1, <2>2, <1>0, <1>2 DEF Inv, Counting, ComingUp
<1> QED BY <1>1, <1>2

\* With a restart handler on g, start() is at rest, and no other process has a handler.
LEMMA WatchedAlone ==
    ASSUME Inv, NEW g \in Gateways, gateway[g].handler = "restart"
    PROVE  start.pc = "idle" /\ \A h \in Gateways \ {g} : gateway[h].handler = "none"
BY DEF Inv, Handlers, OneRestartAtATime

\* While start() is under way, paused or over, no process has a restart handler, nothing is
\* connected, no stop waits and none, if gateways exit in time, has ended.
LEMMA NotAtRest ==
    ASSUME Inv, start.pc # "idle"
    PROVE  /\ \A g \in Gateways : gateway[g].handler # "restart"
           /\ processState = None
           /\ ~stopping
           /\ \A s \in Stops : stop[s].pc # "waiting"
           /\ ~late => \A s \in Stops : stop[s].pc # "stopped"
<1>1. \A g \in Gateways : gateway[g].handler # "restart"
  BY DEF Inv, Handlers, OneRestartAtATime
<1>2. processState = None /\ \A s \in Stops : stop[s].pc # "waiting"
  BY <1>1 DEF Inv, Types, ConnectionIsWatched, Stopping
<1>3. ~stopping
  BY DEF Inv, StopExcludesRestart
<1>4. ~late => \A s \in Stops : stop[s].pc # "stopped"
  BY DEF Inv, StoppedStaysStopped
<1> QED BY <1>1, <1>2, <1>3, <1>4

\* The pause ends in another start.
LEMMA BackoffStep == Inv /\ BackoffEnds => Inv'
<1> SUFFICES ASSUME Inv, BackoffEnds PROVE Inv'
  OBVIOUS
<1> USE PortsAssumption, LimitsAssumption
<1>1. /\ start.pc = "backoff"
      /\ start' = [pc |-> "starting", child |-> None]
      /\ recent' = TRUE
      /\ tries' = tries + 1
      /\ UNCHANGED <<gateway, processState, stopping, attempts, stop, target, foreign, clash, late>>
  BY NotAtRest DEF BackoffEnds
<1>2. Types' BY <1>1 DEF Inv, Types
<1>3. Handlers' BY <1>1 DEF Inv, Handlers, OneRestartAtATime
<1>4. Counting'
  <2>1. tries + 1 <= attempts
    BY <1>1 DEF Inv, Types, Counting
  <2> QED BY <1>1, <2>1 DEF Inv, Counting
<1>5. ComingUp' BY <1>1 DEF Inv, ComingUp
<1>6. ConnectionIsWatched' /\ Stopping' BY <1>1 DEF Inv, ConnectionIsWatched, Stopping
<1>7. StopExcludesRestart' /\ StoppedStaysStopped'
  BY <1>1, NotAtRest DEF StopExcludesRestart, StoppedStaysStopped
<1>8. PortsInUse' BY <1>1 DEF Inv, PortsInUse
<1> QED BY <1>2, <1>3, <1>4, <1>5, <1>6, <1>7, <1>8 DEF Inv

\* A spawned process is the one that start() waits for.
LEMMA SpawnStep == ASSUME Inv, NEW g \in Gateways, Spawn(g) PROVE Inv'
<1> USE PortsAssumption, LimitsAssumption
<1>1. PICK port \in PickPort : gateway' = [gateway EXCEPT ![g] = [state |-> "booting", port |-> port,
                                                                   handler |-> "startup"]]
  BY DEF Spawn
<1>2. /\ start.pc = "starting" /\ gateway[g].state = "gone"
      /\ start' = [pc |-> "waiting", child |-> g]
      /\ clash' = (clash \/ Busy(PreferredPort))
      /\ UNCHANGED <<processState, stopping, attempts, recent, stop, target, foreign, tries, late>>
  BY DEF Spawn
<1>3. port \in Ports /\ (~Busy(PreferredPort) => port = PreferredPort)
  BY <1>1 DEF PickPort
<1>4. /\ gateway'[g].handler = "startup" /\ gateway'[g].port = port /\ gateway'[g].state = "booting"
      /\ \A h \in Gateways \ {g} : gateway'[h] = gateway[h]
  BY <1>1 DEF Inv, Types
<1>5. Types'
  <2>1. gateway' \in [Gateways -> [state : {"gone", "booting", "listening", "exited"},
                                  port : Ports \cup {None},
                                  handler : {"none", "startup", "restart"}]]
    BY <1>1, <1>3 DEF Inv, Types
  <2>2. clash' \in BOOLEAN
    BY <1>2 DEF Inv, Types
  <2> QED BY <2>1, <2>2, <1>2 DEF Inv, Types
<1>6. \A h \in Gateways : gateway[h].handler = "none"
  <2> TAKE h \in Gateways
  <2>1. gateway[h].handler # "restart"
    BY <1>2, NotAtRest
  <2>2. gateway[h].handler # "startup"
    BY <1>2 DEF Inv, Handlers, OneRestartAtATime
  <2> QED BY <2>1, <2>2 DEF Inv, Types
<1>7. Handlers'
  <2>1. port # None /\ start'.pc = "waiting" /\ start'.child = g
    BY <1>2, <1>3
  <2>2. \A h \in Gateways : (gateway'[h].state = "gone" => gateway'[h].handler = "none")
                             /\ (gateway'[h].port = None => gateway'[h].state = "gone")
    BY <1>4, <2>1 DEF Inv, Handlers
  <2>3. ASSUME NEW h \in Gateways
        PROVE  /\ gateway'[h].handler # "restart"
               /\ gateway'[h].handler = "startup" <=> h = g
    BY <1>4, <1>6
  <2>4. OneRestartAtATime'
    BY <2>3, <1>2, <2>1 DEF OneRestartAtATime
  <2> QED BY <2>1, <2>2, <2>4 DEF Handlers
<1>8. Counting' /\ ComingUp'
  BY <1>2 DEF Inv, Counting, ComingUp
<1>9. ConnectionIsWatched' /\ Stopping' /\ StopExcludesRestart' /\ StoppedStaysStopped'
  BY <1>2, <1>4, <1>6, NotAtRest
  DEF ConnectionIsWatched, Stopping, StopExcludesRestart, StoppedStaysStopped
<1>10. PortsInUse'
  BY <1>2, <1>3, <1>4, <1>6 DEF Inv, PortsInUse
<1> QED BY <1>5, <1>7, <1>8, <1>9, <1>10 DEF Inv

\* What a failed start leaves: the processes as they were but without handlers.
LEMMA FailedStart ==
    ASSUME Inv, start.pc \in {"starting", "waiting"},
           gateway' \in [Gateways -> [state : {"gone", "booting", "listening", "exited"},
                                      port : Ports \cup {None}, handler : {"none"}]],
           \A g \in Gateways : gateway'[g].port = None => gateway'[g].state = "gone",
           Rejected(recent'), recent' \in BOOLEAN, recent' => recent,
           tries' \in {0, tries}, ~recent' => tries' = 0,
           UNCHANGED <<processState, stopping, stop, target, foreign, clash, late>>
    PROVE  Inv'
<1> USE PortsAssumption, LimitsAssumption
<1>1. /\ start'.pc \in {"backoff", "givenUp", "dead"} /\ start'.child = None
      /\ start' \in [pc : {"backoff", "givenUp", "dead"}, child : {None}]
      /\ attempts' \in 0..(MaxRestarts + 1)
      /\ Counting' /\ ComingUp'
  BY RejectedKeeps
<1>2. \A g \in Gateways : gateway'[g].handler = "none"
  OBVIOUS
<1>3. Types'
  <2>1. gateway' \in [Gateways -> [state : {"gone", "booting", "listening", "exited"},
                                  port : Ports \cup {None},
                                  handler : {"none", "startup", "restart"}]]
    OBVIOUS
  <2>2. start' \in [pc : {"starting", "waiting", "backoff", "idle", "givenUp", "dead"},
                    child : Gateways \cup {None}]
    BY <1>1
  <2>3. tries' \in Nat
    BY DEF Inv, Types
  <2> QED BY <2>1, <2>2, <2>3, <1>1 DEF Inv, Types
<1>4. Handlers'
  BY <1>1, <1>2 DEF Inv, Handlers, OneRestartAtATime
<1>5. ConnectionIsWatched' /\ Stopping' /\ StopExcludesRestart' /\ StoppedStaysStopped'
  <2>1. start.pc # "idle"
    OBVIOUS
  <2>2. /\ processState' = None /\ ~stopping'
        /\ \A s \in Stops : stop'[s].pc # "waiting"
        /\ ~late => \A s \in Stops : stop'[s].pc # "stopped"
    BY <2>1, NotAtRest
  <2> QED BY <1>2, <2>2 DEF ConnectionIsWatched, Stopping, StopExcludesRestart, StoppedStaysStopped
<1>6. PortsInUse'
  BY <1>2 DEF Inv, PortsInUse
<1> QED BY <1>1, <1>3, <1>4, <1>5, <1>6 DEF Inv

\* start() fails before it has spawned a process.
LEMMA SpawnFailsStep == Inv /\ SpawnFails => Inv'
<1> SUFFICES ASSUME Inv, SpawnFails PROVE Inv'
  OBVIOUS
<1>1. /\ start.pc = "starting" /\ Rejected(recent)
      /\ UNCHANGED <<gateway, processState, stopping, recent, stop, target, foreign, clash, tries, late>>
  BY DEF SpawnFails
<1>2. \A g \in Gateways : gateway[g].handler = "none"
  <2> TAKE g \in Gateways
  <2>1. gateway[g].handler # "restart"
    BY <1>1, NotAtRest
  <2>2. gateway[g].handler # "startup"
    BY <1>1 DEF Inv, Handlers, OneRestartAtATime
  <2> QED BY <2>1, <2>2 DEF Inv, Types
<1>3. gateway' \in [Gateways -> [state : {"gone", "booting", "listening", "exited"},
                                port : Ports \cup {None}, handler : {"none"}]]
  BY <1>1, <1>2 DEF Inv, Types
<1>4. \A g \in Gateways : gateway'[g].port = None => gateway'[g].state = "gone"
  BY <1>1 DEF Inv, Handlers
<1>5. recent' \in BOOLEAN /\ (~recent => tries = 0)
  BY <1>1 DEF Inv, Types, Counting
<1>6. Rejected(recent')
  BY <1>1
<1> QED BY <1>1, <1>3, <1>4, <1>5, <1>6, FailedStart

\* No process has a handler but the one that start() waits for.
LEMMA OthersHaveNone ==
    ASSUME Inv, start.pc = "waiting"
    PROVE  /\ start.child \in Gateways
           /\ \A g \in Gateways \ {start.child} : gateway[g].handler = "none"
           /\ gateway[start.child].handler = "startup"
<1>1. start.child \in Gateways /\ start = [pc |-> "waiting", child |-> start.child]
  BY DEF Inv, Types, Handlers
<1>2. ASSUME NEW g \in Gateways \ {start.child}
      PROVE  gateway[g].handler = "none"
  <2>1. gateway[g].handler # "restart"
    BY NotAtRest
  <2>2. gateway[g].handler # "startup"
    BY DEF Inv, Handlers, OneRestartAtATime
  <2> QED BY <2>1, <2>2 DEF Inv, Types
<1>3. gateway[start.child].handler = "startup"
  BY <1>1 DEF Inv, Handlers, OneRestartAtATime
<1> QED BY <1>1, <1>2, <1>3

\* The process that did not answer is left without a handler.
LEMMA ReadyTimesOutStep == Inv /\ ReadyTimesOut => Inv'
<1> SUFFICES ASSUME Inv, ReadyTimesOut PROVE Inv'
  OBVIOUS
<1> USE LimitsAssumption
<1>1. /\ start.pc = "waiting"
      /\ gateway' = [gateway EXCEPT ![start.child].handler = "none"]
      /\ recent' = (recent /\ ~SlowStart)
      /\ tries' = IF recent /\ SlowStart THEN 0 ELSE tries
      /\ Rejected(recent /\ ~SlowStart)
      /\ UNCHANGED <<processState, stopping, stop, target, foreign, clash, late>>
  BY DEF ReadyTimesOut
<1>2. /\ gateway' \in [Gateways -> [state : {"gone", "booting", "listening", "exited"},
                                   port : Ports \cup {None}, handler : {"none"}]]
      /\ \A g \in Gateways : gateway'[g].port = None => gateway'[g].state = "gone"
  BY <1>1, OthersHaveNone DEF Inv, Types, Handlers
<1>3. recent' \in BOOLEAN /\ (recent' => recent) /\ (~recent' => tries' = 0)
  BY <1>1 DEF Inv, Types, Counting
<1>4. Rejected(recent')
  BY <1>1
<1> QED BY <1>1, <1>2, <1>3, <1>4, FailedStart

\* The gateway that answers is the connected one, and its exit is listened for.
LEMMA ReadyStep == Inv /\ Ready => Inv'
<1> SUFFICES ASSUME Inv, Ready PROVE Inv'
  OBVIOUS
<1> USE PortsAssumption, LimitsAssumption
<1> DEFINE g == start.child
<1>1. /\ start.pc = "waiting"
      /\ gateway' = [gateway EXCEPT ![g].handler = "restart"]
      /\ processState' = g
      /\ attempts' = 0 /\ tries' = 0
      /\ start' = [pc |-> "idle", child |-> None]
      /\ target' = IF target = None THEN gateway[g].port ELSE target
      /\ UNCHANGED <<stopping, recent, stop, foreign, clash, late>>
  BY DEF Ready, Idle
<1>2. \E h \in Gateways : gateway[h].state = "listening" /\ gateway[h].port = gateway[g].port
  BY DEF Ready, Answers
<1>3. /\ g \in Gateways /\ gateway[g].handler = "startup"
      /\ \A h \in Gateways \ {g} : gateway[h].handler = "none"
  BY <1>1, OthersHaveNone
<1> HIDE DEF g
<1>4. /\ gateway'[g].handler = "restart" /\ gateway'[g].state = gateway[g].state
      /\ gateway'[g].port = gateway[g].port
      /\ \A h \in Gateways \ {g} : gateway'[h] = gateway[h]
  BY <1>1, <1>3 DEF Inv, Types
<1>5. Types'
  <2>1. gateway' \in [Gateways -> [state : {"gone", "booting", "listening", "exited"},
                                  port : Ports \cup {None},
                                  handler : {"none", "startup", "restart"}]]
    BY <1>1, <1>3 DEF Inv, Types
  <2>2. target' \in Ports \cup {None}
    BY <1>1, <1>3 DEF Inv, Types
  <2> QED BY <2>1, <2>2, <1>1, <1>3 DEF Inv, Types
<1>6. gateway[g].state # "gone" /\ gateway[g].port # None
  BY <1>3 DEF Inv, Handlers
<1>7. Handlers'
  BY <1>1, <1>3, <1>4, <1>6 DEF Inv, Handlers, OneRestartAtATime
<1>8. Counting'
  BY <1>1 DEF Inv, Counting
<1>9. ComingUp'
  BY <1>1, <1>6 DEF Inv, ComingUp
<1>10. ConnectionIsWatched'
  BY <1>1, <1>3, <1>4 DEF ConnectionIsWatched
<1>11. /\ ~stopping' /\ \A s \in Stops : stop'[s].pc # "waiting"
       /\ ~late => \A s \in Stops : stop'[s].pc # "stopped"
  BY <1>1, NotAtRest
<1>12. Stopping' /\ StopExcludesRestart' /\ StoppedStaysStopped'
  BY <1>1, <1>11 DEF Stopping, StopExcludesRestart, StoppedStaysStopped
<1>13. PortsInUse'
  BY <1>1, <1>3, <1>4 DEF Inv, PortsInUse
<1> QED BY <1>5, <1>7, <1>8, <1>9, <1>10, <1>12, <1>13 DEF Inv

\* stop() waits for the connected process, which has the restart handler.
LEMMA StopStep == ASSUME Inv, NEW s \in Stops, Stop(s) PROVE Inv'
<1> USE PortsAssumption, LimitsAssumption
<1>1. /\ target # None /\ stop[s].pc = "none"
      /\ UNCHANGED <<gateway, processState, attempts, recent, start, target, foreign, clash, tries, late>>
  BY DEF Stop
<1>2. Handlers' /\ Counting' /\ ComingUp' /\ ConnectionIsWatched' /\ PortsInUse'
  BY <1>1 DEF Inv, Handlers, OneRestartAtATime, Counting, ComingUp, ConnectionIsWatched, PortsInUse
<1>3. CASE processState = None
  <2>1. stop' = [stop EXCEPT ![s].pc = "returned"] /\ stopping' = stopping
    BY <1>3 DEF Stop
  <2>2. /\ stop'[s].pc = "returned"
        /\ \A r \in Stops \ {s} : stop'[r] = stop[r]
    BY <2>1 DEF Inv, Types
  <2>3. ~stopping
    BY <1>3 DEF Inv, StopExcludesRestart
  <2>4. stop' \in [Stops -> [pc : {"none", "waiting", "stopped", "returned"},
                             child : Gateways \cup {None}]]
    BY <2>1 DEF Inv, Types
  <2>5. Types'
    BY <1>1, <2>1, <2>4 DEF Inv, Types
  <2>6. Stopping'
    BY <1>1, <2>1, <2>2, <2>3 DEF Inv, Stopping
  <2>7. StopExcludesRestart' /\ StoppedStaysStopped'
    BY <1>1, <2>1, <2>2, <2>3 DEF Inv, StopExcludesRestart, StoppedStaysStopped
  <2> QED BY <1>2, <2>5, <2>6, <2>7 DEF Inv
<1>4. CASE processState # None
  <2>1. stop' = [stop EXCEPT ![s] = [pc |-> "waiting", child |-> processState]] /\ stopping' = TRUE
    BY <1>4 DEF Stop
  <2>2. /\ stop'[s] = [pc |-> "waiting", child |-> processState]
        /\ \A r \in Stops \ {s} : stop'[r] = stop[r]
    BY <2>1 DEF Inv, Types
  <2>3. processState \in Gateways /\ gateway[processState].handler = "restart"
    BY <1>4 DEF Inv, Types, ConnectionIsWatched
  <2>4. start.pc = "idle"
    BY <2>3, WatchedAlone
  <2>5. stop' \in [Stops -> [pc : {"none", "waiting", "stopped", "returned"},
                             child : Gateways \cup {None}]]
    BY <2>1, <2>3 DEF Inv, Types
  <2>6. Types'
    BY <1>1, <2>1, <2>5 DEF Inv, Types
  <2>7. Stopping'
    BY <1>1, <2>1, <2>2, <2>3 DEF Inv, Stopping
  <2>8. StopExcludesRestart'
    BY <1>1, <1>4, <2>4 DEF StopExcludesRestart
  <2>9. ~late => \A r \in Stops : stop'[r].pc # "stopped"
    BY <1>4, <2>2 DEF Inv, StoppedStaysStopped
  <2>10. StoppedStaysStopped'
    BY <1>1, <2>9 DEF StoppedStaysStopped
  <2> QED BY <1>2, <2>6, <2>7, <2>8, <2>10 DEF Inv
<1> QED BY <1>3, <1>4

\* A stop that gives up leaves its process with the restart handler, at rest.
LEMMA StopTimesOutStep == ASSUME Inv, NEW s \in Stops, StopTimesOut(s) PROVE Inv'
<1> USE PortsAssumption, LimitsAssumption
<1>1. /\ late' = TRUE /\ stop[s].pc = "waiting"
      /\ stop' = [stop EXCEPT ![s].pc = "stopped"]
      /\ stopping' = FALSE /\ processState' = None
      /\ UNCHANGED <<gateway, attempts, recent, start, target, foreign, clash, tries>>
  BY DEF StopTimesOut
<1>2. /\ stop'[s].pc = "stopped"
      /\ \A r \in Stops \ {s} : stop'[r] = stop[r]
  BY <1>1 DEF Inv, Types
<1>3. Types'
  <2>1. stop' \in [Stops -> [pc : {"none", "waiting", "stopped", "returned"},
                             child : Gateways \cup {None}]]
    BY <1>1 DEF Inv, Types
  <2> QED BY <1>1, <2>1 DEF Inv, Types
<1>4. Handlers' /\ Counting' /\ PortsInUse'
  BY <1>1 DEF Inv, Handlers, OneRestartAtATime, Counting, PortsInUse
<1>5. target # None
  BY <1>1 DEF Inv, ComingUp
<1>6. ComingUp' /\ ConnectionIsWatched' /\ StopExcludesRestart' /\ StoppedStaysStopped'
  BY <1>1, <1>5 DEF ComingUp, ConnectionIsWatched, StopExcludesRestart, StoppedStaysStopped
<1>7. Stopping'
  BY <1>1, <1>2 DEF Inv, Stopping
<1> QED BY <1>3, <1>4, <1>6, <1>7 DEF Inv

\* An exit that nobody listens for, of a process that no stop waits for.
LEMMA UnheardExit ==
    ASSUME Inv, NEW g \in Gateways, gateway[g].handler = "none",
           gateway' = [gateway EXCEPT ![g] = Gone],
           UNCHANGED <<processState, stopping, attempts, recent, start, stop, target, foreign, clash, tries, late>>
    PROVE  Inv'
<1> USE PortsAssumption, LimitsAssumption
<1>1. /\ gateway'[g] = Gone
      /\ \A h \in Gateways \ {g} : gateway'[h] = gateway[h]
  BY DEF Inv, Types
<1>2. \A h \in Gateways : gateway'[h].handler = gateway[h].handler
  BY <1>1 DEF Gone
<1>3. Types'
  <2>1. gateway' \in [Gateways -> [state : {"gone", "booting", "listening", "exited"},
                                  port : Ports \cup {None},
                                  handler : {"none", "startup", "restart"}]]
    BY DEF Inv, Types, Gone
  <2> QED BY <2>1 DEF Inv, Types
<1>4. Handlers'
  <2>1. OneRestartAtATime'
    BY <1>2 DEF Inv, Handlers, OneRestartAtATime
  <2> QED BY <1>1, <2>1 DEF Inv, Handlers, Gone
<1>5. Counting' /\ ComingUp'
  BY DEF Inv, Counting, ComingUp
<1>6. ConnectionIsWatched' /\ Stopping' /\ StopExcludesRestart' /\ StoppedStaysStopped'
  BY <1>2 DEF Inv, Types, ConnectionIsWatched, Stopping, StopExcludesRestart, StoppedStaysStopped
<1>7. PortsInUse'
  BY <1>1, <1>2 DEF Inv, PortsInUse
<1> QED BY <1>3, <1>4, <1>5, <1>6, <1>7 DEF Inv

\* The exit of a process: nobody listens, or it was being started, or it was the gateway.
LEMMA ExitStep == ASSUME Inv, NEW g \in Gateways, Exit(g) PROVE Inv'
<1> USE PortsAssumption, LimitsAssumption
<1> DEFINE waiting == {s \in Stops : stop[s] = [pc |-> "waiting", child |-> g]}
           reacts == ~stopping /\ start.pc # "dead"
<1>1. /\ gateway' = [gateway EXCEPT ![g] = Gone]
      /\ reacts /\ gateway[g].handler = "startup" => Rejected(recent)
      /\ reacts /\ gateway[g].handler = "restart" => ScheduleRestart(recent)
      /\ ~reacts \/ gateway[g].handler = "none" => UNCHANGED <<attempts, start>>
      /\ processState' = IF waiting # {} \/ (reacts /\ gateway[g].handler = "restart")
                         THEN None ELSE processState
      /\ stopping' = (stopping /\ waiting = {})
      /\ stop' = [s \in Stops |-> IF s \in waiting THEN [stop[s] EXCEPT !.pc = "stopped"] ELSE stop[s]]
      /\ UNCHANGED <<recent, target, foreign, clash, tries, late>>
  BY DEF Exit
<1>2. waiting # {} => gateway[g].handler = "restart"
  BY DEF Inv, Stopping
<1>3. waiting = {} => stop' = stop
  BY <1>1 DEF Inv, Types
<1>4. /\ gateway'[g] = Gone
      /\ \A h \in Gateways \ {g} : gateway'[h] = gateway[h]
  BY <1>1 DEF Inv, Types
<1>5. CASE gateway[g].handler = "none"
  <2>1. UNCHANGED <<processState, stopping, attempts, recent, start, stop, target, foreign, clash, tries, late>>
    BY <1>1, <1>2, <1>3, <1>5 DEF Inv, Types
  <2> QED BY <1>1, <1>5, <2>1, UnheardExit
<1>6. CASE gateway[g].handler = "startup"
  <2>1. start.pc = "waiting" /\ start.child = g
    BY <1>6 DEF Inv, Handlers, OneRestartAtATime
  <2>2. ~stopping
    BY <2>1, NotAtRest
  <2>3. Rejected(recent) /\ UNCHANGED <<processState, stopping, recent, stop, target, foreign, clash, tries, late>>
    <3>1. waiting = {} /\ reacts
      BY <1>2, <1>6, <2>1, <2>2
    <3>2. stopping' = stopping /\ stop' = stop /\ processState' = processState
      BY <3>1, <1>1, <1>3, <1>6, <2>2 DEF Inv, Types
    <3> HIDE DEF waiting, reacts
    <3> QED BY <3>1, <3>2, <1>1, <1>6
  <2>4. \A h \in Gateways : gateway'[h].handler = "none"
    BY <1>4, <2>1, OthersHaveNone DEF Gone
  <2>5. /\ gateway' \in [Gateways -> [state : {"gone", "booting", "listening", "exited"},
                                     port : Ports \cup {None}, handler : {"none"}]]
        /\ \A h \in Gateways : gateway'[h].port = None => gateway'[h].state = "gone"
    BY <1>1, <1>4, <2>4 DEF Inv, Types, Handlers, Gone
  <2>6. recent' \in BOOLEAN /\ (recent' => recent) /\ (~recent' => tries' = 0) /\ Rejected(recent')
    BY <2>3 DEF Inv, Types, Counting
  <2> QED BY <2>1, <2>3, <2>5, <2>6, FailedStart
<1>7. CASE gateway[g].handler = "restart"
  <2>1. start.pc = "idle" /\ \A h \in Gateways \ {g} : gateway[h].handler = "none"
    BY <1>7, WatchedAlone
  <2>2. target # None
    BY <2>1 DEF Inv, ComingUp
  <2>3. \A h \in Gateways : gateway'[h].handler = "none"
    BY <1>4, <2>1 DEF Gone
  <2>4. gateway' \in [Gateways -> [state : {"gone", "booting", "listening", "exited"},
                                  port : Ports \cup {None},
                                  handler : {"none", "startup", "restart"}]]
    BY <1>1 DEF Inv, Types, Gone
  <2>5. stop' \in [Stops -> [pc : {"none", "waiting", "stopped", "returned"},
                             child : Gateways \cup {None}]]
    BY <1>1 DEF Inv, Types
  <2>6. \A s \in Stops : stop'[s].pc # "waiting"
    <3> TAKE s \in Stops
    <3>1. CASE s \in waiting
      BY <3>1, <1>1 DEF Inv, Types
    <3>2. CASE s \notin waiting
      <4>1. stop'[s] = stop[s]
        BY <3>2, <1>1
      <4>2. ASSUME stop[s].pc = "waiting" PROVE FALSE
        <5>1. stop[s].child = g
          BY <4>2, <2>1 DEF Inv, Stopping
        <5>2. stop[s] = [pc |-> stop[s].pc, child |-> stop[s].child]
          BY DEF Inv, Types
        <5> QED BY <3>2, <4>2, <5>1, <5>2
      <4> QED BY <4>1, <4>2
    <3> QED BY <3>1, <3>2
  <2>7. processState' = None /\ stopping' = FALSE
    <3>1. CASE ~stopping
      BY <3>1, <2>1, <1>1, <1>7
    <3>2. CASE stopping
      <4>1. processState \in Gateways /\ gateway[processState].handler = "restart"
        BY <3>2 DEF Inv, Types, StopExcludesRestart, ConnectionIsWatched
      <4>2. processState = g
        BY <4>1, <2>1
      <4>3. waiting # {}
        BY <3>2, <4>2 DEF Inv, Stopping
      <4> QED BY <4>3, <1>1
    <3> QED BY <3>1, <3>2 DEF Inv, Types
  <2>8. CASE stopping
    <3>1. UNCHANGED <<attempts, start>>
      BY <2>8, <1>1
    <3>2. Types'
      BY <3>1, <2>4, <2>5, <2>7, <1>1 DEF Inv, Types
    <3>3. Handlers'
      BY <3>1, <2>1, <2>3, <1>4 DEF Inv, Handlers, OneRestartAtATime, Gone
    <3>4. Counting' /\ ComingUp'
      BY <3>1, <2>2, <1>1 DEF Inv, Counting, ComingUp
    <3>5. ConnectionIsWatched' /\ Stopping' /\ StopExcludesRestart' /\ StoppedStaysStopped'
      BY <3>1, <2>1, <2>3, <2>6, <2>7
      DEF ConnectionIsWatched, Stopping, StopExcludesRestart, StoppedStaysStopped
    <3>6. PortsInUse'
      BY <1>1, <2>3 DEF Inv, PortsInUse
    <3> QED BY <3>2, <3>3, <3>4, <3>5, <3>6 DEF Inv
  <2>9. CASE ~stopping
    <3>1. Rejected(recent)
      BY <2>9, <2>1, <2>2, <1>1, <1>7 DEF Rejected
    <3>2. \A s \in Stops : ~late' => stop'[s].pc # "stopped"
      <4> SUFFICES ASSUME NEW s \in Stops, ~late' PROVE stop'[s].pc # "stopped"
        OBVIOUS
      <4>0. ~late
        BY <1>1
      <4>1. waiting = {}
        BY <2>9, <4>0 DEF Inv, Stopping
      <4>2. stop'[s] = stop[s]
        BY <4>1, <1>3
      <4> QED BY <4>0, <4>2, <1>7 DEF Inv, StoppedStaysStopped
    <3>3. recent' = recent /\ recent \in BOOLEAN /\ target' = target /\ tries' = tries /\ (~recent => tries = 0)
      BY <1>1 DEF Inv, Types, Counting
    <3>4. attempts \in 0..MaxRestarts /\ tries \in Nat /\ tries <= attempts
      BY <2>1 DEF Inv, Types, Counting
    <3>5. LET n == (IF recent THEN attempts ELSE 0) + 1
          IN  /\ attempts' = n
              /\ start' = [pc |-> IF n > MaxRestarts THEN "givenUp" ELSE "backoff", child |-> None]
      BY <3>1, <2>2 DEF Rejected, ScheduleRestart
    <3>6. /\ start' \in [pc : {"backoff", "givenUp"}, child : {None}]
          /\ attempts' \in 0..(MaxRestarts + 1) /\ tries' < attempts'
          /\ start'.pc # "givenUp" => attempts' <= MaxRestarts
      BY <3>3, <3>4, <3>5
    <3>7. Types'
      BY <3>3, <3>4, <3>6, <2>4, <2>5, <2>7, <1>1 DEF Inv, Types
    <3>8. Handlers'
      <4>1. OneRestartAtATime'
        BY <3>6, <2>3 DEF OneRestartAtATime
      <4> QED BY <4>1, <3>6, <2>3, <1>4 DEF Inv, Handlers, Gone
    <3>9. Counting' /\ ComingUp'
      BY <3>3, <3>4, <3>6, <2>2 DEF Counting, ComingUp
    <3>10. ConnectionIsWatched' /\ Stopping' /\ StopExcludesRestart' /\ StoppedStaysStopped'
      BY <3>2, <2>3, <2>6, <2>7
      DEF ConnectionIsWatched, Stopping, StopExcludesRestart, StoppedStaysStopped
    <3>11. PortsInUse'
      BY <1>1, <2>3 DEF Inv, PortsInUse
    <3> QED BY <3>7, <3>8, <3>9, <3>10, <3>11 DEF Inv
  <2> QED BY <2>8, <2>9
<1> QED BY <1>5, <1>6, <1>7 DEF Inv, Types

\* What the processes, the time and other programs do.
LEMMA EnvironmentStep ==
    ASSUME Inv,
           \/ \E g \in Gateways : Boot(g) \/ Die(g)
           \/ WindowPasses
           \/ Foreign
    PROVE  Inv'
<1> USE PortsAssumption, LimitsAssumption
<1>1. ASSUME NEW g \in Gateways, Boot(g) \/ Die(g) PROVE Inv'
  <2>1. PICK state \in {"exited", "listening"} : gateway' = [gateway EXCEPT ![g].state = state]
    BY <1>1 DEF Boot, Die
  <2>2. gateway[g].state # "gone"
    BY <1>1 DEF Boot, Die
  <2>3. UNCHANGED <<processState, stopping, attempts, recent, start, stop, target, foreign, clash, tries, late>>
    BY <1>1 DEF Boot, Die, supervisor
  <2>4. \A h \in Gateways : /\ gateway'[h].handler = gateway[h].handler
                            /\ gateway'[h].port = gateway[h].port
                            /\ gateway'[h].state = "gone" <=> gateway[h].state = "gone"
    BY <2>1, <2>2 DEF Inv, Types
  <2>5. gateway' \in [Gateways -> [state : {"gone", "booting", "listening", "exited"},
                                  port : Ports \cup {None},
                                  handler : {"none", "startup", "restart"}]]
    BY <2>1 DEF Inv, Types
  <2>6. Types'
    BY <2>3, <2>5 DEF Inv, Types
  <2>7. Handlers' /\ Counting' /\ ComingUp'
    BY <2>3, <2>4 DEF Inv, Handlers, OneRestartAtATime, Counting, ComingUp
  <2>8. ConnectionIsWatched' /\ Stopping' /\ StopExcludesRestart' /\ StoppedStaysStopped' /\ PortsInUse'
    BY <2>3, <2>4
    DEF Inv, Types, ConnectionIsWatched, Stopping, StopExcludesRestart, StoppedStaysStopped, PortsInUse
  <2> QED BY <2>6, <2>7, <2>8 DEF Inv
<1>2. ASSUME WindowPasses \/ Foreign PROVE Inv'
  <2>1. /\ UNCHANGED <<supervisor, gateway>>
        /\ recent' \in BOOLEAN /\ (recent' => recent)
        /\ foreign' \subseteq {PreferredPort}
        /\ tries' \in {0, tries} /\ (~recent' => tries' = 0)
    <3>1. CASE WindowPasses
      BY <3>1 DEF WindowPasses, supervisor, Inv, Types
    <3>2. CASE Foreign
      BY <3>2 DEF Foreign, supervisor, Inv, Types, Counting
    <3> QED BY <1>2, <3>1, <3>2
  <2>2. Types' /\ Counting'
    BY <2>1 DEF supervisor, Inv, Types, Counting
  <2>3. Handlers' /\ ComingUp' /\ ConnectionIsWatched'
    BY <2>1 DEF supervisor, Inv, Handlers, OneRestartAtATime, ComingUp, ConnectionIsWatched
  <2>4. Stopping' /\ StopExcludesRestart' /\ StoppedStaysStopped' /\ PortsInUse'
    BY <2>1 DEF supervisor, Inv, Stopping, StopExcludesRestart, StoppedStaysStopped, PortsInUse
  <2> QED BY <2>2, <2>3, <2>4 DEF Inv
<1> QED BY <1>1, <1>2

\* A step that changes nothing.
LEMMA StutterStep == Inv /\ UNCHANGED vars => Inv'
BY DEF vars, Inv, Types, Handlers, OneRestartAtATime, Counting, ComingUp, ConnectionIsWatched, Stopping,
       StopExcludesRestart, StoppedStaysStopped, PortsInUse

\* The invariant holds in every state of the sidecar.
THEOREM Invariance == Spec => []Inv
<1>1. Inv /\ [Next]_vars => Inv'
  <2> SUFFICES ASSUME Inv, [Next]_vars PROVE Inv'
    OBVIOUS
  <2>1. CASE BackoffEnds BY <2>1, BackoffStep
  <2>2. CASE \E g \in Gateways : Spawn(g) BY <2>2, SpawnStep
  <2>3. CASE SpawnFails BY <2>3, SpawnFailsStep
  <2>4. CASE Ready BY <2>4, ReadyStep
  <2>5. CASE ReadyTimesOut BY <2>5, ReadyTimesOutStep
  <2>6. CASE \E s \in Stops : Stop(s) BY <2>6, StopStep
  <2>7. CASE \E s \in Stops : StopTimesOut(s) BY <2>7, StopTimesOutStep
  <2>8. CASE \E g \in Gateways : Exit(g) BY <2>8, ExitStep
  <2>9. CASE (\E g \in Gateways : Boot(g) \/ Die(g)) \/ WindowPasses \/ Foreign
    BY <2>9, EnvironmentStep
  <2>10. CASE UNCHANGED vars BY <2>10, StutterStep
  <2> QED BY <2>1, <2>2, <2>3, <2>4, <2>5, <2>6, <2>7, <2>8, <2>9, <2>10 DEF Next, Starting, Processes
<1> QED BY InitInv, <1>1, PTL DEF Spec

\* Every variable has its type, and no more restarts are begun in a row than the limit
\* allows (scheduleRestart).
THEOREM TypesAreKept == Spec => []TypeOK
BY Invariance, InvGives, PTL

\* Two chains of restarts never run side by side (the exit handlers of start).
THEOREM RestartsAreSerial == Spec => []OneRestartAtATime
<1>1. Inv => OneRestartAtATime BY DEF Inv, Handlers
<1> QED BY <1>1, Invariance, PTL

\* The connection leads to a process whose exit is listened for (start, stop).
THEOREM ConnectionStaysWatched == Spec => []ConnectionIsWatched
<1>1. Inv => ConnectionIsWatched BY DEF Inv
<1> QED BY <1>1, Invariance, PTL

\* What stop() writes at its end never hides the gateway of a restart.
THEOREM StopAndRestartExclude == Spec => []StopExcludesRestart
<1>1. Inv => StopExcludesRestart BY DEF Inv
<1> QED BY <1>1, Invariance, PTL

\* When gateways exit in time, a stop is final.
THEOREM StopIsFinal == Spec => []StoppedStaysStopped
<1>1. Inv => StoppedStaysStopped BY DEF Inv
<1> QED BY <1>1, Invariance, PTL

\* The client's one connection leads to the gateway unless the preferred port was taken.
THEOREM ClientFollows == Spec => []ClientFollowsTheGateway
BY Invariance, InvGives, PTL

----------------------------------------------------------------------------
(* The client. Its steps are no steps of the supervisor, so that what was  *)
(* proved of Spec holds of ClientSpec.  Of a chat, the texts in its socket *)
(* are what matters: they grow, the last one is the run's whole text.      *)

Record == [
    pc : {"new", "agents.list", "sessions.list", "chat.history", "connect", "chat.send",
          "acknowledged", "stream", "onComplete", "finished", "failed"},
    on : Gateways \cup {None}, frames : Seq(Frames),
    run : {"none", "going", "refused", "final", "error", "aborted"},
    text : 0..MaxText, current : 0..MaxText, written : 0..MaxText, early : BOOLEAN]

\* The frames in the socket, the oldest first.
FramesGrow(ch) ==
    /\ \A i \in 1..Len(ch.frames) :
          /\ ch.frames[i].text <= ch.text
          /\ ch.frames[i].kind \in {"delta", "final"} => ch.current <= ch.frames[i].text
    /\ \A i, j \in 1..Len(ch.frames) :
          i < j /\ ch.frames[i].kind \in {"delta", "final"} /\ ch.frames[j].kind \in {"delta", "final"} =>
              ch.frames[i].text <= ch.frames[j].text
    /\ \A i \in 1..Len(ch.frames) :
          ch.frames[i].kind = "final" =>
              i = Len(ch.frames) /\ ch.frames[i].text = ch.text /\ ch.run = "final"

\* What the stream was given.
Given(ch) ==
    /\ ch.current <= ch.text
    /\ ch.pc # "onComplete" => ch.written = ch.current
    /\ ch.pc = "onComplete" => ch.written = ch.text /\ ch.run = "final" /\ ch.frames = <<>>

HasSocket(ch) ==
    ch.on # None => ch.pc \in {"chat.send", "acknowledged", "stream", "onComplete"}

Sound(ch) == ch \in Record /\ FramesGrow(ch) /\ Given(ch) /\ HasSocket(ch)

ChatInv == chat \in [Chats -> Record] /\ \A c \in Chats : Sound(chat[c])

\* A chat that has not begun, or is over.
LEMMA EmptyIsSound ==
    ASSUME NEW pc \in {"new", "finished", "failed"}
    PROVE  Sound(Stopped(pc)) /\ Sound(NewChat)
<1> DEFINE none == <<>>
<1>1. none \in Seq(Frames) /\ Len(none) = 0 OBVIOUS
<1> HIDE DEF none
<1>2. NewChat \in Record /\ NewChat.frames = none
  <2>1. NewChat = [pc |-> "new", on |-> None, frames |-> none, run |-> "none", text |-> 0,
                   current |-> 0, written |-> 0, early |-> FALSE]
    BY DEF NewChat, none
  <2> QED BY <1>1, <2>1, MaxTextAssumption DEF Record
<1>3. NewChat.pc = "new" /\ NewChat.on = None /\ NewChat.written = 0 /\ NewChat.current = 0 /\ NewChat.text = 0
  BY DEF NewChat
<1>4. Stopped(pc) \in Record
  BY <1>2 DEF Stopped, Record
<1>5. /\ Stopped(pc).frames = none /\ Stopped(pc).pc = pc /\ Stopped(pc).on = None
      /\ Stopped(pc).written = 0 /\ Stopped(pc).current = 0 /\ Stopped(pc).text = 0
  BY <1>2, <1>3 DEF Stopped, Record
<1> QED BY <1>1, <1>2, <1>3, <1>4, <1>5 DEF Sound, FramesGrow, Given, HasSocket

\* Only one chat changes.
LEMMA OneChat ==
    ASSUME ChatInv, NEW c \in Chats, NEW ch, Sound(ch), chat' = [chat EXCEPT ![c] = ch]
    PROVE  ChatInv'
<1>1. chat' \in [Chats -> Record] BY DEF ChatInv, Sound
<1>2. ASSUME NEW d \in Chats PROVE Sound(chat'[d])
  BY <1>2 DEF ChatInv
<1> QED BY <1>1, <1>2 DEF ChatInv
\* Nothing that was said changes.
LEMMA SameText ==
    ASSUME NEW ch, Sound(ch), NEW after \in Record, HasSocket(after),
           after.frames = ch.frames, after.run = ch.run, after.text = ch.text,
           after.current = ch.current, after.written = ch.written,
           after.pc = "onComplete" <=> ch.pc = "onComplete"
    PROVE  Sound(after)
<1>1. FramesGrow(after) BY DEF Sound, FramesGrow
<1>2. Given(after) BY DEF Sound, Given
<1> QED BY <1>1, <1>2 DEF Sound

\* What is at the head of the socket, and what is left behind it.
LEMMA HeadAndTail ==
    ASSUME NEW ch, Sound(ch), ch.frames # <<>>
    PROVE  LET f == Head(ch.frames)
               left == Tail(ch.frames)
           IN  /\ f \in Frames /\ left \in Seq(Frames)
               /\ f.text <= ch.text
               /\ f.kind \in {"delta", "final"} =>
                     /\ ch.current <= f.text
                     /\ \A i \in 1..Len(left) :
                           left[i].kind \in {"delta", "final"} => f.text <= left[i].text
               /\ f.kind = "final" => left = <<>> /\ f.text = ch.text /\ ch.run = "final"
               /\ FramesGrow([ch EXCEPT !.frames = left])
<1> DEFINE fs == ch.frames
           f == Head(fs)
           left == Tail(fs)
<1>1. fs \in Seq(Frames) /\ Len(fs) \in Nat \ {0}
  BY DEF Sound, Record
<1>2. f \in Frames /\ left \in Seq(Frames) /\ f = fs[1] /\ Len(left) = Len(fs) - 1
  BY <1>1
<1>3. \A i \in 1..Len(left) : left[i] = fs[i + 1] /\ i + 1 \in 1..Len(fs) /\ 1 < i + 1
  BY <1>1
<1>4. 1 \in 1..Len(fs)
  BY <1>1
<1> HIDE DEF fs, f, left
<1>5. f.text <= ch.text /\ (f.kind \in {"delta", "final"} => ch.current <= f.text)
  BY <1>2, <1>4 DEF Sound, FramesGrow, fs
<1>6. f.kind \in {"delta", "final"} =>
         \A i \in 1..Len(left) : left[i].kind \in {"delta", "final"} => f.text <= left[i].text
  BY <1>2, <1>3, <1>4 DEF Sound, FramesGrow, fs
<1>7. f.kind = "final" => Len(fs) = 1 /\ f.text = ch.text /\ ch.run = "final"
  BY <1>2, <1>4 DEF Sound, FramesGrow, fs
<1>8. Len(fs) = 1 => left = <<>>
  BY <1>2
<1>9. FramesGrow([ch EXCEPT !.frames = left])
  <2> DEFINE b == [ch EXCEPT !.frames = left]
  <2>1. b.frames = left /\ b.text = ch.text /\ b.current = ch.current /\ b.run = ch.run
    BY DEF Sound, Record
  <2> HIDE DEF b
  <2>2. ASSUME NEW i \in 1..Len(left)
        PROVE  /\ left[i].text <= ch.text
               /\ left[i].kind \in {"delta", "final"} => ch.current <= left[i].text
               /\ left[i].kind = "final" =>
                     i = Len(left) /\ left[i].text = ch.text /\ ch.run = "final"
    BY <1>1, <1>2, <1>3 DEF Sound, FramesGrow, fs
  <2>3. ASSUME NEW i \in 1..Len(left), NEW j \in 1..Len(left), i < j,
               left[i].kind \in {"delta", "final"}, left[j].kind \in {"delta", "final"}
        PROVE  left[i].text <= left[j].text
    <3>1. i + 1 < j + 1 BY <2>3
    <3> QED BY <1>3, <2>3, <3>1 DEF Sound, FramesGrow, fs
  <2>4. FramesGrow(b) BY <2>1, <2>2, <2>3 DEF FramesGrow
  <2> QED BY <2>4 DEF b
<1> QED BY <1>2, <1>5, <1>6, <1>7, <1>8, <1>9 DEF fs, f, left

\* A frame more, with a text that is no shorter than what was said: only a run's end is final.
LEMMA FrameMore ==
    ASSUME NEW ch, Sound(ch), NEW run \in {"going", "refused", "final", "error", "aborted"},
           NEW f \in Frames, NEW n \in 0..MaxText,
           ch.run \in {"none", "going"}, ch.text <= n, f.text <= n,
           f.kind \in {"delta", "final"} => f.text = n,
           f.kind = "final" => run = "final"
    PROVE  Sound([ch EXCEPT !.run = run, !.frames = Append(@, f), !.text = n])
<1> DEFINE fs == ch.frames
           more == Append(fs, f)
           after == [ch EXCEPT !.run = run, !.frames = Append(@, f), !.text = n]
<1>1. ch \in Record /\ fs \in Seq(Frames) /\ ch.current \in Nat /\ ch.text \in Nat /\ n \in Nat
  BY MaxTextAssumption DEF Sound, Record
<1>2. more \in Seq(Frames) /\ Len(more) = Len(fs) + 1 /\ Len(fs) \in Nat /\ more[Len(fs) + 1] = f
  BY <1>1
<1>3. \A i \in 1..Len(more) : i # Len(more) => i \in 1..Len(fs) /\ more[i] = fs[i]
  BY <1>1, <1>2
<1>4. after \in Record
  BY <1>1, <1>2 DEF Record
<1>5. /\ after.frames = more /\ after.run = run /\ after.text = n /\ after.pc = ch.pc
      /\ after.current = ch.current /\ after.written = ch.written /\ after.on = ch.on
  BY <1>1 DEF Record
<1>6. \A i \in 1..Len(fs) :
         /\ fs[i] \in Frames /\ fs[i].text \in Nat /\ fs[i].text <= n /\ fs[i].kind # "final"
         /\ fs[i].kind \in {"delta", "final"} => ch.current <= fs[i].text
  <2>1. \A i \in 1..Len(fs) : fs[i] \in Frames BY <1>1
  <2>2. \A i \in 1..Len(fs) : fs[i].text \in Nat BY <2>1, MaxTextAssumption DEF Frames
  <2> QED BY <1>1, <2>1, <2>2 DEF Sound, FramesGrow
<1>7. \A i, j \in 1..Len(fs) :
         i < j /\ fs[i].kind \in {"delta", "final"} /\ fs[j].kind \in {"delta", "final"} =>
             fs[i].text <= fs[j].text
  BY DEF Sound, FramesGrow
<1>8. ch.current <= n /\ ch.pc # "onComplete"
  BY <1>1 DEF Sound, Given
<1> HIDE DEF fs, more, after
<1>9. FramesGrow(after)
  <2>1. ASSUME NEW i \in 1..Len(more)
        PROVE  /\ more[i].text <= n
               /\ more[i].kind \in {"delta", "final"} => ch.current <= more[i].text
               /\ more[i].kind = "final" =>
                     i = Len(more) /\ more[i].text = n /\ run = "final"
    <3>1. CASE i = Len(more) BY <1>2, <1>8, <3>1
    <3>2. CASE i # Len(more) BY <1>3, <1>6, <3>2
    <3> QED BY <3>1, <3>2
  <2>2. ASSUME NEW i \in 1..Len(more), NEW j \in 1..Len(more), i < j,
               more[i].kind \in {"delta", "final"}, more[j].kind \in {"delta", "final"}
        PROVE  more[i].text <= more[j].text
    <3>1. i # Len(more) BY <1>2, <2>2
    <3>2. CASE j = Len(more) BY <1>2, <1>3, <1>6, <2>2, <3>1, <3>2
    <3>3. CASE j # Len(more) BY <1>3, <1>7, <2>2, <3>1, <3>3
    <3> QED BY <3>2, <3>3
  <2> QED BY <1>5, <2>1, <2>2 DEF FramesGrow
<1>10. Given(after) /\ HasSocket(after)
  BY <1>5, <1>8 DEF Sound, Given, HasSocket
<1>11. Sound(after) BY <1>4, <1>9, <1>10 DEF Sound
<1> QED BY <1>11 DEF after

\* Before the stream, and the steps that only move the handler on.
LEMMA MovesOn ==
    ASSUME ChatInv, NEW c \in Chats, NEW pc \in {"agents.list", "sessions.list", "chat.history",
           "connect", "stream"}, chat[c].on = None \/ pc = "stream", chat[c].pc # "onComplete",
           chat' = [chat EXCEPT ![c].pc = pc]
    PROVE  ChatInv'
<1> DEFINE after == [chat[c] EXCEPT !.pc = pc]
<1>1. Sound(chat[c]) /\ chat[c] \in Record BY DEF ChatInv
<1>2. /\ after \in Record /\ HasSocket(after) /\ after.pc = pc /\ after.frames = chat[c].frames
      /\ after.run = chat[c].run /\ after.text = chat[c].text
      /\ after.current = chat[c].current /\ after.written = chat[c].written
  BY <1>1 DEF Record, HasSocket
<1> HIDE DEF after
<1>3. Sound(after) BY <1>1, <1>2, SameText
<1>4. chat' = [chat EXCEPT ![c] = after] BY DEF after, ChatInv
<1> QED BY <1>3, <1>4, OneChat

\* A chat connects its stream's socket.
LEMMA ConnectStep ==
    ASSUME ChatInv, NEW c \in Chats, Connect(c) PROVE ChatInv'
<1>1. PICK g \in Gateways : chat' = [chat EXCEPT ![c].pc = "chat.send", ![c].on = g]
  BY DEF Connect
<1> DEFINE after == [chat[c] EXCEPT !.pc = "chat.send", !.on = g]
<1>2. Sound(chat[c]) /\ chat[c] \in Record /\ chat[c].pc = "connect" BY DEF ChatInv, Connect
<1>3. /\ after \in Record /\ HasSocket(after) /\ after.pc = "chat.send"
      /\ after.frames = chat[c].frames
      /\ after.run = chat[c].run /\ after.text = chat[c].text
      /\ after.current = chat[c].current /\ after.written = chat[c].written
  BY <1>2 DEF Record, HasSocket
<1> HIDE DEF after
<1>4. Sound(after) BY <1>2, <1>3, SameText
<1>5. chat' = [chat EXCEPT ![c] = after] BY <1>1 DEF after, ChatInv
<1> QED BY <1>4, <1>5, OneChat

\* The socket of any chats is closed by the gateway.
LEMMA Severed ==
    ASSUME ChatInv, NEW Cut \in SUBSET Chats,
           chat' = [c \in Chats |-> IF c \in Cut THEN [chat[c] EXCEPT !.on = None] ELSE chat[c]]
    PROVE  ChatInv'
<1>1. ASSUME NEW c \in Chats PROVE Sound([chat[c] EXCEPT !.on = None])
  <2> DEFINE after == [chat[c] EXCEPT !.on = None]
  <2>1. Sound(chat[c]) /\ chat[c] \in Record BY DEF ChatInv
  <2>2. /\ after \in Record /\ HasSocket(after) /\ after.pc = chat[c].pc
        /\ after.frames = chat[c].frames
        /\ after.run = chat[c].run /\ after.text = chat[c].text
        /\ after.current = chat[c].current /\ after.written = chat[c].written
    BY <2>1 DEF Record, HasSocket
  <2> HIDE DEF after
  <2>3. Sound(after) BY <2>1, <2>2, SameText
  <2> QED BY <2>3 DEF after
<1>2. \A c \in Chats : Sound(chat'[c])
  BY <1>1 DEF ChatInv
<1>3. chat' \in [Chats -> Record]
  BY <1>1 DEF ChatInv, Sound
<1> QED BY <1>2, <1>3 DEF ChatInv

\* The gateway acknowledges, says more, or ends the run.
LEMMA GatewayStep ==
    ASSUME ChatInv, NEW c \in Chats, Gateway(c) PROVE ChatInv'
<1> DEFINE ch == chat[c]
<1>1. Sound(ch) /\ ch \in Record BY DEF ChatInv
<1>2. ch.text \in 0..MaxText /\ ch.run \in {"none", "going", "refused", "final", "error", "aborted"}
  BY <1>1 DEF Record
<1>3. ASSUME NEW run \in {"going", "refused", "final", "error", "aborted"}, NEW f \in Frames,
             NEW n \in 0..MaxText, ch.run \in {"none", "going"}, ch.text <= n, f.text <= n,
             f.kind \in {"delta", "final"} => f.text = n, f.kind = "final" => run = "final",
             chat' = [chat EXCEPT ![c] = [ch EXCEPT !.run = run, !.frames = Append(@, f), !.text = n]]
      PROVE  ChatInv'
  BY <1>1, <1>3, FrameMore, OneChat
<1>4. CASE Answer(c)
  <2>1. ch.run = "none" BY <1>4 DEF Answer, Serves
  <2>2. PICK run \in {"going", "refused"}, kind \in {"ack", "refusal"} :
           chat' = Sends(c, run, [kind |-> kind, text |-> 0])
    BY <1>4 DEF Answer
  <2> DEFINE f == [kind |-> kind, text |-> 0]
  <2>3. f \in Frames /\ f.text = 0 /\ f.kind \notin {"delta", "final"}
    BY MaxTextAssumption DEF Frames
  <2>4. chat' = [chat EXCEPT ![c] = [ch EXCEPT !.run = run, !.frames = Append(@, f), !.text = ch.text]]
    BY <1>1, <2>2 DEF Sends, ChatInv, Record
  <2> HIDE DEF f, ch
  <2>5. 0 <= ch.text /\ ch.text <= ch.text BY <1>2, MaxTextAssumption
  <2> QED BY <1>2, <1>3, <2>1, <2>3, <2>4, <2>5
<1>5. CASE Says(c)
  <2>1. ch.run = "going" /\ ch.text < MaxText BY <1>5 DEF Says, Serves
  <2> DEFINE n == ch.text + 1
             f == [kind |-> "delta", text |-> n]
  <2>2. n \in 0..MaxText /\ ch.text <= n /\ n <= n
    BY <1>2, <2>1, MaxTextAssumption
  <2>3. f \in Frames /\ f.text = n /\ f.kind = "delta"
    BY <2>2 DEF Frames
  <2>4. chat' = [chat EXCEPT ![c] = [ch EXCEPT !.run = "going", !.frames = Append(@, f), !.text = n]]
    BY <1>1, <1>5 DEF Says, Sends, ChatInv, Record
  <2> HIDE DEF f, n, ch
  <2> QED BY <1>3, <2>1, <2>2, <2>3, <2>4
<1>6. CASE Ends(c)
  <2>1. ch.run = "going" BY <1>6 DEF Ends, Serves
  <2>2. PICK end \in {"final", "error", "aborted"}, n \in ch.text..MaxText :
           chat' = [Sends(c, end, [kind |-> end, text |-> n]) EXCEPT ![c].text = n]
    BY <1>6 DEF Ends
  <2> DEFINE f == [kind |-> end, text |-> n]
  <2>3. n \in 0..MaxText /\ ch.text <= n /\ n <= n
    BY <1>2, MaxTextAssumption
  <2>4. f \in Frames /\ f.text = n /\ f.kind = end
    BY <2>3 DEF Frames
  <2>5. chat' = [chat EXCEPT ![c] = [ch EXCEPT !.run = end, !.frames = Append(@, f), !.text = n]]
    BY <1>1, <2>2 DEF Sends, ChatInv, Record
  <2> HIDE DEF f, ch
  <2> QED BY <1>3, <2>1, <2>3, <2>4, <2>5
<1>7. CASE Disconnects(c)
  <2>1. chat' = [d \in Chats |-> IF d \in {c} THEN [chat[d] EXCEPT !.on = None] ELSE chat[d]]
    BY <1>7 DEF Disconnects, ChatInv
  <2> QED BY <2>1, Severed
<1> QED BY <1>4, <1>5, <1>6, <1>7 DEF Gateway

\* A frame is handled: the first one, and the rest stays in the socket.
LEMMA ReceiveStep ==
    ASSUME ChatInv, NEW c \in Chats, Receive(c) PROVE ChatInv'
<1> DEFINE f == Head(chat[c].frames)
           left == Tail(chat[c].frames)
           ch == [chat[c] EXCEPT !.frames = left]
<1>1. Sound(chat[c]) /\ chat[c] \in Record /\ chat[c].frames # <<>>
  BY DEF ChatInv, Receive
<1>2. /\ f \in Frames /\ left \in Seq(Frames)
      /\ f.text <= chat[c].text
      /\ f.kind \in {"delta", "final"} =>
            /\ chat[c].current <= f.text
            /\ \A i \in 1..Len(left) : left[i].kind \in {"delta", "final"} => f.text <= left[i].text
      /\ f.kind = "final" => left = <<>> /\ f.text = chat[c].text /\ chat[c].run = "final"
      /\ FramesGrow(ch)
  BY <1>1, HeadAndTail
<1>3. /\ ch \in Record /\ ch.frames = left /\ ch.pc = chat[c].pc /\ ch.text = chat[c].text
      /\ ch.run = chat[c].run /\ ch.current = chat[c].current /\ ch.written = chat[c].written
      /\ ch.on = chat[c].on
  BY <1>1, <1>2 DEF Record
<1>4. /\ f.text \in 0..MaxText /\ ch.text \in 0..MaxText /\ ch.current \in 0..MaxText
      /\ ch.written \in 0..MaxText
  BY <1>2, <1>3 DEF Frames, Record
<1>5. chat' = [chat EXCEPT ![c] =
        CASE ch.pc = "chat.send" -> Response(ch, f)
          [] ch.pc = "acknowledged" -> Ignored(ch, f)
          [] OTHER -> Event(ch, f)]
  BY DEF Receive
<1>6. ch.pc # "onComplete" /\ ch.written = ch.current
  BY <1>1, <1>3 DEF Sound, Given
<1> HIDE DEF f, left, ch
<1>7. Sound(ch)
  BY <1>1, <1>2, <1>3, <1>6 DEF Sound, Given, HasSocket
<1>8. CASE ch.pc = "chat.send"
  <2>1. CASE f.kind = "ack"
    <3> DEFINE after == [ch EXCEPT !.pc = "acknowledged"]
    <3>1. /\ after \in Record /\ HasSocket(after) /\ after.pc = "acknowledged"
          /\ after.frames = ch.frames /\ after.run = ch.run /\ after.text = ch.text
          /\ after.current = ch.current /\ after.written = ch.written
      BY <1>3 DEF Record, HasSocket
    <3>2. chat' = [chat EXCEPT ![c] = after] BY <1>5, <1>8, <2>1 DEF Response
    <3> HIDE DEF after
    <3>3. Sound(after) BY <1>6, <1>7, <3>1, SameText
    <3> QED BY <3>2, <3>3, OneChat
  <2>2. CASE f.kind # "ack"
    <3>1. chat' = [chat EXCEPT ![c] = Stopped("failed")] BY <1>5, <1>8, <2>2 DEF Response
    <3> QED BY <3>1, EmptyIsSound, OneChat
  <2> QED BY <2>1, <2>2
<1>9. CASE ch.pc = "acknowledged"
  <2> DEFINE after == [ch EXCEPT !.early = @ \/ f.kind \in {"final", "error"}]
  <2>1. /\ after \in Record /\ after.on = ch.on /\ after.pc = "acknowledged"
        /\ after.frames = ch.frames /\ after.run = ch.run /\ after.text = ch.text
        /\ after.current = ch.current /\ after.written = ch.written
    BY <1>3, <1>9 DEF Record
  <2>2. chat' = [chat EXCEPT ![c] = after] BY <1>5, <1>9 DEF Ignored
  <2> HIDE DEF after
  <2>3. Sound(after) BY <1>6, <1>7, <2>1, SameText DEF HasSocket
  <2> QED BY <2>2, <2>3, OneChat
<1>10. CASE ch.pc \notin {"chat.send", "acknowledged"}
  <2>1. chat' = [chat EXCEPT ![c] = Event(ch, f)] BY <1>5, <1>10
  <2>2. CASE f.kind = "delta"
    <3> DEFINE after == [[ch EXCEPT !.written = @ + f.text - ch.current] EXCEPT !.current = f.text]
    <3>1. ch.written + f.text - ch.current = f.text
      BY <1>4, <1>6, MaxTextAssumption
    <3>2. /\ after \in Record /\ after.on = ch.on /\ after.pc = ch.pc
          /\ after.frames = left /\ after.run = ch.run /\ after.text = ch.text
          /\ after.current = f.text /\ after.written = f.text
      BY <1>3, <1>4, <3>1 DEF Record
    <3>3. Event(ch, f) = after BY <2>2 DEF Event, WriteDelta
    <3> HIDE DEF after
    <3>4. FramesGrow(after)
      BY <1>2, <1>3, <2>2, <3>2 DEF FramesGrow
    <3>5. Given(after) /\ HasSocket(after)
      BY <1>2, <1>3, <1>6, <1>7, <3>2 DEF Given, HasSocket, Sound
    <3>6. Sound(after) BY <3>2, <3>4, <3>5 DEF Sound
    <3> QED BY <2>1, <3>3, <3>6, OneChat
  <2>3. CASE f.kind = "final"
    <3> DEFINE after == [[ch EXCEPT !.written = @ + f.text - ch.current] EXCEPT !.pc = "onComplete"]
    <3>1. ch.written + f.text - ch.current = f.text
      BY <1>4, <1>6, MaxTextAssumption
    <3>2. /\ after \in Record /\ after.on = ch.on /\ after.pc = "onComplete"
          /\ after.frames = left /\ after.run = ch.run /\ after.text = ch.text
          /\ after.current = ch.current /\ after.written = f.text
      BY <1>3, <1>4, <3>1 DEF Record
    <3>3. Event(ch, f) = after BY <2>3 DEF Event, WriteDelta
    <3> HIDE DEF after
    <3>4. FramesGrow(after)
      BY <1>2, <1>3, <3>2 DEF FramesGrow
    <3>5. Given(after) /\ HasSocket(after)
      BY <1>2, <1>3, <1>7, <2>3, <3>2 DEF Given, HasSocket, Sound
    <3>6. Sound(after) BY <3>2, <3>4, <3>5 DEF Sound
    <3> QED BY <2>1, <3>3, <3>6, OneChat
  <2>4. CASE f.kind = "error"
    <3>1. Event(ch, f) = Stopped("failed") BY <2>4 DEF Event
    <3> QED BY <2>1, <3>1, EmptyIsSound, OneChat
  <2>5. CASE f.kind \notin {"delta", "final", "error"}
    <3>1. Event(ch, f) = ch BY <2>5 DEF Event
    <3> QED BY <1>7, <2>1, <3>1, OneChat
  <2> QED BY <2>2, <2>3, <2>4, <2>5
<1> QED BY <1>8, <1>9, <1>10

\* A handler waits, receives, and goes on.
LEMMA ClientStep ==
    ASSUME ChatInv, NEW c \in Chats, StreamConversation(c) \/ Client(c) PROVE ChatInv'
<1>1. HasSocket(chat[c]) BY DEF ChatInv, Sound
<1>2. CASE StreamConversation(c)
  <2>1. chat[c].on = None BY <1>1, <1>2 DEF StreamConversation, HasSocket
  <2> QED BY <1>2, <2>1, MovesOn DEF StreamConversation
<1>3. CASE EnsureAgentExists(c)
  <2>1. chat[c].on = None BY <1>1, <1>3 DEF EnsureAgentExists, Request, HasSocket
  <2> QED BY <1>3, <2>1, MovesOn DEF EnsureAgentExists, Request
<1>4. CASE EnsureConversationSession(c)
  <2>1. chat[c].on = None BY <1>1, <1>4 DEF EnsureConversationSession, Request, HasSocket
  <2> QED BY <1>4, <2>1, MovesOn DEF EnsureConversationSession, Request
<1>5. CASE BootstrapConversation(c)
  <2>1. chat[c].on = None BY <1>1, <1>5 DEF BootstrapConversation, Request, HasSocket
  <2> QED BY <1>5, <2>1, MovesOn DEF BootstrapConversation, Request
<1>6. CASE RequestFails(c) \/ Close(c) \/ Complete(c)
  BY <1>6, EmptyIsSound, OneChat DEF RequestFails, Close, Complete
<1>7. CASE Connect(c) BY <1>7, ConnectStep
<1>8. CASE Continue(c) BY <1>8, MovesOn DEF Continue
<1>9. CASE Receive(c) BY <1>9, ReceiveStep
<1> QED BY <1>2, <1>3, <1>4, <1>5, <1>6, <1>7, <1>8, <1>9 DEF Client

\* Whatever the gateway and the client do, nothing in it disturbs the supervisor.
THEOREM SupervisorIsUndisturbed == ClientSpec => Spec
<1>1. [ClientNext]_clientVars => [Next]_vars
  BY DEF ClientNext, clientVars, vars
<1> QED BY <1>1, PTL DEF ClientSpec, ClientInit, Spec

\* The chats' invariant holds in every state.
THEOREM ChatInvariance == ClientSpec => []ChatInv
<1>1. ChatInit => ChatInv
  <2>1. Sound(NewChat) BY EmptyIsSound
  <2> QED BY <2>1 DEF ChatInit, ChatInv, Sound
<1>2. ChatInv /\ [ClientNext]_clientVars => ChatInv'
  <2> SUFFICES ASSUME ChatInv, [ClientNext]_clientVars PROVE ChatInv'
    OBVIOUS
  <2>1. CASE Next /\ Sever
    <3> DEFINE Cut == {c \in Chats : chat[c].on # None /\ gateway'[chat[c].on].state # "listening"}
    <3>1. chat' = [c \in Chats |-> IF c \in Cut THEN [chat[c] EXCEPT !.on = None] ELSE chat[c]]
      BY <2>1 DEF Sever
    <3>2. Cut \in SUBSET Chats OBVIOUS
    <3> HIDE DEF Cut
    <3> QED BY <3>1, <3>2, Severed
  <2>2. ASSUME NEW c \in Chats, StreamConversation(c) \/ Client(c) PROVE ChatInv'
    BY <2>2, ClientStep
  <2>3. ASSUME NEW c \in Chats, Gateway(c) PROVE ChatInv'
    BY <2>3, GatewayStep
  <2>4. CASE UNCHANGED clientVars
    BY <2>4 DEF clientVars, ChatInv
  <2> QED BY <2>1, <2>2, <2>3, <2>4 DEF ClientNext
<1> QED BY <1>1, <1>2, PTL DEF ClientSpec, ClientInit

\* Every variable of the sidecar's gateway and its client has its type (supervisor.ts,
\* gateway-client.ts).
THEOREM ClientTypesAreKept == ClientSpec => []ClientTypeOK
<1>1. TypeOK /\ ChatInv => ClientTypeOK
  BY DEF ClientTypeOK, ChatInv, Sound, HasSocket, Record
<1> QED BY <1>1, SupervisorIsUndisturbed, TypesAreKept, ChatInvariance, PTL

\* A stream that was given the end of its run was given the whole text, each part once, and
\* none is given more than its run has said (onEvent of streamConversation).
THEOREM StreamsGetTheText == ClientSpec => []StreamsAreWhole
<1>1. ChatInv => StreamsAreWhole
  <2> SUFFICES ASSUME ChatInv, NEW c \in Chats
               PROVE  /\ chat[c].written <= chat[c].text
                      /\ chat[c].pc = "onComplete" => chat[c].written = chat[c].text
    BY DEF StreamsAreWhole
  <2>1. Given(chat[c]) /\ chat[c].text \in 0..MaxText BY DEF ChatInv, Sound, Record
  <2> QED BY <2>1, MaxTextAssumption DEF Given
<1> QED BY <1>1, ChatInvariance, PTL
====

---- MODULE GatewaySupervisor ----
(***************************************************************************)
(* EmbeddedGatewaySupervisor (packages/sidecar/src/internal-gateway): the  *)
(* sidecar starts one gateway process, waits until its port answers, keeps *)
(* the connection for its client, starts another gateway when this one     *)
(* exits, with a growing pause and a limited number of attempts, and ends  *)
(* it when the sidecar is closed.  Processes live on their own: they boot, *)
(* bind their port and exit when they like, and the supervisor is told of  *)
(* an exit later.                                                          *)
(***************************************************************************)
EXTENDS Naturals, FiniteSets

CONSTANTS
    Gateways,       \* processes there may be at a time; those that are over are used again
    Ports,          \* loopback ports
    PreferredPort,  \* DEFAULT_PREFERRED_PORT
    Stops,          \* calls of stop(), one per SIGINT or SIGTERM
    None,           \* no gateway, no port
    MaxRestarts,    \* MAX_RESTART_ATTEMPTS
    SlowStart       \* is the readiness timeout at least the 60 s window (its default is)

ASSUME PortsAssumption == PreferredPort \in Ports /\ None \notin Ports \cup Gateways
ASSUME LimitsAssumption == MaxRestarts \in Nat /\ SlowStart \in BOOLEAN

VARIABLES
    gateway,       \* each process: is it there, on which port, and who listens for its exit
    processState,  \* the gateway the supervisor is connected to
    stopping,
    attempts,      \* #restartAttempts
    recent,        \* was the last restart begun less than 60 s ago (#lastRestartAt)
    start,         \* the start() under way, or the pause before it
    stop,          \* each stop(): what it waits for
    target,        \* the port the gateway client was given when the sidecar came up
    foreign,       \* ports that other programs hold
    clash,         \* history: the preferred port was taken when some gateway was started
    tries,         \* history: restarts begun since one succeeded or the window passed
    late           \* history: a gateway outlasted the three seconds of a stop()

vars == <<gateway, processState, stopping, attempts, recent, start, stop, target, foreign,
          clash, tries, late>>

Gone == [state |-> "gone", port |-> None, handler |-> "none"]

\* The sidecar begins with start().
Init ==
    /\ gateway = [g \in Gateways |-> Gone]
    /\ processState = None
    /\ stopping = FALSE
    /\ attempts = 0 /\ recent = FALSE /\ tries = 0
    /\ start = [pc |-> "starting", child |-> None]
    /\ stop = [s \in Stops |-> [pc |-> "none", child |-> None]]
    /\ target = None
    /\ foreign \in SUBSET {PreferredPort}
    /\ clash = FALSE /\ late = FALSE

\* Somebody listens on the port.
Busy(port) ==
    \/ port \in foreign
    \/ \E g \in Gateways : gateway[g].state = "listening" /\ gateway[g].port = port

Idle == [pc |-> "idle", child |-> None]

----------------------------------------------------------------------------
(* scheduleRestart                                                         *)

\* Mutant: the attempt is not counted.
ScheduleUncounted(within) ==
    /\ attempts' = IF within THEN attempts ELSE 0
    /\ start' = [pc |-> IF attempts > MaxRestarts THEN "givenUp" ELSE "backoff", child |-> None]

\* Up to its first await: count the attempt, give up or pause. within: is the last restart
\* less than 60 s ago.
ScheduleRestart(within) ==
    LET n == (IF within THEN attempts ELSE 0) + 1
    IN  /\ attempts' = n
        /\ start' = [pc |-> IF n > MaxRestarts THEN "givenUp" ELSE "backoff", child |-> None]

\* After the pause.
BackoffEnds ==
    /\ start.pc = "backoff"
    /\ IF stopping \/ processState # None
       THEN /\ start' = Idle
            /\ UNCHANGED <<recent, tries>>
       ELSE /\ start' = [pc |-> "starting", child |-> None]
            /\ recent' = TRUE
            /\ tries' = tries + 1
    /\ UNCHANGED <<gateway, processState, stopping, attempts, stop, target, foreign, clash, late>>

\* start() has thrown: a restart is scheduled again, the first start ends the sidecar.
Rejected(within) ==
    IF target # None THEN ScheduleRestart(within)
    ELSE start' = [pc |-> "dead", child |-> None] /\ UNCHANGED attempts

----------------------------------------------------------------------------
(* start                                                                   *)

\* Mutant: any free port.
PickAnyPort == {port \in Ports : ~Busy(port)}

\* pickGatewayPort: the preferred port if nobody listens there, any free one otherwise.
PickPort ==
    LET free == {port \in Ports : ~Busy(port)}
    IN  IF PreferredPort \in free THEN {PreferredPort} ELSE free

\* Mutant: the restart handler is set before the gateway is ready.
SpawnWatched(g) ==
    /\ start.pc = "starting"
    /\ gateway[g].state = "gone"
    /\ \E port \in PickPort :
          gateway' = [gateway EXCEPT ![g] = [state |-> "booting", port |-> port,
                                             handler |-> "restart"]]
    /\ start' = [pc |-> "waiting", child |-> g]
    /\ clash' = (clash \/ Busy(PreferredPort))
    /\ UNCHANGED <<processState, stopping, attempts, recent, stop, target, foreign, tries, late>>

\* The process is spawned on the port that was just found free.
Spawn(g) ==
    /\ start.pc = "starting"
    /\ gateway[g].state = "gone"
    /\ \E port \in PickPort :
          gateway' = [gateway EXCEPT ![g] = [state |-> "booting", port |-> port,
                                             handler |-> "startup"]]
    /\ start' = [pc |-> "waiting", child |-> g]
    /\ clash' = (clash \/ Busy(PreferredPort))
    /\ UNCHANGED <<processState, stopping, attempts, recent, stop, target, foreign, tries, late>>

\* The directories, the token, the port or the configuration fail.
SpawnFails ==
    /\ start.pc = "starting"
    /\ Rejected(recent)
    /\ UNCHANGED <<gateway, processState, stopping, recent, stop, target, foreign, clash, tries, late>>

\* waitForReady: somebody answers on the port.
Answers(port) == \E g \in Gateways : gateway[g].state = "listening" /\ gateway[g].port = port

\* Mutant: the startup handler is removed and no other one set.
ReadyUnwatched ==
    LET g == start.child
    IN  /\ start.pc = "waiting"
        /\ Answers(gateway[g].port)
        /\ gateway' = [gateway EXCEPT ![g].handler = "none"]
        /\ processState' = g
        /\ attempts' = 0 /\ tries' = 0
        /\ start' = Idle
        /\ target' = IF target = None THEN gateway[g].port ELSE target
        /\ UNCHANGED <<stopping, recent, stop, foreign, clash, late>>

\* The exit handler is replaced and the connection kept. After the first start the
\* gateway client is given this connection, once and for all.
Ready ==
    LET g == start.child
    IN  /\ start.pc = "waiting"
        /\ Answers(gateway[g].port)
        /\ gateway' = [gateway EXCEPT ![g].handler = "restart"]
        /\ processState' = g
        /\ attempts' = 0 /\ tries' = 0
        /\ start' = Idle
        /\ target' = IF target = None THEN gateway[g].port ELSE target
        /\ UNCHANGED <<stopping, recent, stop, foreign, clash, late>>

\* Nobody answers in time. The process is left alone, and its exit no longer matters.
ReadyTimesOut ==
    /\ start.pc = "waiting"
    /\ gateway' = [gateway EXCEPT ![start.child].handler = "none"]
    /\ recent' = (recent /\ ~SlowStart)
    /\ tries' = IF recent /\ SlowStart THEN 0 ELSE tries
    /\ Rejected(recent /\ ~SlowStart)
    /\ UNCHANGED <<processState, stopping, stop, target, foreign, clash, late>>

----------------------------------------------------------------------------
(* stop                                                                    *)

\* Mutant: no early return when no gateway is connected.
StopDuringRestart(s) ==
    /\ target # None
    /\ stop[s].pc = "none"
    /\ stop' = [stop EXCEPT ![s] = [pc |-> "waiting", child |-> processState]]
    /\ stopping' = TRUE
    /\ UNCHANGED <<gateway, processState, attempts, recent, start, target, foreign, clash, tries, late>>

\* close(), on a signal, once the sidecar is up. With no gateway connected, a restart under
\* way included, stop() returns at once; otherwise SIGTERM is sent.
Stop(s) ==
    /\ target # None
    /\ stop[s].pc = "none"
    /\ IF processState = None
       THEN /\ stop' = [stop EXCEPT ![s].pc = "returned"]
            /\ UNCHANGED stopping
       ELSE /\ stop' = [stop EXCEPT ![s] = [pc |-> "waiting", child |-> processState]]
            /\ stopping' = TRUE
    /\ UNCHANGED <<gateway, processState, attempts, recent, start, target, foreign, clash, tries, late>>

\* Three seconds have passed. child.killed is true since SIGTERM was sent, so that no
\* SIGKILL follows.
StopTimesOut(s) ==
    /\ stop[s].pc = "waiting"
    /\ stop' = [stop EXCEPT ![s].pc = "stopped"]
    /\ stopping' = FALSE
    /\ processState' = None
    /\ late' = TRUE
    /\ UNCHANGED <<gateway, attempts, recent, start, target, foreign, clash, tries>>

----------------------------------------------------------------------------
(* The exit event of a process: its exit handler, then the stops that wait *)

\* Mutant: the restart handler does not look at #stopping.
ExitRestartsAlways(g) ==
    LET waiting == {s \in Stops : stop[s] = [pc |-> "waiting", child |-> g]}
    IN  /\ gateway[g].state = "exited"
        /\ gateway' = [gateway EXCEPT ![g] = Gone]
        /\ CASE gateway[g].handler = "startup" -> Rejected(recent)
             [] gateway[g].handler = "restart" -> ScheduleRestart(recent)
             [] OTHER -> UNCHANGED <<attempts, start>>
        /\ processState' = IF waiting # {} \/ gateway[g].handler = "restart"
                           THEN None ELSE processState
        /\ stopping' = (stopping /\ waiting = {})
        /\ stop' = [s \in Stops |-> IF s \in waiting THEN [stop[s] EXCEPT !.pc = "stopped"] ELSE stop[s]]
        /\ UNCHANGED <<recent, target, foreign, clash, tries, late>>

Exit(g) ==
    LET waiting == {s \in Stops : stop[s] = [pc |-> "waiting", child |-> g]}
        reacts == ~stopping /\ start.pc # "dead"
    IN  /\ gateway[g].state = "exited"
        /\ gateway' = [gateway EXCEPT ![g] = Gone]
        /\ CASE reacts /\ gateway[g].handler = "startup" -> Rejected(recent)
             [] reacts /\ gateway[g].handler = "restart" -> ScheduleRestart(recent)
             [] OTHER -> UNCHANGED <<attempts, start>>
        /\ processState' = IF waiting # {} \/ (reacts /\ gateway[g].handler = "restart")
                           THEN None ELSE processState
        /\ stopping' = (stopping /\ waiting = {})
        /\ stop' = [s \in Stops |-> IF s \in waiting THEN [stop[s] EXCEPT !.pc = "stopped"] ELSE stop[s]]
        /\ UNCHANGED <<recent, target, foreign, clash, tries, late>>

----------------------------------------------------------------------------
(* The processes and the time                                              *)

supervisor == <<processState, stopping, attempts, start, stop, target, clash, late>>

\* The port may have been taken since it was picked: the gateway cannot use it and exits.
Boot(g) ==
    /\ gateway[g].state = "booting"
    /\ gateway' = [gateway EXCEPT ![g].state = IF Busy(gateway[g].port) THEN "exited" ELSE "listening"]
    /\ UNCHANGED <<supervisor, recent, tries, foreign>>

Die(g) ==
    /\ gateway[g].state \in {"booting", "listening"}
    /\ gateway' = [gateway EXCEPT ![g].state = "exited"]
    /\ UNCHANGED <<supervisor, recent, tries, foreign>>

\* The last restart is more than 60 s ago.
WindowPasses ==
    /\ recent
    /\ recent' = FALSE /\ tries' = 0
    /\ UNCHANGED <<supervisor, gateway, foreign>>

\* Another program takes or leaves the preferred port.
Foreign ==
    /\ ~Answers(PreferredPort)
    /\ foreign' = {PreferredPort} \ foreign
    /\ UNCHANGED <<supervisor, recent, tries, gateway>>

----------------------------------------------------------------------------
Starting == BackoffEnds \/ (\E g \in Gateways : Spawn(g)) \/ SpawnFails \/ Ready \/ ReadyTimesOut
Processes == \E g \in Gateways : Boot(g) \/ Die(g) \/ Exit(g)

Next ==
    \/ Starting
    \/ \E s \in Stops : Stop(s) \/ StopTimesOut(s)
    \/ Processes
    \/ WindowPasses \/ Foreign

\* A start that is under way goes on, and the exit of a process is reported; processes
\* need not boot or exit, and nobody need stop the sidecar.
Fairness == WF_vars(Starting) /\ \A g \in Gateways : WF_vars(Exit(g))

Spec == Init /\ [][Next]_vars /\ Fairness

----------------------------------------------------------------------------
(* Properties                                                              *)

\* Every variable has its type; no more restarts are attempted than the limit.
TypeOK ==
    /\ gateway \in [Gateways -> [state : {"gone", "booting", "listening", "exited"},
                                 port : Ports \cup {None},
                                 handler : {"none", "startup", "restart"}]]
    /\ processState \in Gateways \cup {None}
    /\ stopping \in BOOLEAN /\ recent \in BOOLEAN /\ clash \in BOOLEAN /\ late \in BOOLEAN
    /\ attempts \in 0..(MaxRestarts + 1)
    /\ start \in [pc : {"starting", "waiting", "backoff", "idle", "givenUp", "dead"},
                  child : Gateways \cup {None}]
    /\ stop \in [Stops -> [pc : {"none", "waiting", "stopped", "returned"},
                           child : Gateways \cup {None}]]
    /\ target \in Ports \cup {None}
    /\ foreign \subseteq {PreferredPort}
    /\ tries \in 0..MaxRestarts

\* Restarts never run side by side: a process whose exit schedules a restart is the only one
\* with a handler, and start() is at rest; the process that start() waits for is the only
\* one with the startup handler.
OneRestartAtATime ==
    \A g \in Gateways :
        /\ gateway[g].handler = "restart" =>
              start.pc = "idle" /\ \A h \in Gateways \ {g} : gateway[h].handler = "none"
        /\ gateway[g].handler = "startup" <=> start = [pc |-> "waiting", child |-> g]

\* The gateway that the connection getter names is one whose exit leads to a restart and was
\* not reported; and as long as gateways exit in time when stopped, a gateway that was ready and is not over is
\* the one that it names, so that stop() reaches it.
ConnectionIsWatched ==
    /\ processState # None => gateway[processState].handler = "restart"
    /\ ~late => \A g \in Gateways : gateway[g].handler = "restart" => processState = g

\* A restart and a stop that waits for its gateway never run at the same time: what
\* stop() writes at its end (stopping, processState) never hides a gateway that a restart made.
StopExcludesRestart ==
    stopping => start.pc = "idle" /\ processState # None

\* As long as gateways exit in time, a stop that found one to stop is final: no start, pause or
\* gateway that was once ready is left.
StoppedStaysStopped ==
    ~late /\ (\E s \in Stops : stop[s].pc = "stopped") =>
        /\ start.pc = "idle" /\ processState = None
        /\ \A g \in Gateways : gateway[g].handler # "restart"

\* The gateway client is given one connection for the life of the sidecar. It still leads
\* to the gateway after restarts, unless the preferred port was taken at some start.
ClientFollowsTheGateway ==
    processState # None /\ gateway[processState].port # target => clash

\* A gateway that exits is always acted on: it is replaced, or the limit is reached, or
\* it was being stopped.
EveryExitIsActedOn ==
    \A g \in Gateways :
        processState = g /\ gateway[g].state = "exited" ~>
            start.pc \in {"starting", "givenUp"} \/ \E s \in Stops : stop[s].pc = "stopped"
====

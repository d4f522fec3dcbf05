---- MODULE TaskCronProofs ----
(***************************************************************************)
(* What the task loop promises whatever the tasks, the organisation and    *)
(* the number of workers: agents get one message at a time, no request is  *)
(* dropped, and timers restart only where a reminder arrived.  The         *)
(* invariant ties the workers to the buckets: a bucket that was taken and  *)
(* is not empty has a worker, and only one.                                *)
(***************************************************************************)
EXTENDS TaskCron, TLAPS

\* A worker sends to an agent whose bucket it has taken.
BusyOnTaken == \A w \in Workers : Sending(w) => worker[w].target \in taken

\* A taken bucket with requests left has a worker.
BucketsHaveWorkers ==
    \A i \in DOMAIN plan :
        plan[i].target \in taken /\ result[i] = "none" =>
            \E w \in Workers : Sending(w) /\ worker[w].target = plan[i].target

\* Only requests of taken buckets are answered.
AnsweredWereTaken == \A i \in DOMAIN plan : result[i] # "none" => plan[i].target \in taken

\* Every request but the sage's is about a task.
AboutTasks(requests) == \A i \in DOMAIN requests : requests[i].kind # "topdown" => i \in Tasks

\* Outside the two dispatches nothing is being sent and nothing is left to send.
QuietBetween ==
    phase \notin {"topdown", "status"} =>
        /\ \A w \in Workers : ~Sending(w)
        /\ \A i \in DOMAIN plan : result[i] # "none"

\* Timers wait to be restarted only after a dispatch, for delivered reminders.
ResetsWereDelivered ==
    /\ \A t \in resets : t \in DOMAIN plan /\ plan[t].kind = "doing" /\ result[t] = "ok"
    /\ phase \notin {"reset", "dead"} => resets = {}

Dispatching ==
    /\ BusyOnTaken
    /\ OneMessagePerAgent
    /\ BucketsHaveWorkers
    /\ AnsweredWereTaken
    /\ AboutTasks(plan)
    /\ QuietBetween

Inv == TypeOK /\ Dispatching /\ ResetsWereDelivered

\* The variables only the loop changes.
LoopVars == <<phase, snap, pending, plan, result, taken, worker, resets>>

USE TasksAssumption, AgentsAssumption, InitialAssumption, BoundsAssumption

\* Requests are well formed: a target is an agent even where a manager is missing.
LEMMA RequestsType ==
    ASSUME TypeOK, NEW doing \in SUBSET Tasks
    PROVE  LET r == StatusRequests(doing)
           IN  DOMAIN r \subseteq Items /\ r \in [DOMAIN r -> Request] /\ AboutTasks(r)
<1> DEFINE due == {t \in Tasks : \/ snap[t] \in {"todo", "blocked"}
                                 \/ snap[t] = "doing" /\ t \in doing
                                 \/ snap[t] = "pending" /\ t \in pending}
           target(t) == IF snap[t] = "blocked" THEN Manager(AssignedTo[t]) ELSE AssignedTo[t]
<1>1. \A t \in due : target(t) \in Agents
  BY DEF Manager
<1>2. \A t \in due : snap[t] \in {"topdown", "todo", "doing", "pending", "blocked"}
  OBVIOUS
<1> HIDE DEF target
<1>3. \A t \in due : [kind |-> snap[t], target |-> target(t)] \in Request
  BY <1>1, <1>2 DEF Request
<1>4. StatusRequests(doing) = [t \in due |-> [kind |-> snap[t], target |-> target(t)]]
  BY DEF StatusRequests, target
<1> HIDE DEF due
<1>5. due \subseteq Items /\ due \subseteq Tasks
  BY DEF Items, due
<1> QED BY <1>3, <1>4, <1>5 DEF AboutTasks

\* So is the message to the sage.
LEMMA TopDownType ==
    ASSUME NEW list
    PROVE  LET r == TopDownRequests(list)
           IN  DOMAIN r \subseteq Items /\ r \in [DOMAIN r -> Request] /\ AboutTasks(r)
<1>1. [kind |-> "topdown", target |-> Sage] \in Request
  BY DEF Request
<1>2. DOMAIN Empty = {} /\ Empty \in [{} -> Request]
  BY DEF Empty
<1> HIDE DEF Empty
<1>3. DOMAIN [i \in {0} |-> [kind |-> "topdown", target |-> Sage]] = {0}
  OBVIOUS
<1> QED BY <1>1, <1>2, <1>3 DEF TopDownRequests, Items, AboutTasks

\* A dispatch that starts while nothing is being sent starts in order.
LEMMA DispatchInv ==
    ASSUME TypeOK, NEW requests, DOMAIN requests \subseteq Items,
           requests \in [DOMAIN requests -> Request], AboutTasks(requests),
           \A w \in Workers : ~Sending(w),
           Dispatch(requests), worker' = worker, phase' \in {"topdown", "status"}
    PROVE  /\ Dispatching'
           /\ DOMAIN plan' \subseteq Items /\ plan' \in [DOMAIN plan' -> Request]
           /\ result' \in [DOMAIN plan' -> {"none", "ok", "error", "overflow"}]
           /\ taken' = {}
<1>1. plan' = requests /\ taken' = {}
  BY DEF Dispatch
<1>2. result' = [i \in DOMAIN requests |-> "none"]
  BY DEF Dispatch
<1>3. \A w \in Workers : ~Sending(w)'
  BY DEF Sending
<1>4. Dispatching'
  <2>1. \A i \in DOMAIN plan' : result'[i] = "none"
    BY <1>1, <1>2
  <2> QED BY <1>1, <1>3, <2>1 DEF Dispatching, BusyOnTaken, OneMessagePerAgent, BucketsHaveWorkers,
                                  AnsweredWereTaken, AboutTasks, QuietBetween
<1> QED BY <1>1, <1>2, <1>4

\* The loop starts asleep.
LEMMA InitInv == Init => Inv
<1> SUFFICES ASSUME Init PROVE Inv
  OBVIOUS
<1>1. DOMAIN Empty = {} /\ Empty \in [{} -> Request]
      /\ Empty \in [{} -> {"none", "ok", "error", "overflow"}]
  BY DEF Empty
<1>2. plan = Empty /\ result = Empty /\ phase = "asleep" /\ resets = {}
  BY DEF Init
<1>3. FreeWorker \in [step : {"free", "invoke", "compact", "retry"}, target : Agents \cup {NoManager}]
      /\ FreeWorker.step = "free"
  BY DEF FreeWorker
<1> HIDE DEF Empty, FreeWorker
<1>4. status \in [Tasks -> Statuses \cup {"none"}]
  BY DEF Init, Statuses
<1>5. worker \in [Workers -> [step : {"free", "invoke", "compact", "retry"},
                              target : Agents \cup {NoManager}]]
  BY <1>3 DEF Init
<1>6. /\ overdue \in [Tasks -> BOOLEAN] /\ snap \in [Tasks -> Statuses \cup {"none"}]
      /\ pending = {} /\ reminded = {} /\ taken = {}
      /\ broken = {} /\ edits \in 0..MaxEdits
  BY DEF Init
<1>7. TypeOK
  BY <1>1, <1>2, <1>4, <1>5, <1>6 DEF TypeOK
<1>8. \A w \in Workers : ~Sending(w)
  BY <1>3 DEF Init, Sending
<1> QED BY <1>1, <1>2, <1>7, <1>8 DEF Inv, Dispatching, BusyOnTaken, OneMessagePerAgent,
                                    BucketsHaveWorkers, AnsweredWereTaken, AboutTasks, QuietBetween,
                                    ResetsWereDelivered

\* A worker takes up the bucket of an agent nobody sends to.
LEMMA TakeInv == ASSUME Inv, NEW w \in Workers, Take(w) PROVE Inv'
<1>1. PICK i \in Waiting :
          /\ worker' = [worker EXCEPT ![w] = [step |-> "invoke", target |-> plan[i].target]]
          /\ taken' = taken \cup {plan[i].target}
  BY DEF Take
<1>2. /\ worker[w].step = "free"
      /\ UNCHANGED <<board, phase, snap, pending, plan, result, resets, reminded>>
  BY DEF Take
<1>3. i \in DOMAIN plan /\ plan[i].target \notin taken /\ plan[i].target \in Agents
  BY DEF Waiting, Inv, TypeOK, Request
<1> DEFINE new == [step |-> "invoke", target |-> plan[i].target]
<1>4. /\ new \in [step : {"free", "invoke", "compact", "retry"}, target : Agents \cup {NoManager}]
      /\ new.step = "invoke" /\ new.target = plan[i].target
  BY <1>3
<1>5. worker' = [worker EXCEPT ![w] = new]
  BY <1>1
<1> HIDE DEF new
<1>6. worker'[w] = new /\ \A v \in Workers \ {w} : worker'[v] = worker[v]
  BY <1>5 DEF Inv, TypeOK
<1>7. TypeOK'
  <2>1. worker' \in [Workers -> [step : {"free", "invoke", "compact", "retry"},
                                 target : Agents \cup {NoManager}]]
    BY <1>4, <1>5 DEF Inv, TypeOK
  <2>2. taken' \subseteq Agents
    BY <1>1, <1>3 DEF Inv, TypeOK
  <2> QED BY <1>2, <2>1, <2>2 DEF Inv, TypeOK, board
<1>8. BusyOnTaken'
  BY <1>1, <1>4, <1>6 DEF Inv, Dispatching, BusyOnTaken, Sending
<1>9. OneMessagePerAgent'
  <2>1. \A v \in Workers \ {w} : Sending(v)' => Sending(v) /\ worker'[v].target # plan[i].target
    BY <1>3, <1>6 DEF Inv, Dispatching, BusyOnTaken, Sending
  <2> QED BY <1>4, <1>6, <2>1 DEF Inv, Dispatching, OneMessagePerAgent
<1>10. BucketsHaveWorkers'
  <2> SUFFICES ASSUME NEW j \in DOMAIN plan, plan[j].target \in taken', result[j] = "none"
               PROVE  \E v \in Workers : Sending(v)' /\ worker'[v].target = plan[j].target
    BY <1>2 DEF BucketsHaveWorkers
  <2>1. CASE plan[j].target = plan[i].target
    BY <2>1, <1>4, <1>6 DEF Sending
  <2>2. CASE plan[j].target # plan[i].target
    <3>1. PICK v \in Workers : Sending(v) /\ worker[v].target = plan[j].target
      BY <2>2, <1>1 DEF Inv, Dispatching, BucketsHaveWorkers
    <3>2. v # w
      BY <3>1, <1>2 DEF Sending
    <3> QED BY <3>1, <3>2, <1>6 DEF Sending
  <2> QED BY <2>1, <2>2
<1>11. AnsweredWereTaken' /\ AboutTasks(plan)'
  BY <1>1, <1>2 DEF Inv, Dispatching, AnsweredWereTaken, AboutTasks
<1>12. QuietBetween'
  <2>1. phase \in {"topdown", "status"}
    BY <1>3 DEF Inv, Dispatching, QuietBetween, AnsweredWereTaken
  <2> QED BY <1>2, <2>1 DEF QuietBetween
<1>13. ResetsWereDelivered'
  BY <1>2 DEF Inv, ResetsWereDelivered
<1> QED BY <1>7, <1>8, <1>9, <1>10, <1>11, <1>12, <1>13 DEF Inv, Dispatching

\* An agent answers: its worker goes on with the same agent, or is free when the bucket is empty.
LEMMA AnswerInv == ASSUME Inv, NEW w \in Workers, NEW o \in Outcomes, Answer(w, o) PROVE Inv'
<1> DEFINE agent == worker[w].target
<1>1. PICK i \in Unanswered(agent) :
          IF NextStep(w, o) # "answered"
          THEN /\ worker' = [worker EXCEPT ![w].step = NextStep(w, o)]
               /\ UNCHANGED <<result, reminded>>
          ELSE /\ result' = [result EXCEPT ![i] =
                     IF o = "ok" /\ worker[w].step # "compact" THEN "ok"
                     ELSE IF worker[w].step = "invoke" THEN o ELSE "error"]
               /\ worker' = [worker EXCEPT ![w] =
                     IF Unanswered(agent) = {i} THEN FreeWorker
                     ELSE [step |-> "invoke", target |-> agent]]
               /\ reminded' = IF plan[i].kind = "doing" /\ o = "ok"
                              THEN reminded \cup {i} ELSE reminded
  BY DEF Answer
<1>2. /\ Sending(w)
      /\ UNCHANGED <<board, phase, snap, pending, plan, taken, resets>>
  BY DEF Answer, Sending
<1>3. i \in DOMAIN plan /\ plan[i].target = agent /\ result[i] = "none"
  BY DEF Unanswered
<1>4. /\ phase \in {"topdown", "status"} /\ resets = {}
  BY <1>2 DEF Inv, Dispatching, QuietBetween, ResetsWereDelivered
<1>5. agent \in taken /\ agent \in Agents
  BY <1>2 DEF Inv, TypeOK, Dispatching, BusyOnTaken
<1>6. QuietBetween' /\ ResetsWereDelivered'
  BY <1>2, <1>4 DEF QuietBetween, ResetsWereDelivered
<1>7. CASE NextStep(w, o) # "answered"
  <2> DEFINE new == [worker[w] EXCEPT !.step = NextStep(w, o)]
  <2>1. NextStep(w, o) \in {"compact", "retry"}
    BY <1>7 DEF NextStep
  <2>2. worker' = [worker EXCEPT ![w] = new]
    BY <1>1, <1>7 DEF Inv, TypeOK
  <2>3. /\ new \in [step : {"free", "invoke", "compact", "retry"}, target : Agents \cup {NoManager}]
        /\ new.step # "free" /\ new.target = agent
    BY <2>1 DEF Inv, TypeOK
  <2>4. result' = result /\ reminded' = reminded
    BY <1>1, <1>7
  <2> HIDE DEF new, agent
  <2>5. worker'[w] = new /\ \A v \in Workers \ {w} : worker'[v] = worker[v]
    BY <2>2 DEF Inv, TypeOK
  <2>6. TypeOK'
    BY <1>2, <2>2, <2>3, <2>4 DEF Inv, TypeOK, board
  <2>7. \A v \in Workers : Sending(v)' = Sending(v) /\ worker'[v].target = worker[v].target
    BY <1>2, <2>3, <2>5 DEF Sending, agent
  <2>8. /\ BusyOnTaken' /\ OneMessagePerAgent' /\ BucketsHaveWorkers' /\ AnsweredWereTaken'
        /\ AboutTasks(plan)'
    BY <1>2, <2>4, <2>7 DEF Inv, Dispatching, BusyOnTaken, OneMessagePerAgent, BucketsHaveWorkers,
                            AnsweredWereTaken, AboutTasks
  <2> QED BY <1>6, <2>6, <2>8 DEF Inv, Dispatching
<1>8. CASE NextStep(w, o) = "answered"
  <2> DEFINE new == IF Unanswered(agent) = {i} THEN FreeWorker
                    ELSE [step |-> "invoke", target |-> agent]
             outcome == IF o = "ok" /\ worker[w].step # "compact" THEN "ok"
                        ELSE IF worker[w].step = "invoke" THEN o ELSE "error"
  <2>1. /\ result' = [result EXCEPT ![i] = outcome]
        /\ worker' = [worker EXCEPT ![w] = new]
    BY <1>1, <1>8
  <2>2. reminded' \subseteq Items
    BY <1>1, <1>3, <1>8 DEF Inv, TypeOK
  <2>3. outcome \in {"ok", "error", "overflow"}
    BY DEF Outcomes
  <2>4. /\ new \in [step : {"free", "invoke", "compact", "retry"}, target : Agents \cup {NoManager}]
        /\ new.step # "free" => new.target = agent
        /\ new.step = "free" => Unanswered(agent) = {i}
    BY <1>5 DEF FreeWorker
  <2> HIDE DEF new, outcome, agent
  <2>5. worker'[w] = new /\ \A v \in Workers \ {w} : worker'[v] = worker[v]
    BY <2>1 DEF Inv, TypeOK
  <2>6. result'[i] = outcome /\ \A j \in DOMAIN plan \ {i} : result'[j] = result[j]
    BY <1>3, <2>1 DEF Inv, TypeOK
  <2>7. TypeOK'
    <3>1. worker' \in [Workers -> [step : {"free", "invoke", "compact", "retry"},
                                   target : Agents \cup {NoManager}]]
      BY <2>1, <2>4 DEF Inv, TypeOK
    <3>2. result' \in [DOMAIN plan -> {"none", "ok", "error", "overflow"}]
      BY <1>3, <2>1, <2>3 DEF Inv, TypeOK
    <3> QED BY <1>2, <2>2, <3>1, <3>2 DEF Inv, TypeOK, board
  <2>8. \A v \in Workers : Sending(v)' => Sending(v) /\ worker'[v].target = worker[v].target
    BY <1>2, <2>4, <2>5 DEF Sending, agent
  <2>9. BusyOnTaken' /\ OneMessagePerAgent'
    BY <1>2, <2>8 DEF Inv, Dispatching, BusyOnTaken, OneMessagePerAgent
  <2>10. BucketsHaveWorkers'
    <3> SUFFICES ASSUME NEW j \in DOMAIN plan, plan[j].target \in taken, result'[j] = "none"
                 PROVE  \E v \in Workers : Sending(v)' /\ worker'[v].target = plan[j].target
      BY <1>2 DEF BucketsHaveWorkers
    <3>1. j # i /\ result[j] = "none"
      BY <2>3, <2>6
    <3>2. PICK v \in Workers : Sending(v) /\ worker[v].target = plan[j].target
      BY <3>1 DEF Inv, Dispatching, BucketsHaveWorkers
    <3>3. CASE v # w
      BY <3>2, <3>3, <2>5 DEF Sending
    <3>4. CASE v = w
      <4>1. j \in Unanswered(agent)
        BY <3>1, <3>2, <3>4 DEF Unanswered, agent
      <4>2. new.step # "free" /\ new.target = plan[j].target
        BY <4>1, <3>1, <3>2, <3>4, <2>4 DEF agent
      <4> QED BY <4>2, <2>5 DEF Sending
    <3> QED BY <3>3, <3>4
  <2>11. AnsweredWereTaken' /\ AboutTasks(plan)'
    BY <1>2, <1>3, <1>5, <2>6 DEF Inv, Dispatching, AnsweredWereTaken, AboutTasks
  <2> QED BY <1>6, <2>7, <2>9, <2>10, <2>11 DEF Inv, Dispatching
<1> QED BY <1>7, <1>8

\* When the workers are done, every request was answered.
LEMMA AllAnsweredQuiet ==
    ASSUME Inv, AllAnswered
    PROVE  /\ \A w \in Workers : ~Sending(w)
           /\ \A i \in DOMAIN plan : result[i] # "none"
<1>1. \A w \in Workers : ~Sending(w)
  BY DEF AllAnswered, Sending
<1>2. \A i \in DOMAIN plan : plan[i].target \in taken
  BY DEF AllAnswered, Waiting
<1> QED BY <1>1, <1>2 DEF Inv, Dispatching, BucketsHaveWorkers

\* A cycle begins when the last one has ended.
LEMMA WakeInv == ASSUME Inv, Wake PROVE Inv'
<1>1. /\ phase = "asleep" /\ phase' = "topdown"
      /\ snap' = TaskList
      /\ Dispatch(TopDownRequests(TaskList))
      /\ UNCHANGED <<board, pending, worker, resets, reminded>>
  BY DEF Wake
<1>2. \A w \in Workers : ~Sending(w)
  BY <1>1 DEF Inv, Dispatching, QuietBetween
<1> DEFINE r == TopDownRequests(TaskList)
<1>3. DOMAIN r \subseteq Items /\ r \in [DOMAIN r -> Request] /\ AboutTasks(r)
  BY TopDownType
<1>4. Dispatch(r) /\ worker' = worker
  BY <1>1
<1> HIDE DEF r
<1>5. /\ Dispatching'
      /\ DOMAIN plan' \subseteq Items /\ plan' \in [DOMAIN plan' -> Request]
      /\ result' \in [DOMAIN plan' -> {"none", "ok", "error", "overflow"}]
      /\ taken' = {}
  BY <1>1, <1>2, <1>3, <1>4, DispatchInv DEF Inv
<1>6. snap' \in [Tasks -> Statuses \cup {"none"}]
  BY <1>1 DEF TaskList, Inv, TypeOK
<1>7. TypeOK'
  BY <1>1, <1>5, <1>6 DEF Inv, TypeOK, board
<1>8. ResetsWereDelivered'
  BY <1>1 DEF Inv, ResetsWereDelivered
<1> QED BY <1>5, <1>7, <1>8 DEF Inv

\* The pending tasks are read when the sage has answered.
LEMMA ReadPendingInv == ASSUME Inv, ReadPending PROVE Inv'
<1>1. /\ phase = "topdown" /\ phase' = "overdue"
      /\ pending' \subseteq Tasks
      /\ UNCHANGED <<board, snap, plan, result, taken, worker, resets, reminded>>
  BY DEF ReadPending
<1>2. /\ \A w \in Workers : ~Sending(w)
      /\ \A i \in DOMAIN plan : result[i] # "none"
  BY AllAnsweredQuiet DEF ReadPending
<1>3. TypeOK'
  BY <1>1 DEF Inv, TypeOK, board
<1>4. \A w \in Workers : Sending(w)' = Sending(w)
  BY <1>1 DEF Sending
<1>5. Dispatching'
  BY <1>1, <1>2, <1>4 DEF Inv, Dispatching, BusyOnTaken, OneMessagePerAgent, BucketsHaveWorkers,
                          AnsweredWereTaken, AboutTasks, QuietBetween
<1>6. ResetsWereDelivered'
  BY <1>1 DEF Inv, ResetsWereDelivered
<1> QED BY <1>3, <1>5, <1>6 DEF Inv

\* The second dispatch starts when the first has ended.
LEMMA ReadDoingInv == ASSUME Inv, ReadDoing PROVE Inv'
<1> DEFINE doing == {t \in Tasks : status[t] = "doing" /\ overdue[t]}
           r == StatusRequests(doing)
<1>1. /\ phase = "overdue" /\ phase' = "status"
      /\ Dispatch(r)
      /\ UNCHANGED <<board, snap, pending, worker, resets, reminded>>
  BY DEF ReadDoing
<1>2. \A w \in Workers : ~Sending(w)
  BY <1>1 DEF Inv, Dispatching, QuietBetween
<1>3. doing \in SUBSET Tasks
  OBVIOUS
<1> HIDE DEF doing
<1>4. DOMAIN r \subseteq Items /\ r \in [DOMAIN r -> Request] /\ AboutTasks(r)
  BY <1>3, RequestsType DEF Inv
<1> HIDE DEF r
<1>5. /\ Dispatching'
      /\ DOMAIN plan' \subseteq Items /\ plan' \in [DOMAIN plan' -> Request]
      /\ result' \in [DOMAIN plan' -> {"none", "ok", "error", "overflow"}]
      /\ taken' = {}
  BY <1>1, <1>2, <1>4, DispatchInv DEF Inv
<1>6. TypeOK'
  BY <1>1, <1>5 DEF Inv, TypeOK, board
<1>7. ResetsWereDelivered'
  BY <1>1 DEF Inv, ResetsWereDelivered
<1> QED BY <1>5, <1>6, <1>7 DEF Inv

\* The timers to restart are those of the delivered reminders.
LEMMA AnsweredInv == ASSUME Inv, Answered PROVE Inv'
<1>1. /\ phase = "status" /\ phase' = "reset"
      /\ resets' = {t \in DOMAIN plan : plan[t].kind = "doing" /\ result[t] = "ok"}
      /\ UNCHANGED <<board, snap, pending, plan, result, taken, worker, reminded>>
  BY DEF Answered
<1>2. /\ \A w \in Workers : ~Sending(w)
      /\ \A i \in DOMAIN plan : result[i] # "none"
  BY AllAnsweredQuiet DEF Answered
<1>3. \A w \in Workers : Sending(w)' = Sending(w)
  BY <1>1 DEF Sending
<1>4. Dispatching'
  BY <1>1, <1>2, <1>3 DEF Inv, Dispatching, BusyOnTaken, OneMessagePerAgent, BucketsHaveWorkers,
                          AnsweredWereTaken, AboutTasks, QuietBetween
<1>5. ResetsWereDelivered'
  BY <1>1 DEF ResetsWereDelivered
<1>6. resets' \subseteq Tasks
  BY <1>1 DEF Inv, Dispatching, AboutTasks
<1>7. TypeOK'
  BY <1>1, <1>6 DEF Inv, TypeOK, board
<1> QED BY <1>4, <1>5, <1>7 DEF Inv

\* A timer starts again, or the loop ends: the dispatch is over either way.
LEMMA ResetInv == ASSUME Inv, NEW t \in Tasks, Reset(t) PROVE Inv'
<1>1. /\ phase \in {"reset", "dead"} /\ phase' \in {"reset", "dead"}
      /\ resets' = resets \ {t}
      /\ UNCHANGED <<status, broken, edits, snap, pending, plan, result, taken, worker>>
      /\ overdue' = IF status[t] = "doing" THEN [overdue EXCEPT ![t] = FALSE] ELSE overdue
      /\ reminded' = IF status[t] = "doing" THEN reminded \ {t} ELSE reminded
  BY DEF Reset
<1>2. overdue' \in [Tasks -> BOOLEAN]
  BY <1>1 DEF Inv, TypeOK
<1>3. TypeOK'
  BY <1>1, <1>2 DEF Inv, TypeOK
<1>4. \A w \in Workers : Sending(w)' = Sending(w)
  BY <1>1 DEF Sending
<1>5. Dispatching'
  BY <1>1, <1>4 DEF Inv, Dispatching, BusyOnTaken, OneMessagePerAgent, BucketsHaveWorkers,
                    AnsweredWereTaken, AboutTasks, QuietBetween
<1>6. ResetsWereDelivered'
  BY <1>1 DEF Inv, ResetsWereDelivered
<1> QED BY <1>3, <1>5, <1>6 DEF Inv

\* A read that fails ends the loop between two dispatches.
LEMMA ReadFailsInv == ASSUME Inv, ReadFails PROVE Inv'
<1>1. /\ phase \in {"asleep", "topdown", "overdue"} /\ phase' = "dead"
      /\ phase = "topdown" => AllAnswered
      /\ UNCHANGED <<board, snap, pending, plan, result, taken, worker, resets, reminded>>
  BY DEF ReadFails
<1>2. /\ \A w \in Workers : ~Sending(w)
      /\ \A i \in DOMAIN plan : result[i] # "none"
  BY <1>1, AllAnsweredQuiet DEF Inv, Dispatching, QuietBetween
<1>3. \A w \in Workers : Sending(w)' = Sending(w)
  BY <1>1 DEF Sending
<1>4. Dispatching'
  BY <1>1, <1>2, <1>3 DEF Inv, Dispatching, BusyOnTaken, OneMessagePerAgent, BucketsHaveWorkers,
                          AnsweredWereTaken, AboutTasks, QuietBetween
<1>5. TypeOK' /\ ResetsWereDelivered'
  BY <1>1 DEF Inv, TypeOK, ResetsWereDelivered, board
<1> QED BY <1>4, <1>5 DEF Inv

\* A timer that cannot be restarted ends the loop.
LEMMA ResetFailsInv == ASSUME Inv, NEW t \in Tasks, ResetFails(t) PROVE Inv'
<1>1. /\ phase \in {"reset", "dead"} /\ phase' = "dead"
      /\ resets' = resets \ {t}
      /\ UNCHANGED <<board, snap, pending, plan, result, taken, worker, reminded>>
  BY DEF ResetFails
<1>2. \A w \in Workers : Sending(w)' = Sending(w)
  BY <1>1 DEF Sending
<1>3. Dispatching'
  BY <1>1, <1>2 DEF Inv, Dispatching, BusyOnTaken, OneMessagePerAgent, BucketsHaveWorkers,
                    AnsweredWereTaken, AboutTasks, QuietBetween
<1>4. TypeOK' /\ ResetsWereDelivered'
  BY <1>1 DEF Inv, TypeOK, ResetsWereDelivered, board
<1> QED BY <1>3, <1>4 DEF Inv

\* The cycle is forgotten.
LEMMA SleepInv == ASSUME Inv, Sleep PROVE Inv'
<1>1. /\ phase = "reset" /\ phase' = "asleep" /\ resets = {}
      /\ snap' = [t \in Tasks |-> "none"] /\ pending' = {}
      /\ plan' = Empty /\ result' = Empty /\ taken' = {}
      /\ UNCHANGED <<board, worker, resets, reminded>>
  BY DEF Sleep
<1>2. DOMAIN Empty = {} /\ Empty \in [{} -> Request]
      /\ Empty \in [{} -> {"none", "ok", "error", "overflow"}]
  BY DEF Empty
<1> HIDE DEF Empty
<1>3. TypeOK'
  BY <1>1, <1>2 DEF Inv, TypeOK, board
<1>4. \A w \in Workers : ~Sending(w) /\ ~Sending(w)'
  BY <1>1 DEF Inv, Dispatching, QuietBetween, Sending
<1>5. Dispatching'
  BY <1>1, <1>2, <1>4 DEF Dispatching, BusyOnTaken, OneMessagePerAgent, BucketsHaveWorkers,
                          AnsweredWereTaken, AboutTasks, QuietBetween
<1>6. ResetsWereDelivered'
  BY <1>1 DEF ResetsWereDelivered
<1> QED BY <1>3, <1>5, <1>6 DEF Inv

\* What others do to tasks does not touch the loop.
LEMMA LoopUntouched ==
    ASSUME Inv, UNCHANGED LoopVars
    PROVE  Dispatching' /\ ResetsWereDelivered'
<1>1. \A w \in Workers : Sending(w)' = Sending(w)
  BY DEF LoopVars, Sending
<1>2. Dispatching'
  BY <1>1 DEF LoopVars, Inv, Dispatching, BusyOnTaken, OneMessagePerAgent, BucketsHaveWorkers,
              AnsweredWereTaken, AboutTasks, QuietBetween
<1> QED BY <1>2 DEF LoopVars, Inv, ResetsWereDelivered

\* Agents and users change tasks, and timers run out.
LEMMA OthersInv == ASSUME Inv, Others PROVE Inv'
<1>1. ASSUME NEW t \in Tasks, RunOut(t) PROVE Inv'
  <2>1. UNCHANGED LoopVars /\ UNCHANGED <<status, broken, edits, reminded>>
    BY <1>1 DEF RunOut, rest, LoopVars
  <2>2. overdue' \in [Tasks -> BOOLEAN]
    BY <1>1 DEF RunOut, Inv, TypeOK
  <2>3. TypeOK'
    BY <2>1, <2>2 DEF LoopVars, Inv, TypeOK
  <2> QED BY <2>1, <2>3, LoopUntouched DEF Inv
<1>2. ASSUME NEW t \in Tasks, NEW s \in Statuses \cup {"none"}, Edit(t, s) PROVE Inv'
  <2>1. UNCHANGED LoopVars
    BY <1>2 DEF Edit, rest, LoopVars
  <2>2. /\ overdue' \in [Tasks -> BOOLEAN] /\ status' \in [Tasks -> Statuses \cup {"none"}]
        /\ reminded' \subseteq Items
        /\ edits' \in 0..MaxEdits /\ broken' = broken
    BY <1>2 DEF Edit, Inv, TypeOK
  <2>3. TypeOK'
    BY <2>1, <2>2 DEF LoopVars, Inv, TypeOK
  <2> QED BY <2>1, <2>3, LoopUntouched DEF Inv
<1>3. ASSUME NEW f \in Files, Break(f) \/ Mend(f) PROVE Inv'
  <2>1. UNCHANGED LoopVars /\ UNCHANGED <<status, overdue, reminded>>
    BY <1>3 DEF Break, Mend, rest, LoopVars
  <2>2. broken' \subseteq Files /\ edits' \in 0..MaxEdits
    BY <1>3 DEF Break, Mend, Inv, TypeOK
  <2>3. TypeOK'
    BY <2>1, <2>2 DEF LoopVars, Inv, TypeOK
  <2> QED BY <2>1, <2>3, LoopUntouched DEF Inv
<1> QED BY <1>1, <1>2, <1>3 DEF Others

\* Every step keeps the invariant.
LEMMA NextInv == Inv /\ [Next]_vars => Inv'
<1> SUFFICES ASSUME Inv, [Next]_vars PROVE Inv'
  OBVIOUS
<1>1. CASE Cycle
  BY <1>1, WakeInv, ReadPendingInv, ReadDoingInv, ReadFailsInv, AnsweredInv, ResetInv,
     ResetFailsInv, SleepInv DEF Cycle
<1>2. ASSUME NEW w \in Workers, Send(w) PROVE Inv'
  BY <1>2, TakeInv, AnswerInv DEF Send
<1>3. CASE Others
  BY <1>3, OthersInv
<1>4. CASE UNCHANGED vars
  <2>1. UNCHANGED LoopVars
    BY <1>4 DEF vars, LoopVars
  <2>2. TypeOK'
    BY <1>4 DEF vars, Inv, TypeOK
  <2> QED BY <2>1, <2>2, LoopUntouched DEF Inv
<1> QED BY <1>1, <1>2, <1>3, <1>4 DEF Next

\* The invariant holds in every state of the loop.
THEOREM Invariance == Spec => []Inv
<1> QED BY InitInv, NextInv, PTL DEF Spec

\* Every variable keeps its type.
THEOREM TypeCorrect == Spec => []TypeOK
<1>1. Inv => TypeOK
  BY DEF Inv
<1> QED BY <1>1, Invariance, PTL

\* No agent is sent two messages at a time, however many tasks and workers there are.
THEOREM AgentsAreSerialized == Spec => []OneMessagePerAgent
<1>1. Inv => OneMessagePerAgent
  BY DEF Inv, Dispatching
<1> QED BY <1>1, Invariance, PTL

\* The loop never goes on with a request unanswered.
THEOREM NoRequestIsDropped == Spec => []NobodyIsSkipped
<1>1. Inv => NobodyIsSkipped
  BY DEF Inv, Dispatching, QuietBetween, NobodyIsSkipped
<1> QED BY <1>1, Invariance, PTL

\* Only the loop's Reset stops a task from being overdue without moving it.
LEMMA OnlyResetRestarts ==
    ASSUME Inv, [Next]_vars, NEW t \in Tasks, overdue[t], ~overdue'[t], status'[t] = status[t]
    PROVE  Reset(t) /\ status[t] = "doing"
<1>1. overdue' # overdue
  OBVIOUS
<1>2. ASSUME NEW w \in Workers, Send(w) PROVE FALSE
  BY <1>1, <1>2 DEF Send, Take, Answer, board
<1>3. ASSUME NEW u \in Tasks, RunOut(u) PROVE FALSE
  BY <1>3 DEF RunOut, Inv, TypeOK
<1>4. ASSUME NEW u \in Tasks, NEW s \in Statuses \cup {"none"}, Edit(u, s) PROVE FALSE
  BY <1>4 DEF Edit, Inv, TypeOK
<1>5. /\ ~Wake /\ ~ReadPending /\ ~ReadDoing /\ ~ReadFails /\ ~Answered /\ ~Sleep
      /\ \A u \in Tasks : ~ResetFails(u)
      /\ \A f \in Files : ~Break(f) /\ ~Mend(f)
  BY <1>1 DEF Wake, ReadPending, ReadDoing, ReadFails, Answered, Sleep, ResetFails, Break, Mend,
              board
<1>6. UNCHANGED vars => FALSE
  BY <1>1 DEF vars
<1>7. PICK u \in Tasks : Reset(u)
  BY <1>2, <1>3, <1>4, <1>5, <1>6 DEF Next, Cycle, Others
<1>8. u = t /\ status[u] = "doing"
  BY <1>7 DEF Reset, Inv, TypeOK
<1> QED BY <1>7, <1>8

\* A timer restarts only where the reminder was delivered.
THEOREM TimersRestartOnDelivery == Spec => OnlyDeliveredRemindersRestartTimers
<1> DEFINE A == \A t \in Tasks : overdue[t] /\ ~overdue'[t] /\ status'[t] = status[t] =>
          status[t] = "doing" /\ t \in DOMAIN plan /\ plan[t].kind = "doing" /\ result[t] = "ok"
<1>1. ASSUME Inv, [Next]_vars PROVE A
  <2> SUFFICES ASSUME NEW t \in Tasks, overdue[t], ~overdue'[t], status'[t] = status[t]
               PROVE  status[t] = "doing" /\ t \in DOMAIN plan /\ plan[t].kind = "doing"
                      /\ result[t] = "ok"
    OBVIOUS
  <2>1. Reset(t) /\ status[t] = "doing"
    BY <1>1, OnlyResetRestarts
  <2>2. t \in resets
    BY <2>1 DEF Reset
  <2> QED BY <1>1, <2>1, <2>2 DEF Inv, ResetsWereDelivered
<1>2. Inv /\ [Next]_vars => [A]_vars
  BY <1>1
<1> QED BY <1>2, Invariance, PTL DEF Spec, OnlyDeliveredRemindersRestartTimers

\* The loop ends only over what it reads and over deleted tasks (runTaskCronCycle, which
\* the CLI's loop does not catch), whatever the agents it sends to do.
THEOREM LoopSurvivesAgents == Spec => OnlyTheBoardEndsTheLoop
<1> DEFINE Cause == /\ phase # "status"
                    /\ \/ phase = "asleep" /\ broken # {}
                       \/ phase # "asleep" /\ "board" \in broken
                       \/ phase = "reset" /\ \E t \in resets : status[t] = "none" /\ result[t] = "ok"
           A == phase' = "dead" /\ phase # "dead" => Cause
<1>1. ASSUME Inv, [Next]_vars, phase' = "dead", phase # "dead"
      PROVE  Cause
  <2>1. ~Wake /\ ~ReadPending /\ ~ReadDoing /\ ~Answered /\ ~Sleep
    BY <1>1 DEF Wake, ReadPending, ReadDoing, Answered, Sleep
  <2>2. ASSUME NEW w \in Workers PROVE ~Send(w)
    BY <1>1 DEF Send, Take, Answer
  <2>3. ~Others /\ ~UNCHANGED vars
    BY <1>1 DEF Others, RunOut, Edit, Break, Mend, rest, vars
  <2>4. ReadFails \/ \E t \in Tasks : Reset(t) \/ ResetFails(t)
    BY <1>1, <2>1, <2>2, <2>3 DEF Next, Cycle
  <2>5. CASE ReadFails
    BY <2>5 DEF ReadFails
  <2>6. ASSUME NEW t \in Tasks, ResetFails(t) PROVE Cause
    <3>1. phase = "reset" /\ "board" \in broken
      BY <1>1, <2>6 DEF ResetFails
    <3> QED BY <3>1
  <2>7. ASSUME NEW t \in Tasks, Reset(t) PROVE Cause
    <3>1. phase = "reset" /\ t \in resets /\ status[t] = "none"
      BY <1>1, <2>7 DEF Reset
    <3>2. result[t] = "ok"
      BY <1>1, <3>1 DEF Inv, ResetsWereDelivered
    <3> QED BY <3>1, <3>2
  <2> QED BY <2>4, <2>5, <2>6, <2>7
<1>2. Inv /\ [Next]_vars => [A]_vars
  BY <1>1
<1> QED BY <1>2, Invariance, PTL DEF Spec, OnlyTheBoardEndsTheLoop

----------------------------------------------------------------------------
(* One reminder within one timeout.  Between a delivered reminder and the  *)
(* restart of its timer the task may be moved, moved back or deleted.      *)

\* The first dispatch is about no task.
OnlyTheSage == phase = "topdown" => \A i \in DOMAIN plan : plan[i].kind = "topdown"

\* A doing task of which somebody was reminded has its timer restarted in this cycle,
\* unless it was moved, which starts the timer by itself, or the loop has ended.
RemindedAwaitReset ==
    \A t \in reminded :
        /\ t \in Tasks
        /\ status[t] = "doing" /\ phase # "dead" =>
              IF phase = "status" THEN t \in DOMAIN plan /\ plan[t].kind = "doing" /\ result[t] = "ok"
                                  ELSE t \in resets

Reminding == OnlyTheSage /\ RemindedAwaitReset

\* Nobody was reminded of anything at the start.
LEMMA InitReminding == Init => Reminding
BY DEF Init, Reminding, OnlyTheSage, RemindedAwaitReset, Empty

\* An answer to a reminder is remembered as long as the dispatch goes on.
LEMMA AnswerReminding ==
    ASSUME Inv, Reminding, NEW w \in Workers, NEW o \in Outcomes, Answer(w, o)
    PROVE  Reminding'
<1>1. PICK i \in Unanswered(worker[w].target) :
          IF NextStep(w, o) # "answered"
          THEN UNCHANGED <<result, reminded>>
          ELSE /\ result' = [result EXCEPT ![i] =
                     IF o = "ok" /\ worker[w].step # "compact" THEN "ok"
                     ELSE IF worker[w].step = "invoke" THEN o ELSE "error"]
               /\ reminded' = IF plan[i].kind = "doing" /\ o = "ok"
                              THEN reminded \cup {i} ELSE reminded
  BY DEF Answer
<1>2. /\ Sending(w) /\ i \in DOMAIN plan /\ result[i] = "none"
      /\ UNCHANGED <<status, phase, plan, resets>>
  BY DEF Answer, Sending, Unanswered, board
<1>3. phase \in {"topdown", "status"} /\ resets = {}
  BY <1>2 DEF Inv, Dispatching, QuietBetween, ResetsWereDelivered
<1>4. OnlyTheSage'
  BY <1>2 DEF Reminding, OnlyTheSage
<1>5. CASE NextStep(w, o) # "answered"
  BY <1>1, <1>2, <1>4, <1>5 DEF Reminding, RemindedAwaitReset
<1>6. CASE NextStep(w, o) = "answered"
  <2>1. o = "ok" => worker[w].step # "compact"
    BY <1>6 DEF NextStep
  <2>2. o = "ok" => result'[i] = "ok"
    BY <1>1, <1>2, <1>6, <2>1 DEF Inv, TypeOK
  <2>3. \A j \in DOMAIN plan : j # i => result'[j] = result[j]
    BY <1>1, <1>6 DEF Inv, TypeOK
  <2>4. \A t \in reminded' : t \in reminded \/ (t = i /\ plan[i].kind = "doing" /\ o = "ok")
    BY <1>1, <1>6
  <2>5. plan[i].kind = "doing" => i \in Tasks /\ phase = "status"
    BY <1>2, <1>3 DEF Inv, Dispatching, AboutTasks, Reminding, OnlyTheSage
  <2>6. RemindedAwaitReset'
    <3> SUFFICES ASSUME NEW t \in reminded'
                 PROVE  /\ t \in Tasks
                        /\ status[t] = "doing" /\ phase # "dead" =>
                              IF phase = "status"
                              THEN t \in DOMAIN plan /\ plan[t].kind = "doing" /\ result'[t] = "ok"
                              ELSE t \in resets
      BY <1>2 DEF RemindedAwaitReset
    <3>1. CASE t = i /\ plan[i].kind = "doing" /\ o = "ok"
      BY <1>2, <2>2, <2>5, <3>1
    <3>2. CASE t \in reminded
      BY <1>2, <2>3, <3>2 DEF Reminding, RemindedAwaitReset
    <3> QED BY <2>4, <3>1, <3>2
  <2> QED BY <1>4, <2>6 DEF Reminding
<1> QED BY <1>5, <1>6

\* Every step keeps it: what was delivered is handed over to the timers, and a task that
\* is moved is forgotten.
LEMMA NextReminding == Inv /\ Reminding /\ [Next]_vars => Reminding'
<1> SUFFICES ASSUME Inv, Reminding, [Next]_vars PROVE Reminding'
  OBVIOUS
<1> USE DEF Reminding, OnlyTheSage, RemindedAwaitReset
<1>1. CASE Wake
  <2>1. /\ phase = "asleep" /\ phase' = "topdown" /\ UNCHANGED <<status, resets, reminded>>
        /\ plan' = TopDownRequests(TaskList)
    BY <1>1 DEF Wake, board, Dispatch
  <2>2. \A i \in DOMAIN plan' : plan'[i].kind = "topdown"
    BY <2>1 DEF TopDownRequests, Empty
  <2> QED BY <2>1, <2>2
<1>2. CASE ReadPending
  BY <1>2 DEF ReadPending, board
<1>3. CASE ReadDoing
  <2>1. /\ phase = "overdue" /\ phase' = "status" /\ UNCHANGED <<status, resets, reminded>>
        /\ resets = {}
    BY <1>3 DEF ReadDoing, board, Inv, ResetsWereDelivered
  <2> QED BY <2>1
<1>4. CASE Answered
  BY <1>4 DEF Answered, board
<1>5. ASSUME NEW t \in Tasks, Reset(t) PROVE Reminding'
  <2>1. /\ phase \in {"reset", "dead"} /\ phase' \in {"reset", "dead"}
        /\ phase = "dead" => phase' = "dead"
        /\ resets' = resets \ {t} /\ status' = status
        /\ reminded' = IF status[t] = "doing" THEN reminded \ {t} ELSE reminded
    BY <1>5 DEF Reset
  <2> QED BY <2>1
<1>6. CASE Sleep
  BY <1>6 DEF Sleep, board
<1>7. ASSUME NEW w \in Workers, Take(w) PROVE Reminding'
  BY <1>7 DEF Take, board
<1>8. ASSUME NEW w \in Workers, NEW o \in Outcomes, Answer(w, o) PROVE Reminding'
  BY <1>8, AnswerReminding
<1>9. ASSUME NEW t \in Tasks, RunOut(t) PROVE Reminding'
  BY <1>9 DEF RunOut, rest
<1>10. ASSUME NEW t \in Tasks, NEW s \in Statuses \cup {"none"}, Edit(t, s) PROVE Reminding'
  <2>1. /\ status' = [status EXCEPT ![t] = s] /\ reminded' = reminded \ {t}
        /\ UNCHANGED <<phase, plan, result, resets>>
    BY <1>10 DEF Edit, rest
  <2> QED BY <2>1 DEF Inv, TypeOK
<1>11. CASE UNCHANGED vars
  BY <1>11 DEF vars
<1>12. ASSUME NEW t \in Tasks, ResetFails(t) PROVE Reminding'
  BY <1>12 DEF ResetFails, board
<1>13. ASSUME NEW f \in Files, Break(f) \/ Mend(f) PROVE Reminding'
  BY <1>13 DEF Break, Mend, rest
<1>14. CASE ReadFails
  BY <1>14 DEF ReadFails, board
<1> QED
  BY <1>1, <1>2, <1>3, <1>4, <1>5, <1>6, <1>7, <1>8, <1>9, <1>10, <1>11, <1>12, <1>13, <1>14
     DEF Next, Cycle, Send, Others

\* Nobody is reminded twice of a doing task within one timeout, however long the agents
\* take and whatever others do to the task in the meantime (runTaskCronCycle).
THEOREM RemindersAreSpaced == Spec => OneReminderPerTimeout
<1> DEFINE A == phase = "overdue" /\ phase' = "status" =>
          \A t \in DOMAIN plan' : plan'[t].kind = "doing" => t \notin reminded
<1>1. ASSUME Inv, Reminding, [Next]_vars, phase = "overdue", phase' = "status",
             NEW t \in DOMAIN plan', plan'[t].kind = "doing"
      PROVE  t \notin reminded
  <2>1. /\ ~Wake /\ ~ReadPending /\ ~ReadFails /\ ~Answered /\ ~Sleep
        /\ \A u \in Tasks : ~Reset(u) /\ ~ResetFails(u)
    BY <1>1 DEF Wake, ReadPending, ReadFails, Answered, Sleep, Reset, ResetFails
  <2>2. \A w \in Workers : ~Send(w)
    BY <1>1 DEF Send, Take, Answer
  <2>3. ~Others /\ ~UNCHANGED vars
    BY <1>1 DEF Others, RunOut, Edit, Break, Mend, rest, vars
  <2>4. ReadDoing
    BY <1>1, <2>1, <2>2, <2>3 DEF Next, Cycle
  <2> DEFINE doing == {u \in Tasks : status[u] = "doing" /\ overdue[u]}
  <2>5. plan' = StatusRequests(doing)
    BY <2>4 DEF ReadDoing, Dispatch
  <2> HIDE DEF doing
  <2>6. t \in doing
    BY <1>1, <2>5 DEF StatusRequests
  <2>7. status[t] = "doing" /\ resets = {}
    BY <1>1, <2>6 DEF doing, Inv, ResetsWereDelivered
  <2> QED BY <1>1, <2>7 DEF Reminding, RemindedAwaitReset
<1>2. Inv /\ Reminding /\ [Next]_vars => [A]_vars
  BY <1>1
<1> QED BY <1>2, InitInv, InitReminding, NextInv, NextReminding, PTL DEF Spec, OneReminderPerTimeout
====

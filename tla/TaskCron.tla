---- MODULE TaskCron ----
(***************************************************************************)
(* The task automation loop: `opengoat task cron` runs                     *)
(* OpenGoatService.runTaskCronCycle, sleeps and runs it again, for ever.   *)
(* A cycle reads the task list once, lets the "sage" agent delegate when   *)
(* few tasks are open, asks the board which pending and doing tasks are    *)
(* overdue, sends one message per task that needs attention, and restarts  *)
(* the timers of the doing tasks whose agents were reached.  Messages to   *)
(* one agent are sent one after the other, messages to different agents in *)
(* parallel, by at most MaxParallelFlows workers.  Sending a message runs  *)
(* the agent, which takes as long as it likes; all the while agents and    *)
(* users change and delete tasks.  Nothing catches what a cycle throws: a  *)
(* read that fails ends the loop.                                          *)
(***************************************************************************)
EXTENDS Naturals, FiniteSets

CONSTANTS
    Tasks,             \* task ids: numbers, in the order the tasks were created
    Agents,            \* agent ids
    Sage,              \* target of the top-down delegation message
    DefaultAgent,      \* target for a blocked task whose assignee has no manager
    AssignedTo,        \* [Tasks -> Agents]
    ReportsTo,         \* [Agents -> Agents \cup {NoManager}]
    NoManager,
    TopDown,           \* is the top-down strategy enabled
    OpenTasksThreshold,
    MaxParallelFlows,  \* workers of runWithConcurrency
    TaskListLimit,     \* MAX_TASK_LIST_LIMIT: the board lists the newest tasks only
    InitialStatuses,   \* what tasks may be when the loop is started
    MaxEdits           \* bound: changes agents and users make to tasks, and files that break

ASSUME TasksAssumption == Tasks \subseteq Nat \ {0} /\ IsFiniteSet(Tasks)
ASSUME AgentsAssumption ==
    /\ {Sage, DefaultAgent} \subseteq Agents
    /\ NoManager \notin Agents
    /\ AssignedTo \in [Tasks -> Agents]
    /\ ReportsTo \in [Agents -> Agents \cup {NoManager}]
ASSUME InitialAssumption ==
    InitialStatuses \subseteq {"todo", "doing", "pending", "blocked", "done", "none"}
ASSUME BoundsAssumption ==
    /\ MaxParallelFlows \in 1..32
    /\ OpenTasksThreshold \in Nat
    /\ TaskListLimit \in Nat
    /\ MaxEdits \in Nat
    /\ TopDown \in BOOLEAN

Statuses == {"todo", "doing", "pending", "blocked", "done"}
Workers == 1..MaxParallelFlows

VARIABLES
    status,    \* the board: each task's status, "none" for a task that does not exist
    overdue,   \* the board: has the task's status timer (status_updated_at) run out
    phase,     \* where the loop is
    snap,      \* the task list as this cycle read it
    pending,   \* listPendingTaskIdsOlderThan, as this cycle read it
    plan,      \* the requests of the running dispatch: [item -> kind and target]
    result,    \* what became of each request
    taken,     \* target agents whose requests some worker has taken up
    worker,    \* per worker: the agent it sends to, and how far the message got
    resets,    \* doing tasks whose timer is still to be restarted in this cycle
    broken,    \* what cannot be read: a manifest, or the file of the board
    edits,     \* changes made to tasks and breaks so far (bounded by MaxEdits)
    reminded   \* history: tasks whose agent was reminded since the timer last started

vars == <<status, overdue, phase, snap, pending, plan, result, taken, worker, resets, broken,
          edits, reminded>>

board == <<status, overdue, broken, edits>>

Files == {"manifests", "board"}
Items == Tasks \cup {0}   \* 0 is the top-down message
Request == [kind : {"topdown", "todo", "doing", "pending", "blocked"}, target : Agents]
Empty == [i \in {} |-> 0]
FreeWorker == [step |-> "free", target |-> NoManager]

Init ==
    /\ status \in [Tasks -> InitialStatuses]
    /\ overdue \in [Tasks -> BOOLEAN]
    /\ \A t \in Tasks : overdue[t] => status[t] \in {"doing", "pending"}
    /\ phase = "asleep"
    /\ snap = [t \in Tasks |-> "none"]
    /\ pending = {} /\ resets = {} /\ reminded = {}
    /\ plan = Empty /\ result = Empty /\ taken = {}
    /\ worker = [w \in Workers |-> FreeWorker]
    /\ broken = {} /\ edits = 0

----------------------------------------------------------------------------
(* Building the requests                                                   *)

\* Newer tasks push older ones, whatever their status, off the list.
Listed(t) == Cardinality({u \in Tasks : u > t /\ status[u] # "none"}) < TaskListLimit
TaskList == [t \in Tasks |-> IF Listed(t) THEN status[t] ELSE "none"]

\* isTopDownOpenTaskStatus
Open(list) == {t \in Tasks : list[t] \notin {"none", "done", "blocked"}}

TopDownRequests(list) ==
    IF TopDown /\ Cardinality(Open(list)) <= OpenTasksThreshold
    THEN [i \in {0} |-> [kind |-> "topdown", target |-> Sage]]
    ELSE Empty

\* Mutant: an agent without a manager has its manager's messages sent to nobody.
ManagerOrNobody(a) == ReportsTo[a]

Manager(a) == IF ReportsTo[a] = NoManager THEN DefaultAgent ELSE ReportsTo[a]

\* Mutant: todo tasks are not reminded of.
OnlyOverdueRequests(doing) ==
    LET due == {t \in Tasks : snap[t] = "doing" /\ t \in doing}
    IN  [t \in due |-> [kind |-> "doing", target |-> AssignedTo[t]]]

\* The statuses come from the snapshot, the overdue sets from later reads.
StatusRequests(doing) ==
    LET due == {t \in Tasks : \/ snap[t] \in {"todo", "blocked"}
                              \/ snap[t] = "doing" /\ t \in doing
                              \/ snap[t] = "pending" /\ t \in pending}
    IN  [t \in due |-> [kind |-> snap[t],
                        target |-> IF snap[t] = "blocked" THEN Manager(AssignedTo[t])
                                                          ELSE AssignedTo[t]]]

Dispatch(requests) ==
    /\ plan' = requests
    /\ result' = [i \in DOMAIN requests |-> "none"]
    /\ taken' = {}

----------------------------------------------------------------------------
(* runWithConcurrencyByKey: one bucket per target agent, in the order of   *)
(* the requests; each worker empties a bucket, then takes the next one     *)

\* Mutant: workers take up single requests, whoever they go to.
WaitingRequests == {i \in DOMAIN plan : result[i] = "none"}

Waiting == {i \in DOMAIN plan : plan[i].target \notin taken}

\* A worker takes the bucket of the first request nobody has taken up.
Take(w) ==
    /\ worker[w].step = "free"
    /\ \E i \in Waiting :
          /\ \A j \in Waiting : i <= j
          /\ worker' = [worker EXCEPT ![w] = [step |-> "invoke", target |-> plan[i].target]]
          /\ taken' = taken \cup {plan[i].target}
    /\ UNCHANGED <<board, phase, snap, pending, plan, result, resets, reminded>>

\* The requests of a bucket that were not answered yet.
Unanswered(agent) == {i \in DOMAIN plan : plan[i].target = agent /\ result[i] = "none"}

\* buildNotificationSessionRef and isNotificationSessionRef: the references end in
\* "-notifications", the test looks for "_notifications".
SessionRef(agent) == [agent |-> agent, suffix |-> "-notifications"]
IsNotificationSessionRef(ref) == ref.suffix = "_notifications"

\* dispatchAutomationMessage, from one answer of the agent to the next step: compact the
\* session after a context overflow, send the message again after a compaction.
NextStep(w, outcome) ==
    CASE /\ worker[w].step = "invoke" /\ outcome = "overflow"
         /\ IsNotificationSessionRef(SessionRef(worker[w].target)) -> "compact"
      [] worker[w].step = "compact" /\ outcome = "ok" -> "retry"
      [] OTHER -> "answered"

\* The agent's run ends (or fails to start, which is an error like another).
Answer(w, outcome) ==
    LET agent == worker[w].target
    IN  /\ worker[w].step # "free"
        /\ \E i \in Unanswered(agent) :
              /\ \A j \in Unanswered(agent) : i <= j
              /\ IF NextStep(w, outcome) # "answered"
                 THEN /\ worker' = [worker EXCEPT ![w].step = NextStep(w, outcome)]
                      /\ UNCHANGED <<result, reminded>>
                 ELSE /\ result' = [result EXCEPT ![i] =
                            IF outcome = "ok" /\ worker[w].step # "compact" THEN "ok"
                            ELSE IF worker[w].step = "invoke" THEN outcome ELSE "error"]
                      /\ worker' = [worker EXCEPT ![w] =
                            IF Unanswered(agent) = {i} THEN FreeWorker
                            ELSE [step |-> "invoke", target |-> agent]]
                      /\ reminded' = IF plan[i].kind = "doing" /\ outcome = "ok"
                                     THEN reminded \cup {i} ELSE reminded
        /\ UNCHANGED <<board, phase, snap, pending, plan, taken, resets>>

\* Mutant: the workers are started and not awaited.
AllTaken == Waiting = {}

\* Promise.all over the workers.
AllAnswered == Waiting = {} /\ \A w \in Workers : worker[w].step = "free"

----------------------------------------------------------------------------
(* runTaskCronCycle                                                        *)

\* A cycle starts: the task list is read, the top-down message goes out.
Wake ==
    /\ phase = "asleep"
    /\ broken = {}
    /\ phase' = "topdown"
    /\ snap' = TaskList
    /\ Dispatch(TopDownRequests(TaskList))
    /\ UNCHANGED <<board, pending, worker, resets, reminded>>

\* The sage has answered (or there was nothing to ask): which pending tasks are overdue?
ReadPending ==
    /\ phase = "topdown"
    /\ AllAnswered
    /\ "board" \notin broken
    /\ phase' = "overdue"
    /\ pending' = {t \in Tasks : status[t] = "pending" /\ overdue[t]}
    /\ UNCHANGED <<board, snap, plan, result, taken, worker, resets, reminded>>

\* Which doing tasks are? Then dispatchTaskStatusAutomations sends.
ReadDoing ==
    /\ phase = "overdue"
    /\ "board" \notin broken
    /\ phase' = "status"
    /\ Dispatch(StatusRequests({t \in Tasks : status[t] = "doing" /\ overdue[t]}))
    /\ UNCHANGED <<board, snap, pending, worker, resets, reminded>>

\* A read rejects, and with it the cycle and the CLI's loop: listManifests or listTasks at
\* the start, the overdue tasks after the sage has answered.
ReadFails ==
    /\ \/ phase = "asleep" /\ broken # {}
       \/ phase = "topdown" /\ AllAnswered /\ "board" \in broken
       \/ phase = "overdue" /\ "board" \in broken
    /\ phase' = "dead"
    /\ UNCHANGED <<board, snap, pending, plan, result, taken, worker, resets, reminded>>

\* Mutant: timers restart whether or not the reminder was delivered.
AnsweredOrFailed ==
    /\ phase = "status"
    /\ AllAnswered
    /\ phase' = "reset"
    /\ resets' = {t \in DOMAIN plan : plan[t].kind = "doing"}
    /\ UNCHANGED <<board, snap, pending, plan, result, taken, worker, reminded>>

\* All agents have answered: restart the timers of the doing tasks they were reminded of.
Answered ==
    /\ phase = "status"
    /\ AllAnswered
    /\ phase' = "reset"
    /\ resets' = {t \in DOMAIN plan : plan[t].kind = "doing" /\ result[t] = "ok"}
    /\ UNCHANGED <<board, snap, pending, plan, result, taken, worker, reminded>>

\* Mutant: the UPDATE asks for another status than the task has, and changes no row.
ResetNoRow(t) ==
    /\ phase \in {"reset", "dead"}
    /\ t \in resets
    /\ "board" \notin broken
    /\ resets' = resets \ {t}
    /\ phase' = IF status[t] = "none" THEN "dead" ELSE phase
    /\ UNCHANGED <<board, snap, pending, plan, result, taken, worker, reminded>>

\* Mutant: a task that is no longer doing is an error, like one that is gone.
ResetIsStrict(t) ==
    /\ phase \in {"reset", "dead"}
    /\ t \in resets
    /\ "board" \notin broken
    /\ resets' = resets \ {t}
    /\ phase' = IF status[t] # "doing" THEN "dead" ELSE phase
    /\ overdue' = IF status[t] = "doing" THEN [overdue EXCEPT ![t] = FALSE] ELSE overdue
    /\ reminded' = IF status[t] = "doing" THEN reminded \ {t} ELSE reminded
    /\ UNCHANGED <<status, broken, edits, snap, pending, plan, result, taken, worker>>

\* resetTaskStatusTimeout(t, "doing"). For a task that is gone it throws, which rejects
\* the cycle and ends the loop; the calls already made go on.
Reset(t) ==
    /\ phase \in {"reset", "dead"}
    /\ t \in resets
    /\ "board" \notin broken
    /\ resets' = resets \ {t}
    /\ phase' = IF status[t] = "none" THEN "dead" ELSE phase
    /\ overdue' = IF status[t] = "doing" THEN [overdue EXCEPT ![t] = FALSE] ELSE overdue
    /\ reminded' = IF status[t] = "doing" THEN reminded \ {t} ELSE reminded
    /\ UNCHANGED <<status, broken, edits, snap, pending, plan, result, taken, worker>>

\* It throws as well where the file of the board cannot be read or written.
ResetFails(t) ==
    /\ phase \in {"reset", "dead"}
    /\ t \in resets
    /\ "board" \in broken
    /\ resets' = resets \ {t}
    /\ phase' = "dead"
    /\ UNCHANGED <<board, snap, pending, plan, result, taken, worker, reminded>>

\* The cycle returns its summary, and the loop sleeps.
Sleep ==
    /\ phase = "reset"
    /\ resets = {}
    /\ phase' = "asleep"
    /\ snap' = [t \in Tasks |-> "none"]
    /\ pending' = {}
    /\ plan' = Empty /\ result' = Empty /\ taken' = {}
    /\ UNCHANGED <<board, worker, resets, reminded>>

----------------------------------------------------------------------------
(* Everybody else                                                          *)

rest == <<phase, snap, pending, plan, result, taken, worker, resets>>

\* A task is created (none newer than it exists), moved to a status, or deleted:
\* all of them start its timer anew.
Edit(t, s) ==
    /\ edits < MaxEdits
    /\ edits' = edits + 1
    /\ IF status[t] = "none" THEN \A u \in Tasks : u >= t => status[u] = "none"
                             ELSE TRUE
    /\ s # status[t]
    /\ status' = [status EXCEPT ![t] = s]
    /\ overdue' = [overdue EXCEPT ![t] = FALSE]
    /\ reminded' = reminded \ {t}
    /\ UNCHANGED <<broken, rest>>

\* The status timer of a task runs out.
RunOut(t) ==
    /\ status[t] \in {"doing", "pending"}
    /\ ~overdue[t]
    /\ overdue' = [overdue EXCEPT ![t] = TRUE]
    /\ UNCHANGED <<status, broken, edits, reminded, rest>>

\* A file becomes unreadable (one cut short by a kill, a manifest that does not parse)...
Break(file) ==
    /\ edits < MaxEdits
    /\ edits' = edits + 1
    /\ broken' = broken \cup {file}
    /\ UNCHANGED <<status, overdue, reminded, rest>>

\* ... and is repaired.
Mend(file) ==
    /\ file \in broken
    /\ broken' = broken \ {file}
    /\ UNCHANGED <<status, overdue, edits, reminded, rest>>

----------------------------------------------------------------------------
Outcomes == {"ok", "error", "overflow"}

Cycle ==
    \/ Wake \/ ReadPending \/ ReadDoing \/ ReadFails \/ Answered \/ Sleep
    \/ \E t \in Tasks : Reset(t) \/ ResetFails(t)
Send(w) == Take(w) \/ \E o \in Outcomes : Answer(w, o)
Others ==
    \/ \E t \in Tasks : RunOut(t) \/ \E s \in Statuses \cup {"none"} : Edit(t, s)
    \/ \E file \in Files : Break(file) \/ Mend(file)

Next == Cycle \/ (\E w \in Workers : Send(w)) \/ Others

\* The loop keeps going and every agent run ends (the providers bound it by a timeout);
\* nobody has to edit tasks, and no timer has to run out.
Fairness == WF_vars(Cycle) /\ \A w \in Workers : WF_vars(Send(w))

Spec == Init /\ [][Next]_vars /\ Fairness

----------------------------------------------------------------------------
(* Properties                                                              *)

Sending(w) == worker[w].step # "free"

\* Every variable has its type; every request has an agent to go to.
TypeOK ==
    /\ status \in [Tasks -> Statuses \cup {"none"}]
    /\ overdue \in [Tasks -> BOOLEAN]
    /\ phase \in {"asleep", "topdown", "overdue", "status", "reset", "dead"}
    /\ snap \in [Tasks -> Statuses \cup {"none"}]
    /\ pending \subseteq Tasks /\ resets \subseteq Tasks /\ reminded \subseteq Items
    /\ DOMAIN plan \subseteq Items /\ plan \in [DOMAIN plan -> Request]
    /\ result \in [DOMAIN plan -> {"none", "ok", "error", "overflow"}]
    /\ taken \subseteq Agents
    /\ worker \in [Workers -> [step : {"free", "invoke", "compact", "retry"},
                               target : Agents \cup {NoManager}]]
    /\ broken \subseteq Files /\ edits \in 0..MaxEdits

\* "serializes cron dispatches per target agent while keeping cross-agent parallelism": no
\* agent is sent two messages at a time, though a blocked task's message goes to the
\* manager, who has tasks of its own.
OneMessagePerAgent ==
    \A v, w \in Workers : Sending(v) /\ Sending(w) /\ worker[v].target = worker[w].target => v = w

\* A message is under way only while the loop waits for it: no cycle goes on to the next
\* phase, to the timers or to sleep with a request unanswered or an agent still running.
NobodyIsSkipped ==
    phase \in {"overdue", "reset", "asleep", "dead"} =>
        /\ \A w \in Workers : ~Sending(w)
        /\ \A i \in DOMAIN plan : result[i] # "none"

\* A timer is restarted only for a doing task whose agent got the reminder: a reminder
\* that failed leaves the task overdue, so that the next cycle tries again.
OnlyDeliveredRemindersRestartTimers ==
    [][\A t \in Tasks : overdue[t] /\ ~overdue'[t] /\ status'[t] = status[t] =>
          status[t] = "doing" /\ t \in DOMAIN plan /\ plan[t].kind = "doing" /\ result[t] = "ok"]_vars

\* Nobody is reminded twice of a doing task within one timeout: a cycle that plans a
\* reminder finds that the timer started again after the last delivered one.
OneReminderPerTimeout ==
    [][phase = "overdue" /\ phase' = "status" =>
          \A t \in DOMAIN plan' : plan'[t].kind = "doing" => t \notin reminded]_vars

\* The loop ends only between the dispatches, over a file it cannot read or a task that was
\* deleted while its reminder was being delivered: no agent that fails, overflows or takes
\* its time ends it, nor a task that was merely moved while its agent was at work.
OnlyTheBoardEndsTheLoop ==
    [][phase' = "dead" /\ phase # "dead" =>
          /\ phase # "status"
          /\ \/ phase = "asleep" /\ broken # {}
             \/ phase # "asleep" /\ "board" \in broken
             \/ phase = "reset" /\ \E t \in resets : status[t] = "none" /\ result[t] = "ok"]_vars

\* A todo task within the listed window is brought to its assignee again and again, for as
\* long as it stays todo and the loop lives.
BeingNotified(t) == phase = "status" /\ t \in DOMAIN plan /\ result[t] # "none"
TodoTasksAreBroughtUp ==
    \A t \in Tasks : []<>(phase = "dead" \/ status[t] # "todo" \/ ~Listed(t) \/ BeingNotified(t))

\* "on provider context overflow, notification delivery now compacts the same OpenClaw
\* notification session and retries once" (CHANGELOG.md): no request is given up because
\* its first attempt overflowed.
OverflowIsCompactedAndRetried == \A i \in DOMAIN plan : result[i] # "overflow"
====

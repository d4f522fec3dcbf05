---- MODULE AcpAgent ----
(***************************************************************************)
(* OpenGoatAcpAgent (packages/core/src/core/acp): the prompts and the      *)
(* cancellations of editors.  A prompt first waits for the list of agents, *)
(* then runs an agent, then sends the agent's text to the client, and is   *)
(* answered.  The agent remembers one pending prompt and one active run    *)
(* per session; a cancellation is answered from these at once, while the   *)
(* cancelled run goes on unheard.                                          *)
(*                                                                         *)
(* Clients in Patient sessions wait for the answer to a prompt before they *)
(* send the next one of that session, as the protocol has it; the others   *)
(* do not, and nothing in the code stops them.                             *)
(***************************************************************************)
EXTENDS Naturals, FiniteSets

CONSTANTS
    Sessions,   \* sessions the client has opened
    Prompts,    \* session/prompt requests
    SessionOf,  \* [Prompts -> Sessions]
    Patient,    \* sessions whose client sends one prompt at a time
    None,       \* no prompt
    MaxCancels  \* bound: session/cancel notifications per session

ASSUME SessionsAssumption == SessionOf \in [Prompts -> Sessions] /\ Patient \subseteq Sessions
ASSUME PromptsAssumption == IsFiniteSet(Prompts) /\ None \notin Prompts
ASSUME MaxCancelsAssumption == MaxCancels \in Nat

VARIABLES
    prompt,             \* each request: how far it is and what it was answered
    run,                \* each request's runAgent
    pendingPrompts,     \* session -> the prompt to settle when a cancellation comes
    activeRuns,         \* session -> the run that may answer, and is it cancelled
    cancelledSessions,  \* sessions that were cancelled with nothing to cancel
    cancels             \* cancellations received per session (bounded by MaxCancels)

vars == <<prompt, run, pendingPrompts, activeRuns, cancelledSessions, cancels>>

NoRun == [run |-> None, cancelled |-> FALSE]

Init ==
    /\ prompt = [p \in Prompts |-> [pc |-> "new", answer |-> "none"]]
    /\ run = [p \in Prompts |-> "none"]
    /\ pendingPrompts = [s \in Sessions |-> None]
    /\ activeRuns = [s \in Sessions |-> NoRun]
    /\ cancelledSessions = {}
    /\ cancels = [s \in Sessions |-> 0]

Of(s) == {p \in Prompts : SessionOf[p] = s}
Unanswered(p) == prompt[p].pc \in {"resolving", "pending", "delivering"}

\* PendingPrompt.settled
Settled(p) == prompt[p].pc \in {"delivering", "answered", "lost"}

----------------------------------------------------------------------------
\* Mutant: a prompt that was settled before is settled again.
SettleAgain(p, answer, text, runs) ==
    /\ prompt' = [prompt EXCEPT ![p] = [pc |-> IF text THEN "delivering" ELSE "answered",
                                        answer |-> answer]]
    /\ pendingPrompts' = [pendingPrompts EXCEPT ![SessionOf[p]] = None]
    /\ activeRuns' = [runs EXCEPT ![SessionOf[p]] = NoRun]

\* Mutant: the active run is not cleared.
SettleKeepsRun(p, answer, text, runs) ==
    /\ ~Settled(p)
    /\ prompt' = [prompt EXCEPT ![p] = [pc |-> IF text THEN "delivering" ELSE "answered",
                                        answer |-> answer]]
    /\ pendingPrompts' = [pendingPrompts EXCEPT ![SessionOf[p]] = None]
    /\ activeRuns' = runs

\* resolvePrompt and rejectPrompt: once per prompt, remove the session's entries, whichever
\* prompt they name; answer now, or after the text has been sent. runs is activeRuns
\* as the caller has left it.
Settle(p, answer, text, runs) ==
    IF Settled(p)
    THEN /\ activeRuns' = runs
         /\ UNCHANGED <<prompt, pendingPrompts>>
    ELSE /\ prompt' = [prompt EXCEPT ![p] = [pc |-> IF text THEN "delivering" ELSE "answered",
                                             answer |-> answer]]
         /\ pendingPrompts' = [pendingPrompts EXCEPT ![SessionOf[p]] = None]
         /\ activeRuns' = [runs EXCEPT ![SessionOf[p]] = NoRun]

----------------------------------------------------------------------------
(* prompt                                                                  *)

\* The request arrives and waits for the agents.
Ask(p) ==
    /\ prompt[p].pc = "new"
    /\ SessionOf[p] \in Patient => \A q \in Of(SessionOf[p]) : ~Unanswered(q)
    /\ prompt' = [prompt EXCEPT ![p] = [pc |-> "resolving", answer |-> "none"]]
    /\ UNCHANGED <<run, pendingPrompts, activeRuns, cancelledSessions, cancels>>

\* Listing the agents fails: the request fails.
AskFails(p) ==
    /\ prompt[p].pc = "resolving"
    /\ prompt' = [prompt EXCEPT ![p] = [pc |-> "answered", answer |-> "error"]]
    /\ UNCHANGED <<run, pendingPrompts, activeRuns, cancelledSessions, cancels>>

\* A cancellation came with nothing to cancel: this prompt is the one it cancels.
BeginCancelled(p) ==
    /\ prompt[p].pc = "resolving"
    /\ SessionOf[p] \in cancelledSessions
    /\ cancelledSessions' = cancelledSessions \ {SessionOf[p]}
    /\ prompt' = [prompt EXCEPT ![p] = [pc |-> "answered", answer |-> "cancelled"]]
    /\ UNCHANGED <<run, pendingPrompts, activeRuns, cancels>>

\* The agent is started. The entries of an earlier prompt are overwritten.
Begin(p) ==
    /\ prompt[p].pc = "resolving"
    /\ SessionOf[p] \notin cancelledSessions
    /\ prompt' = [prompt EXCEPT ![p] = [pc |-> "pending", answer |-> "none"]]
    /\ pendingPrompts' = [pendingPrompts EXCEPT ![SessionOf[p]] = p]
    /\ activeRuns' = [activeRuns EXCEPT ![SessionOf[p]] = [run |-> p, cancelled |-> FALSE]]
    /\ run' = [run EXCEPT ![p] = "going"]
    /\ UNCHANGED <<cancelledSessions, cancels>>

----------------------------------------------------------------------------
(* cancel                                                                  *)

\* Mutant: a cancellation with nothing to cancel is remembered beside the one it cancels.
CancelTwice(s) ==
    /\ cancels[s] < MaxCancels
    /\ cancels' = [cancels EXCEPT ![s] = @ + 1]
    /\ cancelledSessions' = cancelledSessions \cup {s}
    /\ IF pendingPrompts[s] # None
       THEN Settle(pendingPrompts[s], "cancelled", FALSE, activeRuns)
       ELSE UNCHANGED <<prompt, pendingPrompts, activeRuns>>
    /\ UNCHANGED run

\* Mutant: what is remembered is the pending prompt, not the session.
CancelRemembersPrompt(s) ==
    /\ cancels[s] < MaxCancels
    /\ cancels' = [cancels EXCEPT ![s] = @ + 1]
    /\ cancelledSessions' = cancelledSessions \cup {pendingPrompts[s]}
    /\ UNCHANGED <<prompt, run, pendingPrompts, activeRuns>>

\* A cancellation arrives. The flag it raises does not outlive the step: settling, or
\* the lack of a pending prompt, removes the run.
Cancel(s) ==
    LET active == activeRuns[s].run # None
        flagged == [activeRuns EXCEPT ![s] = [run |-> @.run, cancelled |-> TRUE]]
    IN  /\ cancels[s] < MaxCancels
        /\ cancels' = [cancels EXCEPT ![s] = @ + 1]
        /\ IF pendingPrompts[s] # None
           THEN /\ Settle(pendingPrompts[s], "cancelled", FALSE,
                          IF active THEN flagged ELSE activeRuns)
                /\ UNCHANGED cancelledSessions
           ELSE /\ activeRuns' = [activeRuns EXCEPT ![s] = NoRun]
                /\ cancelledSessions' = IF active THEN cancelledSessions
                                                  ELSE cancelledSessions \cup {s}
                /\ UNCHANGED <<prompt, pendingPrompts>>
        /\ UNCHANGED run

----------------------------------------------------------------------------
(* executePromptRun, from where runAgent ends                              *)

\* Mutant: the answer of a run that is not the active one is dropped, and so is its request.
RunEndsUnheard(p) ==
    LET active == activeRuns[SessionOf[p]]
    IN  /\ run[p] = "going"
        /\ run' = [run EXCEPT ![p] = "ended"]
        /\ IF active.run # p \/ active.cancelled
           THEN UNCHANGED <<prompt, pendingPrompts, activeRuns>>
           ELSE Settle(p, "done", TRUE, activeRuns)
        /\ UNCHANGED <<cancelledSessions, cancels>>

\* The agent has run, with or without a text to send.
RunEnds(p) ==
    LET active == activeRuns[SessionOf[p]]
    IN  /\ run[p] = "going"
        /\ run' = [run EXCEPT ![p] = "ended"]
        /\ IF active.run # p \/ active.cancelled
           THEN Settle(p, "cancelled", FALSE, activeRuns)
           ELSE \E text \in BOOLEAN : Settle(p, "done", text, activeRuns)
        /\ UNCHANGED <<cancelledSessions, cancels>>

RunFails(p) ==
    /\ run[p] = "going"
    /\ run' = [run EXCEPT ![p] = "ended"]
    /\ Settle(p, IF activeRuns[SessionOf[p]].cancelled THEN "cancelled" ELSE "error",
              FALSE, activeRuns)
    /\ UNCHANGED <<cancelledSessions, cancels>>

\* The text is sent: the request is answered.
Delivered(p) ==
    /\ prompt[p].pc = "delivering"
    /\ prompt' = [prompt EXCEPT ![p] = [pc |-> "answered", answer |-> @.answer]]
    /\ UNCHANGED <<run, pendingPrompts, activeRuns, cancelledSessions, cancels>>

\* Sending the text fails: rejectPrompt finds the prompt settled, nobody answers it.
DeliveryFails(p) ==
    /\ prompt[p].pc = "delivering"
    /\ prompt' = [prompt EXCEPT ![p] = [pc |-> "lost", answer |-> @.answer]]
    /\ UNCHANGED <<run, pendingPrompts, activeRuns, cancelledSessions, cancels>>

----------------------------------------------------------------------------
Resolve(p) == AskFails(p) \/ BeginCancelled(p) \/ Begin(p)
Run(p) == RunEnds(p) \/ RunFails(p)
Deliver(p) == Delivered(p) \/ DeliveryFails(p)

Next ==
    \/ \E p \in Prompts : Ask(p) \/ Resolve(p) \/ Run(p) \/ Deliver(p)
    \/ \E s \in Sessions : Cancel(s)

\* Listing agents, running an agent and sending a text end, well or badly; clients need
\* not ask or cancel anything.
Fairness ==
    \A p \in Prompts : WF_vars(Resolve(p)) /\ WF_vars(Run(p)) /\ WF_vars(Deliver(p))

Spec == Init /\ [][Next]_vars /\ Fairness

----------------------------------------------------------------------------
(* Properties                                                              *)

\* Every variable has its type.
TypeOK ==
    /\ prompt \in [Prompts -> [pc : {"new", "resolving", "pending", "delivering", "answered", "lost"},
                               answer : {"none", "cancelled", "done", "error"}]]
    /\ run \in [Prompts -> {"none", "going", "ended"}]
    /\ pendingPrompts \in [Sessions -> Prompts \cup {None}]
    /\ activeRuns \in [Sessions -> [run : Prompts \cup {None}, cancelled : BOOLEAN]]
    /\ cancelledSessions \subseteq Sessions
    /\ cancels \in [Sessions -> 0..MaxCancels]

\* The agent's pending prompts and the store's active runs are two records of one fact: in
\* every session, overlapping prompts or not, they name the same prompt, it is not settled,
\* and no flagged run stays behind to be taken for the next prompt's.
PendingIsActive ==
    \A s \in Sessions :
        /\ pendingPrompts[s] = activeRuns[s].run
        /\ ~activeRuns[s].cancelled
        /\ pendingPrompts[s] # None => /\ prompt[pendingPrompts[s]].pc = "pending"
                                       /\ SessionOf[pendingPrompts[s]] = s

\* "supports cancellation for an active prompt": in a session of a patient client a
\* cancellation finds the prompt whose agent is running, though runs of earlier, cancelled
\* prompts of the session end meanwhile.
CancellationFindsThePrompt ==
    \A p \in Prompts :
        SessionOf[p] \in Patient /\ prompt[p].pc = "pending" => pendingPrompts[SessionOf[p]] = p

\* In a session of a patient client no more prompts are answered "cancelled" than
\* cancellations were received: one that came too late, or before the agent was started,
\* stops one prompt and not every later one.
Cancelled(s) == {p \in Of(s) : prompt[p].answer = "cancelled"}
OneCancellationOnePrompt == \A s \in Patient : Cardinality(Cancelled(s)) <= cancels[s]

\* A request is settled once: the late end of a cancelled run never changes what its
\* request was answered and never has text sent.
SettledOnce ==
    [][\A p \in Prompts :
          /\ prompt[p].answer # "none" => prompt'[p].answer = prompt[p].answer
          /\ prompt[p].pc = "answered" => prompt'[p].pc = "answered"]_vars

\* Every prompt is answered, also when another prompt of its session overwrote or removed
\* its entries; only a text that could not be sent leaves its prompt without an answer.
EveryPromptIsAnswered ==
    \A p \in Prompts : Unanswered(p) ~> prompt[p].pc \in {"answered", "lost"}
====

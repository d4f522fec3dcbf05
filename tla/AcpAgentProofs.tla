---- MODULE AcpAgentProofs ----
(***************************************************************************)
(* The agent's two records of what a session is doing stay one, and a      *)
(* patient client's cancellations are neither lost nor used twice, for any *)
(* number of sessions, prompts and cancellations.  The argument follows    *)
(* the settlement of one prompt: it removes the entries of its session,    *)
(* and in a patient session nobody else's can be there.                    *)
(***************************************************************************)
EXTENDS AcpAgent, FiniteSetTheorems, TLAPS

\* A patient client waits for its answer.
OneAtATime ==
    \A p, q \in Prompts :
        /\ SessionOf[p] = SessionOf[q] /\ SessionOf[p] \in Patient
        /\ Unanswered(p) /\ Unanswered(q)
        => p = q

\* Only begun prompts have runs.
RunsAreBegun == \A p \in Prompts : run[p] # "none" => prompt[p].pc \notin {"new", "resolving"}

\* A prompt has an answer from the step that settles it, and not before.
AnsweredWhenSettled == \A p \in Prompts : (prompt[p].answer # "none") = Settled(p)

\* The type invariant without cancels, which has its own bound.
Types ==
    /\ prompt \in [Prompts -> [pc : {"new", "resolving", "pending", "delivering", "answered", "lost"},
                               answer : {"none", "cancelled", "done", "error"}]]
    /\ pendingPrompts \in [Sessions -> Prompts \cup {None}]
    /\ activeRuns \in [Sessions -> [run : Prompts \cup {None}, cancelled : BOOLEAN]]

\* What settling a prompt has to keep.
Entries ==
    /\ Types
    /\ PendingIsActive
    /\ OneAtATime
    /\ AnsweredWhenSettled
    /\ CancellationFindsThePrompt

\* A cancellation is either used up by a prompt or still remembered for the next one.
Remembered(s) == IF s \in cancelledSessions THEN 1 ELSE 0
Accounts ==
    \A s \in Patient : Cardinality(Cancelled(s)) + Remembered(s) <= cancels[s]

Inv ==
    /\ TypeOK
    /\ Entries
    /\ RunsAreBegun
    /\ Accounts

Answers == {"cancelled", "done", "error"}

\* A pending prompt settles: its record changes, its session's entries go, nothing else.
LEMMA SettleEntries ==
    ASSUME Entries, NEW p \in Prompts, NEW answer \in Answers, NEW text \in BOOLEAN, NEW runs,
           runs \in [Sessions -> [run : Prompts \cup {None}, cancelled : BOOLEAN]],
           \A s \in Sessions : s # SessionOf[p] \/ Settled(p) => runs[s] = activeRuns[s],
           prompt[p].pc = "pending" \/ Settled(p),
           Settle(p, answer, text, runs)
    PROVE  Entries'
<1> USE SessionsAssumption, PromptsAssumption
<1>1. CASE Settled(p)
  <2>1. prompt' = prompt /\ pendingPrompts' = pendingPrompts /\ activeRuns' = runs
    BY <1>1 DEF Settle
  <2>2. runs = activeRuns
    BY <1>1 DEF Entries, Types
  <2> QED BY <2>1, <2>2 DEF Entries, Types, PendingIsActive, OneAtATime, AnsweredWhenSettled,
                            CancellationFindsThePrompt, Settled, Unanswered
<1>2. CASE ~Settled(p)
  <2> DEFINE new == [pc |-> IF text THEN "delivering" ELSE "answered", answer |-> answer]
  <2>1. /\ prompt' = [prompt EXCEPT ![p] = new]
        /\ pendingPrompts' = [pendingPrompts EXCEPT ![SessionOf[p]] = None]
        /\ activeRuns' = [runs EXCEPT ![SessionOf[p]] = NoRun]
    BY <1>2 DEF Settle
  <2>2. new \in [pc : {"delivering", "answered"}, answer : Answers]
    OBVIOUS
  <2>3. NoRun.run = None /\ NoRun.cancelled = FALSE
        /\ NoRun \in [run : Prompts \cup {None}, cancelled : BOOLEAN]
    BY DEF NoRun
  <2>4. prompt[p].pc = "pending"
    BY <1>2
  <2> HIDE DEF new, NoRun
  <2>5. prompt'[p] = new /\ \A q \in Prompts \ {p} : prompt'[q] = prompt[q]
    BY <2>1 DEF Entries, Types
  <2>6. /\ pendingPrompts'[SessionOf[p]] = None
        /\ \A s \in Sessions \ {SessionOf[p]} : pendingPrompts'[s] = pendingPrompts[s]
    BY <2>1 DEF Entries, Types
  <2>7. /\ activeRuns'[SessionOf[p]] = NoRun
        /\ \A s \in Sessions \ {SessionOf[p]} : activeRuns'[s] = activeRuns[s]
    BY <2>1
  <2>8. Types'
    BY <2>1, <2>2, <2>3 DEF Entries, Types, Answers
  <2>9. PendingIsActive'
    <3> SUFFICES ASSUME NEW s \in Sessions
                 PROVE  /\ pendingPrompts'[s] = activeRuns'[s].run
                        /\ ~activeRuns'[s].cancelled
                        /\ pendingPrompts'[s] # None => /\ prompt'[pendingPrompts'[s]].pc = "pending"
                                                        /\ SessionOf[pendingPrompts'[s]] = s
      BY DEF PendingIsActive
    <3>1. CASE s = SessionOf[p]
      BY <3>1, <2>6, <2>7, <2>3
    <3>2. CASE s # SessionOf[p]
      <4>1. pendingPrompts[s] # None => pendingPrompts[s] \in Prompts \ {p}
        BY <3>2 DEF Entries, Types, PendingIsActive
      <4> QED BY <4>1, <3>2, <2>5, <2>6, <2>7 DEF Entries, PendingIsActive
    <3> QED BY <3>1, <3>2
  <2>10. \A q \in Prompts : Unanswered(q)' => Unanswered(q)
    BY <2>5, <2>4 DEF Unanswered
  <2>11. OneAtATime'
    BY <2>10 DEF Entries, OneAtATime
  <2>12. AnsweredWhenSettled'
    BY <2>5, <2>2 DEF Entries, AnsweredWhenSettled, Settled, Answers
  <2>13. CancellationFindsThePrompt'
    <3> SUFFICES ASSUME NEW q \in Prompts, SessionOf[q] \in Patient, prompt'[q].pc = "pending"
                 PROVE  pendingPrompts'[SessionOf[q]] = q
      BY DEF CancellationFindsThePrompt
    <3>1. q # p /\ prompt[q].pc = "pending"
      BY <2>5, <2>2
    <3>2. SessionOf[q] # SessionOf[p]
      BY <3>1, <2>4 DEF Entries, OneAtATime, Unanswered
    <3> QED BY <3>1, <3>2, <2>6 DEF Entries, CancellationFindsThePrompt
  <2> QED BY <2>8, <2>9, <2>11, <2>12, <2>13 DEF Entries
<1> QED BY <1>1, <1>2

\* Settling a prompt leaves the prompts that were not begun as they were.
LEMMA SettleRuns ==
    ASSUME Entries, RunsAreBegun, NEW p \in Prompts, NEW answer, NEW text \in BOOLEAN, NEW runs,
           prompt[p].pc = "pending" \/ Settled(p),
           Settle(p, answer, text, runs),
           \A q \in Prompts \ {p} : run'[q] = run[q]
    PROVE  RunsAreBegun'
<1>1. \A q \in Prompts \ {p} : prompt'[q] = prompt[q]
  BY DEF Settle, Entries, Types
<1>2. prompt'[p].pc \notin {"new", "resolving"}
  BY DEF Settle, Settled, Entries, Types
<1> QED BY <1>1, <1>2 DEF RunsAreBegun

\* The cancelled prompts of a session are finitely many, and the set of them changes only
\* with the answers.
LEMMA CancelledIsFinite ==
    ASSUME NEW s
    PROVE  IsFiniteSet(Cancelled(s)) /\ IsFiniteSet(Cancelled(s)')
<1>1. Cancelled(s) \subseteq Prompts /\ Cancelled(s)' \subseteq Prompts
  BY DEF Cancelled, Of
<1> QED BY <1>1, PromptsAssumption, FS_Subset

\* If no prompt becomes cancelled, the accounts stay in order as long as no cancellation
\* is remembered anew.
LEMMA NobodyCancelled ==
    ASSUME TypeOK, Accounts,
           \A p \in Prompts : prompt'[p].answer = "cancelled" => SessionOf[p] \notin Patient
                                  \/ prompt[p].answer = "cancelled",
           cancelledSessions' = cancelledSessions, cancels' = cancels
    PROVE  Accounts'
<1> SUFFICES ASSUME NEW s \in Patient
             PROVE  Cardinality(Cancelled(s)') + Remembered(s)' <= cancels'[s]
  BY DEF Accounts
<1>1. Cancelled(s)' \subseteq Cancelled(s)
  BY DEF Cancelled, Of
<1>2. /\ Cardinality(Cancelled(s)') <= Cardinality(Cancelled(s))
      /\ Cardinality(Cancelled(s)') \in Nat /\ Cardinality(Cancelled(s)) \in Nat
  BY <1>1, CancelledIsFinite, FS_Subset, FS_CardinalityType
<1>3. Remembered(s)' = Remembered(s) /\ Remembered(s) \in Nat /\ cancels[s] \in Nat
  BY SessionsAssumption, MaxCancelsAssumption DEF Remembered, TypeOK
<1>4. Cardinality(Cancelled(s)) + Remembered(s) <= cancels[s]
  BY DEF Accounts
<1>5. cancels'[s] = cancels[s]
  OBVIOUS
<1> HIDE DEF Remembered
<1> QED BY <1>2, <1>3, <1>4, <1>5

\* If one prompt at most becomes cancelled, its session's cancelled prompts grow by one.
LEMMA OneCancelled ==
    ASSUME NEW p \in Prompts, NEW s,
           \A q \in Prompts \ {p} : prompt'[q] = prompt[q]
    PROVE  /\ Cardinality(Cancelled(s)) \in Nat /\ Cardinality(Cancelled(s)') \in Nat
           /\ Cardinality(Cancelled(s)') <= Cardinality(Cancelled(s)) + 1
           /\ s # SessionOf[p] => Cardinality(Cancelled(s)') = Cardinality(Cancelled(s))
<1>1. Cancelled(s)' \subseteq Cancelled(s) \cup {p}
  BY DEF Cancelled, Of
<1>2. IsFiniteSet(Cancelled(s) \cup {p})
      /\ Cardinality(Cancelled(s) \cup {p}) <= Cardinality(Cancelled(s)) + 1
      /\ Cardinality(Cancelled(s)) \in Nat
  <2> DEFINE S == Cancelled(s)
  <2>1. IsFiniteSet(S) /\ Cardinality(S) \in Nat
    BY CancelledIsFinite, FS_CardinalityType
  <2> HIDE DEF S
  <2>2. /\ IsFiniteSet(S \cup {p})
        /\ Cardinality(S \cup {p}) = IF p \in S THEN Cardinality(S) ELSE Cardinality(S) + 1
    BY <2>1, FS_AddElement
  <2> QED BY <2>1, <2>2 DEF S
<1>3. Cardinality(Cancelled(s)') <= Cardinality(Cancelled(s) \cup {p})
      /\ Cardinality(Cancelled(s)') \in Nat /\ Cardinality(Cancelled(s) \cup {p}) \in Nat
  BY <1>1, <1>2, CancelledIsFinite, FS_Subset, FS_CardinalityType
<1>4. s # SessionOf[p] => Cancelled(s)' = Cancelled(s)
  BY DEF Cancelled, Of
<1> QED BY <1>2, <1>3, <1>4

\* Everything is in order before the first request.
LEMMA InitInv == Init => Inv
<1> SUFFICES ASSUME Init PROVE Inv
  OBVIOUS
<1> USE SessionsAssumption, PromptsAssumption, MaxCancelsAssumption
<1>1. TypeOK
  BY DEF Init, TypeOK, NoRun
<1>2. Entries
  BY DEF Init, Entries, Types, PendingIsActive, OneAtATime, AnsweredWhenSettled,
         CancellationFindsThePrompt, Unanswered, Settled, NoRun
<1>3. RunsAreBegun
  BY DEF Init, RunsAreBegun
<1>4. ASSUME NEW s \in Patient
      PROVE  Cardinality(Cancelled(s)) + Remembered(s) <= cancels[s]
  <2>1. Cancelled(s) = {}
    BY DEF Init, Cancelled, Of
  <2>2. Remembered(s) = 0 /\ cancels[s] = 0
    BY DEF Init, Remembered
  <2> QED BY <2>1, <2>2, FS_EmptySet
<1> QED BY <1>1, <1>2, <1>3, <1>4 DEF Inv, Accounts

\* A request arrives; a patient client has no other one under way.
LEMMA AskInv == ASSUME Inv, NEW p \in Prompts, Ask(p) PROVE Inv'
<1> USE SessionsAssumption, PromptsAssumption
<1> DEFINE new == [pc |-> "resolving", answer |-> "none"]
<1>1. /\ prompt' = [prompt EXCEPT ![p] = new]
      /\ UNCHANGED <<run, pendingPrompts, activeRuns, cancelledSessions, cancels>>
      /\ prompt[p].pc = "new"
  BY DEF Ask
<1>2. new \in [pc : {"resolving"}, answer : {"none"}]
  OBVIOUS
<1> HIDE DEF new
<1>3. prompt'[p] = new /\ \A q \in Prompts \ {p} : prompt'[q] = prompt[q]
  BY <1>1 DEF Inv, TypeOK
<1>4. TypeOK'
  BY <1>1, <1>2 DEF Inv, TypeOK
<1>5. Types' /\ AnsweredWhenSettled'
  BY <1>1, <1>2, <1>3, <1>4 DEF Inv, Entries, TypeOK, Types, AnsweredWhenSettled, Settled
<1>6. PendingIsActive'
  BY <1>1, <1>3 DEF Inv, Entries, Types, PendingIsActive
<1>7. OneAtATime'
  <2>1. SessionOf[p] \in Patient =>
            \A q \in Prompts : SessionOf[q] = SessionOf[p] => ~Unanswered(q)
    BY DEF Ask, Of
  <2>2. \A q \in Prompts \ {p} : Unanswered(q)' = Unanswered(q)
    BY <1>3 DEF Unanswered
  <2> QED BY <2>1, <2>2 DEF Inv, Entries, OneAtATime
<1>8. CancellationFindsThePrompt'
  BY <1>1, <1>2, <1>3 DEF Inv, Entries, CancellationFindsThePrompt
<1>9. RunsAreBegun'
  BY <1>1, <1>3 DEF Inv, RunsAreBegun
<1>10. Accounts'
  BY <1>1, <1>2, <1>3, NobodyCancelled DEF Inv
<1> QED BY <1>4, <1>5, <1>6, <1>7, <1>8, <1>9, <1>10 DEF Inv, Entries

\* A prompt that was not begun is answered: it has no entries to remove.
LEMMA AnswerUnbegun ==
    ASSUME Inv, NEW p \in Prompts, NEW answer \in Answers,
           prompt[p].pc = "resolving",
           prompt' = [prompt EXCEPT ![p] = [pc |-> "answered", answer |-> answer]],
           UNCHANGED <<run, pendingPrompts, activeRuns, cancels>>
    PROVE  /\ Entries' /\ RunsAreBegun'
           /\ prompt'[p].answer = answer
           /\ \A q \in Prompts \ {p} : prompt'[q] = prompt[q]
<1> USE SessionsAssumption, PromptsAssumption
<1> DEFINE new == [pc |-> "answered", answer |-> answer]
<1>1. new \in [pc : {"answered"}, answer : Answers] /\ new.answer = answer
  OBVIOUS
<1> HIDE DEF new
<1>2. prompt'[p] = new /\ \A q \in Prompts \ {p} : prompt'[q] = prompt[q]
  BY DEF Inv, TypeOK, new
<1>3. Types' /\ AnsweredWhenSettled'
  <2>1. prompt' = [prompt EXCEPT ![p] = new]
    BY DEF new
  <2> QED BY <2>1, <1>1, <1>2 DEF Inv, Entries, TypeOK, Types, AnsweredWhenSettled, Settled, Answers
<1>4. PendingIsActive'
  BY <1>2 DEF Inv, Entries, Types, PendingIsActive
<1>5. OneAtATime'
  <2>1. \A q \in Prompts : Unanswered(q)' => Unanswered(q)
    BY <1>1, <1>2 DEF Unanswered
  <2> QED BY <2>1 DEF Inv, Entries, OneAtATime
<1>6. CancellationFindsThePrompt'
  BY <1>1, <1>2 DEF Inv, Entries, CancellationFindsThePrompt
<1>7. RunsAreBegun'
  BY <1>1, <1>2 DEF Inv, RunsAreBegun
<1> QED BY <1>1, <1>2, <1>3, <1>4, <1>5, <1>6, <1>7 DEF Entries

\* The agents could not be listed.
LEMMA AskFailsInv == ASSUME Inv, NEW p \in Prompts, AskFails(p) PROVE Inv'
<1>1. /\ Entries' /\ RunsAreBegun'
      /\ prompt'[p].answer = "error"
      /\ \A q \in Prompts \ {p} : prompt'[q] = prompt[q]
  BY AnswerUnbegun DEF AskFails, Answers
<1>2. TypeOK'
  BY <1>1 DEF AskFails, Inv, Entries, Types, TypeOK
<1>3. Accounts'
  BY <1>1, NobodyCancelled DEF Inv, AskFails
<1> QED BY <1>1, <1>2, <1>3 DEF Inv

\* The remembered cancellation is used up.
LEMMA BeginCancelledInv == ASSUME Inv, NEW p \in Prompts, BeginCancelled(p) PROVE Inv'
<1> USE SessionsAssumption, MaxCancelsAssumption
<1>1. /\ Entries' /\ RunsAreBegun'
      /\ \A q \in Prompts \ {p} : prompt'[q] = prompt[q]
  BY AnswerUnbegun DEF BeginCancelled, Answers
<1>2. TypeOK'
  BY <1>1 DEF BeginCancelled, Inv, Entries, Types, TypeOK
<1>3. ASSUME NEW s \in Patient
      PROVE  Cardinality(Cancelled(s)') + Remembered(s)' <= cancels'[s]
  <2>1. /\ Cardinality(Cancelled(s)) \in Nat /\ Cardinality(Cancelled(s)') \in Nat
        /\ Cardinality(Cancelled(s)') <= Cardinality(Cancelled(s)) + 1
        /\ s # SessionOf[p] => Cardinality(Cancelled(s)') = Cardinality(Cancelled(s))
    BY <1>1, OneCancelled
  <2>2. IF s = SessionOf[p] THEN Remembered(s) = 1 /\ Remembered(s)' = 0
                            ELSE Remembered(s)' = Remembered(s)
    BY DEF BeginCancelled, Remembered
  <2>3. Remembered(s) \in Nat /\ cancels[s] \in Nat /\ cancels' = cancels
    BY DEF BeginCancelled, Remembered, Inv, TypeOK
  <2> QED BY <2>1, <2>2, <2>3 DEF Inv, Accounts
<1> QED BY <1>1, <1>2, <1>3 DEF Inv, Accounts

\* The agent starts: the session's entries name this prompt now.
LEMMA BeginInv == ASSUME Inv, NEW p \in Prompts, Begin(p) PROVE Inv'
<1> USE SessionsAssumption, PromptsAssumption
<1> DEFINE new == [pc |-> "pending", answer |-> "none"]
           this == [run |-> p, cancelled |-> FALSE]
<1>1. /\ prompt' = [prompt EXCEPT ![p] = new]
      /\ pendingPrompts' = [pendingPrompts EXCEPT ![SessionOf[p]] = p]
      /\ activeRuns' = [activeRuns EXCEPT ![SessionOf[p]] = this]
      /\ run' = [run EXCEPT ![p] = "going"]
      /\ UNCHANGED <<cancelledSessions, cancels>>
      /\ prompt[p].pc = "resolving"
  BY DEF Begin
<1>2. new \in [pc : {"pending"}, answer : {"none"}] /\ this \in [run : {p}, cancelled : {FALSE}]
  OBVIOUS
<1> HIDE DEF new, this
<1>3. prompt'[p] = new /\ \A q \in Prompts \ {p} : prompt'[q] = prompt[q]
  BY <1>1 DEF Inv, TypeOK
<1>4. /\ pendingPrompts'[SessionOf[p]] = p /\ activeRuns'[SessionOf[p]] = this
      /\ \A s \in Sessions \ {SessionOf[p]} : /\ pendingPrompts'[s] = pendingPrompts[s]
                                              /\ activeRuns'[s] = activeRuns[s]
  BY <1>1 DEF Inv, TypeOK
<1>5. TypeOK'
  BY <1>1, <1>2 DEF Inv, TypeOK
<1>6. Types' /\ AnsweredWhenSettled'
  <2>1. Types'
    BY <1>5 DEF TypeOK, Types
  <2>2. AnsweredWhenSettled'
    BY <1>2, <1>3 DEF Inv, Entries, AnsweredWhenSettled, Settled
  <2> QED BY <2>1, <2>2
<1>7. PendingIsActive'
  <2> SUFFICES ASSUME NEW s \in Sessions
               PROVE  /\ pendingPrompts'[s] = activeRuns'[s].run
                      /\ ~activeRuns'[s].cancelled
                      /\ pendingPrompts'[s] # None => /\ prompt'[pendingPrompts'[s]].pc = "pending"
                                                      /\ SessionOf[pendingPrompts'[s]] = s
    BY DEF PendingIsActive
  <2>1. CASE s = SessionOf[p]
    BY <2>1, <1>2, <1>3, <1>4
  <2>2. CASE s # SessionOf[p]
    <3>1. pendingPrompts[s] # None => pendingPrompts[s] \in Prompts \ {p}
      BY <1>1 DEF Inv, Entries, Types, PendingIsActive
    <3> QED BY <2>2, <3>1, <1>3, <1>4 DEF Inv, Entries, PendingIsActive
  <2> QED BY <2>1, <2>2
<1>8. OneAtATime'
  <2>1. \A q \in Prompts : Unanswered(q)' => Unanswered(q)
    BY <1>1, <1>3 DEF Unanswered
  <2> QED BY <2>1 DEF Inv, Entries, OneAtATime
<1>9. CancellationFindsThePrompt'
  <2>1. \A q \in Prompts \ {p} :
            SessionOf[q] \in Patient /\ prompt[q].pc = "pending" => SessionOf[q] # SessionOf[p]
    BY <1>1 DEF Inv, Entries, OneAtATime, Unanswered
  <2> QED BY <2>1, <1>3, <1>4 DEF Inv, Entries, CancellationFindsThePrompt
<1>10. RunsAreBegun'
  BY <1>1, <1>2, <1>3 DEF Inv, RunsAreBegun, TypeOK
<1>11. Accounts'
  BY <1>1, <1>2, <1>3, NobodyCancelled DEF Inv
<1> QED BY <1>5, <1>6, <1>7, <1>8, <1>9, <1>10, <1>11 DEF Inv, Entries

\* A cancellation is counted, and stops the prompt its session's entries name.
LEMMA CancelInv == ASSUME Inv, NEW s \in Sessions, Cancel(s) PROVE Inv'
<1> USE SessionsAssumption, PromptsAssumption, MaxCancelsAssumption
<1> DEFINE flag == [run |-> activeRuns[s].run, cancelled |-> TRUE]
           flagged == [activeRuns EXCEPT ![s] = flag]
           q == pendingPrompts[s]
<1>1. /\ cancels[s] < MaxCancels
      /\ cancels' = [cancels EXCEPT ![s] = @ + 1]
      /\ run' = run
  BY DEF Cancel
<1>2. /\ cancels' \in [Sessions -> 0..MaxCancels]
      /\ cancels'[s] = cancels[s] + 1 /\ \A t \in Sessions \ {s} : cancels'[t] = cancels[t]
      /\ \A t \in Sessions : cancels[t] \in Nat
  BY <1>1 DEF Inv, TypeOK
<1>3. CASE q = None
  <2>1. /\ activeRuns' = [activeRuns EXCEPT ![s] = NoRun]
        /\ cancelledSessions' = cancelledSessions \cup {s}
        /\ prompt' = prompt /\ pendingPrompts' = pendingPrompts
    BY <1>3 DEF Cancel, Inv, Entries, PendingIsActive
  <2>2. activeRuns' \in [Sessions -> [run : Prompts \cup {None}, cancelled : BOOLEAN]]
    BY <2>1 DEF NoRun, Inv, TypeOK
  <2>3. TypeOK' /\ Types'
    BY <1>1, <1>2, <2>1, <2>2 DEF Inv, TypeOK, Types
  <2>4. PendingIsActive'
    BY <1>3, <2>1 DEF NoRun, Inv, Entries, Types, PendingIsActive
  <2>5. OneAtATime' /\ AnsweredWhenSettled' /\ CancellationFindsThePrompt' /\ RunsAreBegun'
    BY <1>1, <2>1 DEF Inv, Entries, OneAtATime, Unanswered, AnsweredWhenSettled, Settled,
                      CancellationFindsThePrompt, RunsAreBegun
  <2>6. ASSUME NEW t \in Patient
        PROVE  Cardinality(Cancelled(t)') + Remembered(t)' <= cancels'[t]
    <3>1. Cancelled(t)' = Cancelled(t) /\ Cardinality(Cancelled(t)) \in Nat
      BY <2>1, CancelledIsFinite, FS_CardinalityType DEF Cancelled
    <3>2. IF t = s THEN Remembered(t)' = 1 /\ Remembered(t) \in 0..1
                   ELSE Remembered(t)' = Remembered(t) /\ Remembered(t) \in 0..1
      BY <2>1 DEF Remembered
    <3>3. Cardinality(Cancelled(t)) + Remembered(t) <= cancels[t]
      BY DEF Inv, Accounts
    <3> HIDE DEF q
    <3> QED BY <1>2, <3>1, <3>2, <3>3
  <2> QED BY <2>3, <2>4, <2>5, <2>6 DEF Inv, Entries, Accounts
<1>4. CASE q # None
  <2>1. /\ q \in Prompts /\ SessionOf[q] = s /\ prompt[q].pc = "pending"
        /\ activeRuns[s].run = q
    BY <1>4 DEF Inv, Entries, Types, PendingIsActive
  <2>2. /\ Settle(q, "cancelled", FALSE, flagged)
        /\ cancelledSessions' = cancelledSessions
    BY <1>4, <2>1 DEF Cancel
  <2>3. ~Settled(q)
    BY <2>1 DEF Settled
  <2>4. /\ flagged \in [Sessions -> [run : Prompts \cup {None}, cancelled : BOOLEAN]]
        /\ \A t \in Sessions : t # s => flagged[t] = activeRuns[t]
    <3>1. flag \in [run : Prompts \cup {None}, cancelled : BOOLEAN]
      BY <2>1
    <3> QED BY <3>1 DEF Inv, TypeOK
  <2> HIDE DEF q, flagged
  <2>5. Entries'
    BY <2>1, <2>2, <2>3, <2>4, SettleEntries DEF Inv, Answers
  <2>6. RunsAreBegun'
    BY <1>1, <2>1, <2>2, SettleRuns DEF Inv
  <2>7. TypeOK'
    BY <1>1, <1>2, <2>2, <2>5 DEF Inv, Entries, Types, TypeOK
  <2>8. \A p \in Prompts \ {q} : prompt'[p] = prompt[p]
    BY <2>1, <2>2, <2>3 DEF Settle, Inv, TypeOK
  <2>9. ASSUME NEW t \in Patient
        PROVE  Cardinality(Cancelled(t)') + Remembered(t)' <= cancels'[t]
    <3>1. /\ Cardinality(Cancelled(t)) \in Nat /\ Cardinality(Cancelled(t)') \in Nat
          /\ Cardinality(Cancelled(t)') <= Cardinality(Cancelled(t)) + 1
          /\ t # s => Cardinality(Cancelled(t)') = Cardinality(Cancelled(t))
      BY <2>1, <2>8, OneCancelled
    <3>2. Remembered(t)' = Remembered(t) /\ Remembered(t) \in 0..1
      BY <2>2 DEF Remembered
    <3>3. Cardinality(Cancelled(t)) + Remembered(t) <= cancels[t]
      BY DEF Inv, Accounts
    <3> QED BY <1>2, <3>1, <3>2, <3>3
  <2> QED BY <2>5, <2>6, <2>7, <2>9 DEF Inv, Accounts
<1> QED BY <1>3, <1>4

\* An agent's run ends, well or badly: whatever entries are there by now, the end settles its
\* own prompt, and in a patient session only a cancellation makes the answer "cancelled".
LEMMA RunInv ==
    ASSUME Inv, NEW p \in Prompts, RunEnds(p) \/ RunFails(p)
    PROVE  Inv'
<1> USE SessionsAssumption, PromptsAssumption
<1>1. /\ run[p] = "going"
      /\ run' = [run EXCEPT ![p] = "ended"]
      /\ cancelledSessions' = cancelledSessions /\ cancels' = cancels
  BY DEF RunEnds, RunFails
<1>2. prompt[p].pc = "pending" \/ Settled(p)
  BY <1>1 DEF Inv, RunsAreBegun, TypeOK, Settled
<1>3. PICK answer \in Answers, text \in BOOLEAN :
          /\ Settle(p, answer, text, activeRuns)
          /\ answer = "cancelled" => activeRuns[SessionOf[p]].run # p \/ activeRuns[SessionOf[p]].cancelled
  BY DEF RunEnds, RunFails, Answers
<1>4. Entries'
  BY <1>2, <1>3, SettleEntries DEF Inv, TypeOK
<1>5. RunsAreBegun'
  <2>1. \A q \in Prompts \ {p} : run'[q] = run[q]
    BY <1>1 DEF Inv, TypeOK
  <2> QED BY <2>1, <1>2, <1>3, SettleRuns DEF Inv
<1>6. TypeOK'
  <2>1. run' \in [Prompts -> {"none", "going", "ended"}]
    BY <1>1 DEF Inv, TypeOK
  <2> QED BY <1>1, <1>4, <2>1 DEF Inv, Entries, Types, TypeOK
<1>7. Accounts'
  <2>1. ASSUME NEW q \in Prompts, prompt'[q].answer = "cancelled", SessionOf[q] \in Patient,
               prompt[q].answer # "cancelled"
        PROVE  FALSE
    <3>1. q = p /\ ~Settled(p) /\ prompt'[p].answer = answer
      BY <1>3, <2>1 DEF Settle, Inv, TypeOK
    <3>2. activeRuns[SessionOf[p]].run = p /\ ~activeRuns[SessionOf[p]].cancelled
      BY <1>2, <2>1, <3>1 DEF Inv, Entries, PendingIsActive, CancellationFindsThePrompt
    <3> QED BY <1>3, <2>1, <3>1, <3>2
  <2> QED BY <2>1, <1>1, NobodyCancelled DEF Inv
<1> QED BY <1>4, <1>5, <1>6, <1>7 DEF Inv

\* The text is sent, or is not: the prompt was settled before.
LEMMA DeliverInv == ASSUME Inv, NEW p \in Prompts, Deliver(p) PROVE Inv'
<1> USE SessionsAssumption, PromptsAssumption
<1>1. PICK pc \in {"answered", "lost"} :
          prompt' = [prompt EXCEPT ![p] = [pc |-> pc, answer |-> prompt[p].answer]]
  BY DEF Deliver, Delivered, DeliveryFails
<1>2. /\ UNCHANGED <<run, pendingPrompts, activeRuns, cancelledSessions, cancels>>
      /\ prompt[p].pc = "delivering"
  BY DEF Deliver, Delivered, DeliveryFails
<1> DEFINE new == [pc |-> pc, answer |-> prompt[p].answer]
<1>3. /\ new \in [pc : {"answered", "lost"}, answer : {"none", "cancelled", "done", "error"}]
      /\ new.answer = prompt[p].answer
  BY DEF Inv, TypeOK
<1>4. prompt' = [prompt EXCEPT ![p] = new]
  BY <1>1
<1> HIDE DEF new
<1>5. prompt'[p] = new /\ \A q \in Prompts \ {p} : prompt'[q] = prompt[q]
  BY <1>4 DEF Inv, TypeOK
<1>6. TypeOK' /\ Types'
  BY <1>2, <1>3, <1>4 DEF Inv, TypeOK, Types
<1>7. AnsweredWhenSettled'
  BY <1>2, <1>3, <1>5 DEF Inv, Entries, AnsweredWhenSettled, Settled
<1>8. PendingIsActive'
  BY <1>2, <1>5 DEF Inv, Entries, Types, PendingIsActive
<1>9. OneAtATime'
  <2>1. \A q \in Prompts : Unanswered(q)' => Unanswered(q)
    BY <1>2, <1>3, <1>5 DEF Unanswered
  <2> QED BY <2>1 DEF Inv, Entries, OneAtATime
<1>10. CancellationFindsThePrompt'
  BY <1>2, <1>3, <1>5 DEF Inv, Entries, CancellationFindsThePrompt
<1>11. RunsAreBegun'
  BY <1>2, <1>3, <1>5 DEF Inv, RunsAreBegun
<1>12. Accounts'
  BY <1>2, <1>3, <1>5, NobodyCancelled DEF Inv
<1> QED BY <1>6, <1>7, <1>8, <1>9, <1>10, <1>11, <1>12 DEF Inv, Entries

\* Every step keeps the invariant.
LEMMA NextInv == Inv /\ [Next]_vars => Inv'
<1> SUFFICES ASSUME Inv, [Next]_vars PROVE Inv'
  OBVIOUS
<1>1. ASSUME NEW p \in Prompts, Ask(p) PROVE Inv'
  BY <1>1, AskInv
<1>2. ASSUME NEW p \in Prompts, Resolve(p) PROVE Inv'
  BY <1>2, AskFailsInv, BeginCancelledInv, BeginInv DEF Resolve
<1>3. ASSUME NEW p \in Prompts, Run(p) PROVE Inv'
  BY <1>3, RunInv DEF Run
<1>4. ASSUME NEW p \in Prompts, Deliver(p) PROVE Inv'
  BY <1>4, DeliverInv
<1>5. ASSUME NEW s \in Sessions, Cancel(s) PROVE Inv'
  BY <1>5, CancelInv
<1>6. CASE UNCHANGED vars
  BY <1>6 DEF vars, Inv, TypeOK, Entries, Types, PendingIsActive, OneAtATime, Unanswered,
              AnsweredWhenSettled, Settled, CancellationFindsThePrompt, RunsAreBegun, Accounts,
              Cancelled, Of, Remembered
<1> QED BY <1>1, <1>2, <1>3, <1>4, <1>5, <1>6 DEF Next

\* The invariant holds in every state of the agent.
THEOREM Invariance == Spec => []Inv
<1> QED BY InitInv, NextInv, PTL DEF Spec

\* Every variable keeps its type.
THEOREM TypeCorrect == Spec => []TypeOK
<1>1. Inv => TypeOK
  BY DEF Inv
<1> QED BY <1>1, Invariance, PTL

\* The pending prompts and the active runs stay one record.
THEOREM TwoRecordsAreOne == Spec => []PendingIsActive
<1>1. Inv => PendingIsActive
  BY DEF Inv, Entries
<1> QED BY <1>1, Invariance, PTL

\* A patient client's cancellation finds the prompt whose agent is running.
THEOREM CancellationIsNotLost == Spec => []CancellationFindsThePrompt
<1>1. Inv => CancellationFindsThePrompt
  BY DEF Inv, Entries
<1> QED BY <1>1, Invariance, PTL

\* A patient client's cancellation stops one prompt at most.
THEOREM CancellationIsNotReused == Spec => []OneCancellationOnePrompt
<1>1. ASSUME Inv, NEW s \in Patient PROVE Cardinality(Cancelled(s)) <= cancels[s]
  <2>1. /\ Cardinality(Cancelled(s)) \in Nat /\ Remembered(s) \in Nat /\ cancels[s] \in Nat
    BY <1>1, CancelledIsFinite, FS_CardinalityType, SessionsAssumption, MaxCancelsAssumption
    DEF Remembered, Inv, TypeOK
  <2> QED BY <1>1, <2>1 DEF Inv, Accounts
<1>2. Inv => OneCancellationOnePrompt
  BY <1>1 DEF OneCancellationOnePrompt
<1> QED BY <1>2, Invariance, PTL

\* Answers are final: whatever ends late, and however the entries were overwritten.
AnswersStay ==
    \A p \in Prompts :
        /\ prompt[p].answer # "none" => prompt'[p].answer = prompt[p].answer
        /\ prompt[p].pc = "answered" => prompt'[p].pc = "answered"

\* A settlement leaves every settled prompt alone.
LEMMA SettleKeepsAnswers ==
    ASSUME Inv, NEW q \in Prompts, NEW answer, NEW text, NEW runs, Settle(q, answer, text, runs)
    PROVE  AnswersStay
<1>1. CASE Settled(q)
  BY <1>1 DEF Settle, AnswersStay
<1>2. CASE ~Settled(q)
  <2>1. prompt[q].answer = "none" /\ prompt[q].pc # "answered"
    BY <1>2 DEF Inv, Entries, AnsweredWhenSettled, Settled
  <2>2. \A p \in Prompts \ {q} : prompt'[p] = prompt[p]
    BY <1>2 DEF Settle, Inv, TypeOK
  <2> QED BY <2>1, <2>2 DEF AnswersStay
<1> QED BY <1>1, <1>2

\* A prompt is settled once.
THEOREM SettledForGood == Spec => SettledOnce
<1>1. ASSUME Inv, [Next]_vars PROVE [AnswersStay]_vars
  <2>1. ASSUME NEW q \in Prompts, Ask(q) \/ Resolve(q) PROVE AnswersStay
    <3>1. prompt[q].answer = "none" /\ prompt[q].pc # "answered"
      BY <1>1, <2>1 DEF Ask, Resolve, AskFails, BeginCancelled, Begin,
                        Inv, Entries, AnsweredWhenSettled, Settled
    <3>2. \A p \in Prompts \ {q} : prompt'[p] = prompt[p]
      BY <1>1, <2>1 DEF Ask, Resolve, AskFails, BeginCancelled, Begin, Inv, TypeOK
    <3> QED BY <3>1, <3>2 DEF AnswersStay
  <2>2. ASSUME NEW q \in Prompts, Run(q) PROVE AnswersStay
    BY <1>1, <2>2, SettleKeepsAnswers DEF Run, RunEnds, RunFails
  <2>3. ASSUME NEW q \in Prompts, Deliver(q) PROVE AnswersStay
    BY <1>1, <2>3 DEF Deliver, Delivered, DeliveryFails, AnswersStay, Inv, TypeOK
  <2>4. ASSUME NEW s \in Sessions, Cancel(s) PROVE AnswersStay
    <3>1. CASE pendingPrompts[s] = None
      BY <2>4, <3>1 DEF Cancel, AnswersStay
    <3>2. CASE pendingPrompts[s] # None
      <4>1. pendingPrompts[s] \in Prompts
        BY <1>1, <3>2 DEF Inv, TypeOK
      <4>2. PICK runs : Settle(pendingPrompts[s], "cancelled", FALSE, runs)
        BY <2>4, <3>2 DEF Cancel
      <4> QED BY <1>1, <4>1, <4>2, SettleKeepsAnswers
    <3> QED BY <3>1, <3>2
  <2> QED BY <1>1, <2>1, <2>2, <2>3, <2>4 DEF Next
<1>2. [AnswersStay]_vars <=> [\A p \in Prompts :
          /\ prompt[p].answer # "none" => prompt'[p].answer = prompt[p].answer
          /\ prompt[p].pc = "answered" => prompt'[p].pc = "answered"]_vars
  BY DEF AnswersStay
<1> QED BY <1>1, <1>2, Invariance, PTL DEF Spec, SettledOnce
====

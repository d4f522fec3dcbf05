---- MODULE SignInProofs ----
(***************************************************************************)
(* For any number of sign-ins, questions and redirects, in any order: the  *)
(* screen, the flow and respond() agree on the question, redirects answer  *)
(* code prompts only, early codes are used, and ended sign-ins let go of   *)
(* the port.  One fact makes these inductive: a flow that waits for a code *)
(* and has refused no answer has a resolver.                               *)
(***************************************************************************)
EXTENDS ProviderAuth, TLAPS

CodePromptsHaveResolvers == \A s \in Sessions \ refused : flow[s] = "code" => s \in resolvers

Inv ==
    /\ TypeOK
    /\ ScreenFlowAndResponseAgree
    /\ RedirectsAnswerCodePrompts
    /\ EarlyCodesAreUsed
    /\ EndedSignInsLetGo
    /\ CodePromptsHaveResolvers

\* What the invariant says of one session, in terms of its entries alone.
Fine(f, pe, st, co, re, po, ref) ==
    /\ f \in Kinds => st = f /\ (pe = f \/ (pe = "none" /\ ref))
    /\ f \notin Kinds => pe = "none" /\ st \notin Kinds
    /\ re => f = "code"
    /\ ~ref /\ f = "code" => co = None /\ re
    /\ f \in {"new", "starting", "completed", "error"} => ~po /\ ~re /\ co = None
    /\ st = "none" => f = "new"

FineIn(s) == Fine(flow[s], pending[s], step[s], codes[s], s \in resolvers, port = s, s \in refused)

\* The types alone.
Types ==
    /\ flow \in [Sessions -> Stages \cup Kinds]
    /\ pending \in [Sessions -> Kinds \cup {"none"}]
    /\ step \in [Sessions -> Kinds \cup {"none", "working", "link", "completed", "error"}]
    /\ codes \in [Sessions -> Sessions \cup {None}]
    /\ resolvers \subseteq Sessions /\ linked \subseteq Sessions /\ refused \subseteq Sessions
    /\ port \in Sessions \cup {None, Other}
    /\ asked \in [Sessions -> 0..MaxPrompts]
    /\ redirects \in [Sessions -> 0..MaxRedirects]

\* The invariant is the types and every session's part.
LEMMA SessionBySession == Inv <=> Types /\ \A s \in Sessions : FineIn(s)
BY DEF Inv, Types, TypeOK, FineIn, Fine, ScreenFlowAndResponseAgree, RedirectsAnswerCodePrompts,
       EarlyCodesAreUsed, EndedSignInsLetGo, CodePromptsHaveResolvers, Waiting, Kinds

\* The same of the next state.
LEMMA SessionBySessionNext == Inv' <=> Types' /\ \A s \in Sessions : FineIn(s)'
BY DEF Inv, Types, TypeOK, FineIn, Fine, ScreenFlowAndResponseAgree, RedirectsAnswerCodePrompts,
       EarlyCodesAreUsed, EndedSignInsLetGo, CodePromptsHaveResolvers, Waiting, Kinds

\* No sign-in has begun.
LEMMA InitInv == Init => Inv
<1> SUFFICES ASSUME Init PROVE Inv
  OBVIOUS
<1> USE NobodyAssumption, BoundsAssumption
<1>1. Types
  BY DEF Init, Types, Stages
<1>2. \A s \in Sessions : FineIn(s)
  BY DEF Init, FineIn, Fine, Kinds
<1> QED BY <1>1, <1>2, SessionBySession

\* The entries of the other sessions.
SameEntries(s) ==
    /\ flow'[s] = flow[s] /\ pending'[s] = pending[s] /\ step'[s] = step[s] /\ codes'[s] = codes[s]
    /\ (s \in resolvers') = (s \in resolvers) /\ (s \in refused') = (s \in refused)
    /\ port' = s => port = s

\* A session whose entries stay is fine as before; the port may have been taken from it.
LEMMA OthersStayFine ==
    ASSUME NEW s \in Sessions, FineIn(s), SameEntries(s)
    PROVE  FineIn(s)'
BY DEF FineIn, Fine, SameEntries

\* A step of one session that keeps the types and leaves it fine keeps the invariant.
LEMMA OneSessionMoves ==
    ASSUME Inv, NEW s \in Sessions, Types', FineIn(s)',
           \A r \in Sessions \ {s} : SameEntries(r)
    PROVE  Inv'
<1>1. \A r \in Sessions : FineIn(r)
  BY SessionBySession
<1>2. ASSUME NEW r \in Sessions PROVE FineIn(r)'
  <2>1. CASE r = s BY <2>1
  <2>2. CASE r # s BY <2>2, <1>1, OthersStayFine
  <2> QED BY <2>1, <2>2
<1> QED BY <1>2, SessionBySessionNext

----------------------------------------------------------------------------
(* One lemma per action                                                    *)

\* start: the snapshot has a step at once.
LEMMA StartStep ==
    ASSUME Inv, NEW s \in Sessions, Start(s)
    PROVE  Inv'
<1>1. Types /\ FineIn(s)
  BY SessionBySession
<1>2. Types'
  BY <1>1 DEF Types, Start, Stages
<1>3. FineIn(s)'
  BY <1>1 DEF Types, FineIn, Fine, Start, Kinds
<1>4. \A r \in Sessions \ {s} : SameEntries(r)
  BY <1>1 DEF Types, SameEntries, Start
<1> QED BY <1>2, <1>3, <1>4, OneSessionMoves

\* The interceptor: the port goes to a sign-in that is under way from here on.
LEMMA ListenStep ==
    ASSUME Inv, NEW s \in Sessions, Listen(s)
    PROVE  Inv'
<1>1. Types /\ FineIn(s)
  BY SessionBySession
<1>2. Types'
  BY <1>1 DEF Types, Listen, Stages
<1>3. FineIn(s)'
  BY <1>1 DEF Types, FineIn, Fine, Listen, Kinds
<1>4. \A r \in Sessions \ {s} : SameEntries(r)
  BY <1>1 DEF Types, SameEntries, Listen
<1> QED BY <1>2, <1>3, <1>4, OneSessionMoves

\* A sign-in ends: port, code and resolver go, whatever it was doing.
LEMMA EndStep ==
    ASSUME Inv, NEW s \in Sessions, NEW how \in {"completed", "error"}, End(s, how),
           pending'[s] = "none", pending' \in [Sessions -> Kinds \cup {"none"}],
           \A r \in Sessions \ {s} : pending'[r] = pending[r]
    PROVE  Inv'
<1> USE NobodyAssumption
<1>1. Types /\ FineIn(s)
  BY SessionBySession
<1>2. Types'
  BY <1>1 DEF Types, End, Stages
<1>3. FineIn(s)'
  BY <1>1 DEF Types, FineIn, Fine, End, Kinds
<1>4. \A r \in Sessions \ {s} : SameEntries(r)
  BY <1>1 DEF Types, SameEntries, End
<1> QED BY <1>2, <1>3, <1>4, OneSessionMoves

\* A flow that goes on has no prompt pending; an error takes it away.
LEMMA SucceedFailStep ==
    ASSUME Inv, NEW s \in Sessions, Succeed(s) \/ Fail(s)
    PROVE  Inv'
<1>1. Types /\ FineIn(s)
  BY SessionBySession
<1>2. CASE Succeed(s)
  <2>1. End(s, "completed") /\ pending' = pending /\ pending[s] = "none"
    BY <1>1, <1>2 DEF Succeed, FineIn, Fine, Kinds
  <2> QED BY <1>1, <2>1, EndStep DEF Types
<1>3. CASE Fail(s)
  <2>1. End(s, "error") /\ pending' = [pending EXCEPT ![s] = "none"]
    BY <1>3 DEF Fail
  <2> QED BY <1>1, <2>1, EndStep DEF Types
<1> QED BY <1>2, <1>3

\* A link or a message: the flow asks nothing while it shows it.
LEMMA ShowStep ==
    ASSUME Inv, NEW s \in Sessions, NEW what \in {"link", "working"}, Show(s, what)
    PROVE  Inv'
<1>1. Types /\ FineIn(s)
  BY SessionBySession
<1>2. Types'
  BY <1>1 DEF Types, Show
<1>3. FineIn(s)'
  BY <1>1 DEF Types, FineIn, Fine, Show, Kinds
<1>4. \A r \in Sessions \ {s} : SameEntries(r)
  BY <1>1 DEF Types, SameEntries, Show
<1> QED BY <1>2, <1>3, <1>4, OneSessionMoves

\* A question: a code prompt is put only when no code is there, and with its resolver.
LEMMA AskStep ==
    ASSUME Inv, NEW s \in Sessions, NEW kind \in Kinds, Ask(s, kind)
    PROVE  Inv'
<1> USE BoundsAssumption
<1>1. Types /\ FineIn(s)
  BY SessionBySession
<1>2. Types'
  <2>1. asked' \in [Sessions -> 0..MaxPrompts]
    BY <1>1 DEF Types, Ask
  <2> QED BY <1>1, <2>1 DEF Types, Ask
<1>3. FineIn(s)'
  BY <1>1 DEF Types, FineIn, Fine, Ask, Kinds
<1>4. \A r \in Sessions \ {s} : SameEntries(r)
  BY <1>1 DEF Types, SameEntries, Ask
<1> QED BY <1>2, <1>3, <1>4, OneSessionMoves

\* An answer: the resolver of a code prompt goes with it, and no other prompt has one.
LEMMA RespondStep ==
    ASSUME Inv, NEW s \in Sessions, Respond(s)
    PROVE  Inv'
<1>1. Types /\ FineIn(s)
  BY SessionBySession
<1>2. Types'
  BY <1>1 DEF Types, Respond, Stages
<1>3. FineIn(s)'
  BY <1>1 DEF Types, FineIn, Fine, Respond, Kinds
<1>4. \A r \in Sessions \ {s} : SameEntries(r)
  BY <1>1 DEF Types, SameEntries, Respond
<1> QED BY <1>2, <1>3, <1>4, OneSessionMoves

\* A refused answer: the flow waits on, and the session is one of those refused.
LEMMA RespondInvalidStep ==
    ASSUME Inv, NEW s \in Sessions, RespondInvalid(s)
    PROVE  Inv'
<1>1. Types /\ FineIn(s)
  BY SessionBySession
<1>2. Types'
  BY <1>1 DEF Types, RespondInvalid
<1>3. FineIn(s)'
  BY <1>1 DEF Types, FineIn, Fine, RespondInvalid, Kinds
<1>4. \A r \in Sessions \ {s} : SameEntries(r)
  BY <1>1 DEF Types, SameEntries, RespondInvalid
<1> QED BY <1>2, <1>3, <1>4, OneSessionMoves

\* A redirect: the session that has the port is under way, so its code may be kept, and its
\* resolver answers a code prompt.
LEMMA RedirectStep ==
    ASSUME Inv, NEW s \in Sessions, Redirect(s)
    PROVE  Inv'
<1> USE BoundsAssumption, NobodyAssumption
<1>1. Types /\ \A r \in Sessions : FineIn(r)
  BY SessionBySession
<1>2. redirects' \in [Sessions -> 0..MaxRedirects]
  BY <1>1 DEF Types, Redirect
<1>3. CASE port \notin Sessions
  <2>1. Types'
    BY <1>1, <1>2, <1>3 DEF Types, Redirect
  <2>2. \A r \in Sessions : SameEntries(r)
    BY <1>3 DEF SameEntries, Redirect
  <2> QED BY <1>1, <2>1, <2>2, OneSessionMoves, OthersStayFine
<1>4. CASE port \in Sessions
  <2>1. Receive(port, s) /\ UNCHANGED <<port, linked, asked, refused>>
    BY <1>4 DEF Redirect
  <2>2. Types'
    BY <1>1, <1>2, <1>4, <2>1 DEF Types, Receive, Stages
  <2>3. FineIn(port)'
    BY <1>1, <1>4, <2>1 DEF Types, FineIn, Fine, Receive, Kinds
  <2>4. \A r \in Sessions \ {port} : SameEntries(r)
    BY <1>1, <2>1 DEF Types, SameEntries, Receive
  <2>5. ASSUME NEW r \in Sessions PROVE FineIn(r)'
    <3>1. CASE r = port BY <3>1, <2>1, <2>3
    <3>2. CASE r # port BY <3>2, <1>1, <2>4, OthersStayFine
    <3> QED BY <3>1, <3>2
  <2> QED BY <2>2, <2>5, SessionBySessionNext
<1> QED BY <1>3, <1>4

\* The port goes from nobody to another program or back.
LEMMA ForeignStep ==
    ASSUME Inv, Foreign
    PROVE  Inv'
<1> USE NobodyAssumption
<1>1. Types /\ \A r \in Sessions : FineIn(r)
  BY SessionBySession
<1>2. Types'
  BY <1>1 DEF Types, Foreign
<1>3. \A r \in Sessions : SameEntries(r)
  BY <1>1 DEF SameEntries, Foreign
<1> QED BY <1>1, <1>2, <1>3, OthersStayFine, SessionBySessionNext

\* Nothing the invariant names changes.
LEMMA StutterStep ==
    ASSUME Inv, UNCHANGED vars
    PROVE  Inv'
<1>1. Types /\ \A r \in Sessions : FineIn(r)
  BY SessionBySession
<1>2. Types' /\ \A r \in Sessions : SameEntries(r)
  BY <1>1 DEF Types, SameEntries, vars
<1> QED BY <1>1, <1>2, OthersStayFine, SessionBySessionNext

----------------------------------------------------------------------------
(* The theorems                                                            *)

\* Every step of every sign-in, browser and foreign program keeps the invariant.
THEOREM Invariance == Spec => []Inv
<1>1. ASSUME Inv, [Next]_vars PROVE Inv'
  <2>1. CASE UNCHANGED vars BY <1>1, <2>1, StutterStep
  <2>2. CASE Foreign BY <1>1, <2>2, ForeignStep
  <2>3. ASSUME NEW s \in Sessions, Start(s) \/ Run(s) \/ Prompter(s) \/ Answers(s) \/ Redirect(s)
        PROVE  Inv'
    <3>1. CASE Start(s) BY <1>1, <3>1, StartStep
    <3>2. CASE Run(s) BY <1>1, <3>2, ListenStep, SucceedFailStep DEF Run
    <3>3. CASE Prompter(s) BY <1>1, <3>3, ShowStep, AskStep DEF Prompter
    <3>4. CASE Answers(s) BY <1>1, <3>4, RespondStep, RespondInvalidStep DEF Answers
    <3>5. CASE Redirect(s) BY <1>1, <3>5, RedirectStep
    <3> QED BY <2>3, <3>1, <3>2, <3>3, <3>4, <3>5
  <2> QED BY <1>1, <2>1, <2>2, <2>3 DEF Next
<1> QED BY InitInv, <1>1, PTL DEF Spec

\* The types, and a step to show from the first answer on.
THEOREM TypeCorrect == Spec => []TypeOK
BY Invariance, PTL DEF Inv

\* What the user sees, what the flow waits for and what respond() takes are one question,
\* unless an answer of that sign-in was refused.
THEOREM ScreenAgrees == Spec => []ScreenFlowAndResponseAgree
BY Invariance, PTL DEF Inv

\* A redirect never answers a question it was not asked.
THEOREM RedirectsAnswerCodes == Spec => []RedirectsAnswerCodePrompts
BY Invariance, PTL DEF Inv

\* No flow waits for a code that has come, unless an answer of that sign-in was refused.
THEOREM EarlyCodesUsed == Spec => []EarlyCodesAreUsed
BY Invariance, PTL DEF Inv

\* Every code meets its prompt.
THEOREM CodesMeet == Spec => []CodesMeetTheirPrompts
BY RedirectsAnswerCodes, EarlyCodesUsed, PTL DEF CodesMeetTheirPrompts

\* However a sign-in ended, the port is free for the next and no code of it is left.
THEOREM EndedLetGo == Spec => []EndedSignInsLetGo
BY Invariance, PTL DEF Inv

----------------------------------------------------------------------------
(* Who has the credentials                                                 *)

\* What is saved, renewed and requested leaves the sign-ins as they are: their theorems hold
\* of AuthSpec too.
THEOREM SignInsUndisturbed == AuthSpec => Spec
<1>1. AuthInit => Init
  BY DEF AuthInit
<1>2. [AuthNext]_<<vars, authVars>> => [Next]_vars
  <2>1. ASSUME Foreign \/ \E s \in Sessions : SignsIn(s) PROVE Next
    BY <2>1 DEF SignsIn, Next, Run
  <2>2. ASSUME NEW s \in Sessions, UpsertAuthProfile(s) \/ Complete(s) \/ Break(s) \/ Renew(s)
        PROVE  [Next]_vars
    BY <2>2 DEF UpsertAuthProfile, Complete, Break, Renew, List, CopyToAll, Next, Run
  <2>3. ASSUME Set PROVE UNCHANGED vars
    BY <2>3 DEF Set
  <2>4. ASSUME NEW r \in Requests, Handle(r) PROVE UNCHANGED vars
    BY <2>4 DEF Handle, ReadCatalog, SaveCatalog, ProvisionProject, RemoveFiles, NoFiles
  <2> QED BY <2>1, <2>2, <2>3, <2>4 DEF AuthNext
<1> QED BY <1>1, <1>2, PTL DEF AuthSpec, Spec

\* Of an agent that has a copy: it is the latest, or a sign-in has still to end, or a renewal
\* will copy to that agent.
Covered(a) ==
    \/ a \in current
    \/ saved # {}
    \/ \E s \in Sessions : renewal[s] = "list" \/ (renewal[s] = "copy" /\ a \in listed[s])

\* The inductive part: the types, and every agent that matters is covered.
CopiesInv == AuthTypeOK /\ \A a \in catalog \cap served : Covered(a)

\* The types of the variables that ProviderAuth adds.
CopyTypes ==
    /\ current \subseteq Agents /\ served \subseteq Agents /\ catalog \subseteq Agents
    /\ saved \subseteq Sessions
    /\ renewal \in [Sessions -> {"none", "list", "copy"}]
    /\ listed \in [Sessions -> SUBSET Agents]
    /\ request \in [Requests -> [pc : {"idle", "save", "gateway"},
                                 kind : {"none", "create", "update", "delete"},
                                 agent : Agents \cup {None}, catalog : SUBSET Agents]]
    /\ \A r \in Requests : request[r].pc # "idle" => request[r].agent \in Agents

\* What is saved and renewed fits the stage of the flow.
Staged(s) ==
    /\ s \in saved => flow[s] = "applying" \/ Waiting(s)
    /\ renewal[s] # "none" => flow[s] = "completed"

\* The types, taken apart by component and by session.
LEMMA AuthTypesSplit ==
    /\ AuthTypeOK <=> TypeOK /\ CopyTypes /\ \A s \in Sessions : Staged(s)
    /\ AuthTypeOK' <=> TypeOK' /\ CopyTypes' /\ \A s \in Sessions : Staged(s)'
BY DEF AuthTypeOK, CopyTypes, Staged

\* A step of the sign-ins that ends none keeps every stage that saves or has completed.
LEMMA SignsInStages ==
    ASSUME Inv, NEW t \in Sessions, Foreign \/ \E s \in Sessions : SignsIn(s)
    PROVE  /\ flow[t] = "applying" \/ Waiting(t) => (flow[t] = "applying" \/ Waiting(t))'
           /\ flow[t] = "completed" => flow'[t] = "completed"
<1>1. Types /\ FineIn(t)
  BY SessionBySession
<1>2. CASE Foreign
  BY <1>2 DEF Foreign, Waiting
<1>3. ASSUME NEW s \in Sessions, Start(s) \/ Listen(s)
      PROVE  flow[s] \in {"new", "starting"} /\ \E x \in Stages : flow' = [flow EXCEPT ![s] = x]
  BY <1>3 DEF Start, Listen, Stages
<1>4. ASSUME NEW s \in Sessions, Prompter(s) \/ Answers(s)
      PROVE  /\ flow[s] = "applying" \/ Waiting(s)
             /\ flow' = flow \/ \E x \in Kinds \cup {"applying"} : flow' = [flow EXCEPT ![s] = x]
  <2>1. FineIn(s) /\ Types
    BY SessionBySession
  <2> QED BY <1>4, <2>1 DEF Prompter, Answers, Show, Ask, Respond, RespondInvalid, Types, FineIn,
                            Fine, Waiting, Kinds
<1>5. ASSUME NEW s \in Sessions, Redirect(s)
      PROVE  \/ flow' = flow
             \/ \E p \in Sessions : Waiting(p) /\ flow' = [flow EXCEPT ![p] = "applying"]
  <2>1. CASE port \in Sessions
    <3>1. FineIn(port)
      BY <2>1, SessionBySession
    <3>2. Receive(port, s)
      BY <1>5, <2>1 DEF Redirect
    <3> QED BY <2>1, <3>1, <3>2 DEF Receive, FineIn, Fine, Waiting, Kinds
  <2>2. CASE port \notin Sessions
    BY <1>5, <2>2 DEF Redirect
  <2> QED BY <2>1, <2>2
<1>6. ASSUME NEW s \in Sessions, SignsIn(s)
      PROVE  /\ flow[t] = "applying" \/ Waiting(t) => (flow[t] = "applying" \/ Waiting(t))'
             /\ flow[t] = "completed" => flow'[t] = "completed"
  <2>1. CASE Start(s) \/ Listen(s)
    BY <1>1, <1>3, <2>1 DEF Types, Waiting, Kinds
  <2>2. CASE Prompter(s) \/ Answers(s)
    BY <1>1, <1>4, <2>2 DEF Types, Waiting, Kinds
  <2>3. CASE Redirect(s)
    BY <1>1, <1>5, <2>3 DEF Types, Waiting, Kinds
  <2> QED BY <1>6, <2>1, <2>2, <2>3 DEF SignsIn
<1> QED BY <1>2, <1>6

\* Sign-ins go on; nothing is copied.
LEMMA SignsInCopies ==
    ASSUME Inv, CopiesInv, TypeOK', Foreign \/ \E s \in Sessions : SignsIn(s), UNCHANGED authVars
    PROVE  CopiesInv'
<1>1. CopyTypes /\ \A s \in Sessions : Staged(s)
  BY AuthTypesSplit DEF CopiesInv
<1>2. CopyTypes'
  BY <1>1 DEF CopyTypes, authVars, catalogVars
<1>3. ASSUME NEW s \in Sessions PROVE Staged(s)'
  BY <1>1, SignsInStages DEF Staged, authVars
<1>4. ASSUME NEW a \in (catalog \cap served)' PROVE Covered(a)'
  BY <1>4 DEF CopiesInv, Covered, authVars, catalogVars
<1> QED BY <1>2, <1>3, <1>4, AuthTypesSplit DEF CopiesInv

\* A credential is saved: no copy is the latest, and a sign-in has still to end.
LEMMA UpsertCopies ==
    ASSUME CopiesInv, TypeOK', NEW s \in Sessions, UpsertAuthProfile(s)
    PROVE  CopiesInv'
<1>1. CopyTypes /\ \A t \in Sessions : Staged(t)
  BY AuthTypesSplit DEF CopiesInv
<1>2. CopyTypes'
  BY <1>1 DEF CopyTypes, UpsertAuthProfile, catalogVars
<1>3. ASSUME NEW t \in Sessions PROVE Staged(t)'
  BY <1>1 DEF Staged, UpsertAuthProfile, Waiting, vars
<1>4. \A a \in (catalog \cap served)' : Covered(a)'
  BY DEF Covered, UpsertAuthProfile
<1> QED BY <1>2, <1>3, <1>4, AuthTypesSplit DEF CopiesInv

\* A sign-in completes: a renewal will copy to whoever is in the catalog.
LEMMA CompleteCopies ==
    ASSUME Inv, CopiesInv, TypeOK', NEW s \in Sessions, Complete(s)
    PROVE  CopiesInv'
<1>1. CopyTypes /\ Types /\ \A t \in Sessions : Staged(t)
  BY AuthTypesSplit, SessionBySession DEF CopiesInv
<1>2. CopyTypes'
  BY <1>1 DEF CopyTypes, Complete, catalogVars
<1>3. ASSUME NEW t \in Sessions PROVE Staged(t)'
  BY <1>1 DEF Staged, Complete, Succeed, End, Waiting, Types, CopyTypes, Kinds
<1>4. \A a \in (catalog \cap served)' : Covered(a)'
  BY <1>1 DEF Covered, Complete, CopyTypes
<1> QED BY <1>2, <1>3, <1>4, AuthTypesSplit DEF CopiesInv

\* A sign-in fails: when it had saved something, every agent is excepted.
LEMMA BreakCopies ==
    ASSUME Inv, CopiesInv, TypeOK', NEW s \in Sessions, Break(s)
    PROVE  CopiesInv'
<1>1. CopyTypes /\ Types /\ \A t \in Sessions : Staged(t)
  BY AuthTypesSplit, SessionBySession DEF CopiesInv
<1>2. CopyTypes'
  BY <1>1 DEF CopyTypes, Break, catalogVars
<1>3. ASSUME NEW t \in Sessions PROVE Staged(t)'
  BY <1>1 DEF Staged, Break, Fail, End, Waiting, Types, CopyTypes, Kinds
<1>4. ASSUME NEW a \in (catalog \cap served)' PROVE Covered(a)'
  BY <1>4 DEF CopiesInv, Covered, Break, catalogVars
<1> QED BY <1>2, <1>3, <1>4, AuthTypesSplit DEF CopiesInv

\* The settings change the credentials: every agent is excepted.
LEMMA SetCopies ==
    ASSUME CopiesInv, TypeOK', Set
    PROVE  CopiesInv'
<1>1. CopyTypes /\ \A t \in Sessions : Staged(t)
  BY AuthTypesSplit DEF CopiesInv
<1>2. CopyTypes'
  BY <1>1 DEF CopyTypes, Set, catalogVars
<1>3. ASSUME NEW t \in Sessions PROVE Staged(t)'
  BY <1>1 DEF Staged, Set, Waiting, vars
<1>4. \A a \in (catalog \cap served)' : Covered(a)'
  BY DEF Set
<1> QED BY <1>2, <1>3, <1>4, AuthTypesSplit DEF CopiesInv

\* A renewal lists the catalog, in which every agent that matters is, and then copies to them.
LEMMA RenewCopies ==
    ASSUME CopiesInv, TypeOK', NEW s \in Sessions, Renew(s)
    PROVE  CopiesInv'
<1>1. CopyTypes /\ \A t \in Sessions : Staged(t)
  BY AuthTypesSplit DEF CopiesInv
<1>2. CASE List(s)
  <2>1. CopyTypes'
    BY <1>1, <1>2 DEF CopyTypes, List, catalogVars
  <2>2. ASSUME NEW t \in Sessions PROVE Staged(t)'
    BY <1>1, <1>2 DEF Staged, List, Waiting, vars, CopyTypes
  <2>3. ASSUME NEW a \in (catalog \cap served)' PROVE Covered(a)'
    <3>1. renewal'[s] = "copy" /\ a \in listed'[s]
      BY <1>1, <1>2, <2>3 DEF List, CopyTypes, catalogVars
    <3> QED BY <3>1 DEF Covered
  <2> QED BY <2>1, <2>2, <2>3, AuthTypesSplit DEF CopiesInv
<1>3. CASE CopyToAll(s)
  <2>1. CopyTypes'
    BY <1>1, <1>3 DEF CopyTypes, CopyToAll, catalogVars
  <2>2. ASSUME NEW t \in Sessions PROVE Staged(t)'
    BY <1>1, <1>3 DEF Staged, CopyToAll, Waiting, vars, CopyTypes
  <2>3. ASSUME NEW a \in (catalog \cap served)' PROVE Covered(a)'
    <3>1. CASE a \in listed[s] BY <1>3, <3>1 DEF Covered, CopyToAll
    <3>2. CASE a \notin listed[s]
      <4>1. Covered(a) /\ renewal[s] = "copy"
        BY <1>3, <2>3, <3>2 DEF CopiesInv, CopyToAll, catalogVars
      <4> QED BY <1>1, <1>3, <3>2, <4>1 DEF Covered, CopyToAll, CopyTypes
    <3> QED BY <3>1, <3>2
  <2> QED BY <2>1, <2>2, <2>3, AuthTypesSplit DEF CopiesInv
<1> QED BY <1>2, <1>3 DEF Renew

\* A request: who is new in the catalog is excepted, and a new agent's copy is the latest.
LEMMA HandleCopies ==
    ASSUME CopiesInv, TypeOK', NEW r \in Requests, Handle(r)
    PROVE  CopiesInv'
<1>1. CopyTypes /\ \A t \in Sessions : Staged(t)
  BY AuthTypesSplit DEF CopiesInv
<1>2. UNCHANGED <<vars, saved, renewal, listed>>
  BY DEF Handle, ReadCatalog, SaveCatalog, ProvisionProject, RemoveFiles, NoFiles
<1>3. ASSUME NEW t \in Sessions PROVE Staged(t)'
  BY <1>1, <1>2 DEF Staged, Waiting, vars
<1>4. CASE \E kind \in {"create", "update", "delete"}, a \in Agents : ReadCatalog(r, kind, a)
  <2>1. PICK kind \in {"create", "update", "delete"}, a \in Agents : ReadCatalog(r, kind, a)
    BY <1>4
  <2>2. request' \in [Requests -> [pc : {"idle", "save", "gateway"},
                                   kind : {"none", "create", "update", "delete"},
                                   agent : Agents \cup {None}, catalog : SUBSET Agents]]
    <3>1. CASE kind = "create" BY <1>1, <2>1, <3>1 DEF CopyTypes, ReadCatalog
    <3>2. CASE kind = "update" BY <1>1, <2>1, <3>2 DEF CopyTypes, ReadCatalog
    <3>3. CASE kind = "delete" BY <1>1, <2>1, <3>3 DEF CopyTypes, ReadCatalog
    <3> QED BY <3>1, <3>2, <3>3
  <2>3. \A q \in Requests : request'[q].pc # "idle" => request'[q].agent \in Agents
    BY <1>1, <2>1 DEF CopyTypes, ReadCatalog
  <2>4. CopyTypes'
    BY <1>1, <2>1, <2>2, <2>3 DEF CopyTypes, ReadCatalog
  <2>5. ASSUME NEW x \in (catalog \cap served)' PROVE Covered(x)'
    BY <2>1, <2>5 DEF CopiesInv, Covered, ReadCatalog
  <2> QED BY <1>3, <2>4, <2>5, AuthTypesSplit DEF CopiesInv
<1>5. CASE SaveCatalog(r)
  <2>1. CopyTypes'
    BY <1>1, <1>5 DEF CopyTypes, SaveCatalog, Idle
  <2>2. ASSUME NEW x \in (catalog \cap served)' PROVE Covered(x)'
    <3>1. x \in catalog \cap served
      BY <1>5, <2>2 DEF SaveCatalog, Displaced
    <3> QED BY <1>5, <3>1 DEF CopiesInv, Covered, SaveCatalog
  <2> QED BY <1>3, <2>1, <2>2, AuthTypesSplit DEF CopiesInv
<1>6. CASE ProvisionProject(r)
  <2>1. CopyTypes'
    BY <1>1, <1>6 DEF CopyTypes, ProvisionProject, Idle
  <2>2. ASSUME NEW x \in (catalog \cap served)' PROVE Covered(x)'
    BY <1>6, <2>2 DEF CopiesInv, Covered, ProvisionProject
  <2> QED BY <1>3, <2>1, <2>2, AuthTypesSplit DEF CopiesInv
<1>7. CASE RemoveFiles(r)
  <2>1. CopyTypes'
    BY <1>1, <1>7 DEF CopyTypes, RemoveFiles, Idle
  <2>2. ASSUME NEW x \in (catalog \cap served)' PROVE Covered(x)'
    BY <1>7, <2>2 DEF CopiesInv, Covered, RemoveFiles
  <2> QED BY <1>3, <2>1, <2>2, AuthTypesSplit DEF CopiesInv
<1>8. CASE NoFiles(r)
  <2>1. CopyTypes'
    BY <1>1, <1>8 DEF CopyTypes, NoFiles, Idle
  <2>2. ASSUME NEW x \in (catalog \cap served)' PROVE Covered(x)'
    BY <1>8, <2>2 DEF CopiesInv, Covered, NoFiles
  <2> QED BY <1>3, <2>1, <2>2, AuthTypesSplit DEF CopiesInv
<1> QED BY <1>4, <1>5, <1>6, <1>7, <1>8 DEF Handle

\* Sign-ins, renewals, settings and requests in any order keep the invariant.
THEOREM CopiesInvariance == AuthSpec => []CopiesInv
<1>1. AuthInit => CopiesInv
  <2> SUFFICES ASSUME AuthInit PROVE CopiesInv
    OBVIOUS
  <2>1. TypeOK
    BY InitInv DEF AuthInit, Inv
  <2>2. CopyTypes
    BY DEF AuthInit, CopyTypes, Idle
  <2>3. \A s \in Sessions : Staged(s)
    BY DEF AuthInit, Staged
  <2>4. \A a \in catalog \cap served : Covered(a)
    BY DEF AuthInit
  <2> QED BY <2>1, <2>2, <2>3, <2>4, AuthTypesSplit DEF CopiesInv
<1>2. ASSUME Inv, Inv', CopiesInv, [AuthNext]_<<vars, authVars>> PROVE CopiesInv'
  <2>1. TypeOK'
    BY <1>2 DEF Inv
  <2>2. CASE UNCHANGED <<vars, authVars>>
    <3>1. AuthTypeOK'
      BY <1>2, <2>1, <2>2 DEF CopiesInv, AuthTypeOK, Waiting, vars, authVars, catalogVars
    <3>2. ASSUME NEW a \in (catalog \cap served)' PROVE Covered(a)'
      BY <1>2, <2>2, <3>2 DEF CopiesInv, Covered, authVars, catalogVars
    <3> QED BY <3>1, <3>2 DEF CopiesInv
  <2>3. CASE (Foreign \/ \E s \in Sessions : SignsIn(s)) /\ UNCHANGED authVars
    BY <1>2, <2>1, <2>3, SignsInCopies
  <2>4. ASSUME NEW s \in Sessions, UpsertAuthProfile(s) \/ Complete(s) \/ Break(s) \/ Renew(s)
        PROVE  CopiesInv'
    BY <1>2, <2>1, <2>4, UpsertCopies, CompleteCopies, BreakCopies, RenewCopies
  <2>5. CASE Set BY <1>2, <2>1, <2>5, SetCopies
  <2>6. ASSUME NEW r \in Requests, Handle(r) PROVE CopiesInv'
    BY <1>2, <2>1, <2>6, HandleCopies
  <2> QED BY <1>2, <2>2, <2>3, <2>4, <2>5, <2>6 DEF AuthNext
<1>3. AuthSpec => []Inv
  BY SignInsUndisturbed, Invariance, PTL
<1> QED BY <1>1, <1>2, <1>3, PTL DEF AuthSpec

\* The types of the sign-ins and of the copies.
THEOREM AuthTypesCorrect == AuthSpec => []AuthTypeOK
BY CopiesInvariance, PTL DEF CopiesInv

\* When no sign-in has a credential to spread, no agent has stale ones, but for the exceptions.
THEOREM CredentialsArrive == AuthSpec => []AgentsGetTheCredentials
<1>1. CopiesInv => AgentsGetTheCredentials
  BY DEF CopiesInv, Covered, AgentsGetTheCredentials
<1> QED BY <1>1, CopiesInvariance, PTL
====

---- MODULE OrganisationProofs ----
(***************************************************************************)
(* For any number of agents: every line of managers leads to goat, and a   *)
(* hard reset forgets no agent of ours, whatever calls are made and        *)
(* wherever they are broken off; and what the workspaces derive from the   *)
(* manifests agrees with them between calls.  That a line of managers is   *)
(* the smallest set that is closed under "reports to" makes induction      *)
(* unnecessary: what every closed set contains is shown of one closed set, *)
(* and the closed sets before and after a step differ in one agent.        *)
(***************************************************************************)
EXTENDS Organisation, TLAPS

\* Every line leads to goat, said of closed sets.
Led == \A i \in known : \A S \in SUBSET Ids : i \in S /\ Closed(S) => Goat \in S

\* Nobody reports to an agent that does not exist.
Present == \A i \in known : ManagerOf(i) # None => ManagerOf(i) \in known \cup {Goat}

\* From the deletions on, the hard reset knows whom it left.
ResetKnows ==
    op.kind = "reset" /\ op.at > 1 /\ op.listed =>
        \A i \in Ids \ {Main} : registered[i] = "here" => i \in op.left

Inv == TypeOK /\ (orderly => Led /\ Present) /\ ResetKnows

\* Managers are agents.
LEMMA ManagersAreIds ==
    ASSUME TypeOK, NEW i \in Ids
    PROVE  /\ ManagerOf(i) \in Ids \cup {None}
           /\ ReportsTo(i) \in Ids \cup {None}
           /\ None \notin Ids
<1>1. ManagerOf(i) \in Ids \cup {None} BY DEF TypeOK, ManagerOf, Ids
<1>2. None \notin Ids BY GoatAssumption DEF Ids
<1> QED BY <1>1, <1>2 DEF ReportsTo

\* The line of an agent is closed and contains it.
LEMMA ChainIsClosed ==
    ASSUME TypeOK, NEW i \in Ids
    PROVE  Chain(i) \in SUBSET Ids /\ Closed(Chain(i)) /\ i \in Chain(i)
<1>1. Chain(i) \in SUBSET Ids /\ i \in Chain(i)
  BY DEF Chain
<1>2. ASSUME NEW j \in Chain(i), ReportsTo(j) # None
      PROVE  ReportsTo(j) \in Chain(i)
  <2>1. ReportsTo(j) \in Ids
    BY <1>1, <1>2, ManagersAreIds
  <2>2. ASSUME NEW S \in SUBSET Ids, i \in S, Closed(S)
        PROVE  ReportsTo(j) \in S
    BY <1>2, <2>2 DEF Chain, Closed
  <2> QED BY <2>1, <2>2 DEF Chain
<1> QED BY <1>1, <1>2 DEF Closed

\* The invariant gives the two properties.
LEMMA InvGives == ASSUME Inv PROVE ReportingIsATree /\ ResetForgetsNobody
<1>1. ASSUME orderly, NEW i \in known
      PROVE  Goat \in Chain(i) /\ Chain(i) \subseteq known \cup {Goat}
  <2>1. TypeOK /\ Led /\ Present /\ i \in Ids /\ known \subseteq Ids /\ Goat \in Ids
    BY <1>1 DEF Inv, TypeOK, Ids
  <2>2. Goat \in Chain(i)
    BY <2>1, ChainIsClosed DEF Led
  <2>3. Closed(known \cup {Goat}) /\ known \cup {Goat} \in SUBSET Ids
    BY <2>1 DEF Closed, Present, ReportsTo
  <2>4. Chain(i) \subseteq known \cup {Goat}
    BY <2>3 DEF Chain
  <2> QED BY <2>2, <2>4
<1>2. ASSUME op.kind = "reset", At("return"), op.listed
      PROVE  \A i \in Ids \ {Main} : registered[i] = "here" => i \in op.left
  <2>1. op.at \in 1..8 /\ op.at # 1
    BY <1>2 DEF Inv, TypeOK, At, Program
  <2> QED BY <1>2, <2>1 DEF Inv, ResetKnows
<1> QED BY <1>1, <1>2 DEF ReportingIsATree, ResetForgetsNobody

----------------------------------------------------------------------------
(* Steps that leave the manifests alone                                    *)

\* The lines depend on the directories and the manifests only.
LEMMA SameManifests ==
    ASSUME orderly => Led /\ Present, UNCHANGED <<known, manifest>>, orderly' => orderly
    PROVE  (orderly => Led /\ Present)'
BY DEF Led, Present, Closed, ReportsTo, ManagerOf

\* A stage that is not the last has one after it.
LEMMA ProceedIsTyped ==
    ASSUME TypeOK, NEW stage, At(stage), stage \notin {"return", "throw", "idle"}
    PROVE  op.at + 1 \in 1..8 /\ op.at + 1 <= Len(Program[op.kind])
<1>1. op.kind \in DOMAIN Program /\ op.at \in 1..8 /\ op.at <= Len(Program[op.kind])
  BY DEF TypeOK
<1>2. CASE op.kind = "create" BY <1>1, <1>2 DEF At, Program
<1>3. CASE op.kind = "setManager" BY <1>1, <1>3 DEF At, Program
<1>4. CASE op.kind = "delete" BY <1>1, <1>4 DEF At, Program
<1>5. CASE op.kind = "remove" BY <1>1, <1>5 DEF At, Program
<1>6. CASE op.kind = "undo" BY <1>1, <1>6 DEF At, Program
<1>7. CASE op.kind = "startup" BY <1>1, <1>7 DEF At, Program
<1>8. CASE op.kind = "reset" BY <1>1, <1>8 DEF At, Program
<1>9. CASE op.kind = "none" BY <1>1, <1>9 DEF At, Program
<1>10. DOMAIN Program = {"create", "setManager", "delete", "remove", "undo", "startup", "reset", "none"}
  BY DEF Program
<1> QED BY <1>1, <1>2, <1>3, <1>4, <1>5, <1>6, <1>7, <1>8, <1>9, <1>10

\* The call under way, or none, after a step.
OpType == [kind : DOMAIN Program, at : 1..8, agent : Ids,
           others : (Ids \cup {None}) \X (Ids \cup {None}), new : BOOLEAN, force : BOOLEAN,
           left : SUBSET Ids, listed : BOOLEAN]

WorkspaceType == [there : BOOLEAN, manager : Ids \cup {None}, reportees : SUBSET Ids,
                  skills : {"none", "manager", "individual"}]

RegisteredType == [Ids -> {"none", "here", "elsewhere"}]

\* A call that has begun is typed, and so is none.
LEMMA CallsAreTyped ==
    /\ \A kind \in DOMAIN Program : \A a \in Ids :
          /\ Call(kind, a) \in OpType
          /\ Call(kind, a).at = 1 /\ Call(kind, a).kind = kind
          /\ Call(kind, a).at <= Len(Program[Call(kind, a).kind])
    /\ Idle \in OpType /\ Idle.at <= Len(Program[Idle.kind]) /\ Idle.kind = "none"
<1>1. \A kind \in DOMAIN Program : 1 <= Len(Program[kind])
  <2>1. DOMAIN Program = {"create", "setManager", "delete", "remove", "undo", "startup", "reset", "none"}
    BY DEF Program
  <2>2. 1 <= Len(Program["create"]) BY DEF Program
  <2>3. 1 <= Len(Program["setManager"]) BY DEF Program
  <2>4. 1 <= Len(Program["delete"]) BY DEF Program
  <2>5. 1 <= Len(Program["remove"]) BY DEF Program
  <2>6. 1 <= Len(Program["undo"]) BY DEF Program
  <2>7. 1 <= Len(Program["startup"]) BY DEF Program
  <2>8. 1 <= Len(Program["reset"]) BY DEF Program
  <2>9. 1 <= Len(Program["none"]) BY DEF Program
  <2> QED BY <2>1, <2>2, <2>3, <2>4, <2>5, <2>6, <2>7, <2>8, <2>9
<1>2. ASSUME NEW kind \in DOMAIN Program, NEW a \in Ids
      PROVE  /\ Call(kind, a) \in OpType
             /\ Call(kind, a).at = 1 /\ Call(kind, a).kind = kind
  <2>1. 1 \in 1..8 /\ {} \in SUBSET Ids /\ TRUE \in BOOLEAN /\ FALSE \in BOOLEAN
    OBVIOUS
  <2>2. <<None, None>> \in (Ids \cup {None}) \X (Ids \cup {None})
    OBVIOUS
  <2> QED BY <2>1, <2>2 DEF Call, Underway, OpType
<1>3. "none" \in DOMAIN Program /\ Goat \in Ids
  BY DEF Program, Ids
<1> QED BY <1>1, <1>2, <1>3 DEF Idle

\* What the skills and the links write is typed.
LEMMA WorkspacesAreTyped ==
    ASSUME TypeOK, NEW done
    PROVE  /\ WithSkills(done) \in [Ids -> WorkspaceType]
           /\ WithLinks(done) \in [Ids -> WorkspaceType]
<1>1. workspace \in [Ids -> WorkspaceType]
  BY DEF TypeOK, WorkspaceType
<1>2. \A i \in Ids : Role(i) \in {"manager", "individual"}
  BY DEF Role
<1>3. \A i \in Ids : ReportsTo(i) \in Ids \cup {None} /\ Reportees(i) \in SUBSET Ids
  BY ManagersAreIds DEF Reportees, TypeOK
<1>4. ASSUME NEW i \in Ids
      PROVE  /\ workspace[i].manager \in Ids \cup {None} /\ workspace[i].reportees \in SUBSET Ids
             /\ workspace[i].skills \in {"none", "manager", "individual"}
             /\ workspace[i] \in WorkspaceType
  BY <1>1 DEF WorkspaceType
<1> QED BY <1>2, <1>3, <1>4 DEF WithSkills, WithLinks, WorkspaceType

\* A stage that leaves the manifests alone, and in a reset adds nobody to OpenClaw.
LEMMA StageStep ==
    ASSUME Inv, NEW stage, At(stage), stage \notin {"return", "throw", "idle", "unregisterAll"},
           Proceed,
           workspace' \in [Ids -> WorkspaceType], registered' \in RegisteredType,
           op.kind = "reset" => \A i \in Ids : registered'[i] = "here" => registered[i] = "here",
           UNCHANGED <<known, manifest, defaultAgent, orderly, broken>>, loose' \in BOOLEAN
    PROVE  Inv'
<1>1. /\ op' = [op EXCEPT !.at = op.at + 1] /\ op \in OpType
      /\ op.at + 1 \in 1..8 /\ op.at + 1 <= Len(Program[op.kind])
  BY ProceedIsTyped DEF Inv, Proceed, TypeOK, OpType
<1>2. /\ op' \in OpType /\ op'.at = op.at + 1 /\ op'.kind = op.kind
      /\ op'.listed = op.listed /\ op'.left = op.left
  BY <1>1 DEF OpType
<1>3. TypeOK'
  BY <1>1, <1>2 DEF Inv, TypeOK, OpType, WorkspaceType, RegisteredType
<1>4. (orderly => Led /\ Present)'
  BY SameManifests DEF Inv
<1>5. ResetKnows'
  <2>1. op.kind = "reset" => op.at # 1
    BY DEF At, Program
  <2>2. op.at \in 1..8
    BY <1>1 DEF OpType
  <2> QED BY <1>2, <2>1, <2>2 DEF Inv, ResetKnows
<1> QED BY <1>3, <1>4, <1>5 DEF Inv

\* A step after which no call is under way, or one begins or is undone.
LEMMA CallStep ==
    ASSUME Inv, op' \in OpType, op'.at <= Len(Program[op'.kind]), op'.kind = "reset" => op'.at = 1,
           workspace' \in [Ids -> WorkspaceType], registered' \in RegisteredType,
           defaultAgent' \in Ids, broken' \in 0..MaxBroken, loose' \in BOOLEAN,
           known' \subseteq Ids, manifest' \in [Ids -> Ids \cup {None}],
           \A i \in Ids \ known' : manifest'[i] = None,
           orderly' \in BOOLEAN, (orderly => Led /\ Present)'
    PROVE  Inv'
<1>1. TypeOK'
  BY DEF TypeOK, OpType, WorkspaceType, RegisteredType
<1>2. ResetKnows'
  BY DEF ResetKnows
<1> QED BY <1>1, <1>2 DEF Inv

----------------------------------------------------------------------------
(* Steps that change one manifest                                          *)

\* An agent that nobody reports to appears, disappears, or changes its manager.
LEMMA LeafChange ==
    ASSUME TypeOK, Led, Present, NEW a \in Agents,
           known' \subseteq Ids, manifest' \in [Ids -> Ids \cup {None}],
           \A j \in Ids \ {a} : (j \in known' <=> j \in known) /\ manifest'[j] = manifest[j],
           Reportees(a) = {},
           a \in known' => ManagerOf(a)' \in (known \cup {Goat}) \ {a}
    PROVE  Led' /\ Present'
<1>1. a \in Ids /\ a # Goat /\ Goat \in Ids /\ None \notin Ids /\ Goat # None /\ known \subseteq Ids
  BY GoatAssumption DEF Ids, TypeOK
<1>2. \A j \in Ids \ {a} : ManagerOf(j)' = ManagerOf(j) /\ ReportsTo(j)' = ReportsTo(j)
  BY DEF ManagerOf, ReportsTo
<1>3. \A j \in known : ManagerOf(j) # a
  BY DEF Reportees, ReportsTo
<1>4. ASSUME NEW i \in known', NEW S \in SUBSET Ids, i \in S, Closed(S)'
      PROVE  Goat \in S
  <2> DEFINE R == S \ {a}
  <2>1. Closed(R)
    <3>1. ASSUME NEW j \in R, ReportsTo(j) # None
          PROVE  ReportsTo(j) \in R
      <4>1. j \in Ids \ {a} /\ ReportsTo(j)' = ReportsTo(j)
        BY <1>2
      <4>2. ReportsTo(j) \in S
        BY <1>4, <3>1, <4>1 DEF Closed
      <4>3. ReportsTo(j) # a
        BY <1>3, <3>1, <1>1 DEF ReportsTo
      <4> QED BY <4>2, <4>3
    <3> QED BY <3>1 DEF Closed
  <2>2. CASE i # a
    <3>1. i \in known /\ i \in R
      BY <1>4, <2>2
    <3> QED BY <3>1, <2>1 DEF Led
  <2>3. CASE i = a
    <3>1. ReportsTo(a)' = ManagerOf(a)' /\ ManagerOf(a)' \in (known \cup {Goat}) \ {a}
      BY <1>4, <2>3 DEF ReportsTo
    <3>2. ManagerOf(a)' \in R
      BY <1>1, <1>4, <2>3, <3>1 DEF Closed
    <3> QED BY <3>1, <3>2, <2>1 DEF Led
  <2> QED BY <2>2, <2>3
<1>5. ASSUME NEW i \in known', ManagerOf(i)' # None
      PROVE  ManagerOf(i)' \in known' \cup {Goat}
  <2>1. CASE i # a
    <3>1. i \in known /\ ManagerOf(i)' = ManagerOf(i) /\ ManagerOf(i) # a
      BY <1>2, <1>3, <2>1
    <3>2. ManagerOf(i) \in known \cup {Goat}
      BY <1>5, <3>1 DEF Present
    <3> QED BY <3>1, <3>2, <1>1
  <2>2. CASE i = a
    BY <2>2, <1>1
  <2> QED BY <2>1, <2>2
<1>6. Led'
  BY <1>4 DEF Led
<1>7. Present'
  BY <1>5 DEF Present
<1> QED BY <1>6, <1>7

\* The walk that setAgentManager makes: an agent moves under one whose line avoids it.
LEMMA MoveKeepsLines ==
    ASSUME TypeOK, Led, Present, NEW a \in Agents, NEW m \in Ids,
           m \in known, a \notin Chain(m), UNCHANGED known,
           manifest' = [manifest EXCEPT ![a] = m]
    PROVE  Led' /\ Present'
<1>1. a \in Ids /\ a # Goat /\ Goat \in Ids /\ None \notin Ids /\ Goat # None /\ m # None
      /\ known \subseteq Ids /\ manifest \in [Ids -> Ids \cup {None}]
  BY GoatAssumption DEF Ids, TypeOK
<1>2. \A j \in Ids \ {a} : ManagerOf(j)' = ManagerOf(j) /\ ReportsTo(j)' = ReportsTo(j)
  BY <1>1 DEF ManagerOf, ReportsTo
<1>3. ManagerOf(a)' = m
  BY <1>1 DEF ManagerOf
<1>4. Chain(m) \in SUBSET Ids /\ Closed(Chain(m)) /\ m \in Chain(m)
  BY ChainIsClosed
<1>5. ASSUME NEW S \in SUBSET Ids, m \in S, Closed(S)'
      PROVE  Goat \in S
  <2> DEFINE R == S \cap Chain(m)
  <2>1. R \in SUBSET Ids /\ m \in R
    BY <1>4, <1>5
  <2>2. ASSUME NEW j \in R, ReportsTo(j) # None
        PROVE  ReportsTo(j) \in R
    <3>1. j \in Ids \ {a} /\ ReportsTo(j)' = ReportsTo(j)
      BY <1>2, <2>1
    <3> QED BY <1>4, <1>5, <2>2, <3>1 DEF Closed
  <2>3. Closed(R)
    BY <2>2 DEF Closed
  <2> QED BY <2>1, <2>3 DEF Led
<1>6. ASSUME NEW i \in known, NEW S \in SUBSET Ids, i \in S, Closed(S)'
      PROVE  Goat \in S
  <2>1. CASE a \in known /\ a \in S
    <3>1. ReportsTo(a)' = m
      BY <1>3, <2>1 DEF ReportsTo
    <3>2. m \in S
      BY <1>1, <1>6, <2>1, <3>1 DEF Closed
    <3> QED BY <1>5, <1>6, <3>2
  <2>2. CASE ~(a \in known /\ a \in S)
    <3>1. \A j \in S : ReportsTo(j)' = ReportsTo(j)
      BY <1>2, <2>2 DEF ReportsTo
    <3>2. Closed(S)
      BY <1>6, <3>1 DEF Closed
    <3> QED BY <1>6, <3>2 DEF Led
  <2> QED BY <2>1, <2>2
<1>7. Led'
  BY <1>6 DEF Led
<1>8. \A i \in known : ManagerOf(i)' # None => ManagerOf(i)' \in known \cup {Goat}
  BY <1>1, <1>2, <1>3 DEF Present
<1>9. Present'
  BY <1>8 DEF Present
<1> QED BY <1>7, <1>9

\* Goat's directory and manifest decide nothing.
LEMMA GoatChange ==
    ASSUME TypeOK, Led, Present, known' \subseteq Ids,
           \A j \in Agents : (j \in known' <=> j \in known) /\ manifest'[j] = manifest[j]
    PROVE  Led' /\ Present'
<1>1. Goat \notin Agents /\ known \subseteq Ids
  BY GoatAssumption DEF TypeOK
<1>2. \A j \in Ids : ManagerOf(j)' = ManagerOf(j) /\ ReportsTo(j)' = ReportsTo(j)
  BY <1>1 DEF ManagerOf, ReportsTo, Ids
<1>3. \A S \in SUBSET Ids : Closed(S)' <=> Closed(S)
  BY <1>2 DEF Closed
<1>4. Led'
  BY <1>1, <1>3 DEF Led, Ids
<1>5. Present'
  BY <1>1, <1>2 DEF Present, ManagerOf, Ids
<1> QED BY <1>4, <1>5

----------------------------------------------------------------------------
(* The stages                                                              *)

\* The stages that leave the manifests alone.
LEMMA QuietStages ==
    ASSUME Inv, SyncSkills \/ Register \/ Locate \/ Furnish \/ SyncLinks \/ Unregister
                \/ RemoveWorkspace \/ Inventory
    PROVE  Inv'
<1>1. /\ TypeOK /\ op.kind \in DOMAIN Program /\ op.agent \in Ids /\ op.at \in 1..8
      /\ op.at <= Len(Program[op.kind])
      /\ workspace \in [Ids -> WorkspaceType] /\ registered \in RegisteredType
      /\ loose \in BOOLEAN
  BY DEF Inv, TypeOK, WorkspaceType, RegisteredType
<1>2. op.kind = "reset" => ~At("register") /\ ~At("locate") /\ ~At("inventory")
  BY <1>1 DEF At, Program
<1>3. CASE SyncSkills
  <2>1. workspace' \in [Ids -> WorkspaceType]
    BY <1>1, <1>3, WorkspacesAreTyped DEF SyncSkills
  <2>2. UNCHANGED <<known, manifest, registered, defaultAgent, orderly, broken, loose>> /\ Proceed
    BY <1>3 DEF SyncSkills
  <2>3. PICK stage \in {"ownSkills", "previousSkills", "managerSkills"} : At(stage)
    BY <1>3 DEF SyncSkills, SkillStages
  <2> QED BY <1>1, <2>1, <2>2, <2>3, StageStep
<1>4. CASE Register
  <2>1. /\ At("register") /\ Proceed
        /\ UNCHANGED <<known, manifest, workspace, defaultAgent, orderly, broken, loose>>
        /\ registered' \in RegisteredType
    BY <1>1, <1>4 DEF Register, RegisteredType
  <2> QED BY <1>1, <1>2, <2>1, StageStep
<1>5. CASE Locate
  <2>1. /\ At("locate") /\ Proceed
        /\ UNCHANGED <<known, manifest, workspace, defaultAgent, orderly, broken, loose>>
        /\ registered' \in RegisteredType
    BY <1>1, <1>5 DEF Locate, RegisteredType
  <2> QED BY <1>1, <1>2, <2>1, StageStep
<1>6. CASE Furnish
  <2>1. UNCHANGED <<known, manifest, registered, defaultAgent, orderly, broken, loose>> /\ Proceed
    BY <1>6 DEF Furnish
  <2>2. workspace' \in [Ids -> WorkspaceType]
    BY <1>1, <1>6 DEF Furnish, WorkspaceType
  <2>3. PICK stage \in {"policies", "bootstrap", "shim"} : At(stage)
    BY <1>6 DEF Furnish
  <2> QED BY <1>1, <2>1, <2>2, <2>3, StageStep
<1>7. CASE SyncLinks
  <2>1. workspace' \in [Ids -> WorkspaceType]
    BY <1>1, <1>7, WorkspacesAreTyped DEF SyncLinks
  <2>2. /\ At("links") /\ Proceed /\ loose' \in BOOLEAN
        /\ UNCHANGED <<known, manifest, registered, defaultAgent, orderly, broken>>
    BY <1>7 DEF SyncLinks
  <2> QED BY <1>1, <2>1, <2>2, StageStep
<1>8. CASE Unregister
  <2>1. /\ At("unregister") /\ Proceed
        /\ UNCHANGED <<known, manifest, workspace, defaultAgent, orderly, broken, loose>>
        /\ registered' \in RegisteredType
        /\ \A i \in Ids : registered'[i] = "here" => registered[i] = "here"
    BY <1>1, <1>8 DEF Unregister, RegisteredType
  <2> QED BY <1>1, <2>1, StageStep
<1>9. CASE RemoveWorkspace
  <2>1. /\ At("removeWorkspace") /\ Proceed
        /\ UNCHANGED <<known, manifest, registered, defaultAgent, orderly, broken, loose>>
    BY <1>9 DEF RemoveWorkspace
  <2>2. workspace' \in [Ids -> WorkspaceType]
    BY <1>1, <1>9 DEF RemoveWorkspace, NoWorkspace, WorkspaceType
  <2> QED BY <1>1, <2>1, <2>2, StageStep
<1>10. CASE Inventory
  <2>1. /\ At("inventory") /\ Proceed
        /\ UNCHANGED <<known, manifest, workspace, defaultAgent, orderly, broken, loose>>
        /\ registered' \in RegisteredType
    BY <1>10 DEF Inventory, RegisteredType
  <2> QED BY <1>1, <1>2, <2>1, StageStep
<1> QED BY <1>3, <1>4, <1>5, <1>6, <1>7, <1>8, <1>9, <1>10

\* The manifest is removed; nobody reports to the agent if the history says so.
LEMMA RemoveConfigKeeps == ASSUME Inv, RemoveConfig PROVE Inv'
<1>1. /\ TypeOK /\ op.agent \in Ids /\ op \in OpType /\ known \subseteq Ids
      /\ manifest \in [Ids -> Ids \cup {None}] /\ \A i \in Ids \ known : manifest[i] = None
  BY DEF Inv, TypeOK, OpType
<1>2. /\ At("removeConfig") /\ op' = [op EXCEPT !.at = op.at + 1]
      /\ known' = known \ {op.agent} /\ manifest' = [manifest EXCEPT ![op.agent] = None]
      /\ UNCHANGED <<workspace, registered, defaultAgent, broken, loose>>
      /\ orderly' = (orderly /\ Reportees(op.agent) = {})
  BY DEF RemoveConfig, Proceed
<1>3. op.at + 1 \in 1..8 /\ op.at + 1 <= Len(Program[op.kind])
  BY <1>1, <1>2, ProceedIsTyped
<1>4. op' \in OpType /\ op'.at = op.at + 1 /\ op'.kind = op.kind
  BY <1>1, <1>2, <1>3 DEF OpType
<1>5. op.kind # "reset"
  BY <1>1, <1>2 DEF At, Program, Inv, TypeOK
<1>6. (orderly => Led /\ Present)'
  <2>1. SUFFICES ASSUME orderly' PROVE Led' /\ Present'
    OBVIOUS
  <2>2. Led /\ Present /\ Reportees(op.agent) = {}
    BY <1>2, <2>1 DEF Inv
  <2>3. CASE op.agent = Goat
    <3>1. \A j \in Agents : (j \in known' <=> j \in known) /\ manifest'[j] = manifest[j]
      BY <1>1, <1>2, <2>3, GoatAssumption DEF Ids
    <3> QED BY <1>1, <1>2, <2>2, <3>1, GoatChange
  <2>4. CASE op.agent \in Agents
    <3>1. PICK a \in Agents : a = op.agent
      BY <2>4
    <3>2. /\ known' \subseteq Ids /\ manifest' \in [Ids -> Ids \cup {None}]
          /\ a \notin known' /\ Reportees(a) = {}
          /\ \A j \in Ids \ {a} : (j \in known' <=> j \in known) /\ manifest'[j] = manifest[j]
      BY <1>1, <1>2, <2>2, <3>1
    <3> QED BY <1>1, <2>2, <3>2, LeafChange
  <2> QED BY <1>1, <2>3, <2>4 DEF Ids
<1>7. /\ known' \subseteq Ids /\ manifest' \in [Ids -> Ids \cup {None}]
      /\ \A i \in Ids \ known' : manifest'[i] = None
      /\ orderly' \in BOOLEAN
  BY <1>1, <1>2
<1>8. /\ workspace' \in [Ids -> WorkspaceType] /\ registered' \in RegisteredType
      /\ defaultAgent' \in Ids /\ broken' \in 0..MaxBroken /\ loose' \in BOOLEAN
  BY <1>2 DEF Inv, TypeOK, WorkspaceType, RegisteredType
<1> QED BY <1>2, <1>3, <1>4, <1>5, <1>6, <1>7, <1>8, CallStep

\* The hard reset, from the deletions at OpenClaw to the removal of the home directory.
LEMMA ResetKeeps == ASSUME Inv, UnregisterAll \/ RemoveHome PROVE Inv'
<1>1. /\ TypeOK /\ op \in OpType /\ op.at \in 1..8 /\ op.at <= Len(Program[op.kind])
      /\ op.kind \in DOMAIN Program /\ registered \in RegisteredType
      /\ known \subseteq Ids /\ Goat \in Ids
  BY DEF Inv, TypeOK, OpType, RegisteredType, Ids
<1>2. CASE UnregisterAll
  <2>1. PICK listed \in BOOLEAN, seen \in BOOLEAN : \E left \in SUBSET Candidates(listed, seen) :
          /\ registered' = [i \in Ids |-> IF i \in Candidates(listed, seen) \ left THEN "none"
                                          ELSE registered[i]]
          /\ op' = Underway("reset", 2, Goat, left, listed)
    BY <1>2 DEF UnregisterAll
  <2>2. PICK left \in SUBSET Candidates(listed, seen) :
          /\ registered' = [i \in Ids |-> IF i \in Candidates(listed, seen) \ left THEN "none"
                                          ELSE registered[i]]
          /\ op' = Underway("reset", 2, Goat, left, listed)
    BY <2>1
  <2>3. left \in SUBSET Ids
    BY <1>1 DEF Candidates
  <2>4. op' \in OpType /\ op'.kind = "reset" /\ op'.at = 2 /\ op'.left = left /\ op'.listed = listed
    <3>1. "reset" \in DOMAIN Program /\ 2 \in 1..8
      BY DEF Program
    <3>2. <<None, None>> \in (Ids \cup {None}) \X (Ids \cup {None})
      OBVIOUS
    <3> QED BY <1>1, <2>2, <2>3, <3>1, <3>2 DEF Underway, OpType
  <2>5. op'.at <= Len(Program[op'.kind])
    <3>1. 2 <= Len(Program["reset"]) BY DEF Program
    <3> QED BY <2>4, <3>1
  <2>6. UNCHANGED <<known, manifest, workspace, defaultAgent, orderly, broken, loose>>
    BY <1>2 DEF UnregisterAll
  <2>7. registered' \in RegisteredType
    BY <1>1, <2>2 DEF RegisteredType
  <2>8. TypeOK'
    BY <2>4, <2>5, <2>6, <2>7 DEF Inv, TypeOK, OpType, RegisteredType
  <2>9. (orderly => Led /\ Present)'
    BY <2>6, SameManifests DEF Inv
  <2>10. ResetKnows'
    BY <2>2, <2>4 DEF ResetKnows, Candidates
  <2> QED BY <2>8, <2>9, <2>10 DEF Inv
<1>3. CASE RemoveHome
  <2>1. /\ At("removeHome") /\ op' = [op EXCEPT !.at = op.at + 1] /\ registered' = registered
        /\ known' = {} /\ manifest' = [i \in Ids |-> None]
        /\ workspace' = [i \in Ids |-> NoWorkspace]
        /\ defaultAgent' = Goat /\ orderly' = TRUE /\ broken' = 0 /\ loose' = FALSE
    BY <1>3 DEF RemoveHome, Proceed
  <2>2. op.at + 1 \in 1..8 /\ op.at + 1 <= Len(Program[op.kind])
    BY <1>1, <2>1, ProceedIsTyped
  <2>3. /\ op' \in OpType /\ op'.at = op.at + 1 /\ op'.kind = op.kind
        /\ op'.left = op.left /\ op'.listed = op.listed
    BY <1>1, <2>1, <2>2 DEF OpType
  <2>4. op.at # 1
    BY <1>1, <2>1 DEF At, Program
  <2>5. workspace' \in [Ids -> WorkspaceType]
    BY <2>1 DEF NoWorkspace, WorkspaceType
  <2>6. 0 \in 0..MaxBroken
    BY MaxBrokenAssumption
  <2>7. TypeOK'
    BY <1>1, <2>1, <2>2, <2>3, <2>5, <2>6 DEF TypeOK, OpType, WorkspaceType, RegisteredType
  <2>8. (orderly => Led /\ Present)'
    BY <2>1 DEF Led, Present
  <2>9. ResetKnows'
    BY <1>1, <2>1, <2>3, <2>4 DEF Inv, ResetKnows
  <2> QED BY <2>7, <2>8, <2>9 DEF Inv
<1> QED BY <1>2, <1>3

----------------------------------------------------------------------------
(* Failures                                                                *)

\* What a stage that fails leaves is typed, and the manifests are what they were or one is gone.
LEMMA PartsAreTyped ==
    ASSUME Inv, PartlyDone, UNCHANGED known
    PROVE  /\ workspace' \in [Ids -> WorkspaceType] /\ registered' \in RegisteredType
           /\ manifest' \in [Ids -> Ids \cup {None}]
           /\ manifest' \in {manifest, [manifest EXCEPT ![op.agent] = None]}
           /\ \A i \in Ids \ known' : manifest'[i] = None
<1>1. /\ TypeOK /\ workspace \in [Ids -> WorkspaceType] /\ registered \in RegisteredType
      /\ op.agent \in Ids /\ manifest \in [Ids -> Ids \cup {None}]
      /\ \A i \in Ids \ known : manifest[i] = None
  BY DEF Inv, TypeOK, WorkspaceType, RegisteredType
<1>2. workspace' \in [Ids -> WorkspaceType]
  BY <1>1, WorkspacesAreTyped DEF PartlyDone
<1>3. registered' \in RegisteredType
  BY <1>1 DEF PartlyDone, RegisteredType
<1>4. manifest' \in {manifest, [manifest EXCEPT ![op.agent] = None]}
  BY DEF PartlyDone
<1> QED BY <1>1, <1>2, <1>3, <1>4

\* A stage fails.
LEMMA FailKeeps == ASSUME Inv, Fail PROVE Inv'
<1>1. /\ TypeOK /\ op \in OpType /\ op.agent \in Ids /\ op.at \in 1..8
      /\ op.at <= Len(Program[op.kind]) /\ op.kind \in DOMAIN Program
      /\ manifest \in [Ids -> Ids \cup {None}] /\ known \subseteq Ids
      /\ orderly \in BOOLEAN /\ broken \in 0..MaxBroken /\ defaultAgent \in Ids
      /\ \A i \in Ids \ known : manifest[i] = None
  BY DEF Inv, TypeOK, OpType
<1>2. /\ op.kind # "none" /\ ~At("return") /\ ~At("throw") /\ PartlyDone
      /\ op' \in AfterFailure /\ UNCHANGED <<known, defaultAgent>>
      /\ broken < MaxBroken /\ broken' = broken + 1 /\ loose' = TRUE
      /\ orderly' = (orderly /\ (manifest' # manifest => Reportees(op.agent) = {}))
  BY DEF Fail, BrokenOff
<1>3. /\ workspace' \in [Ids -> WorkspaceType] /\ registered' \in RegisteredType
      /\ manifest' \in [Ids -> Ids \cup {None}]
      /\ manifest' \in {manifest, [manifest EXCEPT ![op.agent] = None]}
      /\ \A i \in Ids \ known' : manifest'[i] = None
  BY <1>2, PartsAreTyped
<1>4. op' \in OpType /\ op'.at <= Len(Program[op'.kind]) /\ op'.kind # "reset"
  <2>1. CASE op' = Idle
    BY <2>1, CallsAreTyped
  <2>2. CASE op' # Idle /\ op.kind = "create" /\ op.new /\ ~At("policies")
    <3>1. op' = Call("undo", op.agent)
      BY <1>2, <2>2 DEF AfterFailure
    <3>2. "undo" \in DOMAIN Program
      BY DEF Program
    <3> QED BY <1>1, <3>1, <3>2, CallsAreTyped
  <2>3. CASE /\ op' # Idle
             /\ ~(op.kind = "create" /\ op.new /\ ~At("policies"))
             /\ op.kind = "startup" \/ (At("unregister") /\ op.force)
    <3>1. op' = [op EXCEPT !.at = op.at + 1]
      BY <1>2, <2>3 DEF AfterFailure
    <3>2. op.kind # "reset"
      BY <1>1, <2>3 DEF At, Program
    <3>3. ~At("idle")
      <4>1. CASE op.kind = "startup" BY <1>1, <4>1 DEF At, Program
      <4>2. CASE At("unregister") BY <4>2 DEF At
      <4> QED BY <2>3, <4>1, <4>2
    <3>4. op.at + 1 \in 1..8 /\ op.at + 1 <= Len(Program[op.kind])
      <4> DEFINE stage == Program[op.kind][op.at]
      <4>1. At(stage) /\ stage \notin {"return", "throw", "idle"}
        BY <1>2, <3>3 DEF At
      <4>2. \A st : At(st) /\ st \notin {"return", "throw", "idle"} =>
                op.at + 1 \in 1..8 /\ op.at + 1 <= Len(Program[op.kind])
        BY <1>1, ProceedIsTyped
      <4> QED BY <4>1, <4>2
    <3> QED BY <1>1, <3>1, <3>2, <3>4 DEF OpType
  <2>4. op' = Idle \/ (op.kind = "create" /\ op.new /\ ~At("policies"))
        \/ op.kind = "startup" \/ (At("unregister") /\ op.force)
    BY <1>2 DEF AfterFailure
  <2> QED BY <2>1, <2>2, <2>3, <2>4
<1>5. broken' \in 0..MaxBroken
  BY <1>1, <1>2, MaxBrokenAssumption
<1>6. (orderly => Led /\ Present)'
  <2>1. SUFFICES ASSUME orderly' PROVE Led' /\ Present'
    OBVIOUS
  <2>2. orderly /\ Led /\ Present
    BY <1>2, <2>1 DEF Inv
  <2>3. CASE manifest' = manifest
    BY <1>2, <2>2, <2>3, SameManifests
  <2>4. CASE manifest' # manifest /\ op.agent = Goat
    <3>1. \A j \in Agents : (j \in known' <=> j \in known) /\ manifest'[j] = manifest[j]
      BY <1>1, <1>2, <1>3, <2>4, GoatAssumption DEF Ids
    <3> QED BY <1>1, <1>2, <2>2, <3>1, GoatChange
  <2>5. CASE manifest' # manifest /\ op.agent \in Agents
    <3>1. PICK a \in Agents : a = op.agent
      BY <2>5
    <3>2. Reportees(a) = {} /\ manifest' = [manifest EXCEPT ![a] = None]
      BY <1>2, <1>3, <2>1, <2>5, <3>1
    <3>3. a \in Ids /\ a # Goat
      BY GoatAssumption DEF Ids
    <3>4. manifest'[a] = None /\ \A j \in Ids \ {a} : manifest'[j] = manifest[j]
      BY <1>1, <3>2, <3>3
    <3>5. ManagerOf(a)' = Goat
      BY <3>3, <3>4 DEF ManagerOf
    <3> QED BY <1>1, <1>2, <1>3, <2>2, <3>2, <3>3, <3>4, <3>5, LeafChange
  <2> QED BY <1>1, <2>3, <2>4, <2>5 DEF Ids
<1> QED BY <1>1, <1>2, <1>3, <1>4, <1>5, <1>6, CallStep

\* A call ends, with or without an error, or is killed, or another program changes the runtime.
LEMMA EndingsKeep ==
    ASSUME Inv, Return \/ Throw \/ RefuseGoat \/ Kill \/ \E i \in Ids : Outside(i)
    PROVE  Inv'
<1>1. /\ TypeOK /\ op \in OpType /\ op.at <= Len(Program[op.kind])
      /\ workspace \in [Ids -> WorkspaceType] /\ registered \in RegisteredType
      /\ known \subseteq Ids /\ manifest \in [Ids -> Ids \cup {None}]
      /\ \A i \in Ids \ known : manifest[i] = None
      /\ orderly \in BOOLEAN /\ broken \in 0..MaxBroken /\ defaultAgent \in Ids /\ loose \in BOOLEAN
  BY DEF Inv, TypeOK, OpType, WorkspaceType, RegisteredType
<1>2. CASE Return \/ Throw \/ RefuseGoat
  <2>1. op' = Idle
        /\ UNCHANGED <<known, manifest, workspace, registered, defaultAgent, orderly, broken, loose>>
    BY <1>2 DEF Return, Throw, RefuseGoat
  <2>2. (orderly => Led /\ Present)'
    BY <2>1, SameManifests DEF Inv
  <2> QED BY <1>1, <2>1, <2>2, CallsAreTyped, CallStep
<1>3. CASE Kill
  <2>1. op' = Idle /\ broken < MaxBroken /\ broken' = broken + 1 /\ loose' = TRUE
        /\ UNCHANGED <<known, manifest, workspace, registered, defaultAgent, orderly>>
    BY <1>3 DEF Kill, BrokenOff
  <2>2. (orderly => Led /\ Present)'
    BY <2>1, SameManifests DEF Inv
  <2>3. broken' \in 0..MaxBroken
    BY <1>1, <2>1, MaxBrokenAssumption
  <2> QED BY <1>1, <2>1, <2>2, <2>3, CallsAreTyped, CallStep
<1>4. ASSUME NEW i \in Ids, Outside(i) PROVE Inv'
  <2>1. registered' = [registered EXCEPT ![i] = IF registered[i] = "none" THEN "elsewhere" ELSE "none"]
        /\ UNCHANGED <<known, manifest, workspace, defaultAgent, op, orderly, broken, loose>>
    BY <1>4 DEF Outside
  <2>2. registered' \in RegisteredType
        /\ \A j \in Ids : registered'[j] = "here" => registered[j] = "here"
    BY <1>1, <2>1 DEF RegisteredType
  <2>3. TypeOK'
    BY <1>1, <2>1, <2>2 DEF TypeOK, RegisteredType
  <2>4. (orderly => Led /\ Present)'
    BY <2>1, SameManifests DEF Inv
  <2>5. ResetKnows'
    BY <2>1, <2>2 DEF Inv, ResetKnows
  <2> QED BY <2>3, <2>4, <2>5 DEF Inv
<1> QED BY <1>2, <1>3, <1>4

----------------------------------------------------------------------------
(* The calls                                                               *)

\* A call begins and says what it does to the manifests.
LEMMA Begins ==
    ASSUME Inv, op' \in OpType, op'.at = 1, op'.kind \in DOMAIN Program,
           known' \subseteq Ids, manifest' \in [Ids -> Ids \cup {None}],
           \A i \in Ids \ known' : manifest'[i] = None,
           orderly' \in BOOLEAN, orderly' => Led' /\ Present',
           UNCHANGED <<workspace, registered, defaultAgent, broken, loose>>
    PROVE  Inv'
<1>1. op'.at <= Len(Program[op'.kind])
  <2>1. \A kind \in DOMAIN Program : 1 <= Len(Program[kind])
    <3>1. Goat \in Ids BY DEF Ids
    <3> QED BY <3>1, CallsAreTyped
  <2> QED BY <2>1
<1>2. /\ workspace' \in [Ids -> WorkspaceType] /\ registered' \in RegisteredType
      /\ defaultAgent' \in Ids /\ broken' \in 0..MaxBroken /\ loose' \in BOOLEAN
  BY DEF Inv, TypeOK, WorkspaceType, RegisteredType
<1> QED BY <1>1, <1>2, CallStep

\* The default manager is an agent.
LEMMA DefaultIsAgent == ASSUME Inv PROVE DefaultManager \in Ids /\ Goat \in Ids
BY DEF Inv, TypeOK, DefaultManager, Ids

\* createAgent writes the first manifest of an agent, or leaves the one there is.
LEMMA CreateKeeps ==
    ASSUME Inv, NEW a \in Agents, NEW asked \in Ids \cup {None}, Create(a, asked)
    PROVE  Inv'
<1> DEFINE m == Chosen(a, asked)
<1>1. /\ TypeOK /\ known \subseteq Ids /\ manifest \in [Ids -> Ids \cup {None}]
      /\ orderly \in BOOLEAN /\ \A i \in Ids \ known : manifest[i] = None
      /\ a \in Ids /\ a # Goat /\ Goat # None /\ None \notin Ids
  BY GoatAssumption DEF Inv, TypeOK, Ids
<1>2. m \in Ids \ {a}
  BY <1>1, DefaultIsAgent DEF Chosen
<1>3. /\ known' = known \cup {a}
      /\ manifest' = [manifest EXCEPT ![a] = IF manifest[a] = None THEN m ELSE manifest[a]]
      /\ op' = [Call("create", a) EXCEPT !.new = (manifest[a] = None)]
      /\ orderly' = (orderly /\ (manifest[a] = None => m \in known \cup {Goat} /\ Reportees(a) = {}))
      /\ UNCHANGED <<workspace, registered, defaultAgent, broken, loose>>
  BY DEF Create, Ensure
<1>4. op' \in OpType /\ op'.at = 1 /\ op'.kind = "create" /\ "create" \in DOMAIN Program
  <2>1. "create" \in DOMAIN Program BY DEF Program
  <2>2. Call("create", a) \in OpType /\ Call("create", a).at = 1 /\ Call("create", a).kind = "create"
    BY <1>1, <2>1, CallsAreTyped
  <2> QED BY <1>3, <2>1, <2>2 DEF OpType
<1>5. /\ known' \subseteq Ids /\ manifest' \in [Ids -> Ids \cup {None}] /\ orderly' \in BOOLEAN
      /\ \A i \in Ids \ known' : manifest'[i] = None
  BY <1>1, <1>2, <1>3
<1>6. ASSUME orderly' PROVE Led' /\ Present'
  <2>1. orderly /\ Led /\ Present
    BY <1>3, <1>6 DEF Inv
  <2>2. CASE manifest[a] # None
    <3>1. known' = known /\ manifest' = manifest
      BY <1>1, <1>3, <2>2
    <3> QED BY <1>6, <2>1, <3>1, SameManifests
  <2>3. CASE manifest[a] = None
    <3>1. m \in known \cup {Goat} /\ Reportees(a) = {}
      BY <1>3, <1>6, <2>3
    <3>2. manifest'[a] = m
      BY <1>1, <1>3, <2>3
    <3>3. ManagerOf(a)' = m
      BY <1>1, <1>2, <3>2 DEF ManagerOf
    <3>4. \A j \in Ids \ {a} : (j \in known' <=> j \in known) /\ manifest'[j] = manifest[j]
      BY <1>1, <1>3
    <3> HIDE DEF m
    <3> QED BY <1>1, <1>2, <1>5, <2>1, <3>1, <3>3, <3>4, LeafChange
  <2> QED BY <2>2, <2>3
<1> QED BY <1>3, <1>4, <1>5, <1>6, Begins

\* The other calls.
LEMMA CallsKeep == ASSUME Inv, Calls PROVE Inv'
<1>1. /\ TypeOK /\ op \in OpType /\ op.at <= Len(Program[op.kind])
      /\ known \subseteq Ids /\ manifest \in [Ids -> Ids \cup {None}]
      /\ \A i \in Ids \ known : manifest[i] = None
      /\ orderly \in BOOLEAN /\ broken \in 0..MaxBroken /\ defaultAgent \in Ids /\ loose \in BOOLEAN
      /\ workspace \in [Ids -> WorkspaceType] /\ registered \in RegisteredType
      /\ Goat \in Ids /\ None \notin Ids
  BY GoatAssumption DEF Inv, TypeOK, OpType, WorkspaceType, RegisteredType, Ids
<1>2. {"setManager", "delete", "remove", "startup", "reset"} \subseteq DOMAIN Program
  BY DEF Program
<1>3. ASSUME NEW a \in Agents, NEW asked \in Ids \cup {None}, SetManager(a, asked)
      PROVE  Inv'
  <2>1. PICK m \in known :
          /\ NoReportingCycle(a, m)
          /\ manifest' = [manifest EXCEPT ![a] = m]
          /\ op' = [Call("setManager", a) EXCEPT !.others = <<ReportsTo(a), m>>]
    BY <1>3 DEF SetManager
  <2>2. UNCHANGED <<known, workspace, registered, defaultAgent, orderly, broken, loose>>
        /\ a \in known
    BY <1>3 DEF SetManager
  <2>3. a \in Ids /\ m \in Ids
    BY <1>1, <2>1, <2>2
  <2>4. op' \in OpType /\ op'.at = 1 /\ op'.kind = "setManager"
    <3>1. <<ReportsTo(a), m>> \in (Ids \cup {None}) \X (Ids \cup {None})
      BY <1>1, <2>3, ManagersAreIds
    <3>2. /\ Call("setManager", a) \in OpType /\ Call("setManager", a).at = 1
          /\ Call("setManager", a).kind = "setManager"
      BY <1>2, <2>3, CallsAreTyped
    <3> QED BY <2>1, <3>1, <3>2 DEF OpType
  <2>5. ASSUME orderly' PROVE Led' /\ Present'
    <3>1. Led /\ Present /\ a \notin Chain(m)
      BY <2>1, <2>2, <2>5 DEF Inv, NoReportingCycle
    <3> QED BY <1>1, <2>1, <2>2, <2>3, <3>1, MoveKeepsLines
  <2>6. manifest' \in [Ids -> Ids \cup {None}] /\ \A i \in Ids \ known' : manifest'[i] = None
    BY <1>1, <2>1, <2>2, <2>3
  <2> QED BY <1>1, <1>2, <2>2, <2>4, <2>5, <2>6, Begins
<1>4. ASSUME NEW a \in Agents, CreateFails(a) PROVE Inv'
  <2>1. /\ known' = known \cup {a} /\ UNCHANGED <<manifest, workspace, registered, defaultAgent, op>>
        /\ orderly' = (orderly /\ (a \notin known => Reportees(a) = {}))
        /\ broken < MaxBroken /\ broken' = broken + 1 /\ loose' = TRUE /\ op.kind = "none"
    BY <1>4 DEF CreateFails, BrokenOff, Free
  <2>2. a \in Ids /\ a # Goat
    BY GoatAssumption DEF Ids
  <2>3. (orderly => Led /\ Present)'
    <3>1. SUFFICES ASSUME orderly' PROVE Led' /\ Present'
      OBVIOUS
    <3>2. orderly /\ Led /\ Present
      BY <2>1, <3>1 DEF Inv
    <3>3. CASE a \in known
      <4>1. known' = known
        BY <2>1, <3>3
      <4> QED BY <2>1, <3>2, <4>1, SameManifests
    <3>4. CASE a \notin known
      <4>1. Reportees(a) = {} /\ manifest'[a] = None
        BY <1>1, <2>1, <2>2, <3>1, <3>4
      <4>2. ManagerOf(a)' = Goat
        BY <2>2, <4>1 DEF ManagerOf
      <4> QED BY <1>1, <2>1, <2>2, <3>2, <4>1, <4>2, LeafChange
    <3> QED BY <3>3, <3>4
  <2>4. broken' \in 0..MaxBroken
    BY <1>1, <2>1, MaxBrokenAssumption
  <2>5. known' \subseteq Ids /\ \A i \in Ids \ known' : manifest'[i] = None
    BY <1>1, <2>1, <2>2
  <2> QED BY <1>1, <2>1, <2>3, <2>4, <2>5, CallStep
<1>5. ASSUME NEW a \in Ids, SetDefault(a) PROVE Inv'
  <2>1. /\ defaultAgent' = a /\ op.kind = "none"
        /\ UNCHANGED <<known, manifest, workspace, registered, op, orderly, broken, loose>>
    BY <1>5 DEF SetDefault, Free
  <2>2. (orderly => Led /\ Present)'
    BY <2>1, SameManifests DEF Inv
  <2> QED BY <1>1, <2>1, <2>2, CallStep
<1>6. ASSUME NEW a \in Ids, NEW force \in BOOLEAN, Delete(a, force) PROVE Inv'
  <2>1. PICK kind \in {"delete", "remove"} : op' = [Call(kind, a) EXCEPT !.force = force]
    BY <1>6 DEF Delete
  <2>2. UNCHANGED <<known, manifest, workspace, registered, defaultAgent, orderly, broken, loose>>
    BY <1>6 DEF Delete
  <2>3. op' \in OpType /\ op'.at = 1 /\ op'.kind = kind
    <3>1. Call(kind, a) \in OpType /\ Call(kind, a).at = 1 /\ Call(kind, a).kind = kind
      BY <1>2, CallsAreTyped
    <3> QED BY <2>1, <3>1 DEF OpType
  <2>4. orderly' => Led' /\ Present'
    BY <2>2, SameManifests DEF Inv
  <2> QED BY <1>1, <1>2, <2>2, <2>3, <2>4, Begins
<1>7. CASE Startup
  <2>1. /\ known' = known \cup {Goat} /\ op' = Call("startup", Goat)
        /\ manifest' = [manifest EXCEPT ![Goat] = IF manifest[Goat] = None THEN Goat ELSE manifest[Goat]]
        /\ UNCHANGED <<workspace, registered, defaultAgent, orderly, broken, loose>>
    BY <1>7 DEF Startup, Ensure
  <2>2. op' \in OpType /\ op'.at = 1 /\ op'.kind = "startup"
    BY <1>1, <1>2, <2>1, CallsAreTyped
  <2>3. /\ known' \subseteq Ids /\ manifest' \in [Ids -> Ids \cup {None}]
        /\ \A i \in Ids \ known' : manifest'[i] = None
    BY <1>1, <2>1
  <2>4. \A j \in Agents : (j \in known' <=> j \in known) /\ manifest'[j] = manifest[j]
    BY <1>1, <2>1, GoatAssumption DEF Ids
  <2>5. orderly' => Led' /\ Present'
    BY <1>1, <2>1, <2>3, <2>4, GoatChange DEF Inv
  <2> QED BY <1>1, <1>2, <2>1, <2>2, <2>3, <2>5, Begins
<1>8. CASE HardReset
  <2>1. /\ op' = Call("reset", Goat)
        /\ UNCHANGED <<known, manifest, workspace, registered, defaultAgent, orderly, broken, loose>>
    BY <1>8 DEF HardReset
  <2>2. op' \in OpType /\ op'.at = 1 /\ op'.kind = "reset"
    BY <1>1, <1>2, <2>1, CallsAreTyped
  <2>3. orderly' => Led' /\ Present'
    BY <2>1, SameManifests DEF Inv
  <2> QED BY <1>1, <1>2, <2>1, <2>2, <2>3, Begins
<1> QED BY <1>3, <1>4, <1>5, <1>6, <1>7, <1>8, CreateKeeps DEF Calls

----------------------------------------------------------------------------
(* The theorems                                                            *)

\* Every state that the calls reach satisfies the invariant.
THEOREM Invariance == Spec => []Inv
<1>1. Init => Inv
  <2> SUFFICES ASSUME Init PROVE Inv
    OBVIOUS
  <2>1. TypeOK
    <3>1. workspace \in [Ids -> WorkspaceType] /\ registered \in RegisteredType
      BY DEF Init, NoWorkspace, WorkspaceType, RegisteredType
    <3>2. op \in OpType /\ op.at <= Len(Program[op.kind])
      BY CallsAreTyped DEF Init
    <3>3. 0 \in 0..MaxBroken /\ Goat \in Ids
      BY MaxBrokenAssumption DEF Ids
    <3> QED BY <3>1, <3>2, <3>3 DEF Init, TypeOK, WorkspaceType, RegisteredType, OpType
  <2>2. Led /\ Present
    BY DEF Init, Led, Present
  <2>3. ResetKnows
    BY CallsAreTyped DEF Init, ResetKnows
  <2> QED BY <2>1, <2>2, <2>3 DEF Inv
<1>2. Inv /\ [Next]_vars => Inv'
  <2> SUFFICES ASSUME Inv, [Next]_vars PROVE Inv'
    OBVIOUS
  <2>1. CASE Next
    BY <2>1, QuietStages, RemoveConfigKeeps, ResetKeeps, FailKeeps, EndingsKeep, CallsKeep
    DEF Next, Stages
  <2>2. CASE UNCHANGED vars
    <3>1. UNCHANGED <<known, manifest, workspace, registered, defaultAgent, op, orderly, broken, loose>>
      BY <2>2 DEF vars
    <3>2. TypeOK'
      BY <3>1 DEF Inv, TypeOK
    <3>3. (orderly => Led /\ Present)'
      BY <3>1, SameManifests DEF Inv
    <3>4. ResetKnows'
      BY <3>1 DEF Inv, ResetKnows
    <3> QED BY <3>2, <3>3, <3>4 DEF Inv
  <2> QED BY <2>1, <2>2
<1> QED BY <1>1, <1>2, PTL DEF Spec

\* Every variable keeps its type.
THEOREM TypeCorrect == Spec => []TypeOK
<1>1. Inv => TypeOK BY DEF Inv
<1> QED BY <1>1, Invariance, PTL

\* Every line of managers leads to goat through agents that exist, for any number of agents
\* and whatever calls are broken off, unless some agent was left reporting to a missing one.
THEOREM TreeIsKept == Spec => []ReportingIsATree
<1>1. Inv => ReportingIsATree BY InvGives
<1> QED BY <1>1, Invariance, PTL

\* A hard reset that returns, and was told OpenClaw's list, left no agent of ours there that
\* it does not report.
THEOREM ResetIsComplete == Spec => []ResetForgetsNobody
<1>1. Inv => ResetForgetsNobody BY InvGives
<1> QED BY <1>1, Invariance, PTL

----------------------------------------------------------------------------
(* What is derived from the manifests                                      *)

\* The call under way has still to sync the links, or is about to remove what they link.
LinksDue ==
    \/ op.kind = "create" /\ op.at <= 6
    \/ op.kind = "setManager" /\ op.at <= 4
    \/ op.kind = "delete" /\ op.at \in {3, 4}
    \/ op.kind = "startup" /\ op.at <= 3
    \/ op.kind = "reset" /\ op.at <= 2

LinksAgree ==
    \A i \in known : /\ workspace[i].manager = ReportsTo(i)
                     /\ workspace[i].reportees = Reportees(i)

\* Whose role skills the call under way has still to bring up to date, or has removed.
Unsynced ==
    IF op.kind \in {"create", "setManager", "startup"} /\ op.at = 1
    THEN {op.agent, ManagerOf(op.agent)}
    ELSE IF op.kind = "delete" /\ op.at = 3 THEN {op.agent} ELSE {}

SkillsAgree == \A i \in known \ Unsynced : Reportees(i) # {} => workspace[i].skills = "manager"

\* Nobody is its own manager: who has reportees has some beside itself, and so a manager's role.
NoSelf == \A i \in Ids : ManagerOf(i) # i

Synced ==
    /\ NoSelf
    /\ op.kind = "remove" => op.agent \notin known
    /\ op.kind = "undo" => loose /\ broken > 0
    /\ loose \/ LinksDue \/ LinksAgree
    /\ broken = 0 => SkillsAgree

\* Where each stage stands.
LEMMA Positions ==
    ASSUME TypeOK, NEW stage, At(stage)
    PROVE  /\ op.at \in 1..8
           /\ stage \in {"idle", "return", "throw"} => ~LinksDue /\ Unsynced = {}
           /\ stage = "ownSkills" => op.at = 1 /\ op.kind \in {"create", "setManager", "startup"}
           /\ stage = "previousSkills" => op.at = 2 /\ op.kind = "setManager"
           /\ stage = "managerSkills" => op.at = 3 /\ op.kind = "setManager"
           /\ stage = "register" => op.at = 2 /\ op.kind = "create"
           /\ stage = "locate" => op.at = 3 /\ op.kind = "create"
           /\ stage = "policies" => op.at = 4 /\ op.kind = "create"
           /\ stage = "bootstrap" => op.at = 5 /\ op.kind = "create"
           /\ stage = "shim" => op.at = 7 /\ op.kind = "create"
           /\ stage = "links" => \/ op.at = 6 /\ op.kind = "create"
                                 \/ op.at = 4 /\ op.kind \in {"setManager", "delete"}
                                 \/ op.at = 3 /\ op.kind = "startup"
           /\ stage = "unregister" => op.at = 1 /\ op.kind = "delete"
           /\ stage = "removeWorkspace" => \/ op.at = 2 /\ op.kind = "delete"
                                           \/ op.at = 1 /\ op.kind \in {"remove", "undo"}
           /\ stage = "removeConfig" => \/ op.at = 3 /\ op.kind = "delete"
                                        \/ op.at = 2 /\ op.kind \in {"remove", "undo"}
           /\ stage = "inventory" => op.at = 2 /\ op.kind = "startup"
           /\ stage = "unregisterAll" => op.at = 1 /\ op.kind = "reset"
           /\ stage = "removeHome" => op.at = 2 /\ op.kind = "reset"
<1>1. op.kind \in DOMAIN Program /\ op.at \in 1..8 /\ op.at <= Len(Program[op.kind])
  BY DEF TypeOK
<1>2. CASE op.kind = "create" BY <1>1, <1>2 DEF At, Program, LinksDue, Unsynced
<1>3. CASE op.kind = "setManager" BY <1>1, <1>3 DEF At, Program, LinksDue, Unsynced
<1>4. CASE op.kind = "delete" BY <1>1, <1>4 DEF At, Program, LinksDue, Unsynced
<1>5. CASE op.kind = "remove" BY <1>1, <1>5 DEF At, Program, LinksDue, Unsynced
<1>6. CASE op.kind = "undo" BY <1>1, <1>6 DEF At, Program, LinksDue, Unsynced
<1>7. CASE op.kind = "startup" BY <1>1, <1>7 DEF At, Program, LinksDue, Unsynced
<1>8. CASE op.kind = "reset" BY <1>1, <1>8 DEF At, Program, LinksDue, Unsynced
<1>9. CASE op.kind = "none" BY <1>1, <1>9 DEF At, Program, LinksDue, Unsynced
<1>10. DOMAIN Program = {"create", "setManager", "delete", "remove", "undo", "startup", "reset", "none"}
  BY DEF Program
<1> QED BY <1>1, <1>2, <1>3, <1>4, <1>5, <1>6, <1>7, <1>8, <1>9, <1>10

\* Steps that leave the manifests alone.
LEMMA ManifestsStay ==
    ASSUME Synced, UNCHANGED <<known, manifest, broken, loose>>,
           op'.kind = "remove" => op'.agent \notin known,
           op'.kind = "undo" => op.kind = "undo",
           LinksDue => LinksDue',
           LinksDue' \/ \A i \in known : /\ workspace'[i].manager = workspace[i].manager
                                         /\ workspace'[i].reportees = workspace[i].reportees,
           \A i \in known \ Unsynced' :
              i \notin Unsynced /\ workspace'[i].skills = workspace[i].skills
    PROVE  Synced'
<1>1. \A i : ManagerOf(i)' = ManagerOf(i) /\ ReportsTo(i)' = ReportsTo(i)
  BY DEF ManagerOf, ReportsTo
<1>2. \A i : Reportees(i)' = Reportees(i)
  BY DEF Reportees, ReportsTo, ManagerOf
<1>3. NoSelf'
  BY <1>1 DEF Synced, NoSelf
<1>4. (loose \/ LinksDue \/ LinksAgree)'
  BY <1>1, <1>2 DEF Synced, LinksAgree
<1>5. (broken = 0 => SkillsAgree)'
  BY <1>2 DEF Synced, SkillsAgree
<1> QED BY <1>3, <1>4, <1>5 DEF Synced

\* Once a call was broken off, only this is left to see to.
LEMMA BreakingKeeps ==
    ASSUME NoSelf', loose' = TRUE, broken' # 0, broken' \in Nat,
           op'.kind = "remove" => op'.agent \notin known'
    PROVE  Synced'
BY DEF Synced

\* One agent's manifest changes.
LEMMA OneManager ==
    ASSUME Synced, NEW a, \A i \in Ids \ {a} : manifest'[i] = manifest[i],
           ManagerOf(a)' # a
    PROVE  NoSelf'
BY DEF Synced, NoSelf, ManagerOf

\* A call that gives an agent a manager goes on to sync the skills of both, and the links.
LEMMA CallsAreSynced ==
    ASSUME TypeOK, Synced, Free, NEW a \in Ids,
           known' \in {known, known \cup {a}},
           \A i \in Ids \ {a} : manifest'[i] = manifest[i], ManagerOf(a)' # a,
           op'.kind \in {"create", "setManager", "startup"}, op'.at = 1, op'.agent = a,
           UNCHANGED <<workspace, broken, loose>>
    PROVE  Synced'
<1>1. NoSelf' BY OneManager
<1>2. LinksDue' BY DEF LinksDue
<1>3. Unsynced = {} BY DEF Free, Unsynced
<1>4. Unsynced' = {a, ManagerOf(a)'} BY DEF Unsynced, ManagerOf
<1>5. ASSUME NEW i \in known' \ Unsynced', Reportees(i)' # {}, broken = 0
      PROVE  workspace[i].skills = "manager"
  <2>1. PICK j \in known' : ReportsTo(j)' = i
    BY <1>5 DEF Reportees
  <2>2. j # a
    BY <1>4, <1>5, <2>1 DEF ReportsTo
  <2>3. i \in known /\ j \in known /\ j \in Ids
    BY <1>4, <1>5, <2>1, <2>2 DEF TypeOK
  <2>4. ReportsTo(j) = i
    BY <2>1, <2>2, <2>3 DEF ReportsTo, ManagerOf
  <2> QED BY <1>3, <1>5, <2>3, <2>4 DEF Synced, SkillsAgree, Reportees
<1>6. (broken = 0 => SkillsAgree)'
  BY <1>5 DEF SkillsAgree
<1> QED BY <1>1, <1>2, <1>6 DEF Synced

\* Who has its skills written has a manager's if it has reportees.
LEMMA SkillsWritten ==
    ASSUME NoSelf, known \subseteq Ids, NEW done, NEW i \in Ids
    PROVE  /\ WithSkills(done)[i].manager = workspace[i].manager
           /\ WithSkills(done)[i].reportees = workspace[i].reportees
           /\ i \in done /\ Reportees(i) # {} => WithSkills(done)[i].skills = "manager"
           /\ i \notin done => WithSkills(done)[i].skills = workspace[i].skills
<1>1. Reportees(i) # {} => Role(i) = "manager"
  <2> SUFFICES ASSUME Reportees(i) # {} PROVE Role(i) = "manager"
    OBVIOUS
  <2>1. PICK j \in known : ReportsTo(j) = i
    BY DEF Reportees
  <2>2. j # i
    BY <2>1 DEF NoSelf, ReportsTo
  <2> QED BY <2>1, <2>2 DEF Role, Reportees
<1> QED BY <1>1 DEF WithSkills

\* A stage of role skills derives those of one agent again.
LEMMA SyncSkillsSynced == ASSUME TypeOK, Synced, SyncSkills PROVE Synced'
<1>1. /\ known \subseteq Ids /\ op.agent \in Ids /\ NoSelf
      /\ op' = [op EXCEPT !.at = op.at + 1]
      /\ UNCHANGED <<known, manifest, broken, loose>>
      /\ op.at \in 1..8
  BY DEF TypeOK, SyncSkills, Proceed, Synced
<1>2. op'.kind = op.kind /\ op'.agent = op.agent /\ op'.at = op.at + 1
  BY <1>1 DEF TypeOK
<1>3. \/ op.at = 1 /\ op.kind \in {"create", "setManager", "startup"} /\ At("ownSkills")
      \/ op.at \in {2, 3} /\ op.kind = "setManager" /\ ~At("ownSkills")
  BY Positions DEF SyncSkills, SkillStages, At, Program
<1>4. LinksDue' /\ Unsynced' = {}
  BY <1>2, <1>3 DEF LinksDue, Unsynced
<1>5. \A i : Reportees(i)' = Reportees(i)
  BY <1>1 DEF Reportees, ReportsTo, ManagerOf
<1>6. NoSelf'
  BY <1>1 DEF NoSelf, ManagerOf
<1>7. ASSUME broken = 0, NEW i \in known, Reportees(i) # {}
      PROVE  workspace'[i].skills = "manager"
  <2>1. i \in Ids
    BY <1>1
  <2>2. CASE i \in Unsynced
    <3>1. At("ownSkills") /\ i \in SyncedBySkills(op.agent)
      BY <1>3, <2>1, <2>2, GoatAssumption DEF Unsynced, SyncedBySkills, Ids
    <3>2. op.agent # None
      BY <1>1, GoatAssumption DEF Ids
    <3>3. workspace' = WithSkills(SyncedBySkills(op.agent))
      BY <3>1, <3>2 DEF SyncSkills, SkillsFor
    <3> QED BY <1>1, <1>7, <2>1, <3>1, <3>3, SkillsWritten
  <2>3. CASE i \notin Unsynced
    <3>1. workspace[i].skills = "manager"
      BY <1>7, <2>3 DEF Synced, SkillsAgree
    <3>2. workspace' = workspace \/ workspace' = WithSkills(SyncedBySkills(SkillsFor))
      BY DEF SyncSkills
    <3> QED BY <1>1, <1>7, <2>1, <3>1, <3>2, SkillsWritten
  <2> QED BY <2>2, <2>3
<1>8. (broken = 0 => SkillsAgree)'
  BY <1>1, <1>5, <1>7 DEF SkillsAgree
<1> QED BY <1>1, <1>2, <1>3, <1>4, <1>6, <1>8 DEF Synced

\* The links of the managers are derived again.
LEMMA SyncLinksSynced == ASSUME TypeOK, Synced, SyncLinks PROVE Synced'
<1>1. /\ known \subseteq Ids /\ At("links") /\ op' = [op EXCEPT !.at = op.at + 1]
      /\ workspace' = WithLinks(known) /\ loose' = FALSE
      /\ UNCHANGED <<known, manifest, broken>>
  BY DEF TypeOK, SyncLinks, Proceed
<1>2. op'.kind = op.kind /\ op'.agent = op.agent /\ op'.at = op.at + 1
  BY <1>1 DEF TypeOK
<1>3. \/ op.at = 6 /\ op.kind = "create"
      \/ op.at = 4 /\ op.kind \in {"setManager", "delete"}
      \/ op.at = 3 /\ op.kind = "startup"
  BY <1>1, Positions
<1>4. Unsynced = {} /\ Unsynced' = {} /\ op'.kind \notin {"remove", "undo"}
  BY <1>2, <1>3 DEF Unsynced
<1>5. \A i : ReportsTo(i)' = ReportsTo(i) /\ Reportees(i)' = Reportees(i)
  BY <1>1 DEF Reportees, ReportsTo, ManagerOf
<1>6. NoSelf'
  BY <1>1 DEF Synced, NoSelf, ManagerOf
<1>7. \A i \in known : /\ workspace'[i].manager = ReportsTo(i)
                       /\ workspace'[i].reportees = Reportees(i)
                       /\ workspace'[i].skills = workspace[i].skills
  BY <1>1 DEF WithLinks
<1>8. LinksAgree'
  BY <1>1, <1>5, <1>7 DEF LinksAgree
<1>9. (broken = 0 => SkillsAgree)'
  BY <1>1, <1>4, <1>5, <1>7 DEF Synced, SkillsAgree
<1> QED BY <1>4, <1>6, <1>8, <1>9 DEF Synced

\* An agent's manifest is removed, when its workspace is gone already.
LEMMA RemoveConfigSynced == ASSUME TypeOK, Synced, RemoveConfig PROVE Synced'
<1> DEFINE a == op.agent
<1>1. /\ known \subseteq Ids /\ a \in Ids /\ At("removeConfig") /\ op' = [op EXCEPT !.at = op.at + 1]
      /\ known' = known \ {a} /\ manifest' = [manifest EXCEPT ![a] = None]
      /\ manifest \in [Ids -> Ids \cup {None}] /\ \A i \in Ids \ known : manifest[i] = None
      /\ UNCHANGED <<workspace, broken, loose>>
  BY DEF TypeOK, RemoveConfig, Proceed
<1>2. op'.kind = op.kind /\ op'.agent = a /\ op'.at = op.at + 1
  BY <1>1 DEF TypeOK
<1>3. \/ op.at = 3 /\ op.kind = "delete"
      \/ op.at = 2 /\ op.kind \in {"remove", "undo"}
  BY <1>1, Positions
<1>4. \A i \in Ids \ {a} : manifest'[i] = manifest[i]
  BY <1>1
<1>5. \A i \in Ids : ManagerOf(i)' # i
  <2>1. manifest'[a] = None
    BY <1>1
  <2>2. \A i \in Ids : ManagerOf(i) # i
    BY DEF Synced, NoSelf
  <2> QED BY <1>1, <1>4, <2>1, <2>2, GoatAssumption DEF ManagerOf, Ids
<1>6. NoSelf'
  BY <1>5 DEF NoSelf
<1>7. ASSUME broken = 0, op.kind # "undo", NEW i \in known', Reportees(i)' # {}
      PROVE  workspace[i].skills = "manager"
  <2>1. PICK j \in known' : ReportsTo(j)' = i
    BY <1>7 DEF Reportees
  <2>2. i \in known /\ j \in known /\ i # a /\ j # a /\ j \in Ids
    BY <1>1, <1>7, <2>1
  <2>3. ReportsTo(j) = i
    BY <1>4, <2>1, <2>2 DEF ReportsTo, ManagerOf
  <2>4. i \notin Unsynced
    BY <1>3, <1>7, <2>2 DEF Unsynced
  <2> QED BY <1>7, <2>2, <2>3, <2>4 DEF Synced, SkillsAgree, Reportees
<1>8. CASE op.kind = "delete"
  <2>1. LinksDue' /\ op'.kind = "delete"
    BY <1>2, <1>3, <1>8 DEF LinksDue
  <2>2. (broken = 0 => SkillsAgree)'
    BY <1>1, <1>7, <1>8 DEF SkillsAgree
  <2> QED BY <1>6, <2>1, <2>2 DEF Synced
<1>9. CASE op.kind = "remove"
  <2>1. known' = known /\ a \notin known
    BY <1>1, <1>9 DEF Synced
  <2>2. manifest' = manifest
    BY <1>1, <2>1
  <2>3. ~LinksDue /\ Unsynced = {} /\ Unsynced' = {}
    BY <1>2, <1>9 DEF LinksDue, Unsynced
  <2> QED BY <1>1, <1>2, <1>9, <2>1, <2>2, <2>3, ManifestsStay
<1>10. CASE op.kind = "undo"
  BY <1>1, <1>2, <1>6, <1>10 DEF Synced
<1> QED BY <1>3, <1>8, <1>9, <1>10

\* The stages that do not sync: what they leave of the links and the skills is as it was.
LEMMA OtherStagesSynced ==
    ASSUME TypeOK, Synced, Register \/ Locate \/ Furnish \/ Unregister \/ RemoveWorkspace
                           \/ Inventory \/ UnregisterAll
    PROVE  Synced'
<1>1. op.agent \in Ids /\ known \subseteq Ids /\ op.at \in 1..8
      /\ workspace \in [Ids -> WorkspaceType]
  BY DEF TypeOK, WorkspaceType
<1>2. UNCHANGED <<known, manifest, broken, loose>>
  BY DEF Register, Locate, Furnish, Unregister, RemoveWorkspace, Inventory, UnregisterAll
<1>3. CASE UnregisterAll
  <2>1. op.kind = "reset" /\ op.at = 1 /\ op'.kind = "reset" /\ op'.at = 2
    BY <1>3, Positions DEF UnregisterAll, Underway
  <2>2. LinksDue' /\ Unsynced = {} /\ workspace' = workspace
    BY <1>3, <2>1 DEF LinksDue, Unsynced, UnregisterAll
  <2> QED BY <1>2, <2>1, <2>2, ManifestsStay
<1>4. CASE ~UnregisterAll
  <2>1. op' = [op EXCEPT !.at = op.at + 1]
    BY <1>4 DEF Register, Locate, Furnish, Unregister, RemoveWorkspace, Inventory, Proceed
  <2>2. op'.kind = op.kind /\ op'.agent = op.agent /\ op'.at = op.at + 1
    BY <2>1 DEF TypeOK
  <2>3. CASE RemoveWorkspace
    <3>1. /\ workspace' = [workspace EXCEPT ![op.agent] = NoWorkspace]
          /\ \/ op.at = 2 /\ op.kind = "delete"
             \/ op.at = 1 /\ op.kind \in {"remove", "undo"}
      BY <2>3, Positions DEF RemoveWorkspace
    <3>2. CASE op.kind = "delete"
      <4>1. LinksDue' /\ Unsynced = {} /\ Unsynced' = {op.agent}
        BY <2>2, <3>1, <3>2 DEF LinksDue, Unsynced
      <4> QED BY <1>1, <1>2, <2>2, <3>1, <3>2, <4>1, ManifestsStay
    <3>3. CASE op.kind = "remove"
      <4>1. ~LinksDue /\ Unsynced = {} /\ Unsynced' = {}
        BY <2>2, <3>1, <3>3 DEF LinksDue, Unsynced
      <4>2. op.agent \notin known
        BY <3>3 DEF Synced
      <4>3. \A i \in known : workspace'[i] = workspace[i]
        BY <1>1, <3>1, <4>2
      <4> QED BY <1>2, <2>2, <3>3, <4>1, <4>2, <4>3, ManifestsStay
    <3>4. CASE op.kind = "undo"
      <4>1. NoSelf'
        BY <1>2 DEF Synced, NoSelf, ManagerOf
      <4> QED BY <1>2, <2>2, <3>4, <4>1 DEF Synced
    <3> QED BY <3>1, <3>2, <3>3, <3>4
  <2>4. CASE ~RemoveWorkspace
    <3>1. \A i \in Ids : /\ workspace'[i].manager = workspace[i].manager
                         /\ workspace'[i].reportees = workspace[i].reportees
                         /\ workspace'[i].skills = workspace[i].skills
      BY <1>1, <1>4, <2>4 DEF Register, Locate, Furnish, Unregister, Inventory, WorkspaceType
    <3>2. \/ op.kind = "create" /\ op.at \in {2, 3, 4, 5, 7}
          \/ op.kind = "startup" /\ op.at = 2
          \/ op.kind = "delete" /\ op.at = 1
      BY <1>4, <2>4, Positions DEF Register, Locate, Furnish, Unregister, Inventory
    <3>3. (LinksDue => LinksDue') /\ Unsynced = {} /\ Unsynced' = {}
      BY <2>2, <3>2 DEF LinksDue, Unsynced
    <3> QED BY <1>1, <1>2, <2>2, <3>1, <3>2, <3>3, ManifestsStay
  <2> QED BY <2>3, <2>4
<1> QED BY <1>3, <1>4

\* A reset removes manifests and workspaces together.
LEMMA RemoveHomeSynced == ASSUME TypeOK, Synced, RemoveHome PROVE Synced'
<1>1. /\ At("removeHome") /\ op' = [op EXCEPT !.at = op.at + 1]
      /\ known' = {} /\ manifest' = [i \in Ids |-> None]
  BY DEF RemoveHome, Proceed
<1>2. op'.kind = "reset"
  BY <1>1, Positions DEF TypeOK
<1>3. NoSelf'
  BY <1>1, GoatAssumption DEF NoSelf, ManagerOf, Ids
<1>4. LinksAgree' /\ SkillsAgree'
  BY <1>1 DEF LinksAgree, SkillsAgree
<1> QED BY <1>2, <1>3, <1>4 DEF Synced

\* Whatever is broken off counts as such until the links are synced, or for good.
LEMMA BrokenOffSynced ==
    ASSUME TypeOK, Synced, Fail \/ Kill \/ \E a \in Agents : CreateFails(a)
    PROVE  Synced'
<1>1. /\ op.agent \in Ids /\ manifest \in [Ids -> Ids \cup {None}] /\ broken \in 0..MaxBroken
      /\ broken' = broken + 1 /\ loose' = TRUE
  BY DEF TypeOK, Fail, Kill, CreateFails, BrokenOff
<1>2. broken' # 0 /\ broken' \in Nat
  BY <1>1, MaxBrokenAssumption
<1>3. manifest' \in {manifest, [manifest EXCEPT ![op.agent] = None]}
  BY DEF Fail, Kill, CreateFails, PartlyDone
<1>4. NoSelf'
  <2>1. CASE manifest' = manifest
    BY <2>1 DEF Synced, NoSelf, ManagerOf
  <2>2. CASE manifest' = [manifest EXCEPT ![op.agent] = None]
    <3>1. \A i \in Ids \ {op.agent} : manifest'[i] = manifest[i]
      BY <1>1, <2>2
    <3>2. \A i \in Ids : ManagerOf(i)' # i
      BY <1>1, <2>2, <3>1, GoatAssumption DEF ManagerOf, Synced, NoSelf, Ids
    <3> QED BY <3>2 DEF NoSelf
  <2> QED BY <1>3, <2>1, <2>2
<1>5. op'.kind # "remove"
  <2>1. CASE Fail
    <3>1. CASE op' = [op EXCEPT !.at = op.at + 1] /\ (op.kind = "startup" \/ At("unregister"))
      BY <3>1, Positions DEF TypeOK
    <3>2. CASE op' = Call("undo", op.agent) \/ op' = Idle
      BY <3>2 DEF Call, Underway, Idle
    <3> QED BY <2>1, <3>1, <3>2 DEF Fail, AfterFailure
  <2>2. CASE Kill \/ \E a \in Agents : CreateFails(a)
    BY <2>2 DEF Kill, CreateFails, Free, Idle, Call, Underway
  <2> QED BY <2>1, <2>2
<1> QED BY <1>1, <1>2, <1>4, <1>5, BreakingKeeps

\* A call that ends was either done, or is remembered as broken.
LEMMA EndingsSynced ==
    ASSUME TypeOK, Synced, Return \/ Throw \/ RefuseGoat
    PROVE  Synced'
<1>1. /\ op'.kind = "none" /\ op'.agent = Goat
      /\ UNCHANGED <<known, manifest, workspace, broken, loose>>
  BY DEF Return, Throw, RefuseGoat, Idle, Call, Underway
<1>2. ~LinksDue /\ Unsynced = {}
  <2>1. CASE Return \/ Throw
    BY <2>1, Positions DEF Return, Throw
  <2>2. CASE RefuseGoat
    BY <2>2, Positions DEF RefuseGoat, LinksDue, Unsynced
  <2> QED BY <2>1, <2>2
<1>3. Unsynced' = {}
  BY <1>1 DEF Unsynced
<1> QED BY <1>1, <1>2, <1>3, ManifestsStay

\* A call begins, or ends at once.
LEMMA BeginningsSynced ==
    ASSUME Inv, Synced, Calls
    PROVE  Synced' \/ \E a \in Agents : CreateFails(a)
<1>1. /\ TypeOK /\ known \subseteq Ids /\ manifest \in [Ids -> Ids \cup {None}]
      /\ Goat \in Ids /\ Goat # None /\ None \notin Ids
  BY GoatAssumption DEF Inv, TypeOK, Ids
<1>2. \A a \in Agents : a \in Ids /\ a # Goat /\ a # None
  BY GoatAssumption DEF Ids
<1>3. ASSUME NEW a \in Agents, NEW asked \in Ids \cup {None}, Create(a, asked)
      PROVE  Synced'
  <2> DEFINE m == Chosen(a, asked)
  <2>1. m # a
    BY <1>2 DEF Chosen
  <2>2. /\ Free /\ known' = known \cup {a}
        /\ manifest' = [manifest EXCEPT ![a] = IF manifest[a] = None THEN m ELSE manifest[a]]
        /\ op' = [Call("create", a) EXCEPT !.new = (manifest[a] = None)]
        /\ UNCHANGED <<workspace, broken, loose>>
    BY <1>3 DEF Create, Ensure
  <2>3. op'.kind = "create" /\ op'.at = 1 /\ op'.agent = a
    BY <2>2 DEF Call, Underway
  <2>4. \A i \in Ids \ {a} : manifest'[i] = manifest[i]
    BY <1>1, <2>2
  <2>5. ManagerOf(a)' # a
    <3>1. manifest[a] # None => manifest[a] # a
      BY <1>2 DEF Synced, NoSelf, ManagerOf
    <3> HIDE DEF m
    <3>2. manifest'[a] # a
      BY <1>1, <1>2, <2>1, <2>2, <3>1
    <3> QED BY <1>2, <3>2 DEF ManagerOf
  <2> QED BY <1>1, <1>2, <2>2, <2>3, <2>4, <2>5, CallsAreSynced
<1>4. ASSUME NEW a \in Agents, NEW asked \in Ids \cup {None}, SetManager(a, asked)
      PROVE  Synced'
  <2>1. PICK m \in known \ {a} :
          /\ manifest' = [manifest EXCEPT ![a] = m]
          /\ op' = [Call("setManager", a) EXCEPT !.others = <<ReportsTo(a), m>>]
    BY <1>4 DEF SetManager
  <2>2. Free /\ UNCHANGED <<known, workspace, broken, loose>>
    BY <1>4 DEF SetManager
  <2>3. op'.kind = "setManager" /\ op'.at = 1 /\ op'.agent = a
    BY <2>1 DEF Call, Underway
  <2>4. \A i \in Ids \ {a} : manifest'[i] = manifest[i]
    BY <1>1, <2>1
  <2>5. ManagerOf(a)' # a
    BY <1>1, <1>2, <2>1 DEF ManagerOf
  <2> QED BY <1>1, <1>2, <2>2, <2>3, <2>4, <2>5, CallsAreSynced
<1>5. CASE Startup
  <2>1. /\ Free /\ known' = known \cup {Goat} /\ op' = Call("startup", Goat)
        /\ manifest' = [manifest EXCEPT ![Goat] = IF manifest[Goat] = None THEN Goat ELSE manifest[Goat]]
        /\ UNCHANGED <<workspace, broken, loose>>
    BY <1>5 DEF Startup, Ensure
  <2>2. op'.kind = "startup" /\ op'.at = 1 /\ op'.agent = Goat
    BY <2>1 DEF Call, Underway
  <2>3. \A i \in Ids \ {Goat} : manifest'[i] = manifest[i]
    BY <1>1, <2>1
  <2>4. ManagerOf(Goat)' # Goat
    BY <1>1 DEF ManagerOf
  <2> QED BY <1>1, <2>1, <2>2, <2>3, <2>4, CallsAreSynced
<1>6. ASSUME NEW a \in Ids,
             SetDefault(a) \/ HardReset \/ \E force \in BOOLEAN : Delete(a, force)
      PROVE  Synced'
  <2>1. Free /\ UNCHANGED <<known, manifest, workspace, broken, loose>>
    BY <1>6 DEF SetDefault, HardReset, Delete
  <2>2. \/ op' = op
        \/ op'.kind = "reset" /\ op'.at = 1
        \/ op'.kind = "delete" /\ op'.at = 1
        \/ op'.kind = "remove" /\ op'.at = 1 /\ op'.agent \notin known
    BY <1>6 DEF SetDefault, HardReset, Delete, Call, Underway
  <2>3. ~LinksDue /\ Unsynced = {} /\ Unsynced' = {}
    BY <2>1, <2>2 DEF Free, LinksDue, Unsynced
  <2>4. op'.kind # "undo" /\ (op'.kind = "remove" => op'.agent \notin known)
    BY <2>1, <2>2 DEF Free
  <2> QED BY <2>1, <2>3, <2>4, ManifestsStay
<1> QED BY <1>1, <1>3, <1>4, <1>5, <1>6 DEF Calls

\* Every step keeps it.
LEMMA SyncedSteps == ASSUME Inv, Synced, Next PROVE Synced'
<1>1. TypeOK
  BY DEF Inv
<1>2. ASSUME NEW i \in Ids, Outside(i) PROVE Synced'
  <2>1. UNCHANGED <<known, manifest, workspace, op, broken, loose>>
    BY <1>2 DEF Outside
  <2>2. (LinksDue => LinksDue') /\ Unsynced' = Unsynced
    BY <2>1 DEF LinksDue, Unsynced, ManagerOf
  <2>3. op'.kind = "remove" => op'.agent \notin known
    BY <2>1 DEF Synced
  <2> QED BY <2>1, <2>2, <2>3, ManifestsStay
<1> QED BY <1>1, <1>2, SyncSkillsSynced, SyncLinksSynced, RemoveConfigSynced, OtherStagesSynced,
       RemoveHomeSynced, BrokenOffSynced, EndingsSynced, BeginningsSynced DEF Next, Stages

\* Between calls the links of every workspace are those that the manifests say, unless a call
\* was broken off and none has synced them since; and whoever has reportees has a manager's
\* skills, unless a call was broken off since the last hard reset.
THEOREM WorkspacesFollow == Spec => []WorkspacesFollowManifests
<1>1. Init => Synced
  <2> SUFFICES ASSUME Init PROVE Synced
    OBVIOUS
  <2>1. NoSelf
    BY GoatAssumption DEF Init, NoSelf, ManagerOf, Ids
  <2>2. op.kind = "none" /\ known = {}
    BY DEF Init, Idle, Call, Underway
  <2> QED BY <2>1, <2>2 DEF Synced, LinksAgree, SkillsAgree
<1>2. Inv /\ Synced /\ [Next]_vars => Synced'
  <2> SUFFICES ASSUME Inv, Synced, [Next]_vars PROVE Synced'
    OBVIOUS
  <2>1. CASE UNCHANGED vars
    BY <2>1 DEF vars, Synced, NoSelf, LinksDue, LinksAgree, SkillsAgree, Unsynced, ManagerOf,
       ReportsTo, Reportees
  <2> QED BY <2>1, SyncedSteps
<1>3. Synced => WorkspacesFollowManifests
  <2> SUFFICES ASSUME Synced, Free
               PROVE  /\ ~loose => LinksAgree
                      /\ broken = 0 => \A i \in known : Reportees(i) # {} =>
                                          workspace[i].skills = "manager"
    BY DEF WorkspacesFollowManifests, LinksAgree
  <2>1. ~LinksDue /\ Unsynced = {}
    BY DEF Free, LinksDue, Unsynced
  <2> QED BY <2>1 DEF Synced, SkillsAgree
<1> QED BY <1>1, <1>2, <1>3, Invariance, PTL DEF Spec
====

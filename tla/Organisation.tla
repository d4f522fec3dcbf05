---- MODULE Organisation ----
(***************************************************************************)
(* The agents and who reports to whom (packages/core: agents, opengoat).   *)
(* A manifest per agent under the home directory names its manager.  Three *)
(* things are derived from the manifests and kept elsewhere: the role      *)
(* skills and the links in the agents' workspaces, and the list of agents  *)
(* that the OpenClaw runtime keeps for itself and for others.  Creating an *)
(* agent, giving it another manager, deleting it, the synchronisation at   *)
(* start and the hard reset each go through several of these, one after    *)
(* the other; any part may fail half done, and the process may be killed   *)
(* between any two.  One call runs at a time.                              *)
(***************************************************************************)
EXTENDS Naturals, Sequences

CONSTANTS
    Agents,    \* the ids of agents other than goat
    Goat,      \* DEFAULT_AGENT_ID, the head of the organisation
    Main,      \* OPENCLAW_DEFAULT_AGENT_ID: the id of OpenClaw's own agent
    Managers,  \* the ids of the agents that are created with the type "manager"
    None,      \* nobody
    MaxBroken  \* bound: calls that fail or are killed between two hard resets

ASSUME GoatAssumption == Goat \notin Agents /\ None \notin Agents \cup {Goat} /\ Main # Goat
ASSUME ManagersAssumption == Managers \subseteq Agents
ASSUME MaxBrokenAssumption == MaxBroken \in Nat

Ids == Agents \cup {Goat}

VARIABLES
    known,         \* the agents that have a directory under agents/
    manifest,      \* the manager each config.json names, or None: no config.json
    workspace,     \* each workspace: its link to the manager, its reportees, its role skills
    registered,    \* OpenClaw's list: is the agent there, with our directories or others
    defaultAgent,  \* the agent that config.json names as the default
    op,            \* the call under way
    orderly,       \* history: nobody was ever left reporting to a missing agent
    broken,        \* history: the calls that were broken off since the last hard reset
    loose          \* history: a call was broken off, and links are not synced since

vars == <<known, manifest, workspace, registered, defaultAgent, op, orderly, broken, loose>>

NoWorkspace == [there |-> FALSE, manager |-> None, reportees |-> {}, skills |-> "none"]

\* The stages of each call, in the code's order. "undo" is the removal after a failed creation.
Program == [
    create     |-> <<"ownSkills", "register", "locate", "policies", "bootstrap", "links", "shim", "return">>,
    setManager |-> <<"ownSkills", "previousSkills", "managerSkills", "links", "return">>,
    delete     |-> <<"unregister", "removeWorkspace", "removeConfig", "links", "return">>,
    remove     |-> <<"removeWorkspace", "removeConfig", "return">>,
    undo       |-> <<"removeWorkspace", "removeConfig", "throw">>,
    startup    |-> <<"ownSkills", "inventory", "links", "return">>,
    reset      |-> <<"unregisterAll", "removeHome", "return">>,
    none       |-> <<"idle">>]

\* A call under way; left and listed are what the hard reset found out.
Underway(kind, at, a, left, listed) ==
    [kind |-> kind, at |-> at, agent |-> a, others |-> <<None, None>>, new |-> FALSE,
     force |-> FALSE, left |-> left, listed |-> listed]

Call(kind, a) == Underway(kind, 1, a, {}, TRUE)

Idle == Call("none", Goat)

Init ==
    /\ known = {}
    /\ manifest = [i \in Ids |-> None]
    /\ workspace = [i \in Ids |-> NoWorkspace]
    /\ registered \in [Ids -> {"none", "elsewhere"}]
    /\ defaultAgent = Goat
    /\ op = Idle
    /\ orderly = TRUE
    /\ broken = 0 /\ loose = FALSE

----------------------------------------------------------------------------
(* What the manifests say                                                  *)

\* The manager by the manifest; goat for an agent whose config.json is missing.
ManagerOf(i) ==
    IF i = Goat THEN None
    ELSE IF manifest[i] = None THEN Goat ELSE manifest[i]

ReportsTo(i) == IF i \in known THEN ManagerOf(i) ELSE None

Reportees(i) == {j \in known : ReportsTo(j) = i}

Role(i) ==
    IF i = Goat \/ (i \in Managers /\ manifest[i] # None) \/ Reportees(i) \ {i} # {}
    THEN "manager" ELSE "individual"

\* S leads nowhere outside S.
Closed(S) == \A i \in S : ReportsTo(i) # None => ReportsTo(i) \in S

\* The agent, its manager, the manager's manager and so on.
Chain(i) == {j \in Ids : \A S \in SUBSET Ids : i \in S /\ Closed(S) => j \in S}

\* Mutant: the walk starts at the manager the agent still has.
NoCycleYet(a, m) == \E i \in Chain(ManagerOf(a)) : ReportsTo(i) = None

\* assertNoReportingCycle: the walk from the new manager ends, and not at the agent.
NoReportingCycle(a, m) == a \notin Chain(m) /\ \E i \in Chain(m) : ReportsTo(i) = None

DefaultManager == IF defaultAgent \in known THEN defaultAgent ELSE Goat

----------------------------------------------------------------------------
(* The stages                                                              *)

\* Where the call under way is.
At(stage) == Program[op.kind][op.at] = stage

Proceed == op' = [op EXCEPT !.at = op.at + 1]

\* syncOpenClawRoleSkills: the role skills of the agent and then of its manager. They may be
\* all written or, done being a part of them, some.
WithSkills(done) ==
    [i \in Ids |-> IF i \in done
                   THEN [there |-> TRUE, manager |-> workspace[i].manager,
                         reportees |-> workspace[i].reportees, skills |-> Role(i)]
                   ELSE workspace[i]]

SyncedBySkills(i) == {i, ManagerOf(i)} \ {None}

\* Mutant: links to former reportees stay.
LinksAreAdded(done) ==
    [i \in Ids |-> IF i \in done
                   THEN [there |-> TRUE, manager |-> ReportsTo(i), skills |-> workspace[i].skills,
                         reportees |-> workspace[i].reportees \cup Reportees(i)]
                   ELSE workspace[i]]

\* syncWorkspaceReporteeLinks, as far as it got.
WithLinks(done) ==
    [i \in Ids |-> IF i \in done
                   THEN [there |-> TRUE, manager |-> ReportsTo(i), skills |-> workspace[i].skills,
                         reportees |-> Reportees(i)]
                   ELSE workspace[i]]

\* The agent whose role skills a stage brings up to date.
SkillsFor ==
    IF At("ownSkills") THEN op.agent
    ELSE IF At("previousSkills") THEN op.others[1] ELSE op.others[2]

SkillStages == At("ownSkills") \/ At("previousSkills") \/ At("managerSkills")

SyncSkills ==
    /\ SkillStages
    /\ workspace' = IF SkillsFor = None THEN workspace ELSE WithSkills(SyncedBySkills(SkillsFor))
    /\ Proceed
    /\ UNCHANGED <<known, manifest, registered, defaultAgent, orderly, broken, loose>>

\* createProviderAgent. An agent that is there already is accepted, wherever it lives.
Register ==
    /\ At("register")
    /\ registered' = [registered EXCEPT ![op.agent] = IF @ = "none" THEN "here" ELSE @]
    /\ Proceed
    /\ UNCHANGED <<known, manifest, workspace, defaultAgent, orderly, broken, loose>>

\* ensureOpenClawAgentLocation: an agent with other directories is deleted and made again.
Locate ==
    /\ At("locate")
    /\ registered' = [registered EXCEPT ![op.agent] = IF @ = "elsewhere" THEN "here" ELSE @]
    /\ Proceed
    /\ UNCHANGED <<known, manifest, workspace, defaultAgent, orderly, broken, loose>>

\* The policies in OpenClaw's configuration, and the files of the workspace that only texts
\* depend on.
Furnish ==
    /\ At("policies") \/ At("bootstrap") \/ At("shim")
    /\ workspace' = IF At("policies") THEN workspace ELSE [workspace EXCEPT ![op.agent].there = TRUE]
    /\ Proceed
    /\ UNCHANGED <<known, manifest, registered, defaultAgent, orderly, broken, loose>>

SyncLinks ==
    /\ At("links")
    /\ workspace' = WithLinks(known)
    /\ loose' = FALSE
    /\ Proceed
    /\ UNCHANGED <<known, manifest, registered, defaultAgent, orderly, broken>>

\* deleteProviderAgent.
Unregister ==
    /\ At("unregister")
    /\ registered' = [registered EXCEPT ![op.agent] = "none"]
    /\ Proceed
    /\ UNCHANGED <<known, manifest, workspace, defaultAgent, orderly, broken, loose>>

\* removeAgent refuses goat; OpenClaw's agent may have been deleted by then.
RefuseGoat ==
    /\ At("removeWorkspace") /\ op.agent = Goat
    /\ op' = Idle
    /\ UNCHANGED <<known, manifest, workspace, registered, defaultAgent, orderly, broken, loose>>

RemoveWorkspace ==
    /\ At("removeWorkspace") /\ op.agent # Goat
    /\ workspace' = [workspace EXCEPT ![op.agent] = NoWorkspace]
    /\ Proceed
    /\ UNCHANGED <<known, manifest, registered, defaultAgent, orderly, broken, loose>>

RemoveConfig ==
    /\ At("removeConfig")
    /\ known' = known \ {op.agent}
    /\ manifest' = [manifest EXCEPT ![op.agent] = None]
    /\ orderly' = (orderly /\ Reportees(op.agent) = {})
    /\ Proceed
    /\ UNCHANGED <<workspace, registered, defaultAgent, broken, loose>>

\* The agents at start: those that OpenClaw has with our directories are left alone, the
\* others registered or moved, or not; every failure is only a warning.
Inventory ==
    /\ At("inventory")
    /\ registered' \in [Ids -> {"none", "here", "elsewhere"}]
    /\ \A i \in Ids : registered'[i] # registered[i] =>
          i \in known /\ registered[i] # "here" /\ registered'[i] # "elsewhere"
    /\ Proceed
    /\ UNCHANGED <<known, manifest, workspace, defaultAgent, orderly, broken, loose>>

\* Mutant: OpenClaw is not asked for agents that live here.
CandidatesFromHome(listed, seen) == (known \cup {i \in Ids : seen /\ workspace[i].there}) \ {Main}

\* The agents that the hard reset deletes from OpenClaw. listed: OpenClaw told its list, which
\* it is not asked for without a command runner; seen: the workspaces could be listed.
Candidates(listed, seen) ==
    (known \cup {i \in Ids : seen /\ workspace[i].there}
           \cup {i \in Ids : listed /\ registered[i] = "here"}) \ {Main}

\* Each is deleted or reported.
UnregisterAll ==
    /\ At("unregisterAll")
    /\ \E listed, seen \in BOOLEAN : \E left \in SUBSET Candidates(listed, seen) :
          /\ registered' = [i \in Ids |-> IF i \in Candidates(listed, seen) \ left THEN "none"
                                          ELSE registered[i]]
          /\ op' = Underway("reset", 2, Goat, left, listed)
    /\ UNCHANGED <<known, manifest, workspace, defaultAgent, orderly, broken, loose>>

RemoveHome ==
    /\ At("removeHome")
    /\ known' = {}
    /\ manifest' = [i \in Ids |-> None]
    /\ workspace' = [i \in Ids |-> NoWorkspace]
    /\ defaultAgent' = Goat
    /\ orderly' = TRUE
    /\ broken' = 0 /\ loose' = FALSE
    /\ Proceed
    /\ UNCHANGED registered

Return ==
    /\ At("return")
    /\ op' = Idle
    /\ UNCHANGED <<known, manifest, workspace, registered, defaultAgent, orderly, broken, loose>>

----------------------------------------------------------------------------
(* Failures                                                                *)

\* One more call that is broken off.
BrokenOff == broken < MaxBroken /\ broken' = broken + 1 /\ loose' = TRUE

\* What a stage may leave when it fails: nothing, or a part of what it does.
PartlyDone ==
    /\ workspace' \in {workspace}
          \cup (IF SkillStages /\ SkillsFor # None THEN {WithSkills({SkillsFor})} ELSE {})
          \cup (IF At("links") THEN {WithLinks(done) : done \in SUBSET known} ELSE {})
    /\ registered' \in {registered}
          \cup (IF At("register") /\ registered[op.agent] = "none"
                THEN {[registered EXCEPT ![op.agent] = "here"]} ELSE {})
          \cup (IF At("unregister") \/ (At("locate") /\ registered[op.agent] = "elsewhere")
                THEN {[registered EXCEPT ![op.agent] = "none"]} ELSE {})
    /\ manifest' \in {manifest}
          \cup (IF At("removeConfig") THEN {[manifest EXCEPT ![op.agent] = None]} ELSE {})

\* A creation whose agent is new removes it, except when the policies fail. At start and in a
\* forced deletion the call goes on after a failure; otherwise it throws. OpenClaw may also not
\* be reached at all: createProviderAgent and deleteProviderAgent then throw, and nothing is
\* undone, nor forced.
AfterFailure ==
    (IF op.kind = "create" /\ op.new /\ ~At("policies") THEN {Call("undo", op.agent)}
     ELSE IF op.kind = "startup" \/ (At("unregister") /\ op.force)
          THEN {[op EXCEPT !.at = op.at + 1]}
     ELSE {Idle})
    \cup (IF At("register") \/ At("unregister") THEN {Idle} ELSE {})

Fail ==
    /\ op.kind # "none" /\ ~At("return") /\ ~At("throw")
    /\ PartlyDone
    /\ op' \in AfterFailure
    /\ BrokenOff
    /\ orderly' = (orderly /\ (manifest' # manifest => Reportees(op.agent) = {}))
    /\ UNCHANGED <<known, defaultAgent>>

\* The failed creation ends with its error.
Throw ==
    /\ At("throw")
    /\ op' = Idle
    /\ UNCHANGED <<known, manifest, workspace, registered, defaultAgent, orderly, broken, loose>>

\* The process is killed.
Kill ==
    /\ op.kind # "none"
    /\ op' = Idle
    /\ BrokenOff
    /\ UNCHANGED <<known, manifest, workspace, registered, defaultAgent, orderly>>

----------------------------------------------------------------------------
(* The calls                                                               *)

Free == op.kind = "none"

\* Mutant: the agent's directory is not where agents are listed.
EnsureElsewhere(a, m) ==
    /\ known' = known
    /\ manifest' = [manifest EXCEPT ![a] = IF @ = None THEN m ELSE @]

\* ensureAgent: the directory, and the manifest if there is none.
Ensure(a, m) ==
    /\ known' = known \cup {a}
    /\ manifest' = [manifest EXCEPT ![a] = IF @ = None THEN m ELSE @]

\* The manager that a new agent's manifest names. asked: None if the caller named nobody.
Chosen(a, asked) ==
    LET m == IF asked = None THEN DefaultManager ELSE asked
    IN  IF m = a THEN Goat ELSE m

\* createAgent up to the manifest. The manager named need not exist.
Create(a, asked) ==
    /\ Free
    /\ Ensure(a, Chosen(a, asked))
    /\ op' = [Call("create", a) EXCEPT !.new = (manifest[a] = None)]
    /\ orderly' = (orderly /\ (manifest[a] = None =>
                       Chosen(a, asked) \in known \cup {Goat} /\ Reportees(a) = {}))
    /\ UNCHANGED <<workspace, registered, defaultAgent, broken, loose>>

\* The directory is made, the manifest not written.
CreateFails(a) ==
    /\ Free
    /\ known' = known \cup {a}
    /\ orderly' = (orderly /\ (a \notin known => Reportees(a) = {}))
    /\ BrokenOff
    /\ UNCHANGED <<manifest, workspace, registered, defaultAgent, op>>

\* setAgentManager up to the manifest.
SetManager(a, asked) ==
    LET m == IF asked \in {None, a} THEN DefaultManager ELSE asked
    IN  /\ Free
        /\ a \in known /\ m \in known /\ m # a
        /\ NoReportingCycle(a, m)
        /\ manifest' = [manifest EXCEPT ![a] = m]
        /\ op' = [Call("setManager", a) EXCEPT !.others = <<ReportsTo(a), m>>]
        /\ UNCHANGED <<known, workspace, registered, defaultAgent, orderly, broken, loose>>

\* deleteAgent. OpenClaw is asked first if the agent is known.
Delete(a, force) ==
    /\ Free
    /\ op' = [Call(IF a \in known THEN "delete" ELSE "remove", a) EXCEPT !.force = force]
    /\ UNCHANGED <<known, manifest, workspace, registered, defaultAgent, orderly, broken, loose>>

SetDefault(a) ==
    /\ Free
    /\ a \in known
    /\ defaultAgent' = a
    /\ UNCHANGED <<known, manifest, workspace, registered, op, orderly, broken, loose>>

\* syncRuntimeDefaults, after bootstrap: goat exists from here on.
Startup ==
    /\ Free
    /\ Ensure(Goat, Goat)
    /\ op' = Call("startup", Goat)
    /\ UNCHANGED <<workspace, registered, defaultAgent, orderly, broken, loose>>

HardReset ==
    /\ Free
    /\ op' = Call("reset", Goat)
    /\ UNCHANGED <<known, manifest, workspace, registered, defaultAgent, orderly, broken, loose>>

\* Other programs use the same OpenClaw.
Outside(i) ==
    /\ registered' = [registered EXCEPT ![i] = IF @ = "none" THEN "elsewhere" ELSE "none"]
    /\ UNCHANGED <<known, manifest, workspace, defaultAgent, op, orderly, broken, loose>>

----------------------------------------------------------------------------
Calls ==
    \/ \E a \in Agents : \E asked \in Ids \cup {None} : Create(a, asked) \/ SetManager(a, asked)
    \/ \E a \in Agents : CreateFails(a)
    \/ \E a \in Ids : SetDefault(a) \/ (\E force \in BOOLEAN : Delete(a, force))
    \/ Startup \/ HardReset

Stages ==
    \/ SyncSkills \/ Register \/ Locate \/ Furnish \/ SyncLinks
    \/ Unregister \/ RefuseGoat \/ RemoveWorkspace \/ RemoveConfig
    \/ Inventory \/ UnregisterAll \/ RemoveHome
    \/ Return \/ Throw

Next == Calls \/ Stages \/ Fail \/ Kill \/ \E i \in Ids : Outside(i)

Spec == Init /\ [][Next]_vars

----------------------------------------------------------------------------
(* Properties                                                              *)

\* Every variable has its type.
TypeOK ==
    /\ known \subseteq Ids
    /\ manifest \in [Ids -> Ids \cup {None}]
    /\ \A i \in Ids \ known : manifest[i] = None
    /\ workspace \in [Ids -> [there : BOOLEAN, manager : Ids \cup {None}, reportees : SUBSET Ids,
                              skills : {"none", "manager", "individual"}]]
    /\ registered \in [Ids -> {"none", "here", "elsewhere"}]
    /\ defaultAgent \in Ids
    /\ op \in [kind : DOMAIN Program, at : 1..8, agent : Ids,
               others : (Ids \cup {None}) \X (Ids \cup {None}), new : BOOLEAN, force : BOOLEAN,
               left : SUBSET Ids, listed : BOOLEAN]
    /\ op.at <= Len(Program[op.kind])
    /\ orderly \in BOOLEAN /\ loose \in BOOLEAN /\ broken \in 0..MaxBroken

\* Whatever calls are made, break off or undo themselves: every agent's line of managers
\* leads to goat, through agents that exist, as long as no agent was created under a missing
\* manager or under the id of one that others still reported to, and none was deleted while
\* others reported to it (createAgent and deleteAgent check neither; setAgentManager checks
\* for cycles).
ReportingIsATree ==
    orderly => \A i \in known : /\ Goat \in Chain(i)
                                /\ Chain(i) \subseteq known \cup {Goat}

\* Between calls the workspaces agree with the manifests: every agent's links are those of
\* its manager and reportees unless a call was broken off and none has synced them since;
\* and whoever has reportees has a manager's skills unless some call was ever broken off.
WorkspacesFollowManifests ==
    Free =>
        /\ ~loose => \A i \in known :
              /\ workspace[i].manager = ReportsTo(i)
              /\ workspace[i].reportees = Reportees(i)
        /\ broken = 0 => \A i \in known : Reportees(i) # {} => workspace[i].skills = "manager"

\* A hard reset that returns leaves no agent of ours in OpenClaw, those included that failed
\* creations left there without manifest and workspace, but the ones it reports, unless OpenClaw did
\* not tell its list or could not be asked. An agent with the id of OpenClaw's own is left.
ResetForgetsNobody ==
    op.kind = "reset" /\ At("return") /\ op.listed =>
        \A i \in Ids \ {Main} : registered[i] = "here" => i \in op.left
====

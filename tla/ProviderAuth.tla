---- MODULE ProviderAuth ----
(***************************************************************************)
(* Who has the latest credentials (packages/sidecar: auth, metadata-store, *)
(* the routes of the agents), composed with the sign-ins of SignIn.  The   *)
(* runtime keeps them in auth-profiles.json of goat's directory, and every *)
(* other agent has a copy: it is made when the agent's project is created, *)
(* and all are made anew, by a promise nobody waits for, when a sign-in    *)
(* completes.  A sign-in takes minutes and may fail after it has saved a   *)
(* credential; the catalog, which says who gets a copy, is read, waited    *)
(* for and written as a whole by every request that changes it.            *)
(*                                                                         *)
(* Of the credentials it only matters whether a copy is one of the file as *)
(* it is now; what the runtime notes in a copy when an agent uses it is    *)
(* left out.  A file that is absent is like an empty one.                  *)
(***************************************************************************)
EXTENDS SignIn

CONSTANTS
    Agents,   \* agents other than goat
    Requests  \* requests that create, update or delete agents, one after the other each

ASSUME NoAgentAssumption == None \notin Agents

VARIABLES
    current,  \* agents whose auth-profiles.json is a copy of goat's as it is now
    saved,    \* sign-ins that have saved a credential and are not over
    renewal,  \* each sign-in: the stage of the renewal of the copies it leads to
    listed,   \* the agents that a renewal is to copy to
    catalog,  \* the agents in the metadata store
    request,  \* each request, with the catalog it is to write
    served    \* history: agents that were given a copy, and none of the exceptions since

catalogVars == <<catalog, request>>
authVars == <<current, saved, renewal, listed, catalogVars, served>>

Idle == [pc |-> "idle", kind |-> "none", agent |-> None, catalog |-> {}]

AuthInit ==
    /\ Init
    /\ current = {}
    /\ saved = {}
    /\ renewal = [s \in Sessions |-> "none"]
    /\ listed = [s \in Sessions |-> {}]
    /\ catalog = {}
    /\ request = [r \in Requests |-> Idle]
    /\ served = {}

----------------------------------------------------------------------------
(* Sign-ins                                                                *)

\* Mutant: a sign-in that has failed goes on polling for its credential.
UpsertLate(s) ==
    /\ flow[s] \in {"applying", "error"}
    /\ saved' = saved \cup {s}
    /\ current' = {}
    /\ UNCHANGED <<vars, renewal, listed, catalogVars, served>>

\* upsertAuthProfile, by the runtime or the device flow: at any point between two questions.
UpsertAuthProfile(s) ==
    /\ flow[s] = "applying"
    /\ saved' = saved \cup {s}
    /\ current' = {}
    /\ UNCHANGED <<vars, renewal, listed, catalogVars, served>>

\* applyAuthChoice returns a connection: onAuthComplete is called in the step that completes
\* the session.
Complete(s) ==
    /\ Succeed(s)
    /\ saved' = saved \ {s}
    /\ renewal' = [renewal EXCEPT ![s] = "list"]
    /\ UNCHANGED <<current, listed, catalogVars, served>>

\* It throws or finds none; what was saved stays, and is not copied.
Break(s) ==
    /\ Fail(s)
    /\ saved' = saved \ {s}
    /\ served' = IF s \in saved THEN {} ELSE served
    /\ UNCHANGED <<current, renewal, listed, catalogVars>>

\* connectSecret, selectProfile and deleteProfile write the credentials; no copy is renewed.
Set ==
    /\ current' = {}
    /\ served' = {}
    /\ UNCHANGED <<vars, saved, renewal, listed, catalogVars>>

----------------------------------------------------------------------------
(* syncAuthProfilesToAllAgents                                             *)

\* Mutant: who has a copy needs no other.
ListNewcomers(s) ==
    /\ renewal[s] = "list"
    /\ renewal' = [renewal EXCEPT ![s] = "copy"]
    /\ listed' = [listed EXCEPT ![s] = catalog \ served]
    /\ UNCHANGED <<vars, current, saved, catalogVars, served>>

\* listCatalog
List(s) ==
    /\ renewal[s] = "list"
    /\ renewal' = [renewal EXCEPT ![s] = "copy"]
    /\ listed' = [listed EXCEPT ![s] = catalog]
    /\ UNCHANGED <<vars, current, saved, catalogVars, served>>

\* The copies, all in one tick.
CopyToAll(s) ==
    /\ renewal[s] = "copy"
    /\ renewal' = [renewal EXCEPT ![s] = "none"]
    /\ listed' = [listed EXCEPT ![s] = {}]
    /\ current' = current \cup listed[s]
    /\ served' = served \cup listed[s]
    /\ UNCHANGED <<vars, saved, catalogVars>>

----------------------------------------------------------------------------
(* AgentMetadataStoreService and the routes of the agents                  *)

\* The catalog is read; creating needs that the agent is not there, the others that it is.
ReadCatalog(r, kind, a) ==
    /\ request[r].pc = "idle"
    /\ (kind = "create") = (a \notin catalog)
    /\ request' = [request EXCEPT ![r] =
           [pc |-> "save", kind |-> kind, agent |-> a,
            catalog |-> CASE kind = "create" -> catalog \cup {a}
                          [] kind = "update" -> catalog
                          [] kind = "delete" -> catalog \ {a}]]
    /\ UNCHANGED <<vars, current, saved, renewal, listed, catalog, served>>

\* The agent that is created or deleted, and who is in one of the two catalogs only.
Displaced(r) ==
    (catalog \ request[r].catalog) \cup (request[r].catalog \ catalog)
    \cup (IF request[r].kind = "update" THEN {} ELSE {request[r].agent})

\* saveStore: what others saved meanwhile is gone.
SaveCatalog(r) ==
    /\ request[r].pc = "save"
    /\ catalog' = request[r].catalog
    /\ served' = served \ Displaced(r)
    /\ request' = [request EXCEPT ![r] = IF @.kind = "update" THEN Idle
                                         ELSE [@ EXCEPT !.pc = "gateway", !.catalog = {}]]
    /\ UNCHANGED <<vars, current, saved, renewal, listed>>

\* POST /agents/project: the gateway has created the agent; syncAuthProfilesToAgent.
ProvisionProject(r) ==
    LET a == request[r].agent
    IN  /\ request[r].pc = "gateway" /\ request[r].kind = "create"
        /\ current' = current \cup {a}
        /\ served' = served \cup {a}
        /\ request' = [request EXCEPT ![r] = Idle]
        /\ UNCHANGED <<vars, saved, renewal, listed, catalog>>

\* agents.delete, with the agent's files.
RemoveFiles(r) ==
    LET a == request[r].agent
    IN  /\ request[r].pc = "gateway" /\ request[r].kind = "delete"
        /\ current' = current \ {a}
        /\ served' = served \ {a}
        /\ request' = [request EXCEPT ![r] = Idle]
        /\ UNCHANGED <<vars, saved, renewal, listed, catalog>>

\* The gateway fails, or POST /agents created an agent, which gets no copy.
NoFiles(r) ==
    /\ request[r].pc = "gateway"
    /\ request' = [request EXCEPT ![r] = Idle]
    /\ UNCHANGED <<vars, current, saved, renewal, listed, catalog, served>>

----------------------------------------------------------------------------
SignsIn(s) == Start(s) \/ Listen(s) \/ Prompter(s) \/ Answers(s) \/ Redirect(s)

Renew(s) == List(s) \/ CopyToAll(s)

Handle(r) ==
    \/ \E kind \in {"create", "update", "delete"}, a \in Agents : ReadCatalog(r, kind, a)
    \/ SaveCatalog(r) \/ ProvisionProject(r) \/ RemoveFiles(r) \/ NoFiles(r)

AuthNext ==
    \/ (Foreign \/ \E s \in Sessions : SignsIn(s)) /\ UNCHANGED authVars
    \/ \E s \in Sessions : UpsertAuthProfile(s) \/ Complete(s) \/ Break(s) \/ Renew(s)
    \/ Set
    \/ \E r \in Requests : Handle(r)

AuthSpec == AuthInit /\ [][AuthNext]_<<vars, authVars>>

----------------------------------------------------------------------------
(* Properties                                                              *)

\* Every variable has its type; what a sign-in saved is its flow's until that is over, and
\* the copies are renewed for those that have completed.
AuthTypeOK ==
    /\ TypeOK
    /\ current \subseteq Agents /\ served \subseteq Agents /\ catalog \subseteq Agents
    /\ saved \subseteq Sessions
    /\ renewal \in [Sessions -> {"none", "list", "copy"}]
    /\ listed \in [Sessions -> SUBSET Agents]
    /\ request \in [Requests -> [pc : {"idle", "save", "gateway"},
                                 kind : {"none", "create", "update", "delete"},
                                 agent : Agents \cup {None}, catalog : SUBSET Agents]]
    /\ \A r \in Requests : request[r].pc # "idle" => request[r].agent \in Agents
    /\ \A s \in Sessions : /\ s \in saved => flow[s] = "applying" \/ Waiting(s)
                           /\ renewal[s] # "none" => flow[s] = "completed"

\* The latest credentials reach the agents: when no sign-in has a credential to spread, every
\* agent in the catalog that was given a copy has goat's credentials as they are, whatever
\* sign-ins, renewals, creations and deletions overlapped. Excepted, until they are given the
\* next copy, are agents that were deleted, or that a stale catalog took away or brought back,
\* and all of them after changes that the code does not copy: those of the settings, and what
\* a sign-in saved that then failed.
AgentsGetTheCredentials ==
    saved = {} /\ (\A s \in Sessions : renewal[s] = "none") => catalog \cap served \subseteq current
====

# OpenGoat in TLA+

Formal models of OpenGoat (a TypeScript monorepo: a core of services, a CLI, a local
"sidecar" server with an embedded agent gateway, and a desktop application). The modules
model the parts of the system whose correctness depends on the order in which things
happen: files that several processes read and write, loops that call agents for minutes at a
time, requests that overlap, processes that exit when they like. TLC checks each model on a
small instance; TLAPS proves the safety properties for every value of the constants.

Throughout, `C` is `src/packages/core/src/core/` and `S` is `src/packages/sidecar/src/`.

## 1. The system

All of it is asynchronous JavaScript: within one process nothing interrupts code between two
awaits, and everything may interleave at an await. Between processes everything may
interleave at every file operation, and nothing locks.

| Component | State it keeps | Operations | What is hard | What makes it correct | Model |
|---|---|---|---|---|---|
| Task board store (`C/boards`) | `boards.sqlite`, a whole copy of it in the memory of every process, the size and mtime it was last seen with | list, create, update, delete tasks; the leading task; status timers | the copy goes stale; the whole file is written back; a crash cuts it | what was acknowledged is on disk; no operation works on an old board | `BoardStore`, `AtomicBoard` |
| Task cron (`C/opengoat`, CLI `task cron`) | the snapshot and the results of one cycle | delegate, remind, escalate, restart timers, sleep | minutes between reading tasks and messaging agents; parallel workers; failures | one message per agent at a time; no reminder lost or repeated; the loop goes on | `TaskCron` |
| ACP agent (`C/acp`) | pending prompts, active runs, cancelled sessions | prompt, cancel, sessions | cancellation races with the end of a run; overlapping prompts | cancellations find their prompt; every request is answered once | `AcpAgent` |
| Embedded gateway supervisor (`S/internal-gateway`) | the connected child process, a stopping flag, the restart counter | start, restart, stop | a child exits, hangs or is late at any point | serial and limited restarts; a final stop; a live connection | `GatewaySupervisor` |
| Runs, playbooks, artifacts (`C/runs`, `C/playbooks`, `C/artifacts`) | runs and artifacts in sql.js stores | start, check progress, advance, review | overlapping checks work on old phases | phases only advance; completion only after every phase | `Playbook` |
| Objectives, signals, memory | sql.js stores | create, update, promote, archive | two primaries; archived primary | one primary objective | candidate |
| Agent sessions (`C/sessions`) | `sessions.json`, transcripts as JSON lines | prepare, record, compact, reset, rename, remove | whole files, many awaits | no message lost or in the wrong transcript | `AgentSessions` |
| Orchestration and routing (`C/orchestration`) | none of its own | run an agent | failure between recording and running | every message recorded once | the run within `AgentSessions` |
| Providers, gateway RPC (`C/providers`) | pending requests of a socket | invoke, recover, retry | recovery while requests are pending | one answer per request; bounded retries | planned |
| Sign-in sessions (`S/auth/sessions.ts`) | sessions, pending prompt, OAuth codes and resolvers, the callback port | start, respond, redirect | the redirect before, after or instead of the answer; two sign-ins on one port | one question on the screen, in the flow and in `respond`; ended sign-ins let go of the port | `SignIn` |
| Provider authentication store (`S/auth`) | `auth-profiles.json` of goat and a copy for every agent | connect, select, delete, sync | copies renewed by nobody who waits, from a list that changes | the latest credentials reach the agents | `ProviderAuth` |
| Messaging (`C/messaging-*`, WhatsApp, Telegram) | connections and thread links in `messaging.sqlite`, sockets | start, stop, route, reply | late and reordered events of a socket; concurrent first messages; two copies of the store | a thread keeps its chat; state tells the truth | `Messaging` |
| Agents and organisation (`C/agents`) | a manifest file per agent | create, remove, set manager | check, then write, without a lock | reporting lines stay a forest | `Organisation` |
| Gateway client and chat activity (`S/internal-gateway`) | requests, streams | chat, history, abort | streams across a gateway restart | every chat ends | `GatewayClient` |
| Sidecar metadata store | the catalog of agents, a JSON file replaced by rename | create, update, delete | requests that write back what they read | copies reach who is in the catalog | within `ProviderAuth` |
| Projects, bootstrap, skills | directories and files | provision | partial failure | provisioning is idempotent | candidate |
| Artifact extractor, memory accumulator | none | analyse text | none of order | | not planned: text analysis |
| Sidecar HTTP server, CLI | none of their own | validate, call services | requests overlap | | modelled through the services |
| Desktop (`apps/desktop`) | the sidecar process (Rust), views (React) | start, wait for health, kill | its 20 s against the gateway's 60 s | | Rust shell planned; React is presentation |

How they interact. The CLI and the sidecar each construct the core's services over the same
home directory: the files are shared, the services are not, so that the board, the sessions
and the manifests are shared memory between processes. The cron reads and writes the board
and runs agents through the orchestration, which goes to a provider, which goes to the
gateway. Agents call the CLI while they run, and so change the board in other processes in
the middle of a cycle. The ACP agent and the messaging bridge run agents the same way. The
sidecar supervises the gateway process and hands its connection to the gateway client. The
desktop shell starts and kills the sidecar.

`PROJECT.json` lists the components with their sources, and the hazards: the lines at which
this code could go wrong in a way a test would hardly reach, and the properties that watch
each.

## 2. The modules

| Module | Models | Lines of source |
|---|---|---|
| `AtomicBoard` | what the board promises: one database, one change at a time | the specification of `BoardStore` |
| `BoardStore` | `BoardService` in several processes over one file | `board.service.ts` |
| `TaskCron` | `runTaskCronCycle`, its dispatches and the CLI loop around it | `opengoat.service.ts`, `task.command.ts` |
| `AcpAgent` | `prompt`, `cancel`, `executePromptRun`, `resolvePrompt`, `rejectPrompt` | `acp-agent.ts`, `session-store.ts` |
| `GatewaySupervisor` | `EmbeddedGatewaySupervisor`, `pickGatewayPort`, the client's connection | `supervisor.ts`, `port.ts` |
| `GatewayClient` | `streamConversation` and the sockets under it; extends `GatewaySupervisor` | `gateway-client.ts` |
| `SignIn` | `RuntimeAuthSessionManager`: sign-ins, prompts, answers, redirects | `auth/sessions.ts` |
| `ProviderAuth` | goat's credentials, their copies and the catalog; extends `SignIn` | `auth/service.ts`, `auth/sync.ts`, `metadata-store.ts`, `gateway-client.ts` |
| `Playbook` | a run: turns, artifacts, `checkPhaseProgress` | `playbook-execution.service.ts`, `run.service.ts`, `artifact.service.ts`, `extractor.ts` |
| `AgentSessions` | `SessionService` and `runAgent`'s use of it, over one agent's files | `session.service.ts`, `orchestration.service.ts` |
| `Messaging` | WhatsApp sessions, the routing and answering of messages of both channels | `whatsapp-channel.service.ts`, `telegram-channel.service.ts`, `messaging-bridge.service.ts`, `messaging-router.service.ts` |
| `Organisation` | manifests, workspaces, OpenClaw's list of agents; creation, moves, deletion, synchronisation, hard reset | `opengoat.service.ts`, `agent.service.ts`, `provider.service.ts` |
| `*Proofs` | the theorems of the module they name; `GatewaySupervisorProofs` also those of `GatewayClient`, `SignInProofs` of `ProviderAuth` | |
| `ConversationProofs` | the theorems of `AgentSessions` and of `Messaging`, side by side: the two share no state | |
| `MC*` | the instances TLC checks | |

`PROJECT.json` maps every definition to the lines it translates. The operators commented
"Mutant" are slips that the code could have made; replacing the definition below by one must
break a property, which shows that the property depends on that code.

### BoardStore

`file` is `boards.sqlite`: absent, a database, just truncated, or torn by a write cut short; with a
stamp for its size and mtime. `heap` holds the sql.js databases, `svc` each process's
`dbPromise` and `dbFileFingerprint`, `call` the program counter and the locals of each call.
`getDatabase` is `Start`, `Stat`, then `UseCached` or `Reopen`; `openAndMigrate` is
`OpenRead`; `persistDatabase` is `Truncate`, `Write`, `StatWritten`, `Record`:
each is the code between two awaits. The operations (`Get` to `Finish`) follow the code's own
awaits: create, update and delete wait for the agents' manifests between looking and
writing, and delete, which takes a list of tasks and removes their rows in one statement, persists
twice when the leading task was among them. `Crash` kills a process at any point. A task's rows are
one abstract value. A stamp is always new to everybody who remembers one: the code's
assumption that size and mtime tell files apart, made explicit in `FreshStamps`.

Every file operation may also fail with the process alive (`StatFails`, `OpenFails`,
`TruncateFails`, `WriteFails`, `StatWrittenFails`). The call is then rejected, but the change stays in
the process's memory. If the file could not even be opened for writing, the fingerprint is still
the right one and the process goes on with its own board: its next write brings the refused change to
the file too. `unsaved` is a history variable, the board of a process in that state, until
it writes, reloads or ends or another process writes. `AtomicBoard` has the same as `rejected`: a
refused operation may be applied later all the same, together with the next one of the same
service.

`Exclusive` chooses the regime. The code does not exclude overlapping calls, and with them a
whole-file store loses updates; the promises are about calls made one after the other
(failures and crashes at any point included), and the run `board_overlap` shows what is lost otherwise.

### TaskCron

`status` and `overdue` are the board (task statuses, timers that have run out). `phase`
is where the loop is, `snap`, `pending`, `plan` what the cycle has read and planned,
`worker` and `taken` the pool of `runWithConcurrencyByKey`, `result` what each request came
to, `resets` the timers still to restart. Reading the tasks, reading the overdue ones,
each attempt at a message and each timer are separate steps, for an await lies between
them. `Others` are the agents and users: between any two steps they create, change and
delete tasks, timers run out, and a manifest or the board's file may become unreadable (`Break`,
`Mend`). Every read of a cycle can then fail, and nothing catches what it throws, here or in the CLI's
loop: `ReadFails` and `ResetFails` end the loop, as does `Reset` for a task that is gone.
`Listed` is the board's limit on lists, which caps the cron's.

### AcpAgent

`pendingPrompts`, `activeRuns` and `cancelledSessions` are the fields of the same names.
A prompt waits for the agents' list (`Ask`, then `Begin`, `BeginCancelled` or `AskFails`), runs
(`RunEnds`, `RunFails`), sends its text (`Delivered`, `DeliveryFails`) and is answered. `Cancel`
arrives at any time and answers from the entries at once; the run goes on unheard. Sessions in
`Patient` have a client that waits for an answer before the next prompt; the others do not.

### GatewaySupervisor

`processState`, `stopping`, `attempts` are the private fields, `recent` says whether the
last restart is less than 60 s old, `start` is the one `start()` or pause under way, `stop` each
call of `stop()`, `target` the connection the gateway client was given. `gateway` is the
operating system's side: each process, its port, and which exit handler the code has on it. A
process boots, finds its port taken, binds it or exits as it likes (`Boot`, `Die`); the
supervisor hears of an exit later (`Exit`), and both the handler and the stops that wait run in
that one step, as the event's listeners do. `Ready` needs only that somebody answers on the port,
as the code's health check does. `ReadyTimesOut` leaves the process running, as the code does.
`clash`, `tries` and `late` (a gateway outlasted the wait of a `stop()`) are history variables.

What the model says about the code beyond its properties: a `stop()` that finds no gateway
connected, a paused restart included, returns at once and the restart goes on; a gateway that
outlasts the three seconds of `stop()` is not killed (`child.killed` is true once SIGTERM was
sent) and is restarted when it does exit; and as the default readiness timeout is as long as
the restart window, restarts that time out never reach the limit, and each leaves a process
behind. The properties state what holds in spite of these, and name the condition.

### SignIn

`flow` is what each sign-in's flow in the runtime does: it has not begun, starts, applies the
choice, waits for an answer to a prompt of some kind, or has ended. `pending` is
`pendingResponse`, `step` the snapshot's step, `codes` and `resolvers` the two OAuth maps, `port`
who listens on the callback port. Everything between two awaits is one step: `Start`, `Listen`,
the prompter's calls (`Show`, `Ask`), `Respond` or `RespondInvalid`, a `Redirect` of a browser whose
link was shown, and the end (`Succeed`, `Fail`). The flow itself is the runtime's, outside this
repository: it asks one thing at a time, in any order, and may fail at any point.
`refused` is history. A redirect goes to the session that has the port, whosever browser it is.

### ProviderAuth

The sign-ins of `SignIn`, and what they are for. `current` is the set of agents whose
`auth-profiles.json` is a copy of goat's as it is now: any write of goat's empties it, and a copy
adds to it. `saved` and `renewal` follow each sign-in from `UpsertAuthProfile` over its end
(`Complete` or `Break`) to `List` and `CopyToAll`, the promise of `syncAuthProfilesToAllAgents`
that nobody waits for. `request` is a request to create, update or delete an agent: it reads
the catalog, waits, writes it back as a whole, waits for the gateway. `served` is history.

Said by the code, and not by the property: `connectSecret`, `selectProfile` and `deleteProfile`
renew no copy, though the comment in `sync.ts` asks for a call after an update; the normalisation
of the store when it is read (`service.ts:254-337`) drops OAuth tokens, so that `selectProfile`
and `deleteProfile` write the store back without them; signing in again to a known OAuth account
"did not create a saved connection" and is not copied, though it was saved; `openclaw.json` is read
before a sign-in and written after it, minutes later, over what changed meanwhile. A copy that
fails is an unhandled rejection; that the process then ends is left out.

### GatewayClient

`chat` holds, for each call of `streamConversation`, what its handler waits for, the frames in its
socket, the gateway's run, and what the stream was given. Every request before the stream has a
socket of its own (`Request`, `RequestFails`). `Answer`, `Says` and `Ends` are the gateway's frames,
`Receive` handles one, or two in one tick (the `ws` library emits all frames of a packet before any
promise continues), and `Continue` is the handler learning its `runId`. `Sever` is a process that
exits, with its sockets: it happens within the supervisor's own steps.

The handler waits for the end of the run and for nothing else. Three ways to wait for ever
follow, which `LeftWaiting` names: an aborted run's event is ignored; an end handled in the tick of
the acknowledgement comes before `runId` is set and is dropped; and a socket that closes rejects
its pending requests but not the wait for the end. Besides: `onComplete` is given
`currentAssistantText` (`gateway-client.ts:1105`), which lacks text that only the final event
carried, so that the extraction of artifacts may miss the end of an answer.

### Playbook

`run` is the row of the run, `artifacts` the titles of all that was ever made and `kept` those the
store has, `turn` each chat turn: the answer is cut into
sections, each becomes an artifact (`Extract`), and then the detached check reads the run, lists
the artifacts, and writes the next phase (`Read`, `List`, `Write`): three steps, since others come
in between. `Complete` translates the matching of titles to expected names by the percentage of
words, the constant `Score`. `VALID_TRANSITIONS` is `Transitions`. Users set phases, complete
and rename, and `lost` records failures, kills and losses.

`runs.sqlite` and `artifacts.sqlite` are written whole from copies in memory, as the board is, and
with the same hazards. The model has their outcomes: a kill in the middle of a write (`CrashInWrite`)
leaves a file that lacks artifacts, all of them if it is empty, or the run; calls that overlap
(`CallsOverlap`) write an old copy over a newer one, so that artifacts are lost or come back, and the
run is what some copy still had (`stale`). So a run can stand in a phase whose predecessor's
artifacts are gone, and PassedPhasesAreEarned says of a passed phase that its artifacts
had been made, not that the store still has them. `MaxIncidents` bounds user moves and losses together.

A check that works on an old phase may move the run back; the properties allow that. A phase is
checked only after a turn that extracted something, so that a run whose check failed may stay in a
complete phase until the next such turn.

### AgentSessions

`store` is `sessions.json`, `file` the transcripts, `call` each operation under way: `Program` lists
its awaits, and one step is one stage. A run is `prepare`, the agent's minutes, and `record`, as
`runAgent` has them; `open` is `prepareSession`, whose blank message is not appended. `Killed` may cut the file being written. `log`, `renewed` and `torn` are history.
The files have no lock; with `Exclusive` the stages of two operations do not interleave (runs
still overlap while their agents work), and that is all the service can promise.

### Messaging

`status` and `link` are `messaging.sqlite`, `active` is `activeSessions`, `socket` each WhatsApp
socket with the callbacks of its events that are under way, `msg` each inbound message with
the stage of its handler. The connection service and the router each load the whole file, keep what
they loaded over awaits (`resolveThread` does, while it asks for the connection) and write all of it
back: a write may bring back an older status, or erase a link so that its thread gets a second
chat, and a write that is cut or fails leaves a file that is not the memory. A statement with its
write is one step here, and what such writes do to a row is a step of its own, `StatusIsUndone` or
`LinkIsUndone`, at any time, counted by `undone`. ThreadsKeepTheirChat holds until the first
of them: what the code promises is one copy's unique index.

Nobody awaits the callbacks of a socket, which await the credentials, the QR code and the store before
they write: `HandleEvent` takes them in any order. An open event may be written after the
close was handled and leaves a connection that says "connected" without a session (`Opener`);
ConnectedHasASession is about the statuses written before. Any handler may throw at any stage.
Handlers are called with `void`: an error in one is an unhandled rejection that ends the process
(`Uncaught`), and after a restart, too, the connection says "connected" without a session. With `Patient`
sessions of one connection do not overlap: `activeSessions` has one entry per connection, and
the late close event of an old socket would remove the new one's. The status "reconnecting" and the
limit on reconnections are never used by the code. The pragma for foreign keys is lost
when sql.js exports, so that links may outlive their connection; the model keeps them or not.

The sidecar builds the WhatsApp service without a socket factory (`packages/sidecar/src/index.ts:151-156`), so
that there a session's start fails: the sockets here are what `makeSocketFn` promises and
the tests of the service supply.

### Organisation

`manifest` is each agent's manager, `workspace` what is derived from the manifests, `registered`
OpenClaw's own list, `op` the call under way: `Program` lists each call's stages in the code's order, and
any stage may fail half done (`PartlyDone`) or be the last before a kill. One call runs at a time.

What the code does not check: `createAgent` accepts a manager that does not exist, and
`deleteAgent` leaves reportees behind and the former manager's role skills as they were; `orderly`
and `broken` in the properties say so. `deleteAgent("goat")` unregisters goat at OpenClaw before it is
refused. A creation that fails when the policies are written is not undone, and one that is undone
keeps its registration at OpenClaw and its manager's link, until a synchronisation or the reset.
An OpenClaw that cannot be reached at all makes `createProviderAgent` and `deleteProviderAgent`
throw: nothing is undone then, and a forced deletion does not go on. The reset never deletes an agent with the id
`Main` of OpenClaw's own default agent, even if OpenGoat created one by that name, and without a
command runner it does not ask OpenClaw for its list.

## 3. What is checked

| Run | Instance | Properties | Shows |
|---|---|---|---|
| `board` | two processes, one call each, two tasks, one value, `Exclusive` | TypeOK, OperatesOnCurrentBoard, ReturnedIsOnDisk, ImplementsAtomicBoard | what one process wrote the other reads, what was acknowledged is on disk, and the file goes only through the steps of `AtomicBoard`, failing file operations and a crash at any point included |
| `board_overlap` | the same, calls overlap, one task | ReloadsWhenAnotherProcessUpdates (violated) | finding 1 below |
| `task_cron` | four tasks of two agents, two workers, a list limit of three, one edit or one file that breaks | TypeOK, OneMessagePerAgent, OneReminderPerTimeout, OnlyTheBoardEndsTheLoop, TodoTasksAreBroughtUp | who is messaged when, which timers restart, what ends the loop |
| `task_cron_overflow` | the same without edits | OverflowIsCompactedAndRetried (violated) | finding 2 below |
| `acp_agent` | a patient and a hasty session, two prompts and two cancellations each | TypeOK, CancellationFindsThePrompt, OneCancellationOnePrompt, EveryPromptIsAnswered | cancellations find their prompt and are used once, every request is answered |
| `gateway` | two processes, two ports, one stop, one restart in a row, one chat of one word | ClientTypeOK, ConnectionIsWatched, StoppedStaysStopped, ClientFollowsTheGateway, StreamsAreWhole, EveryExitIsActedOn, EveryChatEnds | every exit is acted on, the connected gateway is watched, a stop that found it in time is final, the client's connection is the gateway's, streams are whole, chats end |
| `sign_in` | two sign-ins, two questions and two redirects each, another program on the port, one agent and one request | AuthTypeOK, ScreenFlowAndResponseAgree, CodesMeetTheirPrompts, EndedSignInsLetGo, AgentsGetTheCredentials | answers and redirects in any order answer the question that is asked, ended sign-ins let go of the port, and the latest credentials reach the agents |
| `sign_in_refused` | the sign-ins alone | RefusedOnlyWhenNotWaiting (violated) | finding 3 below |
| `playbook` | three phases (two artifacts, none, one), one title that two names may match, two turns of up to two sections, two artifacts, one user move or loss in a store | TypeOK, PassedPhasesAreEarned, CompletePhasesAreLeft | no phase is passed whose artifacts were not made, and a complete one is left |
| `agent_sessions` | four calls, two keys, two transcripts, compaction of three messages to one, `Exclusive` | TypeOK, TranscriptIsTheLog, RepliesFollowQuestions, CutStoreIsKept | transcripts are what was written, replies follow their questions, a cut store is left alone |
| `messaging` | a connection of each channel, a thread, two sockets, two messages, one undone row, `Patient` | ChannelTypeOK, ThreadsKeepTheirChat, SessionsFollowSockets, ConnectedHasASession | a thread keeps its chat while no write undoes another, sessions and status follow the sockets |
| `organisation` | goat and two agents, one with the id of OpenClaw's own, one broken call between two resets | TypeOK, ReportingIsATree, WorkspacesFollowManifests, ResetForgetsNobody | managers lead to goat, workspaces agree with the manifests, a reset forgets nobody |

Findings.

1. `test/core/board.service.test.ts:507`: the service "reloads database state when another
   process updates boards.sqlite". `persistDatabase` learns the fingerprint of what it wrote
   by a stat after the write. If another process's operation falls between the two, it
   remembers the other's fingerprint for its own content and never reloads; its next write
   removes the other's update.
2. `CHANGELOG.md:14`: "on provider context overflow, notification delivery now compacts the
   same OpenClaw notification session and retries once". The test for notification sessions
   looks for the suffix `_notifications`; the references end in `-notifications`. No
   notification is ever compacted or retried.
3. `sessions.ts:148`: "This sign-in flow is not waiting for input." `respond()` removes the
   pending prompt before it looks at the value (`:152`), so that after one blank or mistyped
   value the flow waits for an answer that is always refused, and for a redirect that finds
   nothing to answer. Until the runtime gives up, the sign-in cannot go on and cannot be cancelled.

Bounds. Two processes with one call each are enough for the board, since every
hazard is about one process's memory against the file, and calls loop for ever; three
handles and four stamps are more than can be remembered at once by two services and their
calls, so none is ever wanting. Two tasks make a list of two; with one value the run tells rows that are there from rows that are
not, and that a lost change of a row is as bad is left to the proof, which holds for any values. Symmetry over processes, handles, stamps, tasks and values is
used with safety properties only. Four tasks give each agent two, a bucket shared by an
assignee and a manager, and one task more than the list shows; two workers serve up to
three agents. `MaxEdits` bounds changes of tasks and breaks of files (each can fall at any step), `MaxCancels`
the cancellations. Two prompts of a session are the most the entries can mix up at a time.

Two gateways are one connected or starting and one left behind by a timeout; the processes are
used again when they are over, so that their number bounds only those alive at a time. With two
ports one is preferred and one is the next free one; with both held a start fails, which it may
at any time. One restart in a row (five in the code) reaches the limit. Chats do not interact, so
one stands for all, and one word is enough for text to be lost, repeated or late.

Two sign-ins are one that has the port and one that has not; of two questions and two
redirects each can come before the other, a code prompt can follow a prompt of another kind,
and a redirect can be repeated. One request at a time cannot write back a stale catalog: that
two overlapping requests do so is covered by the proof, and was checked by TLC with one question
and one redirect.

In `playbook` two turns are two overlapping checks, of which one works on an old phase; the empty
phase is passed by the check that reaches it; two artifacts complete each phase, and that further
ones take nothing away is a lemma of the proof. In `agent_sessions` four calls are two overlapping
runs and two operations in between, or a run across a reset. In `messaging` two sockets are a
session and its successor, two messages the concurrent first messages of a thread;
threads do not interact. `MaxUndone` bounds the rows that writes undo: one takes a status or a link from under
any other step, and the proof holds for any number.
In `organisation` two agents are a manager and a reportee below goat, in either order.

`CHECK_DEADLOCK FALSE` stands where the system stops: the ACP agent when every prompt is
answered, the cron when its loop has ended, the sidecar when its first start failed or it was
asked to close, the sign-ins when all have ended, the playbook, the sessions and the messaging when
the turns, calls and messages of the instance are used up. `board` and `organisation` go on for ever
and are checked for deadlock.

Fairness. `BoardStore`, `SignIn`, `ProviderAuth`, `AgentSessions`, `Messaging` and `Organisation`
have none (their properties are safety). In `TaskCron`, the cycle
goes on and a message ends: `runTaskCronCycle` has no step that waits for anything else, and an
agent's run is taken to end, by itself or by its timeout; edits need never happen. In
`AcpAgent` likewise for each prompt's resolution, run and delivery; cancellations need not come.
In `GatewaySupervisor` a start that is under way goes on (it has a timeout, a pause is a
timer), and Node reports the exit of each process; gateways need not boot nor exit, and
nobody need stop them. In `GatewayClient` each chat's handler goes on: a connection has a timeout
of ten seconds, and what arrived is handled; the gateway need not acknowledge a message nor end a
run. In `Playbook` a check goes on, and `startPlaybook` sets the run running: they wait for
files only; turns need not end.

## 4. What is proved

The proofs hold for any number of processes, calls, tasks, agents, sessions, prompts, ports
and so on. Each proof module defines an inductive invariant `Inv`, proves `Init => Inv` and
that every action keeps it, and derives the properties.

- `BoardStoreProofs`: TypeOK and PrivateMemory (no service and no call works on another process's
  database) however calls overlap; everything else assuming `Exclusive`, without which it is
  false: OperatesOnCurrentBoard, ReturnedIsOnDisk, and, checked by no run, CacheCoherent,
  WritersHoldTheCurrentHandle and DeletionClearsLeading. The properties are not inductive: that a
  remembered fingerprint means the file's content needs to be known in the middle of the
  one call that runs, so the invariant says at each of its steps how the handle, the exported
  image and the file relate, that no two services share a handle, and that the stamp a
  service remembers and the file's agree only if the contents do. On top of it, the refinement
  ImplementsAtomicBoard: the image a call is about to write is one change of the abstract
  board away from what its service worked on (the file's board, or that with the service's own
  refused changes), or the file's own when the call opened it; a torn
  file stands for the empty database that opening it makes. Then every step of the store is one step of
  `AtomicBoard` or leaves its board as it was, failing file operations and a crash at any point included.
- `TaskCronProofs`: TypeOK, OneMessagePerAgent, OneReminderPerTimeout,
  OnlyTheBoardEndsTheLoop, and NobodyIsSkipped and OnlyDeliveredRemindersRestartTimers. The invariant relates the
  agents that were taken, the workers that send, and the results: an agent is taken by one
  worker, an unanswered request of a taken agent has its worker, and the timers to restart
  belong to delivered reminders. For the spacing of reminders: a task that is still doing and of which
  somebody was reminded is planned with a delivered result, and later among the timers to restart; a
  task that was moved had its timer started by the move.
- `AcpAgentProofs`: TypeOK, CancellationFindsThePrompt, OneCancellationOnePrompt, and PendingIsActive
  and SettledOnce. The invariant adds that a patient session has one
  unanswered prompt at a time, and an account: cancelled prompts plus the remembered
  cancellation never exceed the cancellations received.
- `GatewaySupervisorProofs`: TypeOK, ConnectionIsWatched, StoppedStaysStopped,
  ClientFollowsTheGateway, and OneRestartAtATime and StopExcludesRestart, whatever
  `SlowStart` is; ConnectionIsWatched and StoppedStaysStopped as long as no stop timed out, which
  the properties say themselves. The invariant is about the exit handlers: at most one process has
  one, and which one it is says what `start()` is doing; stops wait only for a process with the
  restart handler; and the counter is ahead of the restarts begun. Of the client:
  every step of the composition is a supervisor's step or leaves the supervisor alone
  (SupervisorIsUndisturbed), so that the above holds beside it; ClientTypeOK; and StreamsAreWhole,
  from the fact that the texts in a socket grow towards what the run has said, and that an end
  carries the whole of it.
- `SignInProofs`: ScreenFlowAndResponseAgree, CodesMeetTheirPrompts, EndedSignInsLetGo and TypeOK.
  The invariant adds one fact: a flow that waits
  for a code, and has refused no answer, has a resolver. A step touches the entries of one
  session (a redirect those of the session with the port), so that the invariant is proved
  session by session. Of `ProviderAuth`: the sign-ins are undisturbed by it; AuthTypeOK; and
  AgentsGetTheCredentials, from what is true at any moment of an agent that was given a copy and is
  in the catalog: it has the latest, or a sign-in has saved and not ended, or a renewal has
  still to list the catalog, or has listed that agent.
- `PlaybookProofs`: TypeOK and PassedPhasesAreEarned. Names claim their best artifacts one after
  the other, so that a new artifact may change every later claim; the lemmas show that more artifacts
  still leave no name without one. What a store has was made, and while no user renames, what was made
  is only added to, whatever the stores lose; so a phase that was complete for a check's list is
  complete among all that was made, and stays so. The invariant says that a check about to write has
  seen its phase complete, that the phases before the one it read are, and the same of the run
  that some copy of its store still has.
- `OrganisationProofs`: TypeOK, ReportingIsATree, WorkspacesFollowManifests and
  ResetForgetsNobody. A line of managers is the
  smallest set closed under "reports to", so that a change of one link is met with a closed set that
  does not contain the forbidden agent; no induction over the line is needed. Workspaces
  agree with the manifests only between calls; the invariant says which agents' role skills are due while a
  call runs (at most the agent's and its manager's), until which stage the links are, and that
  outside of that they agree.
- `ConversationProofs`, of `AgentSessions`: TypeOK however operations overlap; and assuming
  `Exclusive`, without which they are false, TranscriptIsTheLog, RepliesFollowQuestions and CutStoreIsKept.
  The invariant says what the one operation under way holds at each of its awaits: its copy of
  the store is the store, or one decision away from it; the records it is about to write over
  are those of the file; no two keys have the same transcript, and a transcript that was just made up is
  nobody's; and that a question stands in the log of the session its run resolved, unless the key was renewed.
  Runs still overlap while their agents work. A transcript is the end of its log, and the lemmas
  show that appending and compacting keep it so.
- `ConversationProofs`, of `Messaging`: ChannelTypeOK unconditionally; ThreadsKeepTheirChat, which is about the
  time before a write of the store undid another, from the fact that a message which has found a chat has
  the chat of its thread's link, unless the connection was deleted, which is then for good.
  SessionsFollowSockets and ConnectedHasASession, of patient use, as they say
  themselves: a connection has at most one socket that is not done, which is its session as long as it
  lives, and the status that its open event wrote is over when its close is handled, whatever the order
  of their callbacks and whatever rows are undone.

Assumptions on constants are the named ASSUMEs of the modules (typing, finiteness where
cardinality is used, a `None` that is nothing else), and TLC evaluates them on every run.

Only model-checked: the liveness properties TodoTasksAreBroughtUp, EveryPromptIsAnswered,
EveryExitIsActedOn, EveryChatEnds and CompletePhasesAreLeft (liveness under fairness is out of the
prover's reach), and the three violations. Every other property of a run is stated by a theorem.

## 5. What is left out

Message texts, prompts, logging, formatting and the columns of rows are abstracted to values.
Of the cron, the texts of notifications; of the ACP agent, session creation, loading,
listing and modes (a mode set while a prompt waits for the list of agents is written over by that
prompt, and an agent named by a prompt stays the session's without the client being told: the code
promises nothing that a property could state); of the supervisor, the files it writes before it spawns (their failure is
`SpawnFails`) and the pause's length; of the gateway client, history, the list of models and the
activity summaries, which only read; of the sessions, listing and titles; of the
connections, their configuration; of the organisation, providers other than OpenClaw; of the
credentials, what they hold, their order and models. SQL migrations are part of opening the database.
A sign-in that the user abandoned keeps the callback port and receives the code of the next one
(nothing cancels it): `SignIn` has the behaviour and no property about it.

Components without a protocol of their own (text analysis, presentation, routes, argument
parsing) will not be modelled. Most of the repository is of that kind: views of the desktop
application, the parsing and normalising of requests, prompts and skills as text, and the
stores' reads and SQL. What is modelled is the part whose correctness depends on order.

## 6. Plan

Done: `BoardStore` with `AtomicBoard`, `TaskCron`, `AcpAgent`, `GatewaySupervisor`, `SignIn`,
`Playbook`, `Messaging`, `Organisation`, `AgentSessions`, `GatewayClient`, `ProviderAuth`.

Proofs: the safety properties of the runs are all proved. What is left is what no run states yet:
what of the sessions survives when their operations overlap (the counterpart of PrivateMemory, a
transcript that loses messages but never gets another session's), an abstract
specification of a session's log that `AgentSessions` implements, and the safety halves of the
liveness properties: that whoever waits has somebody who will answer.

Models still wanted: the recovery of a
provider invocation and the orchestration's repair; the objectives' single primary and the
promotion of signals; the desktop shell's start of the sidecar, its 20 s against the gateway's 60 s.

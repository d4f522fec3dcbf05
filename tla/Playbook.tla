---- MODULE Playbook ----
(***************************************************************************)
(* A run of a playbook (packages/core: runs, playbooks, artifacts;         *)
(* packages/sidecar: chat route, artifact extractor).  Specialists answer  *)
(* chat turns; each finished answer is cut into artifacts of the run, and  *)
(* then, detached from the turn, checkPhaseProgress reads the run, lists   *)
(* the artifacts, matches their titles to what the phase expects and moves *)
(* the run on.  Turns overlap, users change run and artifacts meanwhile,   *)
(* and the sidecar may be killed at any step.                              *)
(*                                                                         *)
(* One run stands for all: turns, checks and artifacts name one run.  Each *)
(* service holds its store as a copy in memory and writes the whole file.  *)
(* What calls that overlap and kills in the middle of a write do to such a *)
(* store is BoardStore's subject; here it is what comes of it: artifacts   *)
(* are lost or come back, and the run is what it once was.                 *)
(***************************************************************************)
EXTENDS Naturals, Sequences

CONSTANTS
    Turns,         \* answers of specialists, each cut into artifacts once
    Titles,        \* titles of artifacts, up to what they match
    Names,         \* expected artifacts
    Expected,      \* the phases: each the sequence of artifacts it expects
    Score,         \* percentage of a name's words that are in a title
    MaxSections,   \* bound: artifacts of one answer
    MaxArtifacts,  \* bound: artifacts of the run
    MaxIncidents   \* bound: times a user sets a phase, completes the run or renames an
                   \* artifact, and times a store loses or restores something

ASSUME ExpectedAssumption == Len(Expected) \in Nat \ {0} /\ Expected \in Seq(Seq(Names))
ASSUME ScoreAssumption == Score \in [Titles -> [Names -> 0..100]]
ASSUME BoundsAssumption ==
    MaxSections \in Nat \ {0} /\ MaxArtifacts \in Nat /\ MaxIncidents \in Nat

VARIABLES
    run,        \* status and phase, by its index; 0 is a phase that is not in the playbook
    artifacts,  \* titles of all artifacts made for the run, the oldest first
    kept,       \* those of them that the store has
    start,      \* startPlaybook
    turn,       \* each turn: sections to cut, then its check and the phase it read
    moves,      \* how often a user did so
    losses,     \* how often a store lost or restored something
    stale,      \* the run as some copy of its store still has it, if it may come back
    lost        \* history: something under way failed or was killed, or a store lost something

vars == <<run, artifacts, kept, start, turn, moves, losses, stale, lost>>

\* What every step of a turn leaves alone.
others == <<start, moves, losses>>

Phases == 1..Len(Expected)
Last == Len(Expected)

\* VALID_TRANSITIONS
Transitions == [
    none |-> {},
    draft |-> {"running"},
    running |-> {"waiting_review", "blocked", "completed", "cancelled"},
    waiting_review |-> {"running", "completed"},
    blocked |-> {"running", "cancelled"},
    completed |-> {},
    cancelled |-> {}]

Statuses == DOMAIN Transitions

Init ==
    /\ run = [status |-> "none", phase |-> 1]
    /\ stale = run
    /\ artifacts = <<>> /\ kept = {}
    /\ start = "new"
    /\ turn = [t \in Turns |-> [pc |-> "new", left |-> <<>>, phase |-> 0]]
    /\ moves = 0 /\ losses = 0 /\ lost = FALSE

----------------------------------------------------------------------------
(* matchArtifactsToExpected                                                *)

Candidates(name, titles, free) == {a \in free : Score[titles[a]][name] >= 50}

\* Of the candidates with the highest score, the first in the list, which is the newest.
IsBest(a, name, titles, free) ==
    /\ a \in Candidates(name, titles, free)
    /\ \A b \in Candidates(name, titles, free) :
          \/ Score[titles[b]][name] < Score[titles[a]][name]
          \/ Score[titles[b]][name] = Score[titles[a]][name] /\ b <= a

\* With these artifacts nothing is missing: one name after the other claims its best one.
Complete(p, titles, there) ==
    \E match \in [DOMAIN Expected[p] -> there] :
        \A i \in DOMAIN match :
            IsBest(match[i], Expected[p][i], titles, there \ {match[j] : j \in 1..(i - 1)})

----------------------------------------------------------------------------
(* RunService                                                              *)

\* The row of the run is written; whoever opened the store before may go on with the old one.
SetRun(record) ==
    /\ run' = record
    /\ IF moves' + losses' < MaxIncidents THEN stale' \in {stale, run} ELSE stale' = record

\* updateRunStatus: refused unless validateTransition allows it.
UpdateStatus(status) ==
    SetRun(IF status \in Transitions[run.status] THEN [run EXCEPT !.status = status] ELSE run)

\* advancePhase: only a running run.
AdvancePhase(phase) ==
    SetRun(IF run.status = "running" THEN [run EXCEPT !.phase = phase] ELSE run)

\* startPlaybook: createRun, a draft in the first phase.
CreateRun ==
    /\ start = "new"
    /\ start' = "created"
    /\ UNCHANGED <<artifacts, kept, turn, moves, losses, lost>>
    /\ SetRun([status |-> "draft", phase |-> 1])

\* startPlaybook: draft -> running.
SetRunning ==
    /\ start = "created"
    /\ start' = "over"
    /\ UNCHANGED <<artifacts, kept, turn, moves, losses, lost>>
    /\ UpdateStatus("running")

UserMoves == moves + losses < MaxIncidents /\ moves' = moves + 1

\* PATCH /runs/:runId/status
PatchStatus(status) ==
    /\ status \in Transitions[run.status]
    /\ IF status = "completed" THEN UserMoves ELSE UNCHANGED moves
    /\ UNCHANGED <<artifacts, kept, start, turn, losses, lost>>
    /\ UpdateStatus(status)

\* POST /runs/:runId/advance-phase, to any phase.
UserAdvances(phase) ==
    /\ run.status = "running"
    /\ UserMoves
    /\ UNCHANGED <<artifacts, kept, start, turn, losses, lost>>
    /\ AdvancePhase(phase)

----------------------------------------------------------------------------
(* ArtifactService                                                         *)

\* createArtifact: into the copy in memory, and the file.
AddArtifact(title) ==
    /\ Len(artifacts) < MaxArtifacts
    /\ artifacts' = Append(artifacts, title)
    /\ kept' = kept \cup {Len(artifacts) + 1}

\* POST /artifacts: an artifact of the run that no turn made, and no check follows.
CreateArtifact(title) ==
    /\ start # "new"
    /\ AddArtifact(title)
    /\ UNCHANGED <<run, stale, turn, lost, others>>

\* PATCH /artifacts/:artifactId: another title.
UpdateArtifact(a, title) ==
    /\ a \in kept
    /\ artifacts[a] # title
    /\ artifacts' = [artifacts EXCEPT ![a] = title]
    /\ UserMoves
    /\ UNCHANGED <<run, kept, stale, start, turn, losses, lost>>

----------------------------------------------------------------------------
(* onComplete of a chat turn: extractArtifacts, then the check             *)

\* The answer is there, with its sections.
Answer(t, sections) ==
    /\ start # "new"
    /\ turn[t].pc = "new"
    /\ turn' = [turn EXCEPT ![t] = [pc |-> "extract", left |-> sections, phase |-> 0]]
    /\ UNCHANGED <<run, artifacts, kept, stale, lost, others>>

\* One createArtifact after the other; after the last the check is begun.
Extract(t) ==
    LET left == Tail(turn[t].left)
    IN  /\ turn[t].pc = "extract"
        /\ AddArtifact(Head(turn[t].left))
        /\ turn' = [turn EXCEPT ![t].left = left, ![t].pc = IF left = <<>> THEN "read" ELSE "extract"]
        /\ UNCHANGED <<run, stale, lost, others>>

\* Mutant: a phase that the playbook does not have is not looked for.
ReadAnyPhase(t) ==
    /\ turn[t].pc = "read"
    /\ turn' = [turn EXCEPT ![t].phase = run.phase, ![t].pc = "list"]
    /\ UNCHANGED <<run, artifacts, kept, stale, lost, others>>

\* checkPhaseProgress: getRun. A run that is gone or a phase that the playbook does not have
\* ends the check, and a phase that expects nothing is left at once.
Read(t) ==
    LET p == run.phase
    IN  /\ turn[t].pc = "read"
        /\ turn' = [turn EXCEPT ![t].phase = p,
                                ![t].pc = IF run.status = "none" \/ p \notin Phases THEN "over"
                                          ELSE IF Expected[p] = <<>> THEN "write" ELSE "list"]
        /\ UNCHANGED <<run, artifacts, kept, stale, lost, others>>

\* Mutant: what is missing does not matter once something is there.
ListSome(t) ==
    /\ turn[t].pc = "list"
    /\ turn' = [turn EXCEPT ![t].pc = IF kept # {} THEN "write" ELSE "over"]
    /\ UNCHANGED <<run, artifacts, kept, stale, lost, others>>

\* Mutant: the list has a limit.
ListNewest(t) ==
    LET page == {a \in kept : \A b \in kept : b <= a}
    IN  /\ turn[t].pc = "list"
        /\ turn' = [turn EXCEPT ![t].pc =
              IF Complete(turn[t].phase, artifacts, page) THEN "write" ELSE "over"]
        /\ UNCHANGED <<run, artifacts, kept, stale, lost, others>>

\* listArtifacts, and what is missing of the phase that was read.
List(t) ==
    /\ turn[t].pc = "list"
    /\ turn' = [turn EXCEPT ![t].pc =
          IF Complete(turn[t].phase, artifacts, kept) THEN "write" ELSE "over"]
    /\ UNCHANGED <<run, artifacts, kept, stale, lost, others>>

\* advanceOrComplete, from the phase that was read. What the service refuses ends the check.
Write(t) ==
    LET p == turn[t].phase
    IN  /\ turn[t].pc = "write"
        /\ turn' = [turn EXCEPT ![t].pc = "over"]
        /\ UNCHANGED <<artifacts, kept, lost, others>>
        /\ IF p = Last THEN UpdateStatus("completed") ELSE AdvancePhase(p + 1)

Over == [pc |-> "over", left |-> <<>>, phase |-> 0]

\* A store throws: nobody hears of it, artifacts stay and the check is not made.
Fails(t) ==
    /\ turn[t].pc \notin {"new", "over"}
    /\ turn' = [turn EXCEPT ![t] = Over]
    /\ lost' = TRUE
    /\ UNCHANGED <<run, artifacts, kept, stale, others>>

\* What is left of a store that was disturbed: artifacts made at some time, without those
\* the surviving copy lacks; or the run as it was at some time, or no run.
Disturbed ==
    /\ moves + losses < MaxIncidents
    /\ losses' = losses + 1
    /\ lost' = TRUE
    /\ \/ kept' \in SUBSET DOMAIN artifacts \ {kept} /\ UNCHANGED <<run, stale>>
       \/ stale # run /\ SetRun(stale) /\ UNCHANGED kept

\* The sidecar is killed between two calls of the stores: only run and artifacts are on disk.
Crash ==
    /\ start = "created" \/ \E t \in Turns : turn[t].pc \notin {"new", "over"}
    /\ start' = IF start = "created" THEN "over" ELSE start
    /\ turn' = [t \in Turns |-> IF turn[t].pc = "new" THEN turn[t] ELSE Over]
    /\ lost' = TRUE
    /\ UNCHANGED <<run, artifacts, kept, stale, moves, losses>>

\* It is killed while it writes one of the files, which is left empty or cut.
CrashInWrite ==
    /\ start = "created" \/ \E t \in Turns : turn[t].pc \notin {"new", "over"}
    /\ start' = IF start = "created" THEN "over" ELSE start
    /\ turn' = [t \in Turns |-> IF turn[t].pc = "new" THEN turn[t] ELSE Over]
    /\ UNCHANGED <<artifacts, moves>>
    /\ Disturbed

\* Calls of a store overlap, of turns or of users: one opens the file that the other is
\* writing, or writes the copy it had over what the other wrote.
CallsOverlap ==
    /\ start # "new"
    /\ UNCHANGED <<artifacts, start, turn, moves>>
    /\ Disturbed

----------------------------------------------------------------------------
Check(t) == Read(t) \/ List(t) \/ Write(t)

Sections == UNION {[1..n -> Titles] : n \in 1..MaxSections}

Users ==
    \/ \E status \in Statuses : PatchStatus(status)
    \/ \E phase \in Phases \cup {0} : UserAdvances(phase)
    \/ \E title \in Titles : CreateArtifact(title)
    \/ \E a \in DOMAIN artifacts, title \in Titles : UpdateArtifact(a, title)

Next ==
    \/ CreateRun \/ SetRunning
    \/ Users
    \/ \E t \in Turns :
          \/ \E sections \in Sections : Answer(t, sections)
          \/ Extract(t) \/ Check(t) \/ Fails(t)
    \/ Crash \/ CrashInWrite \/ CallsOverlap

\* What was begun goes on; nobody need start a playbook or answer.
Fairness == WF_vars(SetRunning) /\ \A t \in Turns : WF_vars(Check(t))

Spec == Init /\ [][Next]_vars /\ Fairness

----------------------------------------------------------------------------
(* Properties                                                              *)

\* Every variable has its type; a check that goes on has read a phase of the playbook.
TypeOK ==
    /\ run \in [status : Statuses, phase : Phases \cup {0}]
    /\ artifacts \in Seq(Titles) /\ Len(artifacts) <= MaxArtifacts
    /\ kept \subseteq DOMAIN artifacts
    /\ stale \in [status : Statuses, phase : Phases \cup {0}]
    /\ start \in {"new", "created", "over"}
    /\ turn \in [Turns -> [pc : {"new", "extract", "read", "list", "write", "over"},
                           left : Seq(Titles), phase : Phases \cup {0}]]
    /\ \A t \in Turns : /\ turn[t].pc = "extract" => turn[t].left # <<>>
                        /\ turn[t].pc \in {"list", "write"} => turn[t].phase \in Phases
    /\ moves \in 0..MaxIncidents /\ losses \in 0..MaxIncidents /\ lost \in BOOLEAN

\* checkPhaseProgress: for every phase that a run no user moved has passed, all the artifacts
\* that phase expects had been made, and for a completed one those of every phase.
\* Overlapping checks that work on an old phase may move it back, and stores may lose
\* artifacts or the run's last steps: nothing takes the run past what was made.
PassedPhasesAreEarned ==
    moves = 0 => \A p \in Phases :
        p < run.phase \/ run.status = "completed" => Complete(p, artifacts, DOMAIN artifacts)

\* The run could be moved on.
AtCompletePhase ==
    run.status = "running" /\ run.phase \in Phases /\ Complete(run.phase, artifacts, kept)

\* The check after the last artifact of an answer suffices, whatever overlaps it: a running
\* run whose phase is complete by then is moved on, and startPlaybook does not leave a draft
\* behind. Excepted are what failed, was killed or lost in a store, and artifacts a user renamed.
CompletePhasesAreLeft ==
    /\ \A t \in Turns :
          turn[t].pc = "read" /\ AtCompletePhase
              ~> \/ ~AtCompletePhase \/ lost \/ moves > 0
                 \/ turn[t].pc = "over" /\ run.phase # turn[t].phase
    /\ run.status = "draft" ~> run.status # "draft" \/ lost
====

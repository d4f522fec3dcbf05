---- MODULE AgentSessions ----
(***************************************************************************)
(* SessionService (packages/core: sessions) and the run that the           *)
(* OrchestrationService builds on it, for one agent: sessions.json names   *)
(* the session of each key, every session has a transcript file, and an    *)
(* operation reads whole files, waits, and writes whole files.  A run      *)
(* prepares its session, invokes the agent, and records the reply;         *)
(* meanwhile sessions are reset, removed, renamed, compacted, and other    *)
(* runs use the same session.  Any call may be killed at any step.         *)
(*                                                                         *)
(* With Exclusive, one operation of the service is under way at a time     *)
(* (runs still overlap while their agents work): the files have no lock,   *)
(* and the service promises nothing else for overlapping operations.       *)
(***************************************************************************)
EXTENDS Naturals, Sequences

CONSTANTS
    Calls,          \* calls of runs and of the other operations
    Keys,           \* session keys
    Ids,            \* session ids, each with its transcript file
    None,           \* no session
    Cut,            \* what is left of a sessions.json whose write was cut short
    KeepRecent,     \* keepRecentMessages
    Trigger,        \* triggerMessageCount
    Exclusive       \* operations of the service do not overlap

ASSUME NoneAssumption == None \notin Ids /\ Cut \notin [Keys -> Ids \cup {None}]
ASSUME LimitsAssumption == KeepRecent \in Nat \ {0} /\ Trigger \in Nat /\ Exclusive \in BOOLEAN

VARIABLES
    store,    \* sessions.json: the session id of each key, or Cut
    file,     \* the transcript of each id: a message is the call it is of and the role
    call,     \* each call: phase, stage it is at, key, its copy of the store, records it read
    log,      \* history: messages written to the present session of each key
    renewed,  \* history: runs whose key got another session, or none, before their reply
    torn      \* history: transcripts whose write was cut short

vars == <<store, file, call, log, renewed, torn>>

Messages == Calls \X {"user", "assistant"}
NoFile == [state |-> "absent", compacted |-> FALSE, msgs |-> <<>>]
CutFile == [state |-> "cut", compacted |-> FALSE, msgs |-> <<>>]
NoSessions == [k \in Keys |-> None]
Over == [phase |-> "over", at |-> 0, key |-> None, copy |-> NoSessions, records |-> NoFile]

\* The awaits of each operation, by what they read or write. prepare is prepareRunSession of a
\* run, open that of prepareSession, whose message is blank and is therefore not appended; the
\* messages and replies of runs are never blank.
Program == [
    prepare |-> <<"store", "persist", "read", "header", "read", "compact", "persist",
                  "reload", "read", "append", "persist">>,
    open    |-> <<"store", "persist", "read", "header", "read", "compact", "persist">>,
    record  |-> <<"reload", "read", "append", "persist", "reload", "read", "compact", "persist">>,
    reset   |-> <<"store", "persist", "read", "header">>,
    remove  |-> <<"store", "persist">>,
    rename  |-> <<"store", "persist">>,
    compact |-> <<"reload", "read", "compact", "persist">>]

Operations == DOMAIN Program

Init ==
    /\ store = NoSessions
    /\ file = [i \in Ids |-> NoFile]
    /\ call = [c \in Calls |-> [Over EXCEPT !.phase = "new"]]
    /\ log = [k \in Keys |-> <<>>]
    /\ renewed = {} /\ torn = {}

\* The stage a call is at.
At(c, stage) == call[c].phase \in Operations /\ Program[call[c].phase][call[c].at] = stage

\* No operation is under way, where they do not overlap.
MayBegin == Exclusive => \A c \in Calls : call[c].phase \notin Operations

\* A call goes on with a stage, or has done the last one: a prepared run invokes its agent.
Continue(entry, stage) ==
    IF stage <= Len(Program[entry.phase]) THEN [entry EXCEPT !.at = stage]
    ELSE IF entry.phase = "prepare" THEN [Over EXCEPT !.phase = "agent", !.key = entry.key]
    ELSE Over

\* The stage after this one and n - 1 that are skipped.
Skip(c, n) == call[c].at + n

\* newSessionId
Fresh == {i \in Ids : /\ file[i] = NoFile /\ i \notin torn
                      /\ store # Cut => \A k \in Keys : store[k] # i
                      /\ \A c \in Calls, k \in Keys : call[c].copy[k] # i}

----------------------------------------------------------------------------
(* Calls                                                                   *)

\* prepareRunSession of a run, or one of the other operations.
Begin(c, operation, k) ==
    /\ call[c].phase = "new"
    /\ MayBegin
    /\ operation # "record"
    /\ call' = [call EXCEPT ![c] = [Over EXCEPT !.phase = operation, !.at = 1, !.key = k]]
    /\ UNCHANGED <<store, file, log, renewed, torn>>

\* Mutant: the reply's session is resolved anew.
AgentAnswersSomewhere(c) ==
    /\ call[c].phase = "agent"
    /\ MayBegin
    /\ \E k \in Keys :
          call' = [call EXCEPT ![c] = [@ EXCEPT !.phase = "record", !.at = 1, !.key = k]]
    /\ UNCHANGED <<store, file, log, renewed, torn>>

\* invokeAgent has returned, whatever its code: recordAssistantReply under the run's key.
AgentAnswers(c) ==
    /\ call[c].phase = "agent"
    /\ MayBegin
    /\ call' = [call EXCEPT ![c] = [@ EXCEPT !.phase = "record", !.at = 1]]
    /\ UNCHANGED <<store, file, log, renewed, torn>>

\* invokeAgent has thrown: the question stays without a reply.
AgentFails(c) ==
    /\ call[c].phase = "agent"
    /\ call' = [call EXCEPT ![c] = Over]
    /\ UNCHANGED <<store, file, log, renewed, torn>>

----------------------------------------------------------------------------
(* Stages                                                                  *)

\* Mutant: what cannot be parsed is taken for no sessions.
ReadableOrEmpty == IF store = Cut THEN NoSessions ELSE store

\* readStore; Cut is not parsed.
Readable == store

\* The entry that an operation decides on: a run keeps a session that is fresh unless asked
\* for a new one, a reset makes a new one, and rename and remove need one.
Decisions(c, sessions) ==
    LET k == call[c].key
        new == {[sessions EXCEPT ![k] = i] : i \in Fresh}
        known == IF sessions[k] # None THEN {sessions} ELSE {}
    IN  CASE call[c].phase \in {"prepare", "open"} -> known \cup new
          [] call[c].phase = "reset"   -> new
          [] call[c].phase = "rename"  -> known
          [] call[c].phase = "remove"  -> {[s EXCEPT ![k] = None] : s \in known}

\* readStore at the begin of an operation.
ReadStore(c) ==
    /\ At(c, "store")
    /\ Readable # Cut
    /\ \E copy \in Decisions(c, Readable) :
          call' = [call EXCEPT ![c] = Continue([@ EXCEPT !.copy = copy], Skip(c, 1))]
    /\ UNCHANGED <<store, file, log, renewed, torn>>

\* Mutant: no early return when the session is gone.
ReloadUnchecked(c) ==
    /\ At(c, "reload")
    /\ Readable # Cut
    /\ call' = [call EXCEPT ![c] = Continue([@ EXCEPT !.copy = Readable], Skip(c, 1))]
    /\ UNCHANGED <<store, file, log, renewed, torn>>

\* readStore of appendMessage, and before a compaction: without an entry both do nothing.
Reload(c) ==
    /\ At(c, "reload")
    /\ Readable # Cut
    /\ call' = [call EXCEPT ![c] =
          IF Readable[call[c].key] # None
          THEN Continue([@ EXCEPT !.copy = Readable], Skip(c, 1))
          ELSE Continue(@, Skip(c, 4))]
    /\ UNCHANGED <<store, file, log, renewed, torn>>

\* What cannot be parsed, or a missing session that rename or remove need: the call throws.
Throws(c) ==
    /\ \/ (At(c, "store") \/ At(c, "reload")) /\ Readable = Cut
       \/ /\ At(c, "store") /\ Readable # Cut
          /\ call[c].phase \in {"rename", "remove"} /\ Readable[call[c].key] = None
       \/ At(c, "read") /\ file[call[c].copy[call[c].key]].state = "cut"
    /\ call' = [call EXCEPT ![c] = Over]
    /\ UNCHANGED <<store, file, log, renewed, torn>>

\* persistStore. A key that gets another session, or none, begins a new log.
Persist(c) ==
    LET changed == {k \in Keys : store = Cut \/ call[c].copy[k] # store[k]}
    IN  /\ At(c, "persist")
        /\ store' = call[c].copy
        /\ log' = [k \in Keys |-> IF k \in changed THEN <<>> ELSE log[k]]
        /\ renewed' = renewed \cup {r \in Calls : call[r].phase \in {"agent", "record"}
                                                  /\ call[r].key \in changed}
        /\ call' = [call EXCEPT ![c] = Continue(@, Skip(c, 1))]
        /\ UNCHANGED <<file, torn>>

\* readTranscriptRecords
ReadTranscript(c) ==
    LET records == file[call[c].copy[call[c].key]]
    IN  /\ At(c, "read")
        /\ records.state # "cut"
        /\ call' = [call EXCEPT ![c] = Continue([@ EXCEPT !.records = records], Skip(c, 1))]
        /\ UNCHANGED <<store, file, log, renewed, torn>>

WithHeader(records) == [records EXCEPT !.state = "there"]

\* compactSessionInternal: due when forced, or the messages are many, or they are long.
MayCompact(records) == Len(records.msgs) > KeepRecent
MustCompact(c, records) ==
    MayCompact(records) /\ (call[c].phase = "compact" \/ Len(records.msgs) >= Trigger)

\* Mutant: the oldest messages are kept.
KeepOldest(records) == [state |-> "there", compacted |-> TRUE, msgs |-> SubSeq(records.msgs, 1, KeepRecent)]

\* The latest messages are kept, the others become a summary.
Compacted(records) ==
    LET n == Len(records.msgs)
    IN  [state |-> "there", compacted |-> TRUE, msgs |-> SubSeq(records.msgs, n - KeepRecent + 1, n)]

Message(c) == <<c, IF call[c].phase = "record" THEN "assistant" ELSE "user">>

\* What a call writes to the transcript next.
Written(c) ==
    LET records == call[c].records
    IN  CASE At(c, "header")  -> WithHeader(records)
          [] At(c, "compact") -> Compacted(records)
          [] At(c, "append")  -> [WithHeader(records) EXCEPT !.msgs = Append(@, Message(c))]

WritesTranscript(c) ==
    \/ At(c, "header") /\ call[c].records.state # "there"
    \/ At(c, "compact") /\ MayCompact(call[c].records)
    \/ At(c, "append")

\* writeTranscriptRecords
WriteTranscript(c) ==
    /\ WritesTranscript(c)
    /\ file' = [file EXCEPT ![call[c].copy[call[c].key]] = Written(c)]
    /\ log' = IF At(c, "append") THEN [log EXCEPT ![call[c].key] = Append(@, Message(c))] ELSE log
    /\ call' = [call EXCEPT ![c] = Continue(@, Skip(c, 1))]
    /\ UNCHANGED <<store, renewed, torn>>

\* A header that is there is left alone; a compaction that is not due does not persist.
LeaveTranscript(c) ==
    /\ \/ At(c, "header") /\ ~WritesTranscript(c)
       \/ At(c, "compact") /\ ~MustCompact(c, call[c].records)
    /\ call' = [call EXCEPT ![c] = Continue(@, Skip(c, IF At(c, "compact") THEN 2 ELSE 1))]
    /\ UNCHANGED <<store, file, log, renewed, torn>>

----------------------------------------------------------------------------
(* A call that is killed                                                   *)

\* What is on disk when a write of the transcript is cut short: nothing, a line that cannot
\* be parsed, or whole lines.
CutShort(c) ==
    {NoFile, CutFile} \cup
    {[Written(c) EXCEPT !.msgs = SubSeq(@, 1, n)] : n \in 0..(Len(Written(c).msgs) - 1)}

Killed(c) ==
    /\ call[c].phase \in Operations \cup {"agent"}
    /\ call' = [call EXCEPT ![c] = Over]
    /\ \/ UNCHANGED <<store, file, torn>>
       \/ At(c, "persist") /\ store' = Cut /\ UNCHANGED <<file, torn>>
       \/ /\ WritesTranscript(c)
          /\ \E left \in CutShort(c) : file' = [file EXCEPT ![call[c].copy[call[c].key]] = left]
          /\ torn' = torn \cup {call[c].copy[call[c].key]}
          /\ UNCHANGED store
    /\ UNCHANGED <<log, renewed>>

----------------------------------------------------------------------------
Stage(c) ==
    \/ ReadStore(c) \/ Reload(c) \/ Throws(c) \/ Persist(c)
    \/ ReadTranscript(c) \/ WriteTranscript(c) \/ LeaveTranscript(c)

Next == \E c \in Calls :
    \/ \E operation \in Operations, k \in Keys : Begin(c, operation, k)
    \/ AgentAnswers(c) \/ AgentFails(c)
    \/ Stage(c)
    \/ Killed(c)

Spec == Init /\ [][Next]_vars

----------------------------------------------------------------------------
(* Properties                                                              *)

Stores == [Keys -> Ids \cup {None}]
Transcripts == [state : {"absent", "there", "cut"}, compacted : BOOLEAN, msgs : Seq(Messages)]

\* Every variable has its type; whoever works on a transcript has a session.
TypeOK ==
    /\ store \in Stores \cup {Cut}
    /\ file \in [Ids -> Transcripts]
    /\ call \in [Calls -> [phase : Operations \cup {"new", "agent", "over"}, at : Nat,
                           key : Keys \cup {None}, copy : Stores, records : Transcripts]]
    /\ \A c \in Calls :
          /\ call[c].phase \in Operations =>
                call[c].key \in Keys /\ call[c].at \in DOMAIN Program[call[c].phase]
          /\ call[c].phase = "agent" => call[c].key \in Keys
          /\ (\E stage \in {"read", "header", "compact", "append"} : At(c, stage)) =>
                call[c].copy[call[c].key] \in Ids
    /\ log \in [Keys -> Seq(Messages)]
    /\ renewed \subseteq Calls /\ torn \subseteq Ids

\* A session's transcript is what was written to it, in the order it was written, its oldest
\* messages possibly summarised: whatever runs overlap in the session, whoever was killed,
\* unless a write of this very transcript was cut short.
TranscriptIsTheLog ==
    store # Cut => \A k \in Keys : store[k] # None /\ store[k] \notin torn =>
        LET t == file[store[k]]
            n == Len(log[k]) - Len(t.msgs)
        IN  /\ n >= 0 /\ t.msgs = SubSeq(log[k], n + 1, Len(log[k]))
            /\ IF t.compacted THEN Len(t.msgs) >= KeepRecent ELSE n = 0

\* A reply stands in the same session as its question, and after it, unless the key got
\* another session during the run (the reply then goes to the new one).
RepliesFollowQuestions ==
    \A k \in Keys : \A j \in DOMAIN log[k] :
        log[k][j][2] = "assistant" /\ log[k][j][1] \notin renewed =>
            \E i \in 1..(j - 1) : log[k][i] = <<log[k][j][1], "user">>

\* A sessions.json that was cut short is not taken for an empty one: no operation writes over
\* it, or to a transcript, so that what is left can still be repaired by hand.
CutStoreIsKept == [][store = Cut => UNCHANGED <<store, file>>]_vars
====

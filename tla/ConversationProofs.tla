---- MODULE ConversationProofs ----
(***************************************************************************)
(* Conversations: the sessions of an agent (AgentSessions) and the chats   *)
(* of the channels (Messaging). The two components share no state; their   *)
(* theorems stand side by side.                                            *)
(*                                                                         *)
(* Sessions, for any calls, keys, ids and limits: every state is well      *)
(* typed and, where operations do not overlap, transcripts are what was    *)
(* written to their sessions, replies follow their questions, and a store  *)
(* that was cut short is kept. The argument says what the one operation    *)
(* under way holds at each of its awaits: its copy of the store is the     *)
(* store, or one decision away from it; the records it is about to write   *)
(* over are those of the file; no two keys have the same transcript.       *)
(*                                                                         *)
(* Channels, for any connections, threads, sockets and messages: every     *)
(* state is well typed, a thread keeps its chat as long as no write of the *)
(* store undoes another, and where sessions of a connection do not         *)
(* overlap, sessions and status follow the sockets. The argument for the   *)
(* threads is that a message that has found a chat has the chat of the     *)
(* link; for the sockets, that a connection has one socket that is not     *)
(* idle, which is its session as long as it lives, and that the status an  *)
(* open event wrote is over when the close is handled.                     *)
(***************************************************************************)
EXTENDS AgentSessions, Messaging, SequenceTheorems, TLAPS

USE LimitsAssumption

----------------------------------------------------------------------------
(* The stages of the operations                                            *)

\* The stages at which a call holds a session: it has resolved one and not left it.
Holding == [prepare |-> 2..11, open |-> 2..7, record |-> {2, 3, 4, 6, 7, 8}, reset |-> 2..4,
            remove |-> {}, rename |-> {2}, compact |-> 2..4]

\* The stages at which a decision that was made on the store is not yet written to it.
Deciding(p, n) == p \in {"prepare", "open", "reset", "remove", "rename"} /\ n = 2

\* How many awaits each operation has.
LEMMA Lengths ==
    /\ Operations = {"prepare", "open", "record", "reset", "remove", "rename", "compact"}
    /\ Len(Program["prepare"]) = 11 /\ DOMAIN Program["prepare"] = 1..11
    /\ Len(Program["open"]) = 7 /\ DOMAIN Program["open"] = 1..7
    /\ Len(Program["record"]) = 8 /\ DOMAIN Program["record"] = 1..8
    /\ Len(Program["reset"]) = 4 /\ DOMAIN Program["reset"] = 1..4
    /\ Len(Program["remove"]) = 2 /\ DOMAIN Program["remove"] = 1..2
    /\ Len(Program["rename"]) = 2 /\ DOMAIN Program["rename"] = 1..2
    /\ Len(Program["compact"]) = 4 /\ DOMAIN Program["compact"] = 1..4
BY DEF Operations, Program

\* Where an operation is, from what it reads or writes there.
LEMMA Places ==
    ASSUME NEW p \in Operations, NEW n \in DOMAIN Program[p]
    PROVE  /\ Program[p][n] = "store" <=> n = 1 /\ p \in {"prepare", "open", "reset", "remove", "rename"}
           /\ Program[p][n] = "reload" <=> \/ p = "prepare" /\ n = 8
                                           \/ p = "record" /\ n \in {1, 5}
                                           \/ p = "compact" /\ n = 1
           /\ Program[p][n] = "persist" <=> \/ Deciding(p, n)
                                            \/ p = "prepare" /\ n \in {7, 11}
                                            \/ p = "open" /\ n = 7
                                            \/ p = "record" /\ n \in {4, 8}
                                            \/ p = "compact" /\ n = 4
           /\ Program[p][n] = "read" <=> \/ p = "prepare" /\ n \in {3, 5, 9}
                                         \/ p = "open" /\ n \in {3, 5}
                                         \/ p = "record" /\ n \in {2, 6}
                                         \/ p = "reset" /\ n = 3
                                         \/ p = "compact" /\ n = 2
           /\ Program[p][n] = "header" <=> p \in {"prepare", "open", "reset"} /\ n = 4
           /\ Program[p][n] = "compact" <=> \/ p \in {"prepare", "open"} /\ n = 6
                                            \/ p = "record" /\ n = 7
                                            \/ p = "compact" /\ n = 3
           /\ Program[p][n] = "append" <=> (p = "prepare" /\ n = 10) \/ (p = "record" /\ n = 3)
<1>1. CASE p = "prepare"
  <2>1. n \in 1..11
    BY <1>1, Lengths
  <2> QED BY <1>1, <2>1 DEF Program, Deciding
<1>2. CASE p = "open"
  <2>1. n \in 1..7
    BY <1>2, Lengths
  <2> QED BY <1>2, <2>1 DEF Program, Deciding
<1>3. CASE p = "record"
  <2>1. n \in 1..8
    BY <1>3, Lengths
  <2> QED BY <1>3, <2>1 DEF Program, Deciding
<1>4. CASE p \in {"reset", "compact"}
  <2>1. n \in 1..4
    BY <1>4, Lengths
  <2> QED BY <1>4, <2>1 DEF Program, Deciding
<1>5. CASE p \in {"remove", "rename"}
  <2>1. n \in 1..2
    BY <1>5, Lengths
  <2> QED BY <1>5, <2>1 DEF Program, Deciding
<1> QED BY <1>1, <1>2, <1>3, <1>4, <1>5, Lengths

----------------------------------------------------------------------------
(* Types                                                                   *)

Entries == [phase : Operations \cup {"new", "agent", "over"}, at : Nat,
            key : Keys \cup {None}, copy : Stores, records : Transcripts]

\* An operation is at one of its awaits, and where it holds a session it has one.
EntryOK(e) ==
    /\ e \in Entries
    /\ e.phase \in Operations => /\ e.key \in Keys /\ e.at \in DOMAIN Program[e.phase]
                                 /\ e.at \in Holding[e.phase] => e.copy[e.key] \in Ids
    /\ e.phase = "agent" => e.key \in Keys

CallsOK(calls) == calls \in [Calls -> Entries] /\ \A c \in Calls : EntryOK(calls[c])

Typed ==
    /\ store \in Stores \cup {Cut}
    /\ file \in [Ids -> Transcripts]
    /\ CallsOK(call)
    /\ log \in [Keys -> Seq(Messages)]
    /\ renewed \subseteq Calls /\ torn \subseteq Ids

\* Where a session is held, stage by stage.
LEMMA Holders ==
    ASSUME NEW p \in Operations
    PROVE  /\ p = "prepare" => Holding[p] = 2..11
           /\ p = "open" => Holding[p] = 2..7
           /\ p = "record" => Holding[p] = {2, 3, 4, 6, 7, 8}
           /\ p \in {"reset", "compact"} => Holding[p] = 2..4
           /\ p = "remove" => Holding[p] = {}
           /\ p = "rename" => Holding[p] = {2}
BY Lengths DEF Holding

\* The simple records are entries.
LEMMA Constants ==
    /\ NoSessions \in Stores /\ NoFile \in Transcripts /\ CutFile \in Transcripts
    /\ Over \in Entries /\ EntryOK(Over)
    /\ EntryOK([Over EXCEPT !.phase = "new"])
<1>1. NoFile \in Transcripts /\ CutFile \in Transcripts
  BY EmptySeq DEF NoFile, CutFile, Transcripts
<1>2. NoSessions \in Stores
  BY DEF NoSessions, Stores
<1>3. Over \in Entries
  BY <1>1, <1>2 DEF Over, Entries
<1>4. [Over EXCEPT !.phase = "new"] \in Entries
  BY <1>3 DEF Entries
<1> QED BY <1>1, <1>2, <1>3, <1>4, Lengths DEF EntryOK, Over

\* What a call becomes when it goes on.
LEMMA ContinueOK ==
    ASSUME NEW e \in Entries, e.phase \in Operations, e.key \in Keys, NEW n \in Nat \ {0},
           n \in Holding[e.phase] => e.copy[e.key] \in Ids
    PROVE  EntryOK(Continue(e, n))
<1>1. CASE n <= Len(Program[e.phase])
  <2>1. n \in DOMAIN Program[e.phase]
    BY <1>1, Lengths
  <2>2. [e EXCEPT !.at = n] \in Entries
    BY DEF Entries
  <2> QED BY <1>1, <2>1, <2>2 DEF EntryOK, Continue, Entries
<1>2. CASE ~(n <= Len(Program[e.phase])) /\ e.phase = "prepare"
  <2>1. [Over EXCEPT !.phase = "agent", !.key = e.key] \in Entries
    BY Constants DEF Entries
  <2> QED BY <1>2, <2>1, Lengths DEF EntryOK, Continue, Over, Entries
<1>3. CASE ~(n <= Len(Program[e.phase])) /\ e.phase # "prepare"
  BY <1>3, Constants DEF Continue
<1> QED BY <1>1, <1>2, <1>3

\* One call changes.
LEMMA CallsUpdate ==
    ASSUME CallsOK(call), NEW c \in Calls, NEW e, EntryOK(e), call' = [call EXCEPT ![c] = e]
    PROVE  CallsOK(call')
BY DEF CallsOK, EntryOK

\* A call that is in an operation.
LEMMA InOperationFacts ==
    ASSUME CallsOK(call), NEW c \in Calls, call[c].phase \in Operations
    PROVE  /\ call[c] \in Entries /\ call[c].key \in Keys /\ call[c].at \in Nat \ {0}
           /\ call[c].at \in DOMAIN Program[call[c].phase]
           /\ call[c].at \in Holding[call[c].phase] => call[c].copy[call[c].key] \in Ids
           /\ call[c].copy \in Stores /\ call[c].records \in Transcripts
<1>1. call[c] \in Entries /\ EntryOK(call[c])
  BY DEF CallsOK
<1>2. call[c].at \in DOMAIN Program[call[c].phase]
  BY <1>1 DEF EntryOK
<1>3. 0 \notin DOMAIN Program[call[c].phase]
  BY Lengths
<1> QED BY <1>1, <1>2, <1>3 DEF EntryOK, Entries

\* Who goes on from an await other than readStore has held its session before.
LEMMA HeldBefore ==
    ASSUME NEW p \in Operations, NEW n \in DOMAIN Program[p],
           Program[p][n] \notin {"store", "reload"}, n + 1 \in Holding[p]
    PROVE  n \in Holding[p]
BY Places, Holders, Lengths

\* A call that goes on from such an await.
LEMMA GoesOn ==
    ASSUME CallsOK(call), NEW c \in Calls, call[c].phase \in Operations,
           ~At(c, "store"), ~At(c, "reload"),
           NEW records \in Transcripts,
           \/ call' = [call EXCEPT ![c] = Continue(@, Skip(c, 1))]
           \/ call' = [call EXCEPT ![c] = Continue([@ EXCEPT !.records = records], Skip(c, 1))]
    PROVE  CallsOK(call')
<1> DEFINE e == call[c]
<1> DEFINE f == [e EXCEPT !.records = records]
<1>1. /\ e \in Entries /\ e.key \in Keys /\ e.at \in DOMAIN Program[e.phase]
      /\ e.at \in Holding[e.phase] => e.copy[e.key] \in Ids
      /\ Skip(c, 1) = e.at + 1 /\ e.at + 1 \in Nat \ {0}
  BY InOperationFacts DEF Skip
<1>2. e.at + 1 \in Holding[e.phase] => e.copy[e.key] \in Ids
  BY <1>1, HeldBefore DEF At
<1>3. EntryOK(Continue(e, e.at + 1))
  BY <1>1, <1>2, ContinueOK
<1>4. f \in Entries /\ f.phase = e.phase /\ f.key = e.key /\ f.copy = e.copy
  BY <1>1 DEF Entries
<1> HIDE DEF f
<1>5. EntryOK(Continue(f, e.at + 1))
  BY <1>1, <1>2, <1>4, ContinueOK
<1>6. c \in DOMAIN call
  BY DEF CallsOK
<1>7. \/ call' = [call EXCEPT ![c] = Continue(e, e.at + 1)]
      \/ call' = [call EXCEPT ![c] = Continue(f, e.at + 1)]
  BY <1>1, <1>6 DEF f
<1> QED BY <1>3, <1>5, <1>7, CallsUpdate

\* What is written to a transcript, and what is left of it, is a transcript.
LEMMA WrittenOK ==
    ASSUME CallsOK(call), NEW c \in Calls, WritesTranscript(c)
    PROVE  /\ call[c].phase \in Operations /\ call[c].copy[call[c].key] \in Ids
           /\ call[c].at \in Holding[call[c].phase]
           /\ ~At(c, "store") /\ ~At(c, "reload")
           /\ Written(c) \in Transcripts /\ CutShort(c) \subseteq Transcripts
<1> DEFINE r == call[c].records
<1>1. call[c].phase \in Operations
  BY DEF WritesTranscript, At
<1>2. r \in Transcripts /\ call[c].at \in DOMAIN Program[call[c].phase]
  BY <1>1, InOperationFacts
<1>3. At(c, "header") \/ At(c, "compact") \/ At(c, "append")
  BY DEF WritesTranscript
<1>4. ~At(c, "store") /\ ~At(c, "reload")
  BY <1>3 DEF At
<1>5. call[c].at \in Holding[call[c].phase]
  BY <1>1, <1>2, <1>3, Places, Holders, Lengths DEF At
<1>6. r.msgs \in Seq(Messages) /\ WithHeader(r) \in Transcripts
  BY <1>2 DEF WithHeader, Transcripts
<1>7. ASSUME MayCompact(r) PROVE Compacted(r) \in Transcripts
  <2> DEFINE n == Len(r.msgs)
  <2>1. n \in Nat /\ n - KeepRecent + 1 \in Int /\ n - KeepRecent >= 0
    BY <1>6, <1>7 DEF MayCompact
  <2>2. \A i \in (n - KeepRecent + 1)..n : r.msgs[i] \in Messages
    BY <1>6, <2>1, ElementOfSeq
  <2>3. SubSeq(r.msgs, n - KeepRecent + 1, n) \in Seq(Messages)
    BY <2>1, <2>2, SubSeqProperties
  <2> QED BY <2>3 DEF Compacted, Transcripts
<1>8. Message(c) \in Messages
  BY DEF Message, Messages
<1>9. Written(c) \in Transcripts
  <2>1. CASE At(c, "header")
    BY <1>6, <2>1 DEF Written, At
  <2>2. CASE At(c, "compact")
    <3>1. Written(c) = Compacted(r)
      BY <2>2 DEF Written, At
    <3>2. MayCompact(r)
      BY <2>2 DEF WritesTranscript, At
    <3> QED BY <3>1, <3>2, <1>7
  <2>3. CASE At(c, "append")
    <3>1. Written(c) = [WithHeader(r) EXCEPT !.msgs = Append(@, Message(c))]
      BY <2>3 DEF Written, At
    <3>2. WithHeader(r).msgs = r.msgs
      BY <1>2 DEF WithHeader, Transcripts
    <3>3. Append(r.msgs, Message(c)) \in Seq(Messages)
      BY <1>6, <1>8, AppendProperties
    <3> QED BY <3>1, <3>2, <3>3, <1>6 DEF Transcripts
  <2> QED BY <1>3, <2>1, <2>2, <2>3
<1>10. ASSUME NEW n \in 0..(Len(Written(c).msgs) - 1)
       PROVE  [Written(c) EXCEPT !.msgs = SubSeq(@, 1, n)] \in Transcripts
  <2>1. Written(c).msgs \in Seq(Messages) /\ Len(Written(c).msgs) \in Nat
    BY <1>9 DEF Transcripts
  <2>2. \A i \in 1..n : Written(c).msgs[i] \in Messages
    BY <2>1, <1>10, ElementOfSeq
  <2>3. SubSeq(Written(c).msgs, 1, n) \in Seq(Messages)
    BY <2>2, SubSeqProperties
  <2> QED BY <1>9, <2>3 DEF Transcripts
<1>11. CutShort(c) \subseteq Transcripts
  BY <1>10, Constants DEF CutShort
<1>12. call[c].copy[call[c].key] \in Ids
  BY <1>1, <1>5, InOperationFacts
<1> QED BY <1>1, <1>4, <1>5, <1>9, <1>11, <1>12

\* A call begins at the first stage of its operation.
LEMMA BeginTyped ==
    ASSUME Typed, NEW c \in Calls, NEW operation \in Operations, NEW k \in Keys,
           Begin(c, operation, k)
    PROVE  Typed'
<1> DEFINE e == [Over EXCEPT !.phase = operation, !.at = 1, !.key = k]
<1>1. e \in Entries
  BY Constants DEF Entries
<1>2. e.phase = operation /\ e.at = 1 /\ e.key = k
  BY DEF Over
<1>3. 1 \notin Holding[operation] /\ 1 \in DOMAIN Program[operation]
  BY Holders, Lengths
<1>4. operation # "agent"
  BY Lengths
<1> HIDE DEF e
<1>5. EntryOK(e)
  BY <1>1, <1>2, <1>3, <1>4 DEF EntryOK
<1>6. call' = [call EXCEPT ![c] = e]
  BY DEF Begin, e
<1>7. CallsOK(call')
  BY <1>5, <1>6, CallsUpdate DEF Typed
<1> QED BY <1>7 DEF Begin, Typed

\* A run's agent answers or fails, minutes after the run was prepared.
LEMMA AgentTyped ==
    ASSUME Typed, NEW c \in Calls, AgentAnswers(c) \/ AgentFails(c)
    PROVE  Typed'
<1> DEFINE e == [call[c] EXCEPT !.phase = "record", !.at = 1]
<1>1. call[c] \in Entries /\ EntryOK(call[c]) /\ c \in DOMAIN call
  BY DEF Typed, CallsOK
<1>2. call[c].phase = "agent"
  BY DEF AgentAnswers, AgentFails
<1>3. e \in Entries /\ e.phase = "record" /\ e.at = 1 /\ e.key = call[c].key
  BY <1>1, Lengths DEF Entries
<1>4. 1 \notin Holding["record"] /\ 1 \in DOMAIN Program["record"]
  BY Holders, Lengths
<1> HIDE DEF e
<1>5. EntryOK(e)
  BY <1>1, <1>2, <1>3, <1>4 DEF EntryOK
<1>6. \/ call' = [call EXCEPT ![c] = e]
      \/ call' = [call EXCEPT ![c] = Over]
  BY <1>1 DEF AgentAnswers, AgentFails, e
<1>7. CallsOK(call')
  BY <1>5, <1>6, CallsUpdate, Constants DEF Typed
<1> QED BY <1>7 DEF AgentAnswers, AgentFails, Typed

\* The store is read, and what the operation decides has its type.
LEMMA ReadStoreTyped ==
    ASSUME Typed, NEW c \in Calls, ReadStore(c)
    PROVE  Typed'
<1> DEFINE k == call[c].key
<1>1. /\ call[c] \in Entries /\ call[c].phase \in Operations /\ k \in Keys /\ c \in DOMAIN call
      /\ call[c].at \in DOMAIN Program[call[c].phase]
  BY InOperationFacts DEF Typed, CallsOK, ReadStore, At
<1>2. call[c].at = 1 /\ call[c].phase \in {"prepare", "open", "reset", "remove", "rename"}
  BY <1>1, Places DEF ReadStore, At
<1>3. store \in Stores
  BY DEF Typed, ReadStore, Readable
<1>4. PICK copy \in Decisions(c, store) :
          call' = [call EXCEPT ![c] = Continue([@ EXCEPT !.copy = copy], Skip(c, 1))]
  BY DEF ReadStore, Readable
<1>5. copy \in Stores /\ (call[c].phase # "remove" => copy[k] \in Ids)
  <2>1. \A i \in Fresh : [store EXCEPT ![k] = i] \in Stores /\ [store EXCEPT ![k] = i][k] \in Ids
    BY <1>1, <1>3 DEF Stores, Fresh
  <2>2. store[k] # None => store[k] \in Ids
    BY <1>1, <1>3 DEF Stores
  <2>3. CASE call[c].phase \in {"prepare", "open"}
    BY <1>3, <1>4, <2>1, <2>2, <2>3 DEF Decisions
  <2>4. CASE call[c].phase = "reset"
    BY <1>4, <2>1, <2>4 DEF Decisions
  <2>5. CASE call[c].phase = "rename"
    BY <1>3, <1>4, <2>2, <2>5 DEF Decisions
  <2>6. CASE call[c].phase = "remove"
    <3>1. copy = [store EXCEPT ![k] = None]
      BY <1>4, <2>6 DEF Decisions
    <3> QED BY <1>3, <2>6, <3>1 DEF Stores
  <2> QED BY <1>2, <2>3, <2>4, <2>5, <2>6
<1> DEFINE e == [call[c] EXCEPT !.copy = copy]
<1>6. e \in Entries /\ e.phase = call[c].phase /\ e.key = k /\ e.copy = copy
  BY <1>1, <1>5 DEF Entries
<1>7. call' = [call EXCEPT ![c] = Continue(e, 2)]
  BY <1>1, <1>2, <1>4 DEF Skip
<1> HIDE DEF e
<1>8. 2 \in Holding[e.phase] => e.copy[e.key] \in Ids
  BY <1>1, <1>2, <1>5, <1>6, Holders
<1>9. EntryOK(Continue(e, 2))
  BY <1>1, <1>6, <1>8, ContinueOK
<1>10. CallsOK(call')
  BY <1>7, <1>9, CallsUpdate DEF Typed
<1> QED BY <1>10 DEF ReadStore, Typed

\* The store is read again, before or after a write of the transcript.
LEMMA ReloadTyped ==
    ASSUME Typed, NEW c \in Calls, Reload(c)
    PROVE  Typed'
<1> DEFINE n == call[c].at
<1> DEFINE p == call[c].phase
<1> DEFINE e == [call[c] EXCEPT !.copy = store]
<1>1. /\ call[c] \in Entries /\ p \in Operations /\ call[c].key \in Keys /\ c \in DOMAIN call
      /\ n \in DOMAIN Program[p] /\ n \in Nat \ {0} /\ Program[p][n] = "reload"
  BY InOperationFacts DEF Typed, CallsOK, Reload, At
<1>2. n + 4 \notin Holding[p] /\ n + 1 \in Nat \ {0} /\ n + 4 \in Nat \ {0}
  BY <1>1, Places, Holders
<1>3. store \in Stores
  BY DEF Typed, Reload, Readable
<1>4. e \in Entries /\ e.phase = p /\ e.key = call[c].key /\ e.copy = store
  BY <1>1, <1>3 DEF Entries
<1>5. call' = [call EXCEPT ![c] = IF store[call[c].key] # None THEN Continue(e, n + 1)
                                  ELSE Continue(call[c], n + 4)]
  BY <1>1 DEF Reload, Readable, Skip
<1> HIDE DEF e
<1>6. store[call[c].key] # None => EntryOK(Continue(e, n + 1))
  BY <1>1, <1>2, <1>3, <1>4, ContinueOK DEF Stores
<1>7. EntryOK(Continue(call[c], n + 4))
  BY <1>1, <1>2, ContinueOK
<1>8. CallsOK(call')
  BY <1>5, <1>6, <1>7, CallsUpdate DEF Typed
<1> QED BY <1>8 DEF Reload, Typed

\* An operation that throws is over.
LEMMA ThrowsTyped ==
    ASSUME Typed, NEW c \in Calls, Throws(c)
    PROVE  Typed'
<1>1. CallsOK(call')
  BY CallsUpdate, Constants DEF Throws, Typed
<1> QED BY <1>1 DEF Throws, Typed

\* What is written to the store is a store.
LEMMA PersistTyped ==
    ASSUME Typed, NEW c \in Calls, Persist(c)
    PROVE  Typed'
<1>1. call[c].phase \in Operations /\ ~At(c, "store") /\ ~At(c, "reload")
  BY DEF Persist, At
<1>2. call' = [call EXCEPT ![c] = Continue(@, Skip(c, 1))] /\ CallsOK(call)
  BY DEF Persist, Typed
<1>3. CallsOK(call')
  BY <1>1, <1>2, GoesOn, Constants
<1>4. store' \in Stores
  BY <1>1, <1>2, InOperationFacts DEF Persist
<1>5. log' \in [Keys -> Seq(Messages)]
  BY EmptySeq DEF Persist, Typed
<1> QED BY <1>3, <1>4, <1>5 DEF Persist, Typed

\* The records an operation holds are those of a file.
LEMMA ReadTranscriptTyped ==
    ASSUME Typed, NEW c \in Calls, ReadTranscript(c)
    PROVE  Typed'
<1> DEFINE id == call[c].copy[call[c].key]
<1>1. call[c].phase \in Operations /\ ~At(c, "store") /\ ~At(c, "reload") /\ CallsOK(call)
  BY DEF ReadTranscript, At, Typed
<1>2. call[c].at \in Holding[call[c].phase]
  BY <1>1, InOperationFacts, Places, Holders DEF ReadTranscript, At
<1>3. file[id] \in Transcripts
  BY <1>1, <1>2, InOperationFacts DEF Typed
<1>4. CallsOK(call')
  BY <1>1, <1>3, GoesOn DEF ReadTranscript
<1> QED BY <1>4 DEF ReadTranscript, Typed

\* What is written to a transcript is a transcript.
LEMMA WriteTranscriptTyped ==
    ASSUME Typed, NEW c \in Calls, WriteTranscript(c)
    PROVE  Typed'
<1>1. CallsOK(call) /\ WritesTranscript(c)
  BY DEF Typed, WriteTranscript
<1>2. CallsOK(call')
  BY <1>1, WrittenOK, GoesOn, Constants DEF WriteTranscript
<1>3. file' \in [Ids -> Transcripts]
  BY <1>1, WrittenOK DEF WriteTranscript, Typed
<1>4. log' \in [Keys -> Seq(Messages)]
  <2>1. Message(c) \in Messages
    BY DEF Message, Messages
  <2>2. \A k \in Keys : Append(log[k], Message(c)) \in Seq(Messages)
    BY <2>1, AppendProperties DEF Typed
  <2> QED BY <2>2 DEF WriteTranscript, Typed
<1> QED BY <1>2, <1>3, <1>4 DEF WriteTranscript, Typed

\* A stage that finds nothing to write goes on.
LEMMA LeaveTranscriptTyped ==
    ASSUME Typed, NEW c \in Calls, LeaveTranscript(c)
    PROVE  Typed'
<1> DEFINE n == call[c].at
<1> DEFINE p == call[c].phase
<1>1. CallsOK(call) /\ p \in Operations /\ ~At(c, "store") /\ ~At(c, "reload")
  BY DEF Typed, LeaveTranscript, At
<1>2. CASE At(c, "compact")
  <2>1. /\ call[c] \in Entries /\ call[c].key \in Keys /\ n \in DOMAIN Program[p]
        /\ n \in Holding[p] => call[c].copy[call[c].key] \in Ids
        /\ n \in Nat \ {0} /\ Program[p][n] = "compact"
    BY <1>1, <1>2, InOperationFacts DEF At
  <2>2. n \in Holding[p] /\ n + 2 \in Nat \ {0}
    BY <1>1, <2>1, Places, Holders
  <2>3. EntryOK(Continue(call[c], n + 2))
    BY <1>1, <2>1, <2>2, ContinueOK
  <2>4. call' = [call EXCEPT ![c] = Continue(call[c], n + 2)]
    BY <1>1, <1>2 DEF LeaveTranscript, Skip, CallsOK
  <2> QED BY <1>1, <2>3, <2>4, CallsUpdate DEF LeaveTranscript, Typed
<1>3. CASE ~At(c, "compact")
  <2>1. call' = [call EXCEPT ![c] = Continue(@, Skip(c, 1))]
    BY <1>3 DEF LeaveTranscript
  <2>2. CallsOK(call')
    BY <1>1, <2>1, GoesOn, Constants
  <2> QED BY <2>2 DEF LeaveTranscript, Typed
<1> QED BY <1>2, <1>3

\* A kill may cut what is being written, and ends every call.
LEMMA KilledTyped ==
    ASSUME Typed, NEW c \in Calls, Killed(c)
    PROVE  Typed'
<1>1. CallsOK(call')
  BY CallsUpdate, Constants DEF Killed, Typed
<1>2. store' \in Stores \cup {Cut}
  BY DEF Killed, Typed
<1>3. file' \in [Ids -> Transcripts] /\ torn' \subseteq Ids
  BY WrittenOK DEF Killed, Typed
<1> QED BY <1>1, <1>2, <1>3 DEF Killed, Typed

\* Every state is well typed, whatever operations overlap.
THEOREM WellTyped == Spec => []Typed
<1>1. Init => Typed
  <2> SUFFICES ASSUME Init PROVE Typed
    OBVIOUS
  <2>1. \A c \in Calls : EntryOK(call[c])
    BY Constants DEF Init
  <2>2. call \in [Calls -> Entries]
    BY Constants DEF Init, EntryOK
  <2> QED BY <2>1, <2>2, Constants, EmptySeq DEF Init, Typed, CallsOK
<1>2. Typed /\ [Next]_vars => Typed'
  <2> SUFFICES ASSUME Typed, [Next]_vars PROVE Typed'
    OBVIOUS
  <2>1. CASE UNCHANGED vars
    BY <2>1 DEF vars, Typed, CallsOK
  <2>2. ASSUME NEW c \in Calls,
               \/ \E operation \in Operations, k \in Keys : Begin(c, operation, k)
               \/ AgentAnswers(c) \/ AgentFails(c) \/ Stage(c) \/ Killed(c)
        PROVE  Typed'
    BY <2>2, BeginTyped, AgentTyped, ReadStoreTyped, ReloadTyped, ThrowsTyped, PersistTyped,
       ReadTranscriptTyped, WriteTranscriptTyped, LeaveTranscriptTyped, KilledTyped DEF Stage
  <2> QED BY <2>1, <2>2 DEF Next
<1> QED BY <1>1, <1>2, PTL DEF Spec

\* Every variable has its type, and whoever works on a transcript has a session.
THEOREM TypesAreKept == Spec => []TypeOK
<1>1. Typed => TypeOK
  <2> SUFFICES ASSUME Typed PROVE TypeOK
    OBVIOUS
  <2>1. call \in [Calls -> [phase : Operations \cup {"new", "agent", "over"}, at : Nat,
                            key : Keys \cup {None}, copy : Stores, records : Transcripts]]
    BY DEF Typed, CallsOK, Entries
  <2>2. ASSUME NEW c \in Calls
        PROVE  /\ call[c].phase \in Operations =>
                     call[c].key \in Keys /\ call[c].at \in DOMAIN Program[call[c].phase]
               /\ call[c].phase = "agent" => call[c].key \in Keys
    BY DEF Typed, CallsOK, EntryOK
  <2>3. ASSUME NEW c \in Calls, NEW stage \in {"read", "header", "compact", "append"},
               At(c, stage)
        PROVE  call[c].copy[call[c].key] \in Ids
    <3>1. /\ call[c].phase \in Operations /\ call[c].at \in DOMAIN Program[call[c].phase]
          /\ Program[call[c].phase][call[c].at] = stage
          /\ call[c].at \in Holding[call[c].phase] => call[c].copy[call[c].key] \in Ids
      BY <2>3, InOperationFacts DEF Typed, At
    <3>2. call[c].at \in Holding[call[c].phase]
      BY <3>1, Places, Holders
    <3> QED BY <3>1, <3>2
  <2> QED BY <2>1, <2>2, <2>3 DEF Typed, TypeOK
<1> QED BY <1>1, WellTyped, PTL

----------------------------------------------------------------------------
(* What holds where operations do not overlap                              *)

InOperation(c) == call[c].phase \in Operations

OneAtATime == \A c, d \in Calls : InOperation(c) /\ InOperation(d) => c = d

\* No two keys have the same session.
OwnTranscripts ==
    store # Cut => \A j, k \in Keys : store[j] = store[k] /\ store[j] # None => j = k

Unused(i) == file[i] = NoFile /\ i \notin torn /\ \A k \in Keys : store[k] # i

\* A copy that is one decision away from the store.
Decided(c) ==
    LET copy == call[c].copy
        key == call[c].key
    IN  /\ store # Cut
        /\ \A k \in Keys : k # key => copy[k] = store[k]
        /\ copy[key] \in {store[key], None} \/ (copy[key] \in Ids /\ Unused(copy[key]))

\* What an operation has read is what is there.
UpToDate(c) ==
    InOperation(c) =>
        /\ Deciding(call[c].phase, call[c].at) => Decided(c)
        /\ call[c].at \in Holding[call[c].phase] /\ ~Deciding(call[c].phase, call[c].at) =>
              store # Cut /\ call[c].copy = store
        /\ At(c, "header") \/ At(c, "compact") \/ At(c, "append") =>
              call[c].records = file[call[c].copy[call[c].key]]

\* A run that waits for its agent, or records the reply, has its question in the session.
Asked(c) == \E i \in DOMAIN log[call[c].key] : log[call[c].key][i] = <<c, "user">>
QuestionsAreLogged ==
    \A c \in Calls :
        /\ call[c].phase = "prepare" /\ call[c].at = 11 => Asked(c)
        /\ call[c].phase \in {"agent", "record"} /\ c \notin renewed => Asked(c)

Alone ==
    /\ OneAtATime
    /\ OwnTranscripts
    /\ \A c \in Calls : UpToDate(c)
    /\ TranscriptIsTheLog
    /\ QuestionsAreLogged
    /\ RepliesFollowQuestions

----------------------------------------------------------------------------
(* Transcripts and logs                                                    *)

\* A transcript is the end of a log, all of it unless it was compacted.
Agrees(t, l) ==
    LET n == Len(l) - Len(t.msgs)
    IN  /\ n >= 0 /\ t.msgs = SubSeq(l, n + 1, Len(l))
        /\ IF t.compacted THEN Len(t.msgs) >= KeepRecent ELSE n = 0

\* The end of a sequence, element by element.
LEMMA EndOf ==
    ASSUME NEW S, NEW s \in Seq(S), NEW l \in Seq(S), Len(s) <= Len(l)
    PROVE  s = SubSeq(l, Len(l) - Len(s) + 1, Len(l))
              <=> \A i \in 1..Len(s) : s[i] = l[Len(l) - Len(s) + i]
<1> DEFINE n == Len(l) - Len(s)
<1> DEFINE e == SubSeq(l, n + 1, Len(l))
<1>1. n \in Nat /\ Len(l) \in Nat /\ Len(s) \in Nat /\ Len(l) = n + Len(s)
  BY LenProperties
<1>2. \A i \in (n + 1)..Len(l) : l[i] \in S
  BY <1>1, ElementOfSeq
<1>3. /\ e \in Seq(S)
      /\ Len(e) = IF n + 1 <= Len(l) THEN Len(l) - (n + 1) + 1 ELSE 0
      /\ \A i \in 1..(Len(l) - (n + 1) + 1) : e[i] = l[n + 1 + i - 1]
  BY <1>1, <1>2, SubSeqProperties
<1>4. Len(e) = Len(s)
  BY <1>1, <1>3
<1>5. \A i \in 1..Len(s) : e[i] = l[n + i]
  BY <1>1, <1>3
<1> HIDE DEF e
<1>6. (\A i \in 1..Len(s) : s[i] = e[i]) => s = e
  BY <1>3, <1>4, SeqEqual
<1>7. s = e <=> \A i \in 1..Len(s) : s[i] = l[n + i]
  BY <1>5, <1>6
<1> QED BY <1>7 DEF e

\* A new session's transcript and log.
LEMMA AgreesAtFirst == Agrees(NoFile, <<>>)
<1>1. <<>> = SubSeq(<<>>, 1, 0)
  BY SubSeqEmpty
<1> QED BY <1>1 DEF Agrees, NoFile

\* The header is no message.
LEMMA AgreesWithHeader ==
    ASSUME NEW t \in Transcripts, NEW l, Agrees(t, l)
    PROVE  Agrees(WithHeader(t), l)
<1>1. WithHeader(t).msgs = t.msgs /\ WithHeader(t).compacted = t.compacted
  BY DEF WithHeader, Transcripts
<1> QED BY <1>1 DEF Agrees

\* A message is appended to both.
LEMMA AgreesAppended ==
    ASSUME NEW t \in Transcripts, NEW l \in Seq(Messages), Agrees(t, l), NEW m \in Messages
    PROVE  Agrees([WithHeader(t) EXCEPT !.msgs = Append(@, m)], Append(l, m))
<1> DEFINE u == [WithHeader(t) EXCEPT !.msgs = Append(@, m)]
<1> DEFINE s == t.msgs
<1>1. s \in Seq(Messages) /\ u.msgs = Append(s, m) /\ u.compacted = t.compacted
  BY DEF WithHeader, Transcripts
<1>2. Len(s) \in Nat /\ Len(l) \in Nat /\ Len(s) <= Len(l)
  BY <1>1 DEF Agrees
<1>3. \A i \in 1..Len(s) : s[i] = l[Len(l) - Len(s) + i]
  BY <1>1, <1>2, EndOf DEF Agrees
<1>4. /\ Append(s, m) \in Seq(Messages) /\ Len(Append(s, m)) = Len(s) + 1
      /\ \A i \in 1..Len(s) : Append(s, m)[i] = s[i]
      /\ Append(s, m)[Len(s) + 1] = m
  BY <1>1, AppendProperties
<1>5. /\ Append(l, m) \in Seq(Messages) /\ Len(Append(l, m)) = Len(l) + 1
      /\ \A i \in 1..Len(l) : Append(l, m)[i] = l[i]
      /\ Append(l, m)[Len(l) + 1] = m
  BY AppendProperties
<1> DEFINE sm == Append(s, m)
<1> DEFINE lm == Append(l, m)
<1> HIDE DEF sm, lm, s
<1>6. ASSUME NEW i \in 1..Len(sm) PROVE sm[i] = lm[Len(lm) - Len(sm) + i]
  <2>1. CASE i \in 1..Len(s)
    BY <1>2, <1>3, <1>4, <1>5, <2>1 DEF sm, lm
  <2>2. CASE i = Len(s) + 1
    BY <1>2, <1>4, <1>5, <2>2 DEF sm, lm
  <2> QED BY <1>2, <1>4, <2>1, <2>2 DEF sm
<1>7. sm \in Seq(Messages) /\ lm \in Seq(Messages) /\ Len(sm) <= Len(lm)
      /\ Len(sm) = Len(s) + 1 /\ Len(lm) = Len(l) + 1
  BY <1>2, <1>4, <1>5 DEF sm, lm
<1>8. sm = SubSeq(lm, Len(lm) - Len(sm) + 1, Len(lm))
  BY <1>6, <1>7, EndOf
<1>9. IF t.compacted THEN Len(s) >= KeepRecent ELSE Len(l) - Len(s) = 0
  BY DEF Agrees, s
<1> HIDE DEF u
<1>10. u.msgs = sm /\ u.compacted = t.compacted
  BY <1>1 DEF sm, s
<1>11. Agrees(u, lm)
  <2>1. Len(lm) - Len(u.msgs) >= 0
    BY <1>2, <1>7, <1>10
  <2>2. u.msgs = SubSeq(lm, Len(lm) - Len(u.msgs) + 1, Len(lm))
    BY <1>8, <1>10
  <2>3. IF u.compacted THEN Len(u.msgs) >= KeepRecent ELSE Len(lm) - Len(u.msgs) = 0
    BY <1>2, <1>7, <1>9, <1>10
  <2> QED BY <2>1, <2>2, <2>3 DEF Agrees
<1> QED BY <1>11 DEF u, lm

\* The messages that a compaction keeps are the end of the log as well.
LEMMA AgreesCompacted ==
    ASSUME NEW t \in Transcripts, NEW l \in Seq(Messages), Agrees(t, l), MayCompact(t)
    PROVE  Agrees(Compacted(t), l)
<1> DEFINE s == t.msgs
<1> DEFINE kept == SubSeq(s, Len(s) - KeepRecent + 1, Len(s))
<1>1. s \in Seq(Messages) /\ Len(s) \in Nat /\ Len(l) \in Nat /\ Len(s) <= Len(l)
  BY DEF Agrees, Transcripts
<1>2. \A i \in 1..Len(s) : s[i] = l[Len(l) - Len(s) + i]
  BY <1>1, EndOf DEF Agrees
<1>3. Len(s) > KeepRecent
  BY DEF MayCompact
<1>4. \A i \in (Len(s) - KeepRecent + 1)..Len(s) : s[i] \in Messages
  BY <1>1, <1>3, ElementOfSeq
<1>5. /\ kept \in Seq(Messages) /\ Len(kept) = KeepRecent
      /\ \A i \in 1..KeepRecent : kept[i] = s[Len(s) - KeepRecent + i]
  <2> HIDE DEF s
  <2>1. Len(s) - KeepRecent + 1 \in Int /\ Len(s) \in Int
    BY <1>1
  <2>2. /\ kept \in Seq(Messages)
        /\ Len(kept) = IF Len(s) - KeepRecent + 1 <= Len(s)
                       THEN Len(s) - (Len(s) - KeepRecent + 1) + 1 ELSE 0
        /\ \A i \in 1..(Len(s) - (Len(s) - KeepRecent + 1) + 1) :
              kept[i] = s[(Len(s) - KeepRecent + 1) + i - 1]
    BY <1>4, <2>1, SubSeqProperties
  <2> HIDE DEF kept
  <2> QED BY <1>1, <1>3, <2>2
<1> HIDE DEF s, kept
<1>6. \A i \in 1..Len(kept) : kept[i] = l[Len(l) - Len(kept) + i]
  BY <1>1, <1>2, <1>3, <1>5
<1>7. kept = SubSeq(l, Len(l) - Len(kept) + 1, Len(l))
  BY <1>1, <1>3, <1>5, <1>6, EndOf
<1>8. Compacted(t).msgs = kept /\ Compacted(t).compacted = TRUE
  BY DEF Compacted, kept, s
<1> DEFINE u == Compacted(t)
<1> HIDE DEF u
<1>9. u.msgs = kept /\ u.compacted = TRUE
  BY <1>8 DEF u
<1>10. Len(l) - Len(u.msgs) >= 0
  BY <1>1, <1>3, <1>5, <1>9
<1>11. u.msgs = SubSeq(l, Len(l) - Len(u.msgs) + 1, Len(l))
  BY <1>7, <1>9
<1>12. Len(u.msgs) >= KeepRecent
  BY <1>5, <1>9
<1>13. Agrees(u, l)
  BY <1>9, <1>10, <1>11, <1>12 DEF Agrees
<1> QED BY <1>13 DEF u

----------------------------------------------------------------------------
(* The operation under way                                                 *)

\* One call changes, and no operation but its own is under way.
LEMMA OneCallChanges ==
    ASSUME CallsOK(call), OneAtATime, NEW c \in Calls, NEW e,
           InOperation(c) \/ \A d \in Calls : ~InOperation(d),
           call' = [call EXCEPT ![c] = e]
    PROVE  /\ OneAtATime'
           /\ call'[c] = e
           /\ \A d \in Calls : d # c => call'[d] = call[d] /\ ~InOperation(d) /\ ~InOperation(d)'
BY DEF CallsOK, OneAtATime, InOperation

\* What the operation holds where it writes or reads a file of a session.
LEMMA WhatIsHeld ==
    ASSUME Typed, Alone, NEW c \in Calls
    PROVE  /\ At(c, "read") \/ At(c, "header") \/ At(c, "compact") \/ At(c, "append") =>
                 /\ store # Cut /\ call[c].copy = store
                 /\ store[call[c].key] \in Ids /\ call[c].key \in Keys
           /\ At(c, "persist") =>
                 /\ store # Cut /\ call[c].key \in Keys
                 /\ Deciding(call[c].phase, call[c].at) => Decided(c)
                 /\ ~Deciding(call[c].phase, call[c].at) => call[c].copy = store
<1> DEFINE p == call[c].phase
<1> DEFINE n == call[c].at
<1>1. SUFFICES ASSUME p \in Operations, n \in DOMAIN Program[p]
               PROVE  /\ Program[p][n] \in {"read", "header", "compact", "append"} =>
                            /\ store # Cut /\ call[c].copy = store
                            /\ store[call[c].key] \in Ids /\ call[c].key \in Keys
                      /\ Program[p][n] = "persist" =>
                            /\ store # Cut /\ call[c].key \in Keys
                            /\ Deciding(p, n) => Decided(c)
                            /\ ~Deciding(p, n) => call[c].copy = store
  BY InOperationFacts DEF At, Typed
<1>2. call[c].key \in Keys /\ (n \in Holding[p] => call[c].copy[call[c].key] \in Ids)
  BY <1>1, InOperationFacts DEF Typed
<1>3. /\ Deciding(p, n) => Decided(c)
      /\ n \in Holding[p] /\ ~Deciding(p, n) => store # Cut /\ call[c].copy = store
  BY <1>1 DEF Alone, UpToDate, InOperation
<1>4. Program[p][n] \in {"read", "header", "compact", "append"} =>
          n \in Holding[p] /\ ~Deciding(p, n)
  BY <1>1, Places, Holders DEF Deciding
<1>5. Program[p][n] = "persist" => n \in Holding[p] \/ Deciding(p, n)
  BY <1>1, Places, Holders DEF Deciding
<1>6. Decided(c) => store # Cut
  BY DEF Decided
<1> QED BY <1>2, <1>3, <1>4, <1>5, <1>6

\* The invariant after a step that leaves store, transcripts and logs alone.
LEMMA FilesStay ==
    ASSUME Alone, UNCHANGED <<store, file, log, renewed, torn>>
    PROVE  /\ OwnTranscripts' /\ TranscriptIsTheLog' /\ RepliesFollowQuestions'
           /\ \A c \in Calls : call'[c].key = call[c].key /\ Asked(c) => Asked(c)'
BY DEF Alone, OwnTranscripts, TranscriptIsTheLog, RepliesFollowQuestions, Asked

\* Where a call is after an await, it is in no other.
LEMMA NotInOperation ==
    ASSUME NEW c \in Calls, ~InOperation(c)'
    PROVE  UpToDate(c)'
BY DEF UpToDate

\* A call that is over, of new, or waits for its agent is in no operation.
LEMMA RestPhases ==
    /\ Over.phase \notin Operations /\ Over.phase = "over" /\ Over.key = None
    /\ "agent" \notin Operations /\ "new" \notin Operations /\ "over" \notin Operations
    /\ Over.phase \notin {"prepare", "agent", "record"}
BY Lengths DEF Over

----------------------------------------------------------------------------
(* Calls begin and end                                                     *)

\* A call begins when no other is in the middle of its operation.
LEMMA BeginAlone ==
    ASSUME Exclusive, Typed, Alone, NEW c \in Calls, NEW operation \in Operations,
           NEW k \in Keys, Begin(c, operation, k)
    PROVE  Alone'
<1> DEFINE e == [Over EXCEPT !.phase = operation, !.at = 1, !.key = k]
<1>1. CallsOK(call) /\ OneAtATime /\ \A d \in Calls : ~InOperation(d)
  BY DEF Typed, Alone, Begin, MayBegin, InOperation
<1>2. call' = [call EXCEPT ![c] = e] /\ UNCHANGED <<store, file, log, renewed, torn>>
  BY DEF Begin
<1>3. e.phase = operation /\ e.at = 1
  BY DEF Over
<1> HIDE DEF e
<1>4. /\ OneAtATime' /\ call'[c] = e
      /\ \A d \in Calls : d # c => call'[d] = call[d] /\ ~InOperation(d)'
  BY <1>1, <1>2, OneCallChanges
<1>5. ~Deciding(operation, 1) /\ 1 \notin Holding[operation] /\ 1 \in DOMAIN Program[operation]
  BY Holders, Lengths DEF Deciding
<1>6. Program[operation][1] \notin {"header", "compact", "append"}
  BY <1>5, Places
<1>7. UpToDate(c)'
  BY <1>3, <1>4, <1>5, <1>6 DEF UpToDate, At
<1>8. \A d \in Calls : UpToDate(d)'
  BY <1>4, <1>7, NotInOperation
<1>9. QuestionsAreLogged'
  <2>1. operation \notin {"agent", "record"}
    BY Lengths DEF Begin
  <2> QED BY <1>2, <1>3, <1>4, <2>1, FilesStay DEF QuestionsAreLogged, Alone
<1> QED BY <1>2, <1>4, <1>8, <1>9, FilesStay DEF Alone

\* A run whose agent answered records from the start.
LEMMA AgentAnswersAlone ==
    ASSUME Exclusive, Typed, Alone, NEW c \in Calls, AgentAnswers(c)
    PROVE  Alone'
<1> DEFINE e == [call[c] EXCEPT !.phase = "record", !.at = 1]
<1>1. CallsOK(call) /\ OneAtATime /\ \A d \in Calls : ~InOperation(d)
  BY DEF Typed, Alone, AgentAnswers, MayBegin, InOperation
<1>2. call' = [call EXCEPT ![c] = e] /\ UNCHANGED <<store, file, log, renewed, torn>>
  BY <1>1 DEF AgentAnswers, CallsOK
<1>3. e.phase = "record" /\ e.at = 1 /\ e.key = call[c].key
  BY <1>1 DEF CallsOK, Entries
<1> HIDE DEF e
<1>4. /\ OneAtATime' /\ call'[c] = e
      /\ \A d \in Calls : d # c => call'[d] = call[d] /\ ~InOperation(d)'
  BY <1>1, <1>2, OneCallChanges
<1>5. ~Deciding("record", 1) /\ 1 \notin Holding["record"] /\ 1 \in DOMAIN Program["record"]
  BY Holders, Lengths DEF Deciding
<1>6. Program["record"][1] \notin {"header", "compact", "append"}
  BY <1>5, Places, Lengths
<1>7. UpToDate(c)'
  BY <1>3, <1>4, <1>5, <1>6 DEF UpToDate, At
<1>8. \A d \in Calls : UpToDate(d)'
  BY <1>4, <1>7, NotInOperation
<1>9. QuestionsAreLogged'
  BY <1>2, <1>3, <1>4, FilesStay DEF QuestionsAreLogged, Alone, AgentAnswers
<1> QED BY <1>2, <1>4, <1>8, <1>9, FilesStay DEF Alone

\* A call that ends, having changed nothing, or that did what is said of it elsewhere.
LEMMA CallEnds ==
    ASSUME Typed, Alone, NEW c \in Calls, call' = [call EXCEPT ![c] = Over]
    PROVE  /\ OneAtATime'
           /\ ~InOperation(c)'
           /\ \A d \in Calls : d # c => call'[d] = call[d]
           /\ InOperation(c) => \A d \in Calls : UpToDate(d)'
           /\ UNCHANGED <<log, renewed>> => QuestionsAreLogged'
<1>1. /\ call'[c] = Over /\ \A d \in Calls : d # c => call'[d] = call[d]
  BY DEF Typed, CallsOK
<1>2. ~InOperation(c)'
  BY <1>1, RestPhases DEF InOperation
<1>3. OneAtATime'
  BY <1>1, <1>2 DEF Alone, OneAtATime, InOperation
<1>4. InOperation(c) => \A d \in Calls : UpToDate(d)'
  BY <1>1, <1>2, NotInOperation DEF Alone, OneAtATime, InOperation
<1>5. UNCHANGED <<log, renewed>> => QuestionsAreLogged'
  BY <1>1, RestPhases DEF Alone, QuestionsAreLogged, Asked
<1> QED BY <1>1, <1>2, <1>3, <1>4, <1>5

\* An operation that ends leaves nothing half done.
LEMMA EndsAlone ==
    ASSUME Typed, Alone, NEW c \in Calls,
           call' = [call EXCEPT ![c] = Over], UNCHANGED <<store, file, log, renewed, torn>>
    PROVE  Alone'
<1>1. \A d \in Calls : UpToDate(d)'
  <2>1. \A d \in Calls : d # c => call'[d] = call[d]
    BY CallEnds
  <2>2. \A d \in Calls : d # c => UpToDate(d)'
    BY <2>1 DEF Alone, UpToDate, InOperation, Decided, Unused, At
  <2> QED BY <2>2, CallEnds, NotInOperation
<1> QED BY <1>1, CallEnds, FilesStay DEF Alone

----------------------------------------------------------------------------
(* Stages that read                                                        *)

\* What a call is when it goes on: at the next await, or behind the last one.
LEMMA ContinueFacts ==
    ASSUME NEW e \in Entries, e.phase \in Operations, e.key \in Keys, NEW n \in Nat \ {0}
    PROVE  /\ n \in DOMAIN Program[e.phase] =>
                 /\ Continue(e, n).phase = e.phase /\ Continue(e, n).at = n
                 /\ Continue(e, n).key = e.key /\ Continue(e, n).copy = e.copy
                 /\ Continue(e, n).records = e.records
           /\ n \notin DOMAIN Program[e.phase] /\ e.phase # "prepare" => Continue(e, n) = Over
           /\ n \notin DOMAIN Program[e.phase] /\ e.phase = "prepare" =>
                 Continue(e, n).phase = "agent" /\ Continue(e, n).key = e.key
<1>1. n \in DOMAIN Program[e.phase] <=> n <= Len(Program[e.phase])
  BY Lengths
<1>2. CASE n \in DOMAIN Program[e.phase]
  BY <1>1, <1>2 DEF Continue, Entries
<1>3. CASE n \notin DOMAIN Program[e.phase]
  BY <1>1, <1>3 DEF Continue, Over
<1> QED BY <1>2, <1>3

\* A stage after which the files are as before.
LEMMA StageAlone ==
    ASSUME Typed, Alone, NEW c \in Calls, InOperation(c), NEW e, call' = [call EXCEPT ![c] = e],
           UNCHANGED <<store, file, log, renewed, torn>>,
           UpToDate(c)',
           e.phase = "prepare" /\ e.at = 11 => Asked(c)',
           e.phase \in {"agent", "record"} /\ c \notin renewed => Asked(c)'
    PROVE  Alone'
<1>1. /\ OneAtATime' /\ call'[c] = e
      /\ \A d \in Calls : d # c => call'[d] = call[d] /\ ~InOperation(d)'
  BY OneCallChanges DEF Typed, Alone
<1>2. \A d \in Calls : UpToDate(d)'
  BY <1>1, NotInOperation
<1>3. \A d \in Calls : d # c /\ Asked(d) => Asked(d)'
  BY <1>1, FilesStay
<1>4. QuestionsAreLogged'
  BY <1>1, <1>3 DEF QuestionsAreLogged, Alone
<1> QED BY <1>1, <1>2, <1>4, FilesStay DEF Alone

\* What is read is what is there, since nobody else is at work.
LEMMA ReadStoreAlone ==
    ASSUME Typed, Alone, NEW c \in Calls, ReadStore(c)
    PROVE  Alone'
<1> DEFINE k == call[c].key
<1> DEFINE p == call[c].phase
<1>1. /\ call[c] \in Entries /\ p \in Operations /\ k \in Keys /\ c \in DOMAIN call
      /\ call[c].at \in DOMAIN Program[p]
  BY InOperationFacts DEF Typed, CallsOK, ReadStore, At
<1>2. call[c].at = 1 /\ p \in {"prepare", "open", "reset", "remove", "rename"}
  BY <1>1, Places DEF ReadStore, At
<1>3. store \in Stores /\ store # Cut /\ UNCHANGED <<store, file, log, renewed, torn>>
  BY DEF Typed, ReadStore, Readable
<1>4. PICK copy \in Decisions(c, store) :
          call' = [call EXCEPT ![c] = Continue([@ EXCEPT !.copy = copy], Skip(c, 1))]
  BY DEF ReadStore, Readable
<1>5. /\ \A j \in Keys : j # k => copy[j] = store[j]
      /\ copy[k] \in {store[k], None} \/ (copy[k] \in Ids /\ Unused(copy[k]))
  <2>1. \A i \in Fresh : i \in Ids /\ Unused(i)
    BY <1>3 DEF Fresh, Unused
  <2>2. \/ copy = store
        \/ \E i \in Fresh : copy = [store EXCEPT ![k] = i]
        \/ copy = [store EXCEPT ![k] = None]
    <3>1. CASE p \in {"prepare", "open"}
      BY <1>4, <3>1 DEF Decisions
    <3>2. CASE p = "reset"
      BY <1>4, <3>2 DEF Decisions
    <3>3. CASE p = "rename"
      BY <1>4, <3>3 DEF Decisions
    <3>4. CASE p = "remove"
      BY <1>4, <3>4 DEF Decisions
    <3> QED BY <1>2, <3>1, <3>2, <3>3, <3>4
  <2> QED BY <1>1, <1>3, <2>1, <2>2 DEF Stores
<1> DEFINE e == [call[c] EXCEPT !.copy = copy]
<1>6. e.phase = p /\ e.key = k /\ e.copy = copy
  BY <1>1 DEF Entries
<1>7. call' = [call EXCEPT ![c] = Continue(e, 2)]
  BY <1>1, <1>2, <1>4 DEF Skip
<1>8. e \in Entries
  <2>1. copy \in Stores
    <3>1. \A i \in Fresh \cup {None} : [store EXCEPT ![k] = i] \in Stores
      BY <1>3 DEF Fresh, Stores
    <3> QED BY <1>2, <1>3, <1>4, <3>1 DEF Decisions
  <2> QED BY <1>1, <2>1 DEF Entries
<1> HIDE DEF e
<1>9. 2 \in DOMAIN Program[p] /\ Deciding(p, 2)
  BY <1>2, Lengths DEF Deciding
<1> DEFINE f == Continue(e, 2)
<1>10. f.phase = p /\ f.at = 2 /\ f.key = k /\ f.copy = copy
  BY <1>1, <1>6, <1>8, <1>9, ContinueFacts
<1>11. call'[c] = f
  BY <1>1, <1>7
<1> HIDE DEF f
<1>12. Decided(c)'
  BY <1>3, <1>5, <1>10, <1>11 DEF Decided, Unused
<1>13. Program[p][2] \notin {"header", "compact", "append"}
  BY <1>1, <1>9, Places
<1>14. UpToDate(c)'
  BY <1>9, <1>10, <1>11, <1>12, <1>13 DEF UpToDate, At
<1>15. f.phase \notin {"agent", "record"} /\ f.at # 11
  BY <1>2, <1>10
<1>16. call' = [call EXCEPT ![c] = f] /\ InOperation(c)
  BY <1>1, <1>7 DEF f, InOperation
<1> QED BY <1>3, <1>14, <1>15, <1>16, StageAlone

\* A store that is read again is the same one.
LEMMA ReloadAlone ==
    ASSUME Typed, Alone, NEW c \in Calls, Reload(c)
    PROVE  Alone'
<1> DEFINE n == call[c].at
<1> DEFINE p == call[c].phase
<1> DEFINE k == call[c].key
<1> DEFINE e == [call[c] EXCEPT !.copy = store]
<1>1. /\ call[c] \in Entries /\ p \in Operations /\ k \in Keys /\ c \in DOMAIN call
      /\ n \in DOMAIN Program[p] /\ n \in Nat \ {0} /\ Program[p][n] = "reload"
      /\ n \in Holding[p] => call[c].copy[k] \in Ids
      /\ InOperation(c)
  BY InOperationFacts DEF Typed, CallsOK, Reload, At, InOperation
<1>2. \/ p = "prepare" /\ n = 8
      \/ p = "record" /\ n \in {1, 5}
      \/ p = "compact" /\ n = 1
  BY <1>1, Places
<1>3. store \in Stores /\ store # Cut /\ UNCHANGED <<store, file, log, renewed, torn>>
  BY DEF Typed, Reload, Readable
<1>4. p = "record" /\ c \notin renewed => Asked(c)
  BY DEF Alone, QuestionsAreLogged
<1>5. CASE store[k] # None
  <2>1. e \in Entries /\ e.phase = p /\ e.key = k /\ e.copy = store
    BY <1>1, <1>3 DEF Entries
  <2>2. call' = [call EXCEPT ![c] = Continue(e, n + 1)]
    BY <1>1, <1>5 DEF Reload, Readable, Skip
  <2> HIDE DEF e
  <2>3. n + 1 \in DOMAIN Program[p] /\ n + 1 \in Nat \ {0} /\ ~Deciding(p, n + 1)
    BY <1>2, Lengths DEF Deciding
  <2> DEFINE f == Continue(e, n + 1)
  <2>4. f.phase = p /\ f.at = n + 1 /\ f.key = k /\ f.copy = store
    BY <1>1, <2>1, <2>3, ContinueFacts
  <2>5. call' = [call EXCEPT ![c] = f] /\ call'[c] = f
    BY <1>1, <2>2
  <2> HIDE DEF f
  <2>6. Program[p][n + 1] \notin {"header", "compact", "append"}
    BY <1>1, <1>2, <2>3, Places
  <2>7. UpToDate(c)'
    BY <1>3, <2>3, <2>4, <2>5, <2>6 DEF UpToDate, At
  <2>8. Asked(c) => Asked(c)'
    BY <1>3, <2>4, <2>5, FilesStay
  <2>9. ~(f.phase = "prepare" /\ f.at = 11) /\ f.phase # "agent"
    BY <1>2, <2>4
  <2> QED BY <1>1, <1>3, <1>4, <2>4, <2>5, <2>7, <2>8, <2>9, StageAlone
<1>6. CASE store[k] = None
  <2>1. call' = [call EXCEPT ![c] = Continue(call[c], n + 4)]
    BY <1>1, <1>6 DEF Reload, Readable, Skip
  <2>2. p # "prepare"
    <3>1. SUFFICES ASSUME p = "prepare" PROVE FALSE
      OBVIOUS
    <3>2. n \in Holding[p] /\ ~Deciding(p, n)
      BY <1>1, <1>2, <3>1, Holders DEF Deciding
    <3>3. call[c].copy = store
      BY <1>1, <3>2 DEF Alone, UpToDate
    <3> QED BY <1>1, <1>6, <3>2, <3>3, NoneAssumption
  <2> DEFINE f == Continue(call[c], n + 4)
  <2>3. n + 4 \in Nat \ {0}
    BY <1>1
  <2>4. CASE p = "record" /\ n = 1
    <3>1. n + 4 = 5 /\ 5 \in DOMAIN Program[p] /\ ~Deciding(p, 5) /\ 5 \notin Holding[p]
      BY <2>4, Lengths, Holders DEF Deciding
    <3>2. f.phase = p /\ f.at = 5 /\ f.key = k
      BY <1>1, <2>3, <3>1, ContinueFacts
    <3>3. call' = [call EXCEPT ![c] = f] /\ call'[c] = f
      BY <1>1, <2>1
    <3> HIDE DEF f
    <3>4. Program[p][5] \notin {"header", "compact", "append"}
      BY <1>1, <2>4, <3>1, Places
    <3>5. UpToDate(c)'
      BY <3>1, <3>2, <3>3, <3>4 DEF UpToDate, At
    <3>6. Asked(c) => Asked(c)'
      BY <1>3, <3>2, <3>3, FilesStay
    <3> QED BY <1>1, <1>3, <1>4, <2>4, <3>2, <3>3, <3>5, <3>6, StageAlone
  <2>5. CASE ~(p = "record" /\ n = 1)
    <3>1. n + 4 \notin DOMAIN Program[p]
      BY <1>2, <2>2, <2>5, Lengths
    <3>2. f = Over
      BY <1>1, <2>2, <2>3, <3>1, ContinueFacts
    <3> QED BY <1>3, <2>1, <3>2, EndsAlone
  <2> QED BY <2>4, <2>5
<1> QED BY <1>5, <1>6

\* Nor does one that throws.
LEMMA ThrowsAlone ==
    ASSUME Typed, Alone, NEW c \in Calls, Throws(c) \/ AgentFails(c)
    PROVE  Alone'
BY EndsAlone DEF Throws, AgentFails

\* The records that are read are those the file has.
LEMMA ReadTranscriptAlone ==
    ASSUME Typed, Alone, NEW c \in Calls, ReadTranscript(c)
    PROVE  Alone'
<1> DEFINE n == call[c].at
<1> DEFINE p == call[c].phase
<1> DEFINE k == call[c].key
<1> DEFINE r == file[call[c].copy[k]]
<1> DEFINE e == [call[c] EXCEPT !.records = r]
<1>1. /\ call[c] \in Entries /\ p \in Operations /\ k \in Keys /\ c \in DOMAIN call
      /\ n \in DOMAIN Program[p] /\ n \in Nat \ {0} /\ Program[p][n] = "read"
      /\ InOperation(c)
  BY InOperationFacts DEF Typed, CallsOK, ReadTranscript, At, InOperation
<1>2. \/ p = "prepare" /\ n \in {3, 5, 9}
      \/ p = "open" /\ n \in {3, 5}
      \/ p = "record" /\ n \in {2, 6}
      \/ p = "reset" /\ n = 3
      \/ p = "compact" /\ n = 2
  BY <1>1, Places
<1>3. UNCHANGED <<store, file, log, renewed, torn>>
  BY DEF ReadTranscript
<1>4. store # Cut /\ call[c].copy = store /\ store[k] \in Ids
  BY WhatIsHeld DEF ReadTranscript
<1>5. r \in Transcripts
  BY <1>4 DEF Typed
<1>6. e \in Entries /\ e.phase = p /\ e.key = k /\ e.copy = store /\ e.records = r
  BY <1>1, <1>4, <1>5 DEF Entries
<1>7. call' = [call EXCEPT ![c] = Continue(e, n + 1)]
  BY <1>1 DEF ReadTranscript, Skip
<1> HIDE DEF e
<1>8. n + 1 \in DOMAIN Program[p] /\ n + 1 \in Nat \ {0} /\ ~Deciding(p, n + 1)
  BY <1>2, Lengths DEF Deciding
<1> DEFINE f == Continue(e, n + 1)
<1>9. f.phase = p /\ f.at = n + 1 /\ f.key = k /\ f.copy = store /\ f.records = r
  BY <1>1, <1>6, <1>8, ContinueFacts
<1>10. call' = [call EXCEPT ![c] = f] /\ call'[c] = f
  BY <1>1, <1>7
<1> HIDE DEF f
<1>11. UpToDate(c)'
  BY <1>3, <1>4, <1>8, <1>9, <1>10 DEF UpToDate
<1>12. Asked(c) => Asked(c)'
  BY <1>3, <1>9, <1>10, FilesStay
<1>13. ~(f.phase = "prepare" /\ f.at = 11) /\ f.phase # "agent"
  BY <1>2, <1>9
<1>14. f.phase = "record" /\ c \notin renewed => Asked(c)
  BY <1>9 DEF Alone, QuestionsAreLogged
<1> QED BY <1>1, <1>3, <1>10, <1>11, <1>12, <1>13, <1>14, StageAlone

\* Nothing is written: the header is there, or no compaction is due.
LEMMA LeaveTranscriptAlone ==
    ASSUME Typed, Alone, NEW c \in Calls, LeaveTranscript(c)
    PROVE  Alone'
<1> DEFINE n == call[c].at
<1> DEFINE p == call[c].phase
<1> DEFINE m == IF At(c, "compact") THEN n + 2 ELSE n + 1
<1>1. /\ call[c] \in Entries /\ p \in Operations /\ call[c].key \in Keys /\ c \in DOMAIN call
      /\ n \in DOMAIN Program[p] /\ n \in Nat \ {0} /\ Program[p][n] \in {"header", "compact"}
      /\ InOperation(c)
  BY InOperationFacts DEF Typed, CallsOK, LeaveTranscript, At, InOperation
<1>2. \/ p \in {"prepare", "open", "reset"} /\ n = 4 /\ m = 5
      \/ p \in {"prepare", "open"} /\ n = 6 /\ m = 8
      \/ p = "record" /\ n = 7 /\ m = 9
      \/ p = "compact" /\ n = 3 /\ m = 5
  BY <1>1, Places DEF At
<1>3. UNCHANGED <<store, file, log, renewed, torn>>
  BY DEF LeaveTranscript
<1>4. store # Cut /\ call[c].copy = store
  BY WhatIsHeld DEF LeaveTranscript
<1> DEFINE f == Continue(call[c], m)
<1>5. call' = [call EXCEPT ![c] = f] /\ call'[c] = f
  BY <1>1 DEF LeaveTranscript, Skip
<1> HIDE DEF m
<1>6. m \in Nat \ {0}
  BY <1>2
<1>7. CASE m \in DOMAIN Program[p]
  <2>1. m \in {5, 8} /\ p \in {"prepare", "open"} /\ ~Deciding(p, m)
    BY <1>2, <1>7, Lengths DEF Deciding
  <2>2. f.phase = p /\ f.at = m /\ f.copy = store
    BY <1>1, <1>4, <1>6, <1>7, ContinueFacts
  <2> HIDE DEF f
  <2>3. Program[p][m] \notin {"header", "compact", "append"}
    BY <1>1, <1>7, <2>1, Places
  <2>4. UpToDate(c)'
    BY <1>3, <1>4, <1>5, <1>7, <2>1, <2>2, <2>3 DEF UpToDate, At
  <2>5. f.at # 11 /\ f.phase \notin {"agent", "record"}
    BY <2>1, <2>2
  <2> QED BY <1>1, <1>3, <1>5, <2>4, <2>5, StageAlone
<1>8. CASE m \notin DOMAIN Program[p]
  <2>1. p # "prepare"
    BY <1>2, <1>8, Lengths
  <2>2. f = Over
    BY <1>1, <1>6, <1>8, <2>1, ContinueFacts
  <2> QED BY <1>3, <1>5, <2>2, EndsAlone
<1> QED BY <1>7, <1>8

----------------------------------------------------------------------------
(* Stages that write                                                       *)

\* The decision is written over the very store it was made on.
LEMMA PersistAlone ==
    ASSUME Typed, Alone, NEW c \in Calls, Persist(c)
    PROVE  Alone'
<1> DEFINE n == call[c].at
<1> DEFINE p == call[c].phase
<1> DEFINE key == call[c].key
<1> DEFINE copy == call[c].copy
<1> DEFINE changed == {k \in Keys : store = Cut \/ copy[k] # store[k]}
<1>1. /\ call[c] \in Entries /\ p \in Operations /\ key \in Keys /\ c \in DOMAIN call
      /\ n \in DOMAIN Program[p] /\ n \in Nat \ {0} /\ Program[p][n] = "persist"
      /\ InOperation(c) /\ copy \in Stores
  BY InOperationFacts DEF Typed, CallsOK, Persist, At, InOperation
<1>2. \/ Deciding(p, n)
      \/ p = "prepare" /\ n \in {7, 11}
      \/ p = "open" /\ n = 7
      \/ p = "record" /\ n \in {4, 8}
      \/ p = "compact" /\ n = 4
  BY <1>1, Places
<1>3. /\ store # Cut
      /\ Deciding(p, n) => Decided(c)
      /\ ~Deciding(p, n) => copy = store
  BY WhatIsHeld DEF Persist
<1>4. /\ \A k \in Keys : k # key => copy[k] = store[k]
      /\ copy[key] \in {store[key], None} \/ (copy[key] \in Ids /\ Unused(copy[key]))
  BY <1>3 DEF Decided
<1>5. copy # Cut
  BY <1>1, NoneAssumption DEF Stores
<1>6. /\ store' = copy /\ UNCHANGED <<file, torn>>
      /\ log' = [k \in Keys |-> IF k \in changed THEN <<>> ELSE log[k]]
      /\ renewed' = renewed \cup {r \in Calls : call[r].phase \in {"agent", "record"}
                                                /\ call[r].key \in changed}
  BY DEF Persist
<1>7. changed \subseteq {key} /\ (~Deciding(p, n) => changed = {})
  BY <1>3, <1>4
<1> DEFINE f == Continue(call[c], n + 1)
<1>8. call' = [call EXCEPT ![c] = f] /\ call'[c] = f
  BY <1>1 DEF Persist, Skip
<1>9. n + 1 \in Nat \ {0}
  BY <1>1
<1>10. /\ OneAtATime'
       /\ \A d \in Calls : d # c => call'[d] = call[d] /\ ~InOperation(d) /\ ~InOperation(d)'
  BY <1>1, <1>8, OneCallChanges DEF Typed, Alone
<1>11. n + 1 \in DOMAIN Program[p] =>
          /\ f.phase = p /\ f.at = n + 1 /\ f.key = key /\ f.copy = copy
  BY <1>1, <1>9, ContinueFacts
<1>12. n + 1 \notin DOMAIN Program[p] =>
          \/ p # "prepare" /\ f = Over
          \/ p = "prepare" /\ n = 11 /\ f.phase = "agent" /\ f.key = key
  <2>1. p = "prepare" /\ n + 1 \notin DOMAIN Program[p] => n = 11
    BY <1>2, Lengths DEF Deciding
  <2> QED BY <1>1, <1>9, <2>1, ContinueFacts
<1> HIDE DEF f, changed
<1>13. OwnTranscripts'
  <2>1. \A j, k \in Keys : store[j] = store[k] /\ store[j] # None => j = k
    BY <1>3 DEF Alone, OwnTranscripts
  <2>2. \A j, k \in Keys : copy[j] = copy[k] /\ copy[j] # None => j = k
    BY <1>4, <2>1 DEF Unused
  <2> QED BY <1>6, <2>2 DEF OwnTranscripts
<1>14. \A d \in Calls : UpToDate(d)'
  <2>1. CASE n + 1 \in DOMAIN Program[p]
    <3>1. ~Deciding(p, n + 1)
      BY <1>2 DEF Deciding
    <3>2. Program[p][n + 1] \notin {"header", "compact", "append"}
      BY <1>1, <1>2, <2>1, Places DEF Deciding
    <3>3. UpToDate(c)'
      BY <1>5, <1>6, <1>8, <1>11, <2>1, <3>1, <3>2 DEF UpToDate, At
    <3> QED BY <1>10, <3>3, NotInOperation
  <2>2. CASE n + 1 \notin DOMAIN Program[p]
    <3>1. ~InOperation(c)'
      BY <1>8, <1>12, <2>2, RestPhases DEF InOperation
    <3> QED BY <1>10, <3>1, NotInOperation
  <2> QED BY <2>1, <2>2
<1>15. TranscriptIsTheLog'
  <2> SUFFICES ASSUME NEW k \in Keys, copy[k] # None, copy[k] \notin torn
               PROVE  Agrees(file[copy[k]], log'[k])
    BY <1>6 DEF TranscriptIsTheLog, Agrees
  <2>1. CASE k \in changed
    <3>1. k = key /\ copy[k] # store[k]
      BY <1>3, <1>7, <2>1 DEF changed
    <3>2. file[copy[k]] = NoFile
      BY <1>4, <3>1 DEF Unused
    <3>3. log'[k] = <<>>
      BY <1>6, <2>1
    <3> QED BY <3>2, <3>3, AgreesAtFirst
  <2>2. CASE k \notin changed
    <3>1. copy[k] = store[k] /\ log'[k] = log[k]
      BY <1>6, <2>2 DEF changed
    <3> QED BY <1>3, <3>1 DEF Alone, TranscriptIsTheLog, Agrees
  <2> QED BY <2>1, <2>2
<1>16. ASSUME NEW d \in Calls, call[d].key \in Keys \ changed, call'[d].key = call[d].key, Asked(d)
       PROVE  Asked(d)'
  BY <1>6, <1>16 DEF Asked
<1>17. QuestionsAreLogged'
  <2>1. ASSUME NEW d \in Calls, d # c, call[d].phase \in {"agent", "record"}, d \notin renewed'
        PROVE  Asked(d)'
    <3>1. call[d].key \in Keys
      BY <2>1, RestPhases, Lengths DEF Typed, CallsOK, EntryOK
    <3>2. d \notin renewed /\ call[d].key \notin changed
      BY <1>6, <2>1
    <3>3. Asked(d)
      BY <2>1, <3>2 DEF Alone, QuestionsAreLogged
    <3> QED BY <1>10, <1>16, <2>1, <3>1, <3>2, <3>3
  <2>2. ASSUME call'[c].phase \in {"agent", "record"}, c \notin renewed'
        PROVE  Asked(c)'
    <3>1. ~Deciding(p, n)
      BY <1>2, <1>8, <1>11, <1>12, <2>2, RestPhases DEF Deciding
    <3>2. c \notin renewed /\ key \notin changed
      BY <1>6, <1>7, <2>2, <3>1
    <3>3. call'[c].key = key
      BY <1>8, <1>11, <1>12, <2>2, RestPhases
    <3>4. Asked(c)
      BY <1>8, <1>11, <1>12, <2>2, <3>2, RestPhases DEF Alone, QuestionsAreLogged
    <3> QED BY <1>1, <1>16, <3>2, <3>3, <3>4
  <2>3. ~(call'[c].phase = "prepare" /\ call'[c].at = 11)
    BY <1>2, <1>8, <1>11, <1>12, RestPhases DEF Deciding
  <2>4. ASSUME NEW d \in Calls, d # c PROVE ~(call'[d].phase = "prepare" /\ call'[d].at = 11)
    BY <1>10, <2>4, Lengths DEF InOperation
  <2>5. \A d \in Calls : d # c => call'[d] = call[d]
    BY <1>10
  <2> QED BY <2>1, <2>2, <2>3, <2>4, <2>5 DEF QuestionsAreLogged
<1>18. RepliesFollowQuestions'
  <2>1. \A k \in Keys : log'[k] = <<>> \/ log'[k] = log[k]
    BY <1>6
  <2>2. renewed \subseteq renewed'
    BY <1>6
  <2>3. DOMAIN <<>> = {}
    OBVIOUS
  <2>4. ASSUME NEW k \in Keys, NEW j \in DOMAIN log'[k],
               log'[k][j][2] = "assistant", log'[k][j][1] \notin renewed'
        PROVE  \E i \in 1..(j - 1) : log'[k][i] = <<log'[k][j][1], "user">>
    <3>1. log'[k] = log[k]
      BY <2>1, <2>3, <2>4
    <3> QED BY <2>2, <2>4, <3>1 DEF Alone, RepliesFollowQuestions
  <2> QED BY <2>4 DEF RepliesFollowQuestions
<1> QED BY <1>10, <1>13, <1>14, <1>15, <1>17, <1>18 DEF Alone

\* Questions and replies when a transcript, and its log, gets a message.
LEMMA LogGrows ==
    ASSUME Typed, Alone, NEW c \in Calls, At(c, "append"),
           log' = [log EXCEPT ![call[c].key] = Append(@, Message(c))],
           UNCHANGED renewed
    PROVE  /\ RepliesFollowQuestions'
           /\ \A d \in Calls : call'[d].key = call[d].key /\ call[d].key \in Keys /\ Asked(d) =>
                 Asked(d)'
           /\ call'[c].key = call[c].key /\ call[c].phase = "prepare" => Asked(c)'
<1> DEFINE key == call[c].key
<1> DEFINE l == log[key]
<1> DEFINE m == Message(c)
<1>1. key \in Keys /\ l \in Seq(Messages) /\ m \in Messages
  BY WhatIsHeld DEF Typed, Message, Messages
<1>2. /\ Append(l, m) \in Seq(Messages) /\ Len(Append(l, m)) = Len(l) + 1
      /\ \A i \in 1..Len(l) : Append(l, m)[i] = l[i]
      /\ Append(l, m)[Len(l) + 1] = m
  BY <1>1, AppendProperties
<1>3. /\ Len(l) \in Nat /\ DOMAIN l = 1..Len(l) /\ DOMAIN Append(l, m) = 1..(Len(l) + 1)
  BY <1>1, <1>2, LenProperties
<1>4. log'[key] = Append(l, m) /\ \A k \in Keys : k # key => log'[k] = log[k]
  BY <1>1 DEF Typed
<1> HIDE DEF l, m
<1>5. ASSUME NEW d \in Calls, call'[d].key = call[d].key, call[d].key \in Keys, Asked(d)
      PROVE  Asked(d)'
  <2>1. CASE call[d].key = key
    <3>1. PICK i \in DOMAIN l : l[i] = <<d, "user">>
      BY <1>5, <2>1 DEF Asked, l
    <3>2. i \in DOMAIN Append(l, m) /\ Append(l, m)[i] = <<d, "user">>
      BY <1>2, <1>3, <3>1
    <3> QED BY <1>4, <1>5, <2>1, <3>2 DEF Asked
  <2>2. CASE call[d].key # key
    BY <1>4, <1>5, <2>2 DEF Asked
  <2> QED BY <2>1, <2>2
<1>6. ASSUME call'[c].key = call[c].key, call[c].phase = "prepare"
      PROVE  Asked(c)'
  <2>1. m = <<c, "user">>
    BY <1>6 DEF m, Message
  <2>2. Len(l) + 1 \in DOMAIN Append(l, m)
    BY <1>3
  <2> QED BY <1>2, <1>4, <1>6, <2>1, <2>2 DEF Asked
<1>7. ASSUME NEW k \in Keys, NEW j \in DOMAIN log'[k],
             log'[k][j][2] = "assistant", log'[k][j][1] \notin renewed
      PROVE  \E i \in 1..(j - 1) : log'[k][i] = <<log'[k][j][1], "user">>
  <2>1. CASE k # key
    <3>1. log'[k] = log[k]
      BY <1>4, <2>1
    <3> QED BY <1>7, <3>1 DEF Alone, RepliesFollowQuestions
  <2>2. CASE k = key /\ j \in 1..Len(l)
    <3>1. log'[k][j] = l[j] /\ j \in DOMAIN log[k] /\ l = log[k]
      BY <1>2, <1>3, <1>4, <2>2 DEF l
    <3>2. PICK i \in 1..(j - 1) : l[i] = <<l[j][1], "user">>
      BY <1>7, <3>1 DEF Alone, RepliesFollowQuestions
    <3>3. i \in 1..Len(l)
      BY <1>3, <2>2, <3>2
    <3>4. log'[k][i] = l[i]
      BY <1>2, <1>4, <2>2, <3>3
    <3> QED BY <3>1, <3>2, <3>4
  <2>3. CASE k = key /\ j = Len(l) + 1
    <3>1. log'[k][j] = m
      BY <1>2, <1>4, <2>3
    <3>2. call[c].phase = "record" /\ m = <<c, "assistant">>
      BY <1>7, <3>1 DEF m, Message
    <3>3. c \notin renewed
      BY <1>7, <3>1, <3>2
    <3>4. Asked(c)
      BY <3>2, <3>3 DEF Alone, QuestionsAreLogged
    <3>5. PICK i \in DOMAIN l : l[i] = <<c, "user">>
      BY <3>4 DEF Asked, l
    <3>6. i \in 1..(j - 1) /\ log'[k][i] = l[i]
      BY <1>2, <1>3, <1>4, <2>3, <3>5
    <3> QED BY <3>1, <3>2, <3>5, <3>6
  <2>4. k = key => j \in 1..Len(l) \/ j = Len(l) + 1
    <3>1. k = key => j \in 1..(Len(l) + 1)
      BY <1>3, <1>4, <1>7
    <3> QED BY <1>3, <3>1
  <2> QED BY <2>1, <2>2, <2>3, <2>4
<1>8. RepliesFollowQuestions'
  BY <1>7 DEF RepliesFollowQuestions
<1> QED BY <1>5, <1>6, <1>8

\* What is written to a transcript is what the log was given, or its summary.
LEMMA WriteTranscriptAlone ==
    ASSUME Typed, Alone, NEW c \in Calls, WriteTranscript(c)
    PROVE  Alone'
<1> DEFINE n == call[c].at
<1> DEFINE p == call[c].phase
<1> DEFINE key == call[c].key
<1> DEFINE r == call[c].records
<1> DEFINE id == store[key]
<1>1. /\ call[c] \in Entries /\ p \in Operations /\ key \in Keys /\ c \in DOMAIN call
      /\ n \in DOMAIN Program[p] /\ n \in Nat \ {0}
      /\ Program[p][n] \in {"header", "compact", "append"}
      /\ InOperation(c) /\ r \in Transcripts
  BY InOperationFacts DEF Typed, CallsOK, WriteTranscript, WritesTranscript, At, InOperation
<1>2. \/ p = "prepare" /\ n \in {4, 6, 10}
      \/ p = "open" /\ n \in {4, 6}
      \/ p = "reset" /\ n = 4
      \/ p = "record" /\ n \in {3, 7}
      \/ p = "compact" /\ n = 3
  BY <1>1, Places
<1>3. /\ store # Cut /\ call[c].copy = store /\ id \in Ids /\ r = file[id]
      /\ At(c, "header") \/ At(c, "compact") \/ At(c, "append")
  BY <1>1, WhatIsHeld DEF WriteTranscript, WritesTranscript, Alone, UpToDate
<1>4. /\ file' = [file EXCEPT ![id] = Written(c)] /\ UNCHANGED <<store, renewed, torn>>
      /\ log' = IF At(c, "append") THEN [log EXCEPT ![key] = Append(@, Message(c))] ELSE log
  BY <1>3 DEF WriteTranscript
<1> DEFINE f == Continue(call[c], n + 1)
<1>5. call' = [call EXCEPT ![c] = f] /\ call'[c] = f
  BY <1>1 DEF WriteTranscript, Skip
<1>6. /\ OneAtATime'
      /\ \A d \in Calls : d # c => call'[d] = call[d] /\ ~InOperation(d) /\ ~InOperation(d)'
  BY <1>1, <1>5, OneCallChanges DEF Typed, Alone
<1>7. \/ /\ n + 1 \in DOMAIN Program[p]
         /\ f.phase = p /\ f.at = n + 1 /\ f.key = key /\ f.copy = store
      \/ p = "reset" /\ f = Over
  <2>1. n + 1 \notin DOMAIN Program[p] => p = "reset"
    BY <1>2, Lengths
  <2>2. n + 1 \in Nat \ {0}
    BY <1>1
  <2> QED BY <1>1, <1>3, <2>1, <2>2, ContinueFacts
<1> HIDE DEF f
<1>8. \A d \in Calls : UpToDate(d)'
  <2>1. CASE n + 1 \in DOMAIN Program[p] /\ f.phase = p /\ f.at = n + 1 /\ f.copy = store
    <3>1. ~Deciding(p, n + 1)
      BY <1>2 DEF Deciding
    <3>2. Program[p][n + 1] \notin {"header", "compact", "append"}
      BY <1>1, <1>2, <2>1, Places
    <3>3. UpToDate(c)'
      BY <1>3, <1>4, <1>5, <2>1, <3>1, <3>2 DEF UpToDate, At
    <3> QED BY <1>6, <3>3, NotInOperation
  <2>2. CASE f = Over
    <3>1. ~InOperation(c)'
      BY <1>5, <2>2, RestPhases DEF InOperation
    <3> QED BY <1>6, <3>1, NotInOperation
  <2> QED BY <1>7, <2>1, <2>2
<1>9. OwnTranscripts'
  BY <1>4 DEF Alone, OwnTranscripts
<1>10. TranscriptIsTheLog'
  <2> SUFFICES ASSUME NEW k \in Keys, store[k] # None, store[k] \notin torn
               PROVE  Agrees(file'[store[k]], log'[k])
    BY <1>4 DEF TranscriptIsTheLog, Agrees
  <2>1. Agrees(file[store[k]], log[k])
    BY <1>3 DEF Alone, TranscriptIsTheLog, Agrees
  <2>2. CASE k = key
    <3>1. file'[store[k]] = Written(c) /\ Agrees(r, log[k]) /\ log[k] \in Seq(Messages)
      BY <1>3, <1>4, <2>1, <2>2 DEF Typed
    <3>2. CASE At(c, "header")
      <4>1. Written(c) = WithHeader(r) /\ log'[k] = log[k]
        BY <1>4, <3>2 DEF Written, At
      <4> QED BY <1>1, <3>1, <4>1, AgreesWithHeader
    <3>3. CASE At(c, "compact")
      <4>1. Written(c) = Compacted(r) /\ log'[k] = log[k] /\ MayCompact(r)
        BY <1>4, <3>3 DEF Written, At, WriteTranscript, WritesTranscript
      <4> QED BY <1>1, <3>1, <4>1, AgreesCompacted
    <3>4. CASE At(c, "append")
      <4>1. Written(c) = [WithHeader(r) EXCEPT !.msgs = Append(@, Message(c))]
        BY <3>4 DEF Written, At
      <4>2. log'[k] = Append(log[k], Message(c)) /\ Message(c) \in Messages
        BY <1>4, <2>2, <3>4 DEF Message, Messages, Typed
      <4> QED BY <1>1, <3>1, <4>1, <4>2, AgreesAppended
    <3> QED BY <1>3, <3>2, <3>3, <3>4
  <2>3. CASE k # key
    <3>1. store[k] # id
      BY <1>1, <1>3, <2>3 DEF Alone, OwnTranscripts
    <3>2. file'[store[k]] = file[store[k]] /\ log'[k] = log[k]
      BY <1>4, <2>3, <3>1 DEF Typed
    <3> QED BY <2>1, <3>2
  <2> QED BY <2>2, <2>3
<1>11. /\ RepliesFollowQuestions'
       /\ \A d \in Calls : call'[d].key = call[d].key /\ call[d].key \in Keys /\ Asked(d) =>
             Asked(d)'
       /\ At(c, "append") /\ call'[c].key = call[c].key /\ call[c].phase = "prepare" => Asked(c)'
  <2>1. CASE At(c, "append")
    BY <1>4, <2>1, LogGrows
  <2>2. CASE ~At(c, "append")
    BY <1>4, <2>2 DEF Alone, RepliesFollowQuestions, Asked
  <2> QED BY <2>1, <2>2
<1>12. QuestionsAreLogged'
  <2>1. ASSUME NEW d \in Calls, d # c, call[d].phase \in {"agent", "record"}, d \notin renewed
        PROVE  Asked(d)'
    <3>1. call[d].key \in Keys /\ call'[d].key = call[d].key
      BY <1>6, <2>1, RestPhases, Lengths DEF Typed, CallsOK, EntryOK
    <3>2. Asked(d)
      BY <2>1 DEF Alone, QuestionsAreLogged
    <3> QED BY <1>11, <3>1, <3>2
  <2>2. ASSUME call'[c].phase \in {"agent", "record"}, c \notin renewed
        PROVE  Asked(c)'
    <3>1. p = "record" /\ call'[c].key = key
      BY <1>1, <1>5, <1>7, <2>2, RestPhases
    <3>2. Asked(c)
      BY <2>2, <3>1 DEF Alone, QuestionsAreLogged
    <3> QED BY <1>1, <1>11, <3>1, <3>2
  <2>3. ASSUME call'[c].phase = "prepare", call'[c].at = 11
        PROVE  Asked(c)'
    <3>1. p = "prepare" /\ n + 1 = 11 /\ call'[c].key = key
      BY <1>5, <1>7, <2>3, RestPhases
    <3>2. At(c, "append")
      BY <1>1, <1>2, <3>1, Places DEF At
    <3> QED BY <1>11, <3>1, <3>2
  <2>4. ASSUME NEW d \in Calls, d # c
        PROVE  /\ ~(call'[d].phase = "prepare" /\ call'[d].at = 11)
               /\ call'[d] = call[d]
    BY <1>6, <2>4, Lengths DEF InOperation
  <2> QED BY <1>4, <2>1, <2>2, <2>3, <2>4 DEF QuestionsAreLogged
<1> QED BY <1>6, <1>8, <1>9, <1>10, <1>11, <1>12 DEF Alone

\* A call is killed: before a write, or in the middle of it.
LEMMA KilledAlone ==
    ASSUME Typed, Alone, NEW c \in Calls, Killed(c)
    PROVE  Alone'
<1>1. call' = [call EXCEPT ![c] = Over] /\ UNCHANGED <<log, renewed>>
  BY DEF Killed
<1>2. CASE UNCHANGED <<store, file, torn>>
  BY <1>1, <1>2, EndsAlone
<1>3. RepliesFollowQuestions' /\ QuestionsAreLogged' /\ OneAtATime'
  BY <1>1, CallEnds DEF Alone, RepliesFollowQuestions
<1>4. CASE At(c, "persist") /\ store' = Cut /\ UNCHANGED <<file, torn>>
  <2>1. \A d \in Calls : UpToDate(d)'
    BY <1>1, <1>4, CallEnds DEF At, InOperation
  <2> QED BY <1>3, <1>4, <2>1 DEF Alone, OwnTranscripts, TranscriptIsTheLog
<1>5. CASE /\ WritesTranscript(c)
           /\ \E left \in CutShort(c) :
                 file' = [file EXCEPT ![call[c].copy[call[c].key]] = left]
           /\ torn' = torn \cup {call[c].copy[call[c].key]}
           /\ UNCHANGED store
  <2>1. \A d \in Calls : UpToDate(d)'
    BY <1>1, <1>5, CallEnds, WrittenOK DEF Typed, InOperation
  <2>2. ASSUME NEW i \in Ids, i \notin torn'
        PROVE  file'[i] = file[i] /\ i \notin torn
    BY <1>5, <2>2 DEF Typed
  <2>3. TranscriptIsTheLog'
    <3> SUFFICES ASSUME store # Cut, NEW k \in Keys, store[k] # None, store[k] \notin torn'
                 PROVE  Agrees(file'[store[k]], log[k])
      BY <1>1, <1>5 DEF TranscriptIsTheLog, Agrees
    <3>1. store[k] \in Ids
      BY DEF Typed, Stores
    <3> QED BY <2>2, <3>1 DEF Alone, TranscriptIsTheLog, Agrees
  <2> QED BY <1>3, <1>5, <2>1, <2>3 DEF Alone, OwnTranscripts
<1> QED BY <1>2, <1>4, <1>5 DEF Killed

----------------------------------------------------------------------------
(* The theorems                                                            *)

\* Where operations do not overlap, the operation under way holds what is there.
THEOREM OperationsAreAlone == ASSUME Exclusive PROVE Spec => []Alone
<1>1. Init => Alone
  <2> SUFFICES ASSUME Init PROVE Alone
    OBVIOUS
  <2>1. \A c \in Calls : call[c].phase = "new"
    BY Constants DEF Init, EntryOK, Entries
  <2>2. OneAtATime /\ (\A c \in Calls : UpToDate(c)) /\ QuestionsAreLogged
    BY <2>1, Lengths DEF OneAtATime, UpToDate, InOperation, QuestionsAreLogged
  <2>3. OwnTranscripts /\ TranscriptIsTheLog
    BY DEF Init, NoSessions, OwnTranscripts, TranscriptIsTheLog
  <2>4. \A k \in Keys : log[k] = <<>> /\ DOMAIN log[k] = {}
    BY DEF Init
  <2>5. RepliesFollowQuestions
    BY <2>4 DEF RepliesFollowQuestions
  <2> QED BY <2>2, <2>3, <2>5 DEF Alone
<1>2. Typed /\ Alone /\ [Next]_vars => Alone'
  <2> SUFFICES ASSUME Typed, Alone, [Next]_vars PROVE Alone'
    OBVIOUS
  <2>1. CASE UNCHANGED vars
    BY <2>1 DEF vars, Alone, OneAtATime, OwnTranscripts, UpToDate, InOperation, Decided, Unused,
       At, TranscriptIsTheLog, QuestionsAreLogged, Asked, RepliesFollowQuestions
  <2>2. ASSUME NEW c \in Calls,
               \/ \E operation \in Operations, k \in Keys : Begin(c, operation, k)
               \/ AgentAnswers(c) \/ AgentFails(c) \/ Stage(c) \/ Killed(c)
        PROVE  Alone'
    BY <2>2, BeginAlone, AgentAnswersAlone, ThrowsAlone, ReadStoreAlone, ReloadAlone,
       PersistAlone, ReadTranscriptAlone, WriteTranscriptAlone, LeaveTranscriptAlone,
       KilledAlone DEF Stage
  <2> QED BY <2>1, <2>2 DEF Next
<1> QED BY <1>1, <1>2, WellTyped, PTL DEF Spec

\* Where operations do not overlap, a session's transcript is what was written to it, its
\* oldest messages possibly summarised, unless a write of it was cut short.
THEOREM TranscriptsAreLogs == ASSUME Exclusive PROVE Spec => []TranscriptIsTheLog
<1>1. Alone => TranscriptIsTheLog
  BY DEF Alone
<1> QED BY <1>1, OperationsAreAlone, PTL

\* Where operations do not overlap, a reply stands behind its question, unless the key got
\* another session during the run.
THEOREM RepliesComeAfter == ASSUME Exclusive PROVE Spec => []RepliesFollowQuestions
<1>1. Alone => RepliesFollowQuestions
  BY DEF Alone
<1> QED BY <1>1, OperationsAreAlone, PTL

\* Where operations do not overlap, nothing is written once sessions.json was cut short.
THEOREM CutStoresAreKept == ASSUME Exclusive PROVE Spec => CutStoreIsKept
<1>1. Typed /\ Alone /\ [Next]_vars => [store = Cut => UNCHANGED <<store, file>>]_vars
  <2> SUFFICES ASSUME Typed, Alone, [Next]_vars, store = Cut
               PROVE  UNCHANGED <<store, file>>
    OBVIOUS
  <2>1. CASE UNCHANGED vars
    BY <2>1 DEF vars
  <2>2. ASSUME NEW c \in Calls,
               \/ \E operation \in Operations, k \in Keys : Begin(c, operation, k)
               \/ AgentAnswers(c) \/ AgentFails(c) \/ Stage(c) \/ Killed(c)
        PROVE  UNCHANGED <<store, file>>
    <3>1. ~At(c, "persist") /\ ~WritesTranscript(c)
      BY WhatIsHeld DEF WritesTranscript
    <3> QED BY <2>2, <3>1 DEF Begin, AgentAnswers, AgentFails, Stage, ReadStore, Reload, Throws,
               Persist, ReadTranscript, WriteTranscript, LeaveTranscript, Killed
  <2> QED BY <2>1, <2>2 DEF Next
<1> QED BY <1>1, WellTyped, OperationsAreAlone, PTL DEF Spec, CutStoreIsKept

----------------------------------------------------------------------------
(* The channels: types                                                     *)

Events == {"open", "close", "fatal", "drop"}
Phases == {"unused", "loaded", "auth", "connecting", "open", "ending", "closed"}

\* The callbacks of a socket that may be under way, by the socket's phase: a closing event is
\* the last that is emitted, but not the last that is handled.
Pending(phase) ==
    IF phase \in {"open", "ending"} THEN SUBSET {"open"}
    ELSE IF phase = "closed" THEN SUBSET Events
    ELSE {{}}

SocketEntries == [conn : Connections \cup {Nil}, seen : Statuses \cup {Nil}, phase : Phases,
                  events : SUBSET Events]

\* A socket is of a WhatsApp connection, and its events are as its phase has them.
SocketOK(e) ==
    /\ e \in SocketEntries
    /\ e.events \in Pending(e.phase)
    /\ e.phase = "unused" => e = NoSocket
    /\ e.phase # "unused" => e.conn \in WhatsApp
    /\ e.phase = "loaded" => e.seen \in Statuses

SocketsOK(sockets) ==
    sockets \in [Sockets -> SocketEntries] /\ \A s \in Sockets : SocketOK(sockets[s])

MessageEntries ==
    [conn : Connections \cup {Nil}, thread : Threads \cup {Nil}, sock : Sockets \cup {Nil},
     phase : {"new", "look", "insert", "intro", "check", "relook", "reinsert", "ask",
              "reply", "done", "lost"}, chat : Inbound \cup {Nil}]

\* A message that is handled has what its handler found.
MessageOK(e) ==
    /\ e \in MessageEntries
    /\ e.phase = "new" => e = NoMessage
    /\ e.phase # "new" => e.conn \in Connections /\ e.thread \in Threads
    /\ e.phase \in {"ask", "reply", "done"} => e.chat \in Inbound
    /\ e.conn \in WhatsApp /\ e.phase # "lost" => e.sock \in Sockets

MessagesOK(messages) ==
    messages \in [Inbound -> MessageEntries] /\ \A m \in Inbound : MessageOK(messages[m])

TablesOK ==
    /\ status \in [Connections -> Statuses \cup {"absent", "deleted"}]
    /\ link \in [Connections -> [Threads -> Inbound \cup {Nil}]]
    /\ active \in [Connections -> Sockets \cup {Nil}]
    /\ stops \subseteq Connections
    /\ opened \in [Connections -> Sockets \cup {Nil}]
    /\ undone \in 0 .. MaxUndone

ChannelTyped == TablesOK /\ SocketsOK(socket) /\ MessagesOK(msg)

\* The events of a socket are events.
LEMMA PendingEvents ==
    ASSUME NEW phase, NEW events \in Pending(phase)
    PROVE  events \in SUBSET Events
BY DEF Pending, Events

\* What none is.
LEMMA Nothing ==
    /\ Nil \notin Connections /\ Nil \notin WhatsApp /\ Nil \notin Telegram
    /\ Nil \notin Threads /\ Nil \notin Inbound /\ Nil \notin Sockets
    /\ WhatsApp \subseteq Connections /\ Telegram \subseteq Connections
BY NilAssumption DEF Connections

\* An entry of a socket is replaced by a well-formed one.
LEMMA SocketUpdate ==
    ASSUME SocketsOK(socket), NEW s \in Sockets, NEW e, SocketOK(e),
           socket' = [socket EXCEPT ![s] = e]
    PROVE  /\ SocketsOK(socket') /\ socket'[s] = e
           /\ \A t \in Sockets : t # s => socket'[t] = socket[t]
BY DEF SocketsOK, SocketOK

\* So is the entry of a message.
LEMMA MessageUpdate ==
    ASSUME MessagesOK(msg), NEW m \in Inbound, NEW e, MessageOK(e),
           msg' = [msg EXCEPT ![m] = e]
    PROVE  /\ MessagesOK(msg') /\ msg'[m] = e
           /\ \A n \in Inbound : n # m => msg'[n] = msg[n]
BY DEF MessagesOK, MessageOK

\* What is known of a socket, and of a message that is handled.
LEMMA SocketFacts ==
    ASSUME SocketsOK(socket), NEW s \in Sockets
    PROVE  /\ socket[s] \in SocketEntries /\ SocketOK(socket[s]) /\ s \in DOMAIN socket
           /\ socket[s].phase \in Phases /\ socket[s].events \in Pending(socket[s].phase)
           /\ socket[s].phase \in {"unused", "loaded", "auth", "connecting"} =>
                 socket[s].events = {}
           /\ socket[s].phase = "unused" => socket[s].conn = Nil
           /\ socket[s].phase # "unused" \/ socket[s].events # {} =>
                 socket[s].conn \in WhatsApp /\ socket[s].conn \in Connections
<1>1. socket[s] \in SocketEntries /\ SocketOK(socket[s]) /\ s \in DOMAIN socket
  BY DEF SocketsOK
<1>2. socket[s].phase \in Phases /\ socket[s].events \in Pending(socket[s].phase)
  BY <1>1 DEF SocketOK, SocketEntries
<1>3. socket[s].phase \in {"unused", "loaded", "auth", "connecting"} => socket[s].events = {}
  BY <1>2 DEF Pending
<1>4. socket[s].phase = "unused" => socket[s].conn = Nil
  BY <1>1 DEF SocketOK, NoSocket
<1>5. socket[s].phase # "unused" => socket[s].conn \in WhatsApp
  BY <1>1 DEF SocketOK
<1> QED BY <1>1, <1>2, <1>3, <1>4, <1>5, Nothing

\* A message that came has a connection and a thread, and on WhatsApp a socket.
LEMMA MessageFacts ==
    ASSUME MessagesOK(msg), NEW m \in Inbound
    PROVE  /\ msg[m] \in MessageEntries /\ MessageOK(msg[m]) /\ m \in DOMAIN msg
           /\ msg[m].phase = "new" => msg[m] = NoMessage
           /\ msg[m].phase # "new" => msg[m].conn \in Connections /\ msg[m].thread \in Threads
           /\ msg[m].conn \in WhatsApp /\ msg[m].phase # "lost" => msg[m].sock \in Sockets
BY DEF MessagesOK, MessageOK

\* A step that changes one socket is well typed in the others.
LEMMA StartSessionSockets ==
    ASSUME ChannelTyped, NEW s \in Sockets, NEW c \in WhatsApp, StartSession(s, c)
    PROVE  /\ SocketsOK(socket') /\ socket'[s].conn = c /\ socket'[s].phase = "loaded"
           /\ socket'[s].events = {}
           /\ \A t \in Sockets : t # s => socket'[t] = socket[t]
<1> DEFINE e == [socket[s] EXCEPT !.conn = c, !.phase = "loaded", !.seen = status[c]]
<1>1. socket[s] \in SocketEntries /\ socket[s].events = {} /\ s \in DOMAIN socket
      /\ SocketsOK(socket)
  BY SocketFacts DEF ChannelTyped, StartSession
<1>2. status[c] \in Statuses
  BY DEF StartSession, Exists
<1>3. /\ e \in SocketEntries /\ e.conn = c /\ e.phase = "loaded" /\ e.seen = status[c]
      /\ e.events = {}
  BY <1>1, <1>2, Nothing DEF SocketEntries, Phases
<1>4. socket' = [socket EXCEPT ![s] = e]
  BY <1>1 DEF StartSession
<1> HIDE DEF e
<1>5. SocketOK(e)
  BY <1>2, <1>3 DEF SocketOK, Pending
<1> QED BY <1>1, <1>3, <1>4, <1>5, SocketUpdate

\* The other changes: of the phase, the status it read, and the events.
LEMMA SocketChanges ==
    ASSUME ChannelTyped, NEW s \in Sockets, socket[s].phase # "unused",
           NEW phase \in Phases \ {"unused", "loaded"}, NEW events \in Pending(phase),
           \/ socket' = [socket EXCEPT ![s] = [@ EXCEPT !.phase = phase, !.seen = Nil]]
              /\ events = socket[s].events
           \/ socket' = [socket EXCEPT ![s] = [@ EXCEPT !.phase = phase, !.events = events]]
           \/ socket' = [socket EXCEPT ![s].phase = phase] /\ events = socket[s].events
           \/ socket' = [socket EXCEPT ![s].events = events] /\ phase = socket[s].phase
    PROVE  /\ SocketsOK(socket') /\ socket'[s].conn = socket[s].conn
           /\ socket'[s].phase = phase /\ socket'[s].events = events
           /\ \A t \in Sockets : t # s => socket'[t] = socket[t]
<1>1. /\ socket[s] \in SocketEntries /\ s \in DOMAIN socket /\ SocketsOK(socket)
      /\ socket[s].conn \in WhatsApp
  BY SocketFacts DEF ChannelTyped
<1>2. ASSUME NEW e \in SocketEntries, e.conn = socket[s].conn, e.phase = phase,
             e.events = events, socket' = [socket EXCEPT ![s] = e]
      PROVE  /\ SocketsOK(socket') /\ socket'[s].conn = socket[s].conn
             /\ socket'[s].phase = phase /\ socket'[s].events = events
             /\ \A t \in Sockets : t # s => socket'[t] = socket[t]
  <2>1. SocketOK(e)
    BY <1>1, <1>2 DEF SocketOK
  <2> QED BY <1>1, <1>2, <2>1, SocketUpdate
<1>3. events \in SUBSET Events
  BY PendingEvents
<1>4. CASE /\ socket' = [socket EXCEPT ![s] = [@ EXCEPT !.phase = phase, !.seen = Nil]]
           /\ events = socket[s].events
  <2> DEFINE e == [socket[s] EXCEPT !.phase = phase, !.seen = Nil]
  <2>1. e \in SocketEntries /\ e.conn = socket[s].conn /\ e.phase = phase /\ e.events = events
    BY <1>1, <1>4 DEF SocketEntries
  <2>2. socket' = [socket EXCEPT ![s] = e]
    BY <1>1, <1>4
  <2> HIDE DEF e
  <2> QED BY <1>2, <2>1, <2>2
<1>5. CASE socket' = [socket EXCEPT ![s] = [@ EXCEPT !.phase = phase, !.events = events]]
  <2> DEFINE e == [socket[s] EXCEPT !.phase = phase, !.events = events]
  <2>1. e \in SocketEntries /\ e.conn = socket[s].conn /\ e.phase = phase /\ e.events = events
    BY <1>1, <1>3 DEF SocketEntries
  <2>2. socket' = [socket EXCEPT ![s] = e]
    BY <1>1, <1>5
  <2> HIDE DEF e
  <2> QED BY <1>2, <2>1, <2>2
<1>6. CASE socket' = [socket EXCEPT ![s].phase = phase] /\ events = socket[s].events
  <2> DEFINE e == [socket[s] EXCEPT !.phase = phase]
  <2>1. e \in SocketEntries /\ e.conn = socket[s].conn /\ e.phase = phase /\ e.events = events
    BY <1>1, <1>6 DEF SocketEntries
  <2>2. socket' = [socket EXCEPT ![s] = e]
    BY <1>1, <1>6
  <2> HIDE DEF e
  <2> QED BY <1>2, <2>1, <2>2
<1>7. CASE socket' = [socket EXCEPT ![s].events = events] /\ phase = socket[s].phase
  <2> DEFINE e == [socket[s] EXCEPT !.events = events]
  <2>1. e \in SocketEntries /\ e.conn = socket[s].conn /\ e.phase = phase /\ e.events = events
    BY <1>1, <1>3, <1>7 DEF SocketEntries
  <2>2. socket' = [socket EXCEPT ![s] = e]
    BY <1>1, <1>7
  <2> HIDE DEF e
  <2> QED BY <1>2, <2>1, <2>2
<1> QED BY <1>4, <1>5, <1>6, <1>7

----------------------------------------------------------------------------
(* The channels: what a step does to its socket                            *)

\* The other sockets and the conversations are left alone.
OthersStay(s) ==
    /\ socket'[s].conn = socket[s].conn /\ socket[s].conn \in WhatsApp
    /\ \A t \in Sockets : t # s => socket'[t] = socket[t]
    /\ UNCHANGED <<link, msg, stops, undone>>

\* startSession writes the connection's status, before the socket is made.
LEMMA WriteAuthDirStep ==
    ASSUME ChannelTyped, NEW s \in Sockets, WriteAuthDir(s)
    PROVE  /\ SocketsOK(socket') /\ OthersStay(s) /\ socket[s].phase = "loaded"
           /\ socket'[s].phase = "auth" /\ socket'[s].events = {}
           /\ active' = active /\ Exists(socket[s].conn)
           /\ \E value \in Statuses : SetStatus(socket[s].conn, value, Nil)
<1>1. socket[s].phase = "loaded" /\ socket[s].events = {} /\ socket[s].conn \in WhatsApp
      /\ socket[s].seen \in Statuses
  BY SocketFacts DEF ChannelTyped, WriteAuthDir, SocketOK
<1>2. "auth" \in Phases \ {"unused", "loaded"} /\ {} \in Pending("auth")
  BY DEF Phases, Pending
<1>3. socket' = [socket EXCEPT ![s] = [@ EXCEPT !.phase = "auth", !.seen = Nil]]
  BY DEF WriteAuthDir
<1>4. /\ SocketsOK(socket') /\ socket'[s].conn = socket[s].conn
      /\ socket'[s].phase = "auth" /\ socket'[s].events = {}
      /\ \A t \in Sockets : t # s => socket'[t] = socket[t]
  BY <1>1, <1>2, <1>3, SocketChanges
<1> QED BY <1>1, <1>4 DEF WriteAuthDir, OthersStay

\* ... or finds a status that it leaves as it is.
LEMMA KeepAuthDirStep ==
    ASSUME ChannelTyped, NEW s \in Sockets, KeepAuthDir(s)
    PROVE  /\ SocketsOK(socket') /\ OthersStay(s) /\ socket[s].phase = "loaded"
           /\ socket'[s].phase = "auth" /\ socket'[s].events = {}
           /\ UNCHANGED <<active, status, opened>>
<1>1. socket[s].phase = "loaded" /\ socket[s].events = {} /\ socket[s].conn \in WhatsApp
  BY SocketFacts DEF ChannelTyped, KeepAuthDir
<1>2. "auth" \in Phases \ {"unused", "loaded"} /\ {} \in Pending("auth")
  BY DEF Phases, Pending
<1>3. socket' = [socket EXCEPT ![s] = [@ EXCEPT !.phase = "auth", !.seen = Nil]]
  BY DEF KeepAuthDir
<1>4. /\ SocketsOK(socket') /\ socket'[s].conn = socket[s].conn
      /\ socket'[s].phase = "auth" /\ socket'[s].events = {}
      /\ \A t \in Sockets : t # s => socket'[t] = socket[t]
  BY <1>1, <1>2, <1>3, SocketChanges
<1> QED BY <1>1, <1>4 DEF KeepAuthDir, OthersStay

\* The socket that is made becomes the connection's session.
LEMMA MakeSocketStep ==
    ASSUME ChannelTyped, NEW s \in Sockets, MakeSocket(s)
    PROVE  /\ SocketsOK(socket') /\ OthersStay(s) /\ socket[s].phase = "auth"
           /\ socket'[s].phase = "connecting" /\ socket'[s].events = {}
           /\ active' = [active EXCEPT ![socket[s].conn] = s] /\ UNCHANGED <<status, opened>>
<1>1. socket[s].phase = "auth" /\ socket[s].events = {} /\ socket[s].conn \in WhatsApp
  BY SocketFacts DEF ChannelTyped, MakeSocket
<1>2. "connecting" \in Phases \ {"unused", "loaded"} /\ {} \in Pending("connecting")
  BY DEF Phases, Pending
<1>3. socket' = [socket EXCEPT ![s].phase = "connecting"]
  BY DEF MakeSocket
<1>4. /\ SocketsOK(socket') /\ socket'[s].conn = socket[s].conn
      /\ socket'[s].phase = "connecting" /\ socket'[s].events = {}
      /\ \A t \in Sockets : t # s => socket'[t] = socket[t]
  BY <1>1, <1>2, <1>3, SocketChanges
<1> QED BY <1>1, <1>4 DEF MakeSocket, OthersStay

\* A start that fails leaves the status and the session as they are.
LEMMA StartFailsStep ==
    ASSUME ChannelTyped, NEW s \in Sockets, StartFails(s)
    PROVE  /\ SocketsOK(socket') /\ OthersStay(s) /\ socket[s].phase \in {"loaded", "auth"}
           /\ socket'[s].phase = "closed" /\ socket'[s].events = {}
           /\ UNCHANGED <<active, status, opened>>
<1>1. socket[s].phase \in {"loaded", "auth"} /\ socket[s].events = {}
      /\ socket[s].conn \in WhatsApp
  BY SocketFacts DEF ChannelTyped, StartFails
<1>2. "closed" \in Phases \ {"unused", "loaded"} /\ {} \in Pending("closed")
  BY DEF Phases, Pending
<1>3. socket' = [socket EXCEPT ![s].phase = "closed"]
  BY DEF StartFails
<1>4. /\ SocketsOK(socket') /\ socket'[s].conn = socket[s].conn
      /\ socket'[s].phase = "closed" /\ socket'[s].events = {}
      /\ \A t \in Sockets : t # s => socket'[t] = socket[t]
  BY <1>1, <1>2, <1>3, SocketChanges
<1> QED BY <1>1, <1>4 DEF StartFails, OthersStay

\* What a socket emits starts its callback.
LEMMA EmitStep ==
    ASSUME ChannelTyped, NEW s \in Sockets, Opens(s) \/ Closes(s)
    PROVE  /\ SocketsOK(socket') /\ OthersStay(s)
           /\ socket[s].phase \in {"connecting", "open", "ending"}
           /\ \/ socket[s].phase = "connecting" /\ socket'[s].phase = "open"
              \/ socket'[s].phase = "closed" /\ {"close", "fatal"} \cap socket'[s].events # {}
           /\ UNCHANGED <<active, status, opened>>
<1> DEFINE p == socket[s].phase
<1> DEFINE old == socket[s].events
<1>1. /\ p \in {"connecting", "open", "ending"} /\ old \in Pending(p)
      /\ socket[s].conn \in WhatsApp /\ s \in DOMAIN socket
      /\ p = "connecting" => old = {}
  BY SocketFacts DEF ChannelTyped, Opens, Closes
<1>2. PICK phase \in {"open", "closed"}, event \in {"open", "close", "fatal"} :
          /\ Emit(s, phase, event)
          /\ \/ p = "connecting" /\ phase = "open" /\ event = "open"
             \/ phase = "closed" /\ event \in {"close", "fatal"}
  BY DEF Opens, Closes
<1> DEFINE events == old \cup {event}
<1>3. events \in Pending(phase) /\ event \in events
  BY <1>1, <1>2 DEF Pending, Events
<1>4. phase \in Phases \ {"unused", "loaded"}
  BY <1>2 DEF Phases
<1>5. socket' = [socket EXCEPT ![s] = [@ EXCEPT !.phase = phase, !.events = events]]
  BY <1>2 DEF Emit
<1> HIDE DEF events
<1>6. /\ SocketsOK(socket') /\ socket'[s].conn = socket[s].conn
      /\ socket'[s].phase = phase /\ socket'[s].events = events
      /\ \A t \in Sockets : t # s => socket'[t] = socket[t]
  BY <1>1, <1>3, <1>4, <1>5, SocketChanges
<1> QED BY <1>1, <1>2, <1>3, <1>6 DEF Emit, OthersStay

\* A callback writes the status; that of a close has the session still to remove.
LEMMA HandleEventStep ==
    ASSUME ChannelTyped, NEW s \in Sockets, NEW event \in {"open", "close", "fatal"},
           HandleEvent(s, event)
    PROVE  LET c == socket[s].conn
           IN  /\ SocketsOK(socket') /\ OthersStay(s) /\ socket[s].events # {}
               /\ socket'[s].phase = socket[s].phase
               /\ socket[s].phase \in {"open", "ending", "closed"}
               /\ active' = active /\ Exists(c)
               /\ \/ /\ SetStatus(c, "connected", Opener(s))
                     /\ socket'[s].events = socket[s].events \ {"open"}
                  \/ /\ \E value \in Statuses : SetStatus(c, value, Nil)
                     /\ "drop" \in socket'[s].events /\ socket[s].phase = "closed"
<1> DEFINE c == socket[s].conn
<1> DEFINE p == socket[s].phase
<1> DEFINE old == socket[s].events
<1> DEFINE events == (old \ {event}) \cup (IF event = "open" THEN {} ELSE {"drop"})
<1>1. /\ event \in old /\ p \in Phases /\ old \in Pending(p)
      /\ c \in WhatsApp /\ s \in DOMAIN socket
  BY SocketFacts DEF ChannelTyped, HandleEvent
<1>2. p \in {"open", "ending", "closed"} /\ (event # "open" => p = "closed")
  BY <1>1 DEF Pending
<1>3. events \in Pending(p)
  BY <1>1, <1>2 DEF Pending, Events
<1>4. EventStatus(event, s, c) /\ Exists(c) /\ UNCHANGED <<link, active, msg, stops, undone>>
  BY DEF HandleEvent
<1>5. socket' = [socket EXCEPT ![s].events = events]
  BY <1>1 DEF HandleEvent
<1>6. /\ event = "open" => SetStatus(c, "connected", Opener(s))
      /\ event # "open" => \E value \in Statuses : SetStatus(c, value, Nil)
  BY <1>4 DEF EventStatus, Statuses
<1>7. IF event = "open" THEN events = old \ {"open"} ELSE "drop" \in events
  OBVIOUS
<1> HIDE DEF events
<1>8. p \in Phases \ {"unused", "loaded"}
  BY <1>1, <1>2
<1>9. /\ SocketsOK(socket') /\ socket'[s].conn = c
      /\ socket'[s].phase = p /\ socket'[s].events = events
      /\ \A t \in Sockets : t # s => socket'[t] = socket[t]
  BY <1>3, <1>5, <1>8, SocketChanges
<1> QED BY <1>1, <1>2, <1>4, <1>6, <1>7, <1>9 DEF OthersStay

\* The close handler's last step removes the session, whichever it is by now.
LEMMA DropSessionStep ==
    ASSUME ChannelTyped, NEW s \in Sockets, DropSession(s)
    PROVE  /\ SocketsOK(socket') /\ OthersStay(s) /\ "drop" \in socket[s].events
           /\ socket[s].phase = "closed" /\ socket'[s].phase = "closed"
           /\ socket'[s].events = socket[s].events \ {"drop"}
           /\ active' = [active EXCEPT ![socket[s].conn] = Nil] /\ UNCHANGED <<status, opened>>
<1> DEFINE events == socket[s].events \ {"drop"}
<1>1. /\ "drop" \in socket[s].events
      /\ socket[s].phase \in Phases /\ socket[s].events \in Pending(socket[s].phase)
      /\ socket[s].conn \in WhatsApp /\ s \in DOMAIN socket
  BY SocketFacts DEF ChannelTyped, DropSession
<1>2. socket[s].phase = "closed"
  BY <1>1 DEF Pending
<1>3. "closed" \in Phases \ {"unused", "loaded"} /\ events \in Pending("closed")
  BY <1>1, <1>2 DEF Phases, Pending
<1>4. socket' = [socket EXCEPT ![s].events = events]
  BY <1>1 DEF DropSession
<1> HIDE DEF events
<1>5. /\ SocketsOK(socket') /\ socket'[s].conn = socket[s].conn
      /\ socket'[s].phase = "closed" /\ socket'[s].events = events
      /\ \A t \in Sockets : t # s => socket'[t] = socket[t]
  BY <1>2, <1>3, <1>4, SocketChanges
<1> QED BY <1>1, <1>2, <1>5 DEF DropSession, OthersStay, events

----------------------------------------------------------------------------
(* The channels: what a step does to its message                           *)

\* The connections, the sessions and the other messages are left alone.
OnlyMessage(m) ==
    /\ UNCHANGED <<status, active, socket, stops, opened, undone>>
    /\ \A n \in Inbound : n # m => msg'[n] = msg[n]

\* The message stays where it is.
SameThread(m) == msg'[m].conn = msg[m].conn /\ msg'[m].thread = msg[m].thread

\* The steps of a handler that only move it on.
LEMMA HandlerMoves ==
    ASSUME ChannelTyped, NEW m \in Inbound,
           \/ MissLink(m) \/ SendIntroduction(m) \/ CheckConnected(m)
           \/ GatewayAnswers(m) \/ SendReply(m) \/ TelegramThrows(m)
    PROVE  /\ MessagesOK(msg') /\ OnlyMessage(m) /\ SameThread(m)
           /\ msg'[m].chat = msg[m].chat /\ link' = link
<1>1. PICK phase \in {"insert", "reinsert", "check", "relook", "reply", "done", "lost"} :
          /\ To(m, phase)
          /\ phase = "reply" => msg[m].phase = "ask"
          /\ phase = "done" => msg[m].phase = "reply"
          /\ msg[m].phase \notin {"new", "lost"}
  <2>1. CASE MissLink(m)
    BY <2>1 DEF MissLink
  <2>2. CASE SendIntroduction(m) \/ CheckConnected(m) \/ GatewayAnswers(m) \/ SendReply(m)
    BY <2>2 DEF SendIntroduction, CheckConnected, GatewayAnswers, SendReply
  <2>3. CASE TelegramThrows(m)
    BY <2>3 DEF TelegramThrows, Throwing
  <2> QED BY <2>1, <2>2, <2>3
<1> DEFINE e == [msg[m] EXCEPT !.phase = phase]
<1>2. /\ msg[m] \in MessageEntries /\ m \in DOMAIN msg /\ MessagesOK(msg)
      /\ MessageOK(msg[m])
  BY MessageFacts DEF ChannelTyped
<1>3. /\ e \in MessageEntries /\ e.conn = msg[m].conn /\ e.thread = msg[m].thread
      /\ e.sock = msg[m].sock /\ e.chat = msg[m].chat /\ e.phase = phase
  BY <1>1, <1>2 DEF MessageEntries
<1>4. msg' = [msg EXCEPT ![m] = e]
  BY <1>1, <1>2 DEF To
<1> HIDE DEF e
<1>5. MessageOK(e)
  BY <1>1, <1>2, <1>3 DEF MessageOK
<1>6. /\ MessagesOK(msg') /\ msg'[m] = e
      /\ \A n \in Inbound : n # m => msg'[n] = msg[n]
  BY <1>2, <1>4, <1>5, MessageUpdate
<1>7. UNCHANGED <<status, link, active, socket, stops, opened, undone>>
  BY DEF MissLink, SendIntroduction, CheckConnected, GatewayAnswers, SendReply, TelegramThrows
<1> QED BY <1>3, <1>6, <1>7 DEF OnlyMessage, SameThread

\* A message finds the chat of its thread's link, if there is one.
LEMMA FindLinkStep ==
    ASSUME ChannelTyped, NEW m \in Inbound, FindLink(m)
    PROVE  /\ MessagesOK(msg') /\ OnlyMessage(m) /\ SameThread(m)
           /\ msg'[m].chat = msg[m].chat \/ msg'[m].chat = LinkOf(m)
           /\ LinkOf(m) \in Inbound /\ link' = link
<1> DEFINE e == IF msg[m].phase = "look" THEN [msg[m] EXCEPT !.phase = "check"]
                ELSE [msg[m] EXCEPT !.phase = "ask", !.chat = LinkOf(m)]
<1>1. /\ msg[m] \in MessageEntries /\ m \in DOMAIN msg /\ MessagesOK(msg)
      /\ MessageOK(msg[m]) /\ msg[m].phase \in {"look", "relook"}
      /\ msg[m].conn \in Connections /\ msg[m].thread \in Threads
  BY MessageFacts DEF ChannelTyped, FindLink
<1>2. LinkOf(m) \in Inbound
  BY <1>1 DEF FindLink, LinkOf, ChannelTyped, TablesOK
<1>3. /\ e \in MessageEntries /\ e.conn = msg[m].conn /\ e.thread = msg[m].thread
      /\ e.sock = msg[m].sock
      /\ \/ e.chat = msg[m].chat /\ e.phase = "check"
         \/ e.chat = LinkOf(m) /\ e.phase = "ask"
  BY <1>1, <1>2 DEF MessageEntries
<1>4. msg' = [msg EXCEPT ![m] = e]
  BY <1>1 DEF FindLink
<1> HIDE DEF e
<1>5. MessageOK(e)
  BY <1>1, <1>2, <1>3 DEF MessageOK
<1>6. /\ MessagesOK(msg') /\ msg'[m] = e
      /\ \A n \in Inbound : n # m => msg'[n] = msg[n]
  BY <1>1, <1>4, <1>5, MessageUpdate
<1> QED BY <1>2, <1>3, <1>6 DEF OnlyMessage, SameThread, FindLink

\* A message whose thread has no link inserts one, to a chat of its own.
LEMMA InsertStep ==
    ASSUME ChannelTyped, NEW m \in Inbound, Insert(m)
    PROVE  /\ MessagesOK(msg') /\ OnlyMessage(m) /\ SameThread(m)
           /\ msg'[m].chat = msg[m].chat \/ msg'[m].chat = m
           /\ msg[m].conn \in Connections /\ msg[m].thread \in Threads
           /\ Exists(msg[m].conn) /\ LinkOf(m) = Nil
           /\ link' = [link EXCEPT ![msg[m].conn][msg[m].thread] = m]
<1> DEFINE e == IF msg[m].phase = "insert" THEN [msg[m] EXCEPT !.phase = "intro"]
                ELSE [msg[m] EXCEPT !.phase = "ask", !.chat = m]
<1>1. /\ msg[m] \in MessageEntries /\ m \in DOMAIN msg /\ MessagesOK(msg)
      /\ MessageOK(msg[m]) /\ msg[m].phase \in {"insert", "reinsert"}
      /\ msg[m].conn \in Connections /\ msg[m].thread \in Threads
  BY MessageFacts DEF ChannelTyped, Insert
<1>2. /\ e \in MessageEntries /\ e.conn = msg[m].conn /\ e.thread = msg[m].thread
      /\ e.sock = msg[m].sock
      /\ \/ e.chat = msg[m].chat /\ e.phase = "intro"
         \/ e.chat = m /\ e.phase = "ask"
  BY <1>1 DEF MessageEntries
<1>3. msg' = [msg EXCEPT ![m] = e]
  BY <1>1 DEF Insert
<1> HIDE DEF e
<1>4. MessageOK(e)
  BY <1>1, <1>2 DEF MessageOK
<1>5. /\ MessagesOK(msg') /\ msg'[m] = e
      /\ \A n \in Inbound : n # m => msg'[n] = msg[n]
  BY <1>1, <1>3, <1>4, MessageUpdate
<1> QED BY <1>1, <1>2, <1>5 DEF OnlyMessage, SameThread, Insert, MayInsert

\* A message comes in by a socket of its connection.
LEMMA WhatsAppMessageStep ==
    ASSUME ChannelTyped, NEW m \in Inbound, NEW s \in Sockets, NEW t \in Threads,
           WhatsAppMessage(m, s, t)
    PROVE  /\ MessagesOK(msg') /\ OnlyMessage(m) /\ link' = link
           /\ msg'[m].chat = Nil /\ msg[m].chat = Nil
<1> DEFINE c == socket[s].conn
<1> DEFINE phase == IF active[c] = Nil THEN "lost" ELSE "look"
<1> DEFINE e == [msg[m] EXCEPT !.conn = c, !.thread = t, !.sock = active[c], !.phase = phase]
<1>1. /\ msg[m] \in MessageEntries /\ m \in DOMAIN msg /\ MessagesOK(msg)
      /\ msg[m] = NoMessage /\ msg[m].chat = Nil
  BY MessageFacts DEF ChannelTyped, WhatsAppMessage, NoMessage
<1>2. c \in Connections /\ active[c] \in Sockets \cup {Nil}
  BY SocketFacts DEF ChannelTyped, WhatsAppMessage, TablesOK
<1>3. /\ phase \in {"lost", "look"} /\ (phase = "look" => active[c] \in Sockets)
  BY <1>2
<1> HIDE DEF c, phase
<1>4. /\ e \in MessageEntries /\ e.conn = c /\ e.thread = t
      /\ e.sock = active[c] /\ e.chat = Nil /\ e.phase = phase
  BY <1>1, <1>2, <1>3 DEF MessageEntries
<1>5. msg' = [msg EXCEPT ![m] = e]
  BY <1>1 DEF WhatsAppMessage, c, phase
<1> HIDE DEF e
<1>6. MessageOK(e)
  BY <1>2, <1>3, <1>4 DEF MessageOK
<1>7. /\ MessagesOK(msg') /\ msg'[m] = e
      /\ \A n \in Inbound : n # m => msg'[n] = msg[n]
  BY <1>1, <1>5, <1>6, MessageUpdate
<1> QED BY <1>1, <1>4, <1>7 DEF OnlyMessage, WhatsAppMessage, NoMessage

\* A message comes in by the webhook.
LEMMA TelegramMessageStep ==
    ASSUME ChannelTyped, NEW m \in Inbound, NEW c \in Telegram, NEW t \in Threads,
           TelegramMessage(m, c, t)
    PROVE  /\ MessagesOK(msg') /\ OnlyMessage(m) /\ link' = link
           /\ msg'[m].chat = Nil /\ msg[m].chat = Nil
<1>1. /\ msg[m] \in MessageEntries /\ m \in DOMAIN msg /\ MessagesOK(msg)
      /\ msg[m] = NoMessage /\ msg[m].chat = Nil
  BY MessageFacts DEF ChannelTyped, TelegramMessage, NoMessage
<1>2. PICK phase \in {"look", "check", "lost"} :
          msg' = [msg EXCEPT ![m] = [@ EXCEPT !.conn = c, !.thread = t, !.phase = phase]]
  BY DEF TelegramMessage
<1> DEFINE e == [msg[m] EXCEPT !.conn = c, !.thread = t, !.phase = phase]
<1>3. c \in Connections /\ c \notin WhatsApp
  BY Nothing, ConnectionsAssumption
<1>4. /\ e \in MessageEntries /\ e.conn = c /\ e.thread = t
      /\ e.chat = Nil /\ e.phase = phase
  BY <1>1, <1>3 DEF MessageEntries
<1>5. msg' = [msg EXCEPT ![m] = e]
  BY <1>1, <1>2
<1> HIDE DEF e
<1>6. MessageOK(e)
  BY <1>3, <1>4 DEF MessageOK
<1>7. /\ MessagesOK(msg') /\ msg'[m] = e
      /\ \A n \in Inbound : n # m => msg'[n] = msg[n]
  BY <1>1, <1>5, <1>6, MessageUpdate
<1> QED BY <1>1, <1>4, <1>7 DEF OnlyMessage, TelegramMessage, NoMessage

----------------------------------------------------------------------------
(* The channels: the steps of a connection and of the process              *)

\* stopSession ends the socket of the session and no other.
LEMMA StopSessionSockets ==
    ASSUME ChannelTyped, NEW c \in WhatsApp, StopSession(c)
    PROVE  /\ SocketsOK(socket')
           /\ \A s \in Sockets : \/ socket'[s] = socket[s]
                                 \/ /\ s = active[c] /\ socket[s].phase \in {"connecting", "open"}
                                    /\ socket'[s].conn = socket[s].conn
                                    /\ socket'[s].phase = "ending"
                                    /\ socket'[s].events = socket[s].events
           /\ active[c] # Nil => socket'[active[c]].phase \notin {"connecting", "open"}
<1> DEFINE s == active[c]
<1>1. s \in Sockets \cup {Nil}
  BY Nothing DEF ChannelTyped, TablesOK
<1>2. CASE s # Nil /\ socket[s].phase \in {"connecting", "open"}
  <2>1. s \in Sockets /\ socket[s].phase # "unused"
    BY <1>1, <1>2
  <2>2. socket[s].events \in Pending("ending") /\ "ending" \in Phases \ {"unused", "loaded"}
    BY <1>2, <2>1, SocketFacts DEF ChannelTyped, Pending, Phases
  <2>3. socket' = [socket EXCEPT ![s].phase = "ending"]
    BY <1>2 DEF StopSession, EndSocket
  <2>4. /\ SocketsOK(socket') /\ socket'[s].conn = socket[s].conn
        /\ socket'[s].phase = "ending" /\ socket'[s].events = socket[s].events
        /\ \A t \in Sockets : t # s => socket'[t] = socket[t]
    BY <2>1, <2>2, <2>3, SocketChanges
  <2> QED BY <1>2, <2>4
<1>3. CASE ~(s # Nil /\ socket[s].phase \in {"connecting", "open"})
  <2>1. socket' = socket
    BY <1>3 DEF StopSession, EndSocket
  <2> QED BY <1>3, <2>1 DEF ChannelTyped
<1> QED BY <1>2, <1>3

\* A restart forgets sockets and handlers, and keeps what messages were asked.
LEMMA RestartStep ==
    ASSUME ChannelTyped, Restart
    PROVE  /\ ChannelTyped'
           /\ \A s \in Sockets : /\ socket'[s].phase \in {"unused", "closed"}
                                 /\ socket'[s].events = {}
           /\ \A m \in Inbound : /\ msg'[m].conn = msg[m].conn /\ msg'[m].chat = msg[m].chat
                                 /\ msg'[m].thread = msg[m].thread
<1>1. TablesOK'
  BY DEF ChannelTyped, TablesOK, Restart
<1>2. ASSUME NEW s \in Sockets
      PROVE  /\ SocketOK(socket'[s]) /\ socket'[s].phase \in {"unused", "closed"}
             /\ socket'[s].events = {}
  <2>1. socket[s] \in SocketEntries /\ SocketOK(socket[s])
    BY SocketFacts DEF ChannelTyped
  <2>2. CASE socket[s].phase = "unused"
    <3>1. socket'[s] = NoSocket /\ socket[s] = NoSocket
      BY <2>1, <2>2 DEF Restart, SocketOK
    <3> QED BY <2>1, <3>1 DEF NoSocket
  <2>3. CASE socket[s].phase # "unused"
    <3> DEFINE e == [socket[s] EXCEPT !.phase = "closed", !.events = {}]
    <3>1. socket'[s] = e /\ socket[s].conn \in WhatsApp
      BY <2>1, <2>3 DEF Restart, SocketOK
    <3>2. /\ e \in SocketEntries /\ e.conn = socket[s].conn /\ e.phase = "closed"
          /\ e.events = {}
      BY <2>1, PendingEvents DEF SocketEntries, Phases, Pending
    <3> HIDE DEF e
    <3> QED BY <3>1, <3>2 DEF SocketOK, Pending
  <2> QED BY <2>2, <2>3
<1>3. SocketsOK(socket')
  <2>1. socket' = [s \in Sockets |-> IF socket[s].phase = "unused" THEN NoSocket
                                     ELSE [socket[s] EXCEPT !.phase = "closed", !.events = {}]]
    BY DEF Restart
  <2>2. \A s \in Sockets : socket'[s] \in SocketEntries
    BY <1>2 DEF SocketOK
  <2> QED BY <1>2, <2>1, <2>2 DEF SocketsOK
<1>4. ASSUME NEW m \in Inbound
      PROVE  /\ MessageOK(msg'[m]) /\ msg'[m].conn = msg[m].conn /\ msg'[m].chat = msg[m].chat
             /\ msg'[m].thread = msg[m].thread
  <2>1. msg[m] \in MessageEntries /\ MessageOK(msg[m])
    BY MessageFacts DEF ChannelTyped
  <2>2. CASE msg[m].phase \in {"new", "done"}
    BY <2>1, <2>2 DEF Restart
  <2>3. CASE msg[m].phase \notin {"new", "done"}
    <3> DEFINE e == [msg[m] EXCEPT !.phase = "lost"]
    <3>1. msg'[m] = e
      BY <2>3 DEF Restart
    <3>2. /\ e \in MessageEntries /\ e.conn = msg[m].conn /\ e.thread = msg[m].thread
          /\ e.chat = msg[m].chat /\ e.phase = "lost"
      BY <2>1 DEF MessageEntries
    <3> HIDE DEF e
    <3> QED BY <2>1, <2>3, <3>1, <3>2 DEF MessageOK
  <2> QED BY <2>2, <2>3
<1>5. MessagesOK(msg')
  <2>1. msg' = [m \in Inbound |-> IF msg[m].phase \in {"new", "done"} THEN msg[m]
                                  ELSE [msg[m] EXCEPT !.phase = "lost"]]
    BY DEF Restart
  <2>2. \A m \in Inbound : msg'[m] \in MessageEntries
    BY <1>4 DEF MessageOK
  <2> QED BY <1>4, <2>1, <2>2 DEF MessagesOK
<1> QED BY <1>1, <1>2, <1>3, <1>4, <1>5 DEF ChannelTyped, SocketsOK, MessagesOK

\* A status is written to one row.
LEMMA SetStatusStep ==
    ASSUME TablesOK, NEW c \in Connections, NEW value \in Statuses \cup {"deleted"},
           NEW writer \in Sockets \cup {Nil}, SetStatus(c, value, writer)
    PROVE  /\ status' \in [Connections -> Statuses \cup {"absent", "deleted"}]
           /\ opened' \in [Connections -> Sockets \cup {Nil}]
           /\ status'[c] = value /\ opened'[c] = writer
           /\ \A d \in Connections : d # c => status'[d] = status[d] /\ opened'[d] = opened[d]
BY DEF TablesOK, SetStatus

\* A step of a session does to the tables no more than this.
LEMMA SessionTyped ==
    ASSUME ChannelTyped, NEW s \in Sockets, Session(s)
    PROVE  ChannelTyped'
<1>1. TablesOK /\ MessagesOK(msg) /\ WhatsApp \subseteq Connections
  BY Nothing DEF ChannelTyped
<1>2. CASE \E c \in WhatsApp : StartSession(s, c)
  BY <1>1, <1>2, StartSessionSockets DEF StartSession, ChannelTyped, TablesOK
<1>3. CASE WriteAuthDir(s)
  <2>1. SocketsOK(socket') /\ OthersStay(s) /\ active' = active
    BY <1>3, WriteAuthDirStep
  <2>2. socket[s].conn \in Connections
    BY <1>1, <2>1 DEF OthersStay
  <2>3. PICK value \in Statuses : SetStatus(socket[s].conn, value, Nil)
    BY <1>3, WriteAuthDirStep
  <2> QED BY <1>1, <2>1, <2>2, <2>3, SetStatusStep DEF ChannelTyped, TablesOK, OthersStay
<1>4. CASE KeepAuthDir(s) \/ StartFails(s) \/ Opens(s) \/ Closes(s)
  <2>1. SocketsOK(socket') /\ OthersStay(s) /\ UNCHANGED <<active, status, opened>>
    BY <1>4, KeepAuthDirStep, StartFailsStep, EmitStep
  <2> QED BY <1>1, <2>1 DEF ChannelTyped, TablesOK, OthersStay
<1>5. CASE MakeSocket(s) \/ DropSession(s)
  <2>1. /\ SocketsOK(socket') /\ OthersStay(s) /\ UNCHANGED <<status, opened>>
        /\ \E t \in Sockets \cup {Nil} : active' = [active EXCEPT ![socket[s].conn] = t]
    BY <1>5, MakeSocketStep, DropSessionStep
  <2> QED BY <1>1, <2>1 DEF ChannelTyped, TablesOK, OthersStay
<1>6. ASSUME NEW event \in {"open", "close", "fatal"}, HandleEvent(s, event) PROVE ChannelTyped'
  <2>1. SocketsOK(socket') /\ OthersStay(s) /\ active' = active
    BY <1>6, HandleEventStep
  <2>2. socket[s].conn \in Connections
    BY <1>1, <2>1 DEF OthersStay
  <2>3. PICK value \in Statuses, writer \in Sockets \cup {Nil} :
           SetStatus(socket[s].conn, value, writer)
    <3>1. "connected" \in Statuses /\ Opener(s) \in Sockets \cup {Nil}
      BY DEF Statuses, Opener
    <3> QED BY <1>6, <3>1, HandleEventStep
  <2> QED BY <1>1, <2>1, <2>2, <2>3, SetStatusStep DEF ChannelTyped, TablesOK, OthersStay
<1> QED BY <1>2, <1>3, <1>4, <1>5, <1>6 DEF Session

\* The steps of a message's handler.
LEMMA HandlerTyped ==
    ASSUME ChannelTyped, NEW m \in Inbound, Handle(m)
    PROVE  ChannelTyped'
<1>1. TablesOK /\ SocketsOK(socket)
  BY DEF ChannelTyped
<1>2. MessagesOK(msg') /\ OnlyMessage(m)
  BY HandlerMoves, FindLinkStep, InsertStep DEF Handle
<1>3. link' \in [Connections -> [Threads -> Inbound \cup {Nil}]]
  <2>1. CASE Insert(m)
    <3> DEFINE c == msg[m].conn
    <3> DEFINE t == msg[m].thread
    <3>1. c \in Connections /\ t \in Threads
      BY <2>1, InsertStep
    <3>2. link' = [link EXCEPT ![c][t] = m]
      BY <2>1, InsertStep
    <3> HIDE DEF c, t
    <3> QED BY <1>1, <3>1, <3>2 DEF TablesOK
  <2>2. CASE ~Insert(m)
    BY <1>1, <2>2, HandlerMoves, FindLinkStep DEF TablesOK, Handle
  <2> QED BY <2>1, <2>2
<1> QED BY <1>1, <1>2, <1>3 DEF ChannelTyped, TablesOK, OnlyMessage

\* Every row that a write undoes is counted, up to the bound.
LEMMA UndoCounts ==
    ASSUME TablesOK, Undo
    PROVE  undone' \in 0 .. MaxUndone /\ undone' # 0
BY MaxUndoneAssumption DEF TablesOK, Undo

\* What the users, stopSession and undone writes do to the tables.
LEMMA ConnectionTyped ==
    ASSUME ChannelTyped, NEW c \in Connections,
           \/ User(c)
           \/ c \in WhatsApp /\ (StopSession(c) \/ StopWrites(c))
    PROVE  ChannelTyped'
<1>1. TablesOK /\ SocketsOK(socket) /\ MessagesOK(msg)
  BY DEF ChannelTyped
<1>2. CASE Create(c)
  BY <1>1, <1>2 DEF Create, ChannelTyped, TablesOK, Statuses
<1>3. CASE Delete(c)
  <2>1. link' \in [Connections -> [Threads -> Inbound \cup {Nil}]]
    BY <1>1, <1>3 DEF Delete, TablesOK
  <2> QED BY <1>1, <1>3, <2>1 DEF Delete, ChannelTyped, TablesOK
<1>4. ASSUME NEW value \in UserStatuses, UserSetsStatus(c, value) PROVE ChannelTyped'
  <2>1. value \in Statuses
    BY UserStatusesAssumption DEF Statuses
  <2> QED BY <1>1, <1>4, <2>1, SetStatusStep DEF UserSetsStatus, ChannelTyped, TablesOK
<1>5. CASE c \in WhatsApp /\ StopSession(c)
  BY <1>1, <1>5, StopSessionSockets DEF StopSession, ChannelTyped, TablesOK
<1>6. CASE StopWrites(c)
  <2>1. "disconnected" \in Statuses
    BY DEF Statuses
  <2>2. CASE SetStatus(c, "disconnected", Nil)
    BY <1>1, <1>6, <2>1, <2>2, SetStatusStep DEF StopWrites, ChannelTyped, TablesOK
  <2>3. CASE UNCHANGED <<status, opened>>
    BY <1>1, <1>6, <2>3 DEF StopWrites, ChannelTyped, TablesOK
  <2> QED BY <1>6, <2>2, <2>3 DEF StopWrites
<1>7. CASE StatusIsUndone(c)
  <2>1. undone' \in 0 .. MaxUndone
    BY <1>1, <1>7, UndoCounts DEF StatusIsUndone
  <2>2. PICK value \in Statuses \cup {"deleted"} : SetStatus(c, value, Nil)
    BY <1>7 DEF StatusIsUndone
  <2> QED BY <1>1, <1>7, <2>1, <2>2, SetStatusStep DEF StatusIsUndone, ChannelTyped, TablesOK
<1>8. ASSUME NEW t \in Threads, LinkIsUndone(c, t) PROVE ChannelTyped'
  <2>1. undone' \in 0 .. MaxUndone
    BY <1>1, <1>8, UndoCounts DEF LinkIsUndone
  <2>2. PICK chat \in Inbound \cup {Nil} : link' = [link EXCEPT ![c][t] = chat]
    BY <1>8 DEF LinkIsUndone
  <2> QED BY <1>1, <1>8, <2>1, <2>2 DEF LinkIsUndone, ChannelTyped, TablesOK
<1> QED BY <1>2, <1>3, <1>4, <1>5, <1>6, <1>7, <1>8 DEF User

\* Every step of the channels.
LEMMA ChannelTypedSteps ==
    ASSUME ChannelTyped, ChannelNext
    PROVE  ChannelTyped'
<1>1. CASE \/ \E c \in Connections : User(c)
           \/ \E c \in WhatsApp : StopSession(c) \/ StopWrites(c)
  BY <1>1, ConnectionTyped, Nothing
<1>2. CASE \E s \in Sockets : Session(s)
  BY <1>2, SessionTyped
<1>3. ASSUME NEW m \in Inbound, NEW t \in Threads,
             \/ \E s \in Sockets : WhatsAppMessage(m, s, t)
             \/ \E c \in Telegram : TelegramMessage(m, c, t)
      PROVE  ChannelTyped'
  <2>1. MessagesOK(msg') /\ OnlyMessage(m) /\ link' = link
    BY <1>3, WhatsAppMessageStep, TelegramMessageStep
  <2> QED BY <2>1 DEF ChannelTyped, TablesOK, OnlyMessage
<1>4. CASE \E m \in Inbound : Handle(m)
  BY <1>4, HandlerTyped
<1>5. CASE Uncaught \/ ProcessKilled
  BY <1>5, RestartStep DEF Uncaught, ProcessKilled
<1> QED BY <1>1, <1>2, <1>3, <1>4, <1>5 DEF ChannelNext

\* The channels' variables have their types, a socket's events are those that its phase has
\* left to handle, and a message that is handled has what its handler found.
THEOREM ChannelsWellTyped == ChannelSpec => []ChannelTyped
<1>1. ChannelInit => ChannelTyped
  <2> SUFFICES ASSUME ChannelInit PROVE ChannelTyped
    OBVIOUS
  <2>1. TablesOK
    BY MaxUndoneAssumption DEF ChannelInit, TablesOK
  <2>2. NoSocket \in SocketEntries /\ SocketOK(NoSocket)
    <3>1. NoSocket \in SocketEntries
      BY DEF NoSocket, SocketEntries, Phases
    <3> QED BY <3>1 DEF SocketOK, NoSocket, Pending
  <2>3. NoMessage \in MessageEntries /\ MessageOK(NoMessage)
    <3>1. NoMessage \in MessageEntries
      BY DEF NoMessage, MessageEntries
    <3> QED BY <3>1, Nothing DEF MessageOK, NoMessage
  <2>4. SocketsOK(socket)
    BY <2>2 DEF ChannelInit, SocketsOK
  <2>5. MessagesOK(msg)
    BY <2>3 DEF ChannelInit, MessagesOK
  <2> QED BY <2>1, <2>4, <2>5 DEF ChannelTyped
<1>2. ChannelTyped /\ [ChannelNext]_channelVars => ChannelTyped'
  <2>1. CASE UNCHANGED channelVars
    BY <2>1 DEF channelVars, ChannelTyped, TablesOK
  <2> QED BY <2>1, ChannelTypedSteps
<1> QED BY <1>1, <1>2, PTL DEF ChannelSpec

\* The state of the channels has its types; who is past a step has what the step found.
THEOREM ChannelTypesAreKept == ChannelSpec => []ChannelTypeOK
<1>1. ChannelTyped => ChannelTypeOK
  BY DEF ChannelTyped, TablesOK, SocketsOK, SocketEntries, Phases, Events,
         MessagesOK, MessageEntries, MessageOK, ChannelTypeOK
<1> QED BY <1>1, ChannelsWellTyped, PTL

----------------------------------------------------------------------------
(* The channels: threads keep their chat                                   *)

\* The chat in which a message is asked is the one its thread is linked to, unless the links
\* went with the connection. A link is not written over as long as no write undoes another: a
\* connection that is deleted is not there for an insertion, and before it is deleted its links
\* stay.
ChatsAreLinks ==
    \A m \in Inbound : msg[m].chat # Nil =>
        \/ LinkOf(m) = msg[m].chat
        \/ status[msg[m].conn] = "deleted" /\ LinkOf(m) = Nil

Threaded == undone = 0 => ChatsAreLinks /\ ThreadsKeepTheirChat

\* What a deleted connection was stays deleted.
DeletedStay == \A c \in Connections : status[c] = "deleted" => status'[c] = "deleted"

\* Messages that have a chat keep it, and their thread.
ChatsStay == \A m \in Inbound : /\ msg'[m].chat = msg[m].chat
                                /\ msg[m].chat # Nil => SameThread(m)

\* A message that has a chat has a connection and a thread.
LEMMA ChatFacts ==
    ASSUME ChannelTyped, NEW m \in Inbound, msg[m].chat # Nil
    PROVE  msg[m].conn \in Connections /\ msg[m].thread \in Threads
BY MessageFacts DEF ChannelTyped, NoMessage

\* Nothing happens to the threads where no link, no chat and no deletion changes.
LEMMA ThreadsStay ==
    ASSUME ChannelTyped, Threaded, undone = 0, link' = link, DeletedStay, ChatsStay
    PROVE  Threaded'
<1>1. ChatsAreLinks'
  BY ChatFacts DEF Threaded, ChatsAreLinks, DeletedStay, ChatsStay, SameThread, LinkOf
<1>2. ThreadsKeepTheirChat'
  BY DEF Threaded, ThreadsKeepTheirChat, ChatsStay, SameThread
<1> QED BY <1>1, <1>2 DEF Threaded

\* A status is written only to a connection that exists.
LEMMA StatusWritten ==
    ASSUME ChannelTyped, NEW c \in Connections, Exists(c), NEW value, NEW writer,
           SetStatus(c, value, writer)
    PROVE  DeletedStay
<1>1. status[c] # "deleted"
  BY DEF Exists, Statuses
<1> QED BY <1>1 DEF SetStatus, DeletedStay, ChannelTyped, TablesOK

\* Sessions touch neither links nor messages.
LEMMA SessionThreads ==
    ASSUME ChannelTyped, NEW s \in Sockets, Session(s)
    PROVE  UNCHANGED <<link, msg>> /\ DeletedStay
<1>1. UNCHANGED <<link, msg>>
  BY DEF Session, StartSession, WriteAuthDir, KeepAuthDir, MakeSocket, StartFails, Opens, Closes,
         Emit, HandleEvent, DropSession
<1> DEFINE Handles == \E event \in {"open", "close", "fatal"} : HandleEvent(s, event)
<1>2. CASE WriteAuthDir(s) \/ Handles
  <2>1. socket[s].conn \in Connections /\ Exists(socket[s].conn)
    BY <1>2, WriteAuthDirStep, HandleEventStep, Nothing DEF OthersStay
  <2>2. \E value, writer : SetStatus(socket[s].conn, value, writer)
    BY <1>2, WriteAuthDirStep, HandleEventStep
  <2> QED BY <1>1, <2>1, <2>2, StatusWritten
<1>3. CASE ~(WriteAuthDir(s) \/ Handles)
  <2>1. status' = status
    BY <1>3 DEF Session, StartSession, KeepAuthDir, MakeSocket, StartFails, Opens, Closes,
       Emit, DropSession
  <2> QED BY <1>1, <2>1 DEF DeletedStay
<1> QED BY <1>2, <1>3

\* A deletion removes the links of its own connection, or none.
LEMMA DeleteThreads ==
    ASSUME ChannelTyped, Threaded, undone = 0, NEW c \in Connections, Delete(c)
    PROVE  Threaded'
<1>1. msg' = msg /\ DeletedStay /\ ChatsStay /\ status'[c] = "deleted"
  BY DEF Delete, DeletedStay, ChatsStay, SameThread, ChannelTyped, TablesOK
<1>2. CASE link' = link
  BY <1>1, <1>2, ThreadsStay
<1>3. CASE link' = [link EXCEPT ![c] = [t \in Threads |-> Nil]]
  <2>1. ThreadsKeepTheirChat'
    BY <1>1 DEF Threaded, ThreadsKeepTheirChat
  <2>2. ASSUME NEW m \in Inbound, msg[m].chat # Nil
        PROVE  \/ LinkOf(m)' = msg[m].chat
               \/ status'[msg[m].conn] = "deleted" /\ LinkOf(m)' = Nil
    <3>1. msg[m].conn \in Connections /\ msg[m].thread \in Threads
      BY <2>2, ChatFacts
    <3>2. CASE msg[m].conn = c
      BY <1>1, <1>3, <3>1, <3>2 DEF LinkOf, ChannelTyped, TablesOK
    <3>3. CASE msg[m].conn # c
      <4>1. LinkOf(m)' = LinkOf(m)
        BY <1>1, <1>3, <3>1, <3>3 DEF LinkOf, ChannelTyped, TablesOK
      <4> QED BY <1>1, <2>2, <3>1, <4>1 DEF Threaded, ChatsAreLinks, DeletedStay
    <3> QED BY <3>2, <3>3
  <2>3. ChatsAreLinks'
    BY <1>1, <2>2 DEF ChatsAreLinks
  <2> QED BY <2>1, <2>3 DEF Threaded
<1> QED BY <1>2, <1>3 DEF Delete

\* The chat that is found is the link's.
LEMMA FindLinkThreads ==
    ASSUME ChannelTyped, Threaded, undone = 0, NEW m \in Inbound, FindLink(m)
    PROVE  Threaded'
<1>1. /\ OnlyMessage(m) /\ SameThread(m) /\ link' = link /\ LinkOf(m) \in Inbound
      /\ msg'[m].chat = msg[m].chat \/ msg'[m].chat = LinkOf(m)
  BY FindLinkStep
<1>2. CASE msg'[m].chat = msg[m].chat
  <2>1. DeletedStay /\ ChatsStay
    BY <1>1, <1>2 DEF OnlyMessage, SameThread, DeletedStay, ChatsStay
  <2> QED BY <1>1, <2>1, ThreadsStay
<1>3. CASE msg'[m].chat = LinkOf(m)
  <2>1. ASSUME NEW n \in Inbound
        PROVE  /\ msg'[n].conn = msg[n].conn /\ msg'[n].thread = msg[n].thread
               /\ LinkOf(n)' = LinkOf(n)
               /\ n # m => msg'[n].chat = msg[n].chat
    BY <1>1 DEF OnlyMessage, SameThread, LinkOf
  <2>2. LinkOf(m) # Nil
    BY <1>1, Nothing
  <2>3. status' = status
    BY <1>1 DEF OnlyMessage
  <2>4. ChatsAreLinks'
    <3> SUFFICES ASSUME NEW n \in Inbound, msg'[n].chat # Nil
                 PROVE  \/ LinkOf(n)' = msg'[n].chat
                        \/ status'[msg'[n].conn] = "deleted" /\ LinkOf(n)' = Nil
      BY DEF ChatsAreLinks
    <3>1. CASE n = m
      BY <1>1, <1>3, <2>1, <3>1 DEF LinkOf
    <3>2. CASE n # m
      BY <1>1, <2>1, <2>3, <3>2 DEF Threaded, ChatsAreLinks, LinkOf
    <3> QED BY <3>1, <3>2
  <2>5. \A n \in Inbound : msg'[n].chat # Nil /\ LinkOf(n) # Nil => msg'[n].chat = LinkOf(n)
    <3> SUFFICES ASSUME NEW n \in Inbound, msg'[n].chat # Nil, LinkOf(n) # Nil
                 PROVE  msg'[n].chat = LinkOf(n)
      OBVIOUS
    <3> QED BY <1>1, <2>1, <2>4 DEF ChatsAreLinks, LinkOf
  <2>6. ThreadsKeepTheirChat'
    <3> SUFFICES ASSUME NEW n \in Inbound, NEW o \in Inbound, msg'[n].conn = msg'[o].conn,
                        msg'[n].thread = msg'[o].thread, msg'[n].chat # Nil, msg'[o].chat # Nil
                 PROVE  msg'[n].chat = msg'[o].chat
      BY DEF ThreadsKeepTheirChat
    <3>1. LinkOf(n) = LinkOf(o)
      BY <2>1 DEF LinkOf
    <3>2. CASE n = m \/ o = m
      <4>1. LinkOf(n) # Nil /\ LinkOf(o) # Nil
        BY <2>2, <3>1, <3>2
      <4> QED BY <2>5, <3>1, <4>1
    <3>3. CASE n # m /\ o # m
      <4>1. msg'[n].chat = msg[n].chat /\ msg'[o].chat = msg[o].chat
        BY <2>1, <3>3
      <4>2. msg[n].conn = msg[o].conn /\ msg[n].thread = msg[o].thread
        BY <2>1
      <4> QED BY <4>1, <4>2 DEF Threaded, ThreadsKeepTheirChat
    <3> QED BY <3>2, <3>3
  <2> QED BY <2>4, <2>6 DEF Threaded
<1> QED BY <1>1, <1>2, <1>3

\* The link that is inserted was not there, so that no chat of the thread is either.
LEMMA InsertThreads ==
    ASSUME ChannelTyped, Threaded, undone = 0, NEW m \in Inbound, Insert(m)
    PROVE  Threaded'
<1> DEFINE c == msg[m].conn
<1> DEFINE t == msg[m].thread
<1>1. /\ OnlyMessage(m) /\ SameThread(m) /\ Exists(c) /\ LinkOf(m) = Nil
      /\ msg'[m].chat = msg[m].chat \/ msg'[m].chat = m
      /\ c \in Connections /\ t \in Threads
      /\ link' = [link EXCEPT ![c][t] = m]
  BY InsertStep
<1>2. status[c] # "deleted" /\ status' = status
  BY <1>1 DEF Exists, Statuses, OnlyMessage
<1>3. ASSUME NEW n \in Inbound
      PROVE  /\ msg'[n].conn = msg[n].conn /\ msg'[n].thread = msg[n].thread
             /\ n # m => msg'[n].chat = msg[n].chat
  BY <1>1 DEF OnlyMessage, SameThread
<1>4. ASSUME NEW n \in Inbound, msg[n].conn = c, msg[n].thread = t
      PROVE  msg[n].chat = Nil /\ LinkOf(n)' = m
  <2>1. LinkOf(n) = Nil /\ status[msg[n].conn] # "deleted"
    BY <1>1, <1>2, <1>4 DEF LinkOf
  <2>2. msg[n].chat = Nil
    BY <2>1 DEF Threaded, ChatsAreLinks
  <2>3. LinkOf(n)' = link'[c][t]
    BY <1>3, <1>4 DEF LinkOf
  <2>4. link'[c][t] = m
    BY <1>1 DEF ChannelTyped, TablesOK
  <2> QED BY <2>2, <2>3, <2>4
<1>5. ASSUME NEW n \in Inbound, msg[n].conn # c \/ msg[n].thread # t,
             msg[n].chat # Nil
      PROVE  LinkOf(n)' = LinkOf(n)
  <2> DEFINE d == msg[n].conn
  <2> DEFINE u == msg[n].thread
  <2>1. d \in Connections /\ u \in Threads
    BY <1>5, ChatFacts
  <2>2. LinkOf(n)' = link'[d][u] /\ LinkOf(n) = link[d][u]
    BY <1>3 DEF LinkOf
  <2>3. link'[d][u] = link[d][u]
    <3>1. d # c \/ u # t
      BY <1>5
    <3> HIDE DEF c, d, t, u
    <3> QED BY <1>1, <2>1, <3>1 DEF ChannelTyped, TablesOK
  <2> QED BY <2>2, <2>3
<1>6. msg[m].chat = Nil
  BY <1>4
<1>7. \A n \in Inbound : msg'[n].chat # Nil => IF msg[n].conn = c /\ msg[n].thread = t
                                               THEN n = m /\ msg'[n].chat = m
                                               ELSE n # m
  BY <1>1, <1>3, <1>4
<1>8. ChatsAreLinks'
  <2> SUFFICES ASSUME NEW n \in Inbound, msg'[n].chat # Nil
               PROVE  \/ LinkOf(n)' = msg'[n].chat
                      \/ status'[msg'[n].conn] = "deleted" /\ LinkOf(n)' = Nil
    BY DEF ChatsAreLinks
  <2>1. CASE msg[n].conn = c /\ msg[n].thread = t
    <3>1. LinkOf(n)' = m
      BY <1>4, <2>1
    <3> QED BY <1>7, <2>1, <3>1
  <2>2. CASE ~(msg[n].conn = c /\ msg[n].thread = t)
    <3>1. msg'[n].chat = msg[n].chat /\ msg'[n].conn = msg[n].conn
      BY <1>3, <2>2
    <3>2. LinkOf(n)' = LinkOf(n)
      BY <1>5, <2>2, <3>1
    <3> QED BY <1>2, <3>1, <3>2 DEF Threaded, ChatsAreLinks
  <2> QED BY <2>1, <2>2
<1>9. ThreadsKeepTheirChat'
  <2> SUFFICES ASSUME NEW n \in Inbound, NEW o \in Inbound, msg'[n].conn = msg'[o].conn,
                      msg'[n].thread = msg'[o].thread, msg'[n].chat # Nil, msg'[o].chat # Nil
               PROVE  msg'[n].chat = msg'[o].chat
    BY DEF ThreadsKeepTheirChat
  <2>1. msg[n].conn = msg[o].conn /\ msg[n].thread = msg[o].thread
    BY <1>3
  <2>2. CASE msg[n].conn = c /\ msg[n].thread = t
    BY <1>7, <2>1, <2>2
  <2>3. CASE ~(msg[n].conn = c /\ msg[n].thread = t)
    <3>1. n # m /\ o # m
      BY <2>1, <2>3
    <3> QED BY <1>3, <2>1, <3>1 DEF Threaded, ThreadsKeepTheirChat
  <2> QED BY <2>2, <2>3
<1> QED BY <1>8, <1>9 DEF Threaded

\* A step that undoes nothing leaves the count.
LEMMA NothingUndone ==
    ASSUME ChannelNext, ~Undo
    PROVE  undone' = undone
<1>1. ASSUME NEW c \in Connections, User(c) PROVE undone' = undone
  BY <1>1 DEF User, Create, Delete, UserSetsStatus, StatusIsUndone, LinkIsUndone
<1>2. ASSUME NEW c \in WhatsApp, StopSession(c) \/ StopWrites(c) PROVE undone' = undone
  BY <1>2 DEF StopSession, StopWrites
<1>3. ASSUME NEW s \in Sockets, Session(s) PROVE undone' = undone
  BY <1>3 DEF Session, StartSession, WriteAuthDir, KeepAuthDir, MakeSocket, StartFails, Opens,
     Closes, Emit, HandleEvent, DropSession
<1>4. ASSUME NEW m \in Inbound, NEW t \in Threads,
             \/ \E s \in Sockets : WhatsAppMessage(m, s, t)
             \/ \E c \in Telegram : TelegramMessage(m, c, t)
      PROVE  undone' = undone
  BY <1>4 DEF WhatsAppMessage, TelegramMessage
<1>5. ASSUME NEW m \in Inbound, Handle(m) PROVE undone' = undone
  BY <1>5 DEF Handle, FindLink, MissLink, Insert, SendIntroduction, CheckConnected,
     GatewayAnswers, SendReply, TelegramThrows
<1>6. CASE Uncaught \/ ProcessKilled
  BY <1>6 DEF Uncaught, ProcessKilled, Restart
<1> QED BY <1>1, <1>2, <1>3, <1>4, <1>5, <1>6 DEF ChannelNext

\* Every step of the channels.
LEMMA ThreadedSteps ==
    ASSUME ChannelTyped, Threaded, ChannelNext
    PROVE  Threaded'
<1> SUFFICES ASSUME undone' = 0 PROVE Threaded'
  BY DEF Threaded
<1>0. undone = 0 /\ ~Undo
  <2>1. ~Undo
    BY UndoCounts DEF ChannelTyped
  <2> QED BY <2>1, NothingUndone
<1>1. ASSUME NEW c \in Connections, User(c) PROVE Threaded'
  <2>1. CASE Create(c)
    BY <1>0, <1>1, <2>1, ThreadsStay DEF Create, DeletedStay, ChatsStay, SameThread, ChannelTyped,
       TablesOK
  <2>2. ASSUME NEW value \in UserStatuses, UserSetsStatus(c, value) PROVE Threaded'
    BY <1>0, <2>2, StatusWritten, ThreadsStay DEF UserSetsStatus, ChatsStay, SameThread
  <2> QED BY <1>0, <1>1, <2>1, <2>2, DeleteThreads DEF User, StatusIsUndone, LinkIsUndone
<1>2. ASSUME NEW c \in WhatsApp, StopSession(c) \/ StopWrites(c) PROVE Threaded'
  <2>1. UNCHANGED <<link, msg>>
    BY <1>2 DEF StopSession, StopWrites
  <2>2. DeletedStay
    BY <1>2, StatusWritten, Nothing DEF StopSession, StopWrites, DeletedStay
  <2> QED BY <1>0, <2>1, <2>2, ThreadsStay DEF ChatsStay, SameThread
<1>3. ASSUME NEW s \in Sockets, Session(s) PROVE Threaded'
  BY <1>0, <1>3, SessionThreads, ThreadsStay DEF ChatsStay, SameThread
<1>4. ASSUME NEW m \in Inbound, NEW t \in Threads,
             \/ \E s \in Sockets : WhatsAppMessage(m, s, t)
             \/ \E c \in Telegram : TelegramMessage(m, c, t)
      PROVE  Threaded'
  <2>1. /\ OnlyMessage(m) /\ link' = link
        /\ msg'[m].chat = Nil /\ msg[m].chat = Nil
    BY <1>4, WhatsAppMessageStep, TelegramMessageStep
  <2> QED BY <1>0, <2>1, ThreadsStay DEF OnlyMessage, DeletedStay, ChatsStay, SameThread
<1>5. ASSUME NEW m \in Inbound, Handle(m) PROVE Threaded'
  <2>1. CASE FindLink(m) \/ Insert(m)
    BY <1>0, <2>1, FindLinkThreads, InsertThreads
  <2>2. CASE ~(FindLink(m) \/ Insert(m))
    <3>1. OnlyMessage(m) /\ SameThread(m) /\ msg'[m].chat = msg[m].chat /\ link' = link
      BY <1>5, <2>2, HandlerMoves DEF Handle
    <3> QED BY <1>0, <3>1, ThreadsStay DEF OnlyMessage, DeletedStay, ChatsStay, SameThread
  <2> QED BY <2>1, <2>2
<1>6. CASE Uncaught \/ ProcessKilled
  <2>1. Restart
    BY <1>6 DEF Uncaught, ProcessKilled
  <2> QED BY <1>0, <2>1, RestartStep, ThreadsStay DEF Restart, DeletedStay, ChatsStay, SameThread
<1> QED BY <1>1, <1>2, <1>3, <1>4, <1>5, <1>6 DEF ChannelNext

\* As long as every write of messaging.sqlite ended and none undid another, the agent is asked
\* about all messages of a thread in one chat, whatever messages of it are handled at the same
\* time, and across restarts.
THEOREM ThreadsKeepTheirChats == ChannelSpec => []ThreadsKeepTheirChat
<1>1. ChannelInit => Threaded
  <2> SUFFICES ASSUME ChannelInit PROVE Threaded
    OBVIOUS
  <2>1. \A m \in Inbound : msg[m].chat = Nil
    BY DEF ChannelInit, NoMessage
  <2> QED BY <2>1 DEF Threaded, ChatsAreLinks, ThreadsKeepTheirChat
<1>2. ChannelTyped /\ Threaded /\ [ChannelNext]_channelVars => Threaded'
  <2> SUFFICES ASSUME ChannelTyped, Threaded, [ChannelNext]_channelVars PROVE Threaded'
    OBVIOUS
  <2>1. CASE UNCHANGED channelVars
    BY <2>1 DEF channelVars, Threaded, ChatsAreLinks, ThreadsKeepTheirChat, LinkOf
  <2> QED BY <2>1, ThreadedSteps
<1>3. Threaded => ThreadsKeepTheirChat
  BY DEF Threaded, ThreadsKeepTheirChat
<1> QED BY <1>1, <1>2, <1>3, ChannelsWellTyped, PTL DEF ChannelSpec

----------------------------------------------------------------------------
(* The channels: sessions that do not overlap follow their sockets         *)

\* A socket that connects or is connected, or whose close has a callback under way.
Lives(e) ==
    \/ e.phase \in {"connecting", "open"}
    \/ e.phase = "closed" /\ {"close", "fatal", "drop"} \cap e.events # {}

\* A socket that was opened, and whose close was not handled.
Unclosed(e) ==
    \/ e.phase \in {"open", "ending"}
    \/ e.phase = "closed" /\ {"close", "fatal"} \cap e.events # {}

\* The session of a connection is a socket that was made, and not ended by stopSession.
ActiveSockets ==
    \A c \in Connections : active[c] # Nil =>
        socket[active[c]].conn = c /\ Lives(socket[active[c]])

ConnectedAreActive ==
    \A s \in Sockets : socket[s].phase \in {"connecting", "open"} => active[socket[s].conn] = s

\* The socket that made a connection connected is its own, and its close is not handled: the
\* callback of a close writes another status.
OpenersAreOwn ==
    \A c \in Connections : opened[c] # Nil =>
        socket[opened[c]].conn = c /\ Unclosed(socket[opened[c]])

\* A connection has one socket at a time that is not done.
OneSocket ==
    \A s, t \in Sockets : /\ ~Idle(s) /\ ~Idle(t)
                          /\ socket[s].conn = socket[t].conn
                          => s = t

Followed == ActiveSockets /\ ConnectedAreActive /\ OpenersAreOwn /\ OneSocket

\* Who lives or is unclosed is not done.
LEMMA NotIdle ==
    ASSUME NEW s \in Sockets, Lives(socket[s]) \/ Unclosed(socket[s])
    PROVE  ~Idle(s)
BY DEF Lives, Unclosed, Idle

\* Steps that leave the sockets and the sessions, and make no connection connected by a socket.
StatusOnly ==
    /\ UNCHANGED <<active, socket>>
    /\ \A c \in Connections : opened'[c] \in {opened[c], Nil}

\* Such steps break nothing.
LEMMA StatusOnlyFollowed ==
    ASSUME ChannelTyped, Followed, StatusOnly
    PROVE  Followed'
<1>1. ActiveSockets' /\ ConnectedAreActive' /\ OneSocket'
  BY DEF StatusOnly, Followed, ActiveSockets, ConnectedAreActive, OneSocket, Idle
<1>2. OpenersAreOwn'
  BY DEF StatusOnly, Followed, OpenersAreOwn
<1> QED BY <1>1, <1>2 DEF Followed

\* While a socket is not done, it alone may be the session of its connection, and what made
\* that connected.
LEMMA OwnSession ==
    ASSUME ChannelTyped, Followed, NEW s \in Sockets, ~Idle(s)
    PROVE  LET c == socket[s].conn
           IN  /\ c \in Connections
               /\ active[c] \in {Nil, s} /\ (active[c] = s => Lives(socket[s]))
               /\ opened[c] \in {Nil, s} /\ (opened[c] = s => Unclosed(socket[s]))
<1> DEFINE c == socket[s].conn
<1>1. c \in Connections
  BY SocketFacts DEF Idle, ChannelTyped
<1>2. active[c] \in Sockets \cup {Nil} /\ opened[c] \in Sockets \cup {Nil}
  BY <1>1 DEF ChannelTyped, TablesOK
<1>3. active[c] \in {Nil, s} /\ (active[c] = s => Lives(socket[s]))
  <2>1. CASE active[c] = Nil
    BY <2>1, Nothing
  <2>2. CASE active[c] # Nil
    <3>1. /\ active[c] \in Sockets /\ Lives(socket[active[c]]) /\ socket[active[c]].conn = c
      BY <1>1, <1>2, <2>2 DEF Followed, ActiveSockets
    <3>2. active[c] = s
      BY <3>1, NotIdle DEF Followed, OneSocket
    <3> QED BY <3>1, <3>2
  <2> QED BY <2>1, <2>2
<1>4. opened[c] \in {Nil, s} /\ (opened[c] = s => Unclosed(socket[s]))
  <2>1. CASE opened[c] = Nil
    BY <2>1, Nothing
  <2>2. CASE opened[c] # Nil
    <3>1. /\ opened[c] \in Sockets /\ Unclosed(socket[opened[c]]) /\ socket[opened[c]].conn = c
      BY <1>1, <1>2, <2>2 DEF Followed, OpenersAreOwn
    <3>2. opened[c] = s
      BY <3>1, NotIdle DEF Followed, OneSocket
    <3> QED BY <3>1, <3>2
  <2> QED BY <2>1, <2>2
<1> QED BY <1>1, <1>3, <1>4

\* What a step of a socket that is not done has to see to.
LEMMA SocketFollowed ==
    ASSUME ChannelTyped, Followed, NEW s \in Sockets, ~Idle(s),
           NEW c \in Connections, c = socket[s].conn, socket'[s].conn = c,
           \A t \in Sockets : t # s => socket'[t] = socket[t],
           \A d \in Connections : d # c => active'[d] = active[d] /\ opened'[d] = opened[d],
           socket'[s].phase \in {"connecting", "open"} => active'[c] = s,
           active'[c] \in {Nil, s}, active'[c] = s => Lives(socket'[s]),
           opened'[c] \in {Nil, s}, opened'[c] = s => Unclosed(socket'[s])
    PROVE  Followed'
<1>1. ASSUME NEW t \in Sockets, t # s, socket[t].conn = c
      PROVE  socket[t].phase \in {"unused", "closed"} /\ socket[t].events = {}
  BY <1>1 DEF Followed, OneSocket, Idle
<1>2. ASSUME NEW d \in Connections, d # c
      PROVE  /\ active[d] \in Sockets \cup {Nil} /\ active[d] # s
             /\ opened[d] \in Sockets \cup {Nil} /\ opened[d] # s
  BY <1>2, Nothing DEF ChannelTyped, TablesOK, Followed, ActiveSockets, OpenersAreOwn
<1>3. ActiveSockets'
  <2> SUFFICES ASSUME NEW d \in Connections, active'[d] # Nil
               PROVE  socket'[active'[d]].conn = d /\ Lives(socket'[active'[d]])
    BY DEF ActiveSockets
  <2>1. CASE d = c
    BY <2>1
  <2>2. CASE d # c
    <3>1. active'[d] = active[d] /\ active[d] \in Sockets /\ active[d] # s
      BY <1>2, <2>2
    <3>2. socket'[active[d]] = socket[active[d]]
      BY <3>1
    <3> QED BY <3>1, <3>2 DEF Followed, ActiveSockets
  <2> QED BY <2>1, <2>2
<1>4. ConnectedAreActive'
  <2> SUFFICES ASSUME NEW t \in Sockets, socket'[t].phase \in {"connecting", "open"}
               PROVE  active'[socket'[t].conn] = t
    BY DEF ConnectedAreActive
  <2>1. CASE t = s
    BY <2>1
  <2>2. CASE t # s
    <3>1. socket'[t] = socket[t] /\ socket[t].phase \in {"connecting", "open"}
      BY <2>2
    <3>2. socket[t].conn # c /\ socket[t].conn \in Connections
      BY <1>1, <2>2, <3>1, SocketFacts DEF ChannelTyped
    <3>3. active[socket[t].conn] = t
      BY <3>1 DEF Followed, ConnectedAreActive
    <3> QED BY <3>1, <3>2, <3>3
  <2> QED BY <2>1, <2>2
<1>5. OpenersAreOwn'
  <2> SUFFICES ASSUME NEW d \in Connections, opened'[d] # Nil
               PROVE  socket'[opened'[d]].conn = d /\ Unclosed(socket'[opened'[d]])
    BY DEF OpenersAreOwn
  <2>1. CASE d = c
    BY <2>1
  <2>2. CASE d # c
    <3>1. opened'[d] = opened[d] /\ opened[d] \in Sockets /\ opened[d] # s
      BY <1>2, <2>2
    <3>2. socket'[opened[d]] = socket[opened[d]]
      BY <3>1
    <3> QED BY <3>1, <3>2 DEF Followed, OpenersAreOwn
  <2> QED BY <2>1, <2>2
<1>6. OneSocket'
  <2> SUFFICES ASSUME NEW t \in Sockets, NEW u \in Sockets, t # u,
                      socket'[t].conn = socket'[u].conn
               PROVE  \/ socket'[t].phase \in {"unused", "closed"} /\ socket'[t].events = {}
                      \/ socket'[u].phase \in {"unused", "closed"} /\ socket'[u].events = {}
    BY DEF OneSocket, Idle
  <2>1. CASE t = s
    BY <1>1, <2>1
  <2>2. CASE u = s
    BY <1>1, <2>2
  <2>3. CASE t # s /\ u # s
    <3>1. socket'[t] = socket[t] /\ socket'[u] = socket[u]
      BY <2>3
    <3> QED BY <3>1 DEF Followed, OneSocket, Idle
  <2> QED BY <2>1, <2>2, <2>3
<1> QED BY <1>3, <1>4, <1>5, <1>6 DEF Followed

\* A session begins where nothing is left of the last one.
LEMMA StartSessionFollowed ==
    ASSUME Patient, ChannelTyped, Followed, NEW s \in Sockets, NEW c \in WhatsApp,
           StartSession(s, c)
    PROVE  Followed'
<1>1. /\ socket'[s].conn = c /\ socket'[s].phase = "loaded" /\ socket'[s].events = {}
      /\ \A t \in Sockets : t # s => socket'[t] = socket[t]
  BY StartSessionSockets
<1>2. /\ UNCHANGED <<status, active, opened>>
      /\ \A t \in Sockets : socket[t].conn = c => Idle(t)
      /\ socket[s].phase = "unused" /\ socket[s].conn = Nil
  BY SocketFacts DEF StartSession, MayStart, ChannelTyped
<1>3. ASSUME NEW d \in Connections
      PROVE  /\ active[d] # Nil => active[d] # s /\ socket'[active[d]] = socket[active[d]]
             /\ opened[d] # Nil => opened[d] # s /\ socket'[opened[d]] = socket[opened[d]]
  BY <1>1, <1>2, Nothing DEF ChannelTyped, TablesOK, Followed, ActiveSockets, OpenersAreOwn
<1>4. ActiveSockets'
  <2> SUFFICES ASSUME NEW d \in Connections, active'[d] # Nil
               PROVE  socket'[active'[d]].conn = d /\ Lives(socket'[active'[d]])
    BY DEF ActiveSockets
  <2> QED BY <1>2, <1>3 DEF Followed, ActiveSockets
<1>5. ConnectedAreActive'
  BY <1>1, <1>2 DEF Followed, ConnectedAreActive
<1>6. OpenersAreOwn'
  <2> SUFFICES ASSUME NEW d \in Connections, opened'[d] # Nil
               PROVE  socket'[opened'[d]].conn = d /\ Unclosed(socket'[opened'[d]])
    BY DEF OpenersAreOwn
  <2> QED BY <1>2, <1>3 DEF Followed, OpenersAreOwn
<1>7. OneSocket'
  BY <1>1, <1>2 DEF Followed, OneSocket, Idle
<1> QED BY <1>4, <1>5, <1>6, <1>7 DEF Followed

\* The steps of a session.
LEMMA SessionFollowed ==
    ASSUME Patient, ChannelTyped, Followed, NEW s \in Sockets, Session(s)
    PROVE  Followed'
<1> DEFINE c == socket[s].conn
<1>1. CASE \E d \in WhatsApp : StartSession(s, d)
  BY <1>1, StartSessionFollowed
<1>2. ASSUME ~Idle(s), OthersStay(s)
      PROVE  /\ c \in Connections /\ socket'[s].conn = c
             /\ \A t \in Sockets : t # s => socket'[t] = socket[t]
             /\ active[c] \in {Nil, s} /\ (active[c] = s => Lives(socket[s]))
             /\ opened[c] \in {Nil, s} /\ (opened[c] = s => Unclosed(socket[s]))
             /\ socket[s].phase \in {"connecting", "open"} => active[c] = s
  BY <1>2, OwnSession DEF OthersStay, Followed, ConnectedAreActive
<1>3. CASE WriteAuthDir(s) \/ KeepAuthDir(s) \/ StartFails(s)
  <2>1. /\ ~Idle(s) /\ OthersStay(s) /\ socket[s].phase \in {"loaded", "auth"}
        /\ socket'[s].phase \in {"auth", "closed"} /\ active' = active
    BY <1>3, WriteAuthDirStep, KeepAuthDirStep, StartFailsStep DEF Idle
  <2>2. active[c] = Nil /\ opened[c] = Nil
    BY <1>2, <2>1 DEF Lives, Unclosed
  <2>3. /\ opened'[c] = Nil
        /\ \A d \in Connections : d # c => opened'[d] = opened[d]
    <3>1. CASE WriteAuthDir(s)
      BY <1>2, <2>1, <3>1, WriteAuthDirStep, SetStatusStep DEF ChannelTyped
    <3>2. CASE KeepAuthDir(s) \/ StartFails(s)
      BY <2>2, <3>2, KeepAuthDirStep, StartFailsStep
    <3> QED BY <1>3, <3>1, <3>2
  <2> QED BY <1>2, <2>1, <2>2, <2>3, SocketFollowed, Nothing
<1>4. CASE MakeSocket(s)
  <2>1. /\ ~Idle(s) /\ OthersStay(s) /\ socket[s].phase = "auth"
        /\ socket'[s].phase = "connecting"
        /\ opened' = opened /\ active' = [active EXCEPT ![c] = s]
    BY <1>4, MakeSocketStep DEF Idle
  <2>2. opened'[c] = Nil
    BY <1>2, <2>1 DEF Unclosed
  <2>3. /\ active'[c] = s
        /\ \A d \in Connections : d # c => active'[d] = active[d]
    BY <1>2, <2>1 DEF ChannelTyped, TablesOK
  <2>4. Lives(socket'[s])
    BY <2>1 DEF Lives
  <2> QED BY <1>2, <2>1, <2>2, <2>3, <2>4, SocketFollowed, Nothing
<1>5. CASE Opens(s) \/ Closes(s)
  <2>1. /\ ~Idle(s) /\ OthersStay(s) /\ UNCHANGED <<active, opened>>
        /\ \/ socket[s].phase = "connecting" /\ socket'[s].phase = "open"
           \/ socket'[s].phase = "closed" /\ {"close", "fatal"} \cap socket'[s].events # {}
    BY <1>5, EmitStep DEF Idle
  <2>2. Lives(socket'[s]) /\ Unclosed(socket'[s])
    BY <2>1 DEF Lives, Unclosed
  <2> QED BY <1>2, <2>1, <2>2, SocketFollowed
<1>6. ASSUME NEW event \in {"open", "close", "fatal"}, HandleEvent(s, event) PROVE Followed'
  <2>1. /\ ~Idle(s) /\ OthersStay(s) /\ active' = active
        /\ socket'[s].phase = socket[s].phase
        /\ socket[s].phase \in {"open", "ending", "closed"}
    BY <1>6, HandleEventStep DEF Idle
  <2>2. c \in Connections
    BY <1>2, <2>1
  <2>3. CASE /\ SetStatus(c, "connected", Opener(s))
             /\ socket'[s].events = socket[s].events \ {"open"}
    <3>1. Opener(s) \in {Nil, s} /\ Opener(s) \in Sockets \cup {Nil} /\ "connected" \in Statuses
      BY DEF Opener, Statuses
    <3>2. /\ opened'[c] = Opener(s)
          /\ \A d \in Connections : d # c => opened'[d] = opened[d]
      BY <2>2, <2>3, <3>1, SetStatusStep DEF ChannelTyped
    <3>3. Opener(s) = s => Unclosed(socket'[s])
      BY <2>1, <2>3, Nothing DEF Opener, Unclosed
    <3>4. Lives(socket[s]) => Lives(socket'[s])
      BY <2>1, <2>3 DEF Lives
    <3> QED BY <1>2, <2>1, <3>1, <3>2, <3>3, <3>4, SocketFollowed
  <2>4. CASE /\ \E value \in Statuses : SetStatus(c, value, Nil)
             /\ "drop" \in socket'[s].events /\ socket[s].phase = "closed"
    <3>1. /\ opened'[c] = Nil
          /\ \A d \in Connections : d # c => opened'[d] = opened[d]
      BY <2>2, <2>4, SetStatusStep DEF ChannelTyped
    <3>2. Lives(socket'[s])
      BY <2>1, <2>4 DEF Lives
    <3> QED BY <1>2, <2>1, <2>4, <3>1, <3>2, SocketFollowed, Nothing
  <2> QED BY <1>6, <2>3, <2>4, HandleEventStep
<1>7. CASE DropSession(s)
  <2>1. /\ OthersStay(s) /\ "drop" \in socket[s].events /\ socket[s].phase = "closed"
        /\ socket'[s].phase = "closed" /\ socket'[s].events = socket[s].events \ {"drop"}
        /\ active' = [active EXCEPT ![c] = Nil] /\ opened' = opened
    BY <1>7, DropSessionStep
  <2>2. ~Idle(s)
    BY <2>1 DEF Idle
  <2>3. /\ active'[c] = Nil
        /\ \A d \in Connections : d # c => active'[d] = active[d]
    BY <1>2, <2>1, <2>2 DEF ChannelTyped, TablesOK
  <2>4. Unclosed(socket[s]) => Unclosed(socket'[s])
    BY <2>1 DEF Unclosed
  <2> QED BY <1>2, <2>1, <2>2, <2>3, <2>4, SocketFollowed, Nothing
<1> QED BY <1>1, <1>3, <1>4, <1>5, <1>6, <1>7 DEF Session

\* A session that is stopped is ending until its close event is handled.
LEMMA StopSessionFollowed ==
    ASSUME ChannelTyped, Followed, NEW c \in WhatsApp, StopSession(c)
    PROVE  Followed'
<1>1. /\ UNCHANGED <<status, opened>> /\ c \in Connections
      /\ active'[c] = Nil
      /\ \A d \in Connections : d # c => active'[d] = active[d]
  BY Nothing DEF StopSession, ChannelTyped, TablesOK
<1>2. /\ \A s \in Sockets : \/ socket'[s] = socket[s]
                            \/ /\ s = active[c] /\ socket[s].phase \in {"connecting", "open"}
                               /\ socket'[s].conn = socket[s].conn
                               /\ socket'[s].phase = "ending"
                               /\ socket'[s].events = socket[s].events
      /\ active[c] # Nil => socket'[active[c]].phase \notin {"connecting", "open"}
  BY StopSessionSockets
<1>3. /\ active \in [Connections -> Sockets \cup {Nil}]
      /\ opened \in [Connections -> Sockets \cup {Nil}]
  BY DEF ChannelTyped, TablesOK
<1>4. ActiveSockets'
  <2> SUFFICES ASSUME NEW d \in Connections, active'[d] # Nil
               PROVE  socket'[active'[d]].conn = d /\ Lives(socket'[active'[d]])
    BY DEF ActiveSockets
  <2>1. d # c /\ active'[d] = active[d] /\ active[d] \in Sockets
    BY <1>1, <1>3
  <2>2. active[d] # active[c]
    BY <1>1, <2>1 DEF Followed, ActiveSockets
  <2>3. socket'[active[d]] = socket[active[d]]
    BY <1>2, <2>1, <2>2
  <2> QED BY <2>1, <2>3 DEF Followed, ActiveSockets
<1>5. ConnectedAreActive'
  <2> SUFFICES ASSUME NEW s \in Sockets, socket'[s].phase \in {"connecting", "open"}
               PROVE  active'[socket'[s].conn] = s
    BY DEF ConnectedAreActive
  <2>1. socket'[s] = socket[s]
    BY <1>2
  <2>2. active[socket[s].conn] = s /\ socket[s].conn \in Connections
    BY <2>1, SocketFacts DEF ChannelTyped, Followed, ConnectedAreActive
  <2>3. socket[s].conn # c
    BY <1>2, <2>1, <2>2, Nothing
  <2> QED BY <1>1, <2>1, <2>2, <2>3
<1>6. OpenersAreOwn'
  <2> SUFFICES ASSUME NEW d \in Connections, opened'[d] # Nil
               PROVE  socket'[opened'[d]].conn = d /\ Unclosed(socket'[opened'[d]])
    BY DEF OpenersAreOwn
  <2>1. opened'[d] = opened[d] /\ opened[d] \in Sockets
    BY <1>1, <1>3
  <2>2. socket[opened[d]].conn = d /\ Unclosed(socket[opened[d]])
    BY <2>1 DEF Followed, OpenersAreOwn
  <2>3. \/ socket'[opened[d]] = socket[opened[d]]
        \/ socket'[opened[d]].conn = d /\ socket'[opened[d]].phase = "ending"
    BY <1>2, <2>1, <2>2
  <2> QED BY <2>1, <2>2, <2>3 DEF Unclosed
<1>7. OneSocket'
  <2> SUFFICES ASSUME NEW s \in Sockets, NEW t \in Sockets, s # t,
                      socket'[s].conn = socket'[t].conn
               PROVE  \/ socket'[s].phase \in {"unused", "closed"} /\ socket'[s].events = {}
                      \/ socket'[t].phase \in {"unused", "closed"} /\ socket'[t].events = {}
    BY DEF OneSocket, Idle
  <2>1. socket[s].conn = socket[t].conn
    BY <1>2
  <2>2. Idle(s) \/ Idle(t)
    BY <2>1 DEF Followed, OneSocket
  <2> QED BY <1>2, <2>2 DEF Idle
<1> QED BY <1>4, <1>5, <1>6, <1>7 DEF Followed

\* After a restart there are no sockets and no sessions.
LEMMA RestartFollowed ==
    ASSUME ChannelTyped, Restart
    PROVE  Followed'
<1>1. \A s \in Sockets : socket'[s].phase \in {"unused", "closed"} /\ socket'[s].events = {}
  BY RestartStep
<1>2. \A c \in Connections : active'[c] = Nil /\ opened'[c] = Nil
  BY DEF Restart
<1>3. ActiveSockets' /\ ConnectedAreActive' /\ OpenersAreOwn'
  BY <1>1, <1>2 DEF ActiveSockets, ConnectedAreActive, OpenersAreOwn
<1>4. OneSocket'
  BY <1>1 DEF OneSocket, Idle
<1> QED BY <1>3, <1>4 DEF Followed

\* Every step of the channels.
LEMMA FollowedSteps ==
    ASSUME Patient, ChannelTyped, Followed, ChannelNext
    PROVE  Followed'
<1>1. ASSUME NEW c \in Connections, User(c) PROVE Followed'
  <2>1. UNCHANGED <<active, socket>>
    BY <1>1 DEF User, Create, Delete, UserSetsStatus, StatusIsUndone, LinkIsUndone
  <2>2. CASE Create(c) \/ Delete(c) \/ \E t \in Threads : LinkIsUndone(c, t)
    <3>1. StatusOnly
      BY <2>1, <2>2 DEF Create, Delete, LinkIsUndone, StatusOnly
    <3> QED BY <3>1, StatusOnlyFollowed
  <2>3. ASSUME NEW value \in UserStatuses, UserSetsStatus(c, value) PROVE Followed'
    <3>1. StatusOnly
      BY <2>1, <2>3 DEF UserSetsStatus, SetStatus, StatusOnly, ChannelTyped, TablesOK
    <3> QED BY <3>1, StatusOnlyFollowed
  <2>4. CASE StatusIsUndone(c)
    <3>1. StatusOnly
      BY <2>1, <2>4 DEF StatusIsUndone, SetStatus, StatusOnly, ChannelTyped, TablesOK
    <3> QED BY <3>1, StatusOnlyFollowed
  <2> QED BY <1>1, <2>2, <2>3, <2>4 DEF User
<1>2. ASSUME NEW c \in WhatsApp, StopWrites(c) PROVE Followed'
  <2>1. StatusOnly
    BY <1>2, Nothing DEF StopWrites, SetStatus, StatusOnly, ChannelTyped, TablesOK
  <2> QED BY <2>1, StatusOnlyFollowed
<1>3. ASSUME NEW m \in Inbound, NEW t \in Threads,
             \/ \E s \in Sockets : WhatsAppMessage(m, s, t)
             \/ \E c \in Telegram : TelegramMessage(m, c, t)
      PROVE  Followed'
  <2>1. UNCHANGED <<status, active, socket, opened>>
    BY <1>3 DEF WhatsAppMessage, TelegramMessage
  <2>2. StatusOnly
    BY <2>1 DEF StatusOnly
  <2> QED BY <2>2, StatusOnlyFollowed
<1>4. ASSUME NEW m \in Inbound, Handle(m) PROVE Followed'
  <2>1. UNCHANGED <<status, active, socket, opened>>
    BY <1>4 DEF Handle, FindLink, MissLink, Insert,
       SendIntroduction, CheckConnected, GatewayAnswers, SendReply, TelegramThrows
  <2>2. StatusOnly
    BY <2>1 DEF StatusOnly
  <2> QED BY <2>2, StatusOnlyFollowed
<1>5. CASE Uncaught \/ ProcessKilled
  BY <1>5, RestartFollowed DEF Uncaught, ProcessKilled
<1> QED BY <1>1, <1>2, <1>3, <1>4, <1>5, SessionFollowed, StopSessionFollowed DEF ChannelNext

\* Where sessions of a connection do not overlap, sessions and sockets go together.
THEOREM SocketsAreFollowed == ASSUME Patient PROVE ChannelSpec => []Followed
<1>1. ChannelInit => Followed
  BY DEF ChannelInit, NoSocket, Followed, ActiveSockets, ConnectedAreActive, OpenersAreOwn,
         OneSocket, Idle
<1>2. ChannelTyped /\ Followed /\ [ChannelNext]_channelVars => Followed'
  <2> SUFFICES ASSUME ChannelTyped, Followed, [ChannelNext]_channelVars PROVE Followed'
    OBVIOUS
  <2>1. CASE UNCHANGED channelVars
    <3>1. StatusOnly
      BY <2>1 DEF channelVars, StatusOnly
    <3> QED BY <3>1, StatusOnlyFollowed
  <2> QED BY <2>1, FollowedSteps
<1> QED BY <1>1, <1>2, ChannelsWellTyped, PTL DEF ChannelSpec

\* Where sessions do not overlap, a socket that is connected is the session of its connection,
\* so that its messages are not dropped, and a session that stays has a socket.
THEOREM SessionsAreSockets == ChannelSpec => []SessionsFollowSockets
<1>1. CASE Patient
  <2>1. ChannelTyped /\ Followed => SessionsFollowSockets
    <3> SUFFICES ASSUME ChannelTyped, Followed PROVE SessionsFollowSockets
      OBVIOUS
    <3>1. ASSUME NEW c \in Connections, active[c] # Nil
          PROVE  /\ socket[active[c]].conn = c
                 /\ socket[active[c]].phase \in {"connecting", "open"} \/ ~Idle(active[c])
      BY <3>1 DEF Followed, ActiveSockets, Lives, Idle
    <3> QED BY <3>1 DEF Followed, ConnectedAreActive, SessionsFollowSockets
  <2> QED BY <1>1, <2>1, SocketsAreFollowed, ChannelsWellTyped, PTL
<1>2. CASE ~Patient
  <2>1. SessionsFollowSockets
    BY <1>2 DEF SessionsFollowSockets
  <2> QED BY <2>1, PTL
<1> QED BY <1>1, <1>2

\* Where sessions do not overlap, a connection that is connected because a socket's open event
\* said so, before its close was handled, has that socket as its session, or the socket was ended
\* or closed and a callback of it is still under way.
THEOREM ConnectedHaveSessions == ChannelSpec => []ConnectedHasASession
<1>1. CASE Patient
  <2>1. ChannelTyped /\ Followed => ConnectedHasASession
    <3> SUFFICES ASSUME ChannelTyped, Followed, NEW c \in Connections, opened[c] # Nil
                 PROVE  \/ active[c] = opened[c] /\ socket[opened[c]].phase = "open"
                        \/ socket[opened[c]].phase = "ending" \/ socket[opened[c]].events # {}
      BY DEF ConnectedHasASession
    <3>1. /\ opened[c] \in Sockets /\ socket[opened[c]].conn = c
          /\ Unclosed(socket[opened[c]])
      BY DEF ChannelTyped, TablesOK, Followed, OpenersAreOwn
    <3> QED BY <3>1 DEF Unclosed, Followed, ConnectedAreActive
  <2> QED BY <1>1, <2>1, SocketsAreFollowed, ChannelsWellTyped, PTL
<1>2. CASE ~Patient
  <2>1. ConnectedHasASession
    BY <1>2 DEF ConnectedHasASession
  <2> QED BY <2>1, PTL
<1> QED BY <1>1, <1>2
====

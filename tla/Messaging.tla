---- MODULE Messaging ----
(***************************************************************************)
(* The messaging channels (packages/core: messaging-connections,           *)
(* messaging-router, messaging-bridge, whatsapp-channel, telegram-channel) *)
(* in the sidecar's process: sockets of WhatsApp sessions open and close,  *)
(* their events are handled by callbacks nobody waits for, messages of     *)
(* both channels find their chat, ask the gateway, and are answered.       *)
(*                                                                         *)
(* A statement on messaging.sqlite, with the writing of the file, is one   *)
(* step; every other await lets any other handler run.  But the connection *)
(* service and the router each load the whole file, keep what they loaded  *)
(* over their awaits, and write all of it back in place: a write can undo  *)
(* what the other service, or another call, wrote meanwhile, and a write   *)
(* that fails or is cut leaves a file that its service's memory is not.    *)
(* What that does to a row is a step of its own (StatusIsUndone,           *)
(* LinkIsUndone), before or after any other.                               *)
(*                                                                         *)
(* With Patient, a session is started only when nothing is left of the     *)
(* earlier ones of its connection: activeSessions has one entry for a      *)
(* connection, and the service promises nothing for two of its sockets.    *)
(***************************************************************************)
EXTENDS Naturals

CONSTANTS
    WhatsApp,       \* connections of type whatsapp
    Telegram,       \* connections of type telegram
    Threads,        \* external threads: the chats of the channel
    Inbound,        \* inbound messages
    UserStatuses,   \* statuses that the user sets
    Sockets,        \* sockets that startSession may make
    Nil,            \* no socket, chat, or writer
    MaxUndone,      \* bound: rows that undone writes change
    Patient         \* sessions of a connection do not overlap

Connections == WhatsApp \cup Telegram

ASSUME ConnectionsAssumption == WhatsApp \cap Telegram = {}
ASSUME NilAssumption == Nil \notin Connections \cup Threads \cup Inbound \cup Sockets
ASSUME UserStatusesAssumption == UserStatuses \subseteq {"pending", "connected", "disconnected", "error"}
ASSUME PatientAssumption == Patient \in BOOLEAN
ASSUME MaxUndoneAssumption == MaxUndone \in Nat

VARIABLES
    status,   \* messaging_connections: the status of each connection
    link,     \* messaging_thread_links: the chat of each thread, named by the message it began with
    active,   \* activeSessions: the socket of each connection
    socket,   \* each socket: its connection, phase, the status its start read, callbacks under way
    msg,      \* each message: its thread, the phase of its handler, the socket it holds, its chat
    stops,    \* connections whose stopSession has still to write the status
    opened,   \* history: the socket whose open event wrote the present status of a connection,
              \* before the socket's close was handled
    undone    \* history: rows changed by writes that undid others, failed, or were cut

channelVars == <<status, link, active, socket, msg, stops, opened, undone>>

Statuses == {"pending", "connected", "disconnected", "error"}
NoSocket == [conn |-> Nil, phase |-> "unused", seen |-> Nil, events |-> {}]
NoMessage == [conn |-> Nil, thread |-> Nil, phase |-> "new", sock |-> Nil, chat |-> Nil]

ChannelInit ==
    /\ status = [c \in Connections |-> "absent"]
    /\ link = [c \in Connections |-> [t \in Threads |-> Nil]]
    /\ active = [c \in Connections |-> Nil]
    /\ socket = [s \in Sockets |-> NoSocket]
    /\ msg = [m \in Inbound |-> NoMessage]
    /\ stops = {}
    /\ opened = [c \in Connections |-> Nil]
    /\ undone = 0

Exists(c) == status[c] \in Statuses

----------------------------------------------------------------------------
(* Connections                                                             *)

Create(c) ==
    /\ status[c] = "absent"
    /\ status' = [status EXCEPT ![c] = "pending"]
    /\ UNCHANGED <<link, active, socket, msg, stops, opened, undone>>

\* updateStatus
SetStatus(c, value, writer) ==
    /\ status' = [status EXCEPT ![c] = value]
    /\ opened' = [opened EXCEPT ![c] = writer]

\* The route that updates a connection; the channel's setup marks a connection connected by it.
UserSetsStatus(c, value) ==
    /\ Exists(c)
    /\ SetStatus(c, value, Nil)
    /\ UNCHANGED <<link, active, socket, msg, stops, undone>>

\* Its sessions are left as they are. Whether the links go too is the driver's: it is asked to
\* enforce foreign keys before an export of the database that reopens it.
Delete(c) ==
    /\ Exists(c)
    /\ status' = [status EXCEPT ![c] = "deleted"]
    /\ link' \in {link, [link EXCEPT ![c] = [t \in Threads |-> Nil]]}
    /\ UNCHANGED <<active, socket, msg, stops, opened, undone>>

Undo == undone < MaxUndone /\ undone' = undone + 1

\* The row is gone, is there again, or has another status: who reads it next finds that.
StatusIsUndone(c) ==
    /\ status[c] # "absent"
    /\ Undo
    /\ \E value \in Statuses \cup {"deleted"} : SetStatus(c, value, Nil)
    /\ UNCHANGED <<link, active, socket, msg, stops>>

\* The link is gone, or is that of another message of the thread.
LinkIsUndone(c, t) ==
    /\ Undo
    /\ \E chat \in {Nil} \cup {m \in Inbound : msg[m].conn = c /\ msg[m].thread = t} :
          link' = [link EXCEPT ![c][t] = chat]
    /\ UNCHANGED <<status, active, socket, msg, stops, opened>>

----------------------------------------------------------------------------
(* WhatsApp sessions                                                       *)

Idle(s) == socket[s].phase \in {"unused", "closed"} /\ socket[s].events = {}

MayStart(c) == Patient => c \notin stops /\ \A s \in Sockets : socket[s].conn = c => Idle(s)

\* startSession: the connection is read.
StartSession(s, c) ==
    /\ socket[s].phase = "unused"
    /\ Exists(c) /\ MayStart(c)
    /\ socket' = [socket EXCEPT ![s] = [@ EXCEPT !.conn = c, !.phase = "loaded", !.seen = status[c]]]
    /\ UNCHANGED <<status, link, active, msg, stops, opened, undone>>

\* A connection without a directory for its credentials gets one, and the status that was read.
WriteAuthDir(s) ==
    LET c == socket[s].conn
    IN  /\ socket[s].phase = "loaded"
        /\ Exists(c)
        /\ SetStatus(c, socket[s].seen, Nil)
        /\ socket' = [socket EXCEPT ![s] = [@ EXCEPT !.phase = "auth", !.seen = Nil]]
        /\ UNCHANGED <<link, active, msg, stops, undone>>

KeepAuthDir(s) ==
    /\ socket[s].phase = "loaded"
    /\ socket' = [socket EXCEPT ![s] = [@ EXCEPT !.phase = "auth", !.seen = Nil]]
    /\ UNCHANGED <<status, link, active, msg, stops, opened, undone>>

\* initAuthState has returned: the socket is made and is the session of its connection.
MakeSocket(s) ==
    /\ socket[s].phase = "auth"
    /\ socket' = [socket EXCEPT ![s].phase = "connecting"]
    /\ active' = [active EXCEPT ![socket[s].conn] = s]
    /\ UNCHANGED <<status, link, msg, stops, opened, undone>>

\* The connection was deleted before its status is written, the write fails, or initAuthState
\* throws.
StartFails(s) ==
    /\ socket[s].phase \in {"loaded", "auth"}
    /\ socket' = [socket EXCEPT ![s].phase = "closed"]
    /\ UNCHANGED <<status, link, active, msg, stops, opened, undone>>

\* The socket connects, or its connection is closed.  The callback of the event awaits the
\* credentials, the QR code and the store, and nobody awaits the callback: the status of an event
\* is written at any later time, in any order with that of another.
Emit(s, phase, event) ==
    /\ socket' = [socket EXCEPT ![s] = [@ EXCEPT !.phase = phase,
                      !.events = socket[s].events \cup {event}]]
    /\ UNCHANGED <<status, link, active, msg, stops, opened, undone>>

Opens(s) == socket[s].phase = "connecting" /\ Emit(s, "open", "open")
Closes(s) ==
    /\ socket[s].phase \in {"connecting", "open", "ending"}
    /\ \E event \in {"close", "fatal"} : Emit(s, "closed", event)

\* An open event whose status is written after its socket's close was handled opens nothing.
Opener(s) == IF socket[s].phase = "closed" /\ {"close", "fatal"} \cap socket[s].events = {}
             THEN Nil ELSE s

\* Mutant: the status of a transient failure is not written.
CloseSilently(event, s, c) ==
    CASE event = "open"  -> SetStatus(c, "connected", Opener(s))
      [] event = "close" -> UNCHANGED <<status, opened>>
      [] event = "fatal" -> SetStatus(c, "error", Nil)

\* The status that an event writes.
EventStatus(event, s, c) ==
    CASE event = "open"  -> SetStatus(c, "connected", Opener(s))
      [] event = "close" -> SetStatus(c, "disconnected", Nil)
      [] event = "fatal" -> SetStatus(c, "error", Nil)

\* connection.update: the status is written; the callback of a close then removes the session.
HandleEvent(s, event) ==
    /\ event \in socket[s].events
    /\ Exists(socket[s].conn)
    /\ EventStatus(event, s, socket[s].conn)
    /\ socket' = [socket EXCEPT ![s].events =
                     (@ \ {event}) \cup (IF event = "open" THEN {} ELSE {"drop"})]
    /\ UNCHANGED <<link, active, msg, stops, undone>>

\* activeSessions.delete, whoever's session is there.
DropSession(s) ==
    /\ "drop" \in socket[s].events
    /\ socket' = [socket EXCEPT ![s].events = @ \ {"drop"}]
    /\ active' = [active EXCEPT ![socket[s].conn] = Nil]
    /\ UNCHANGED <<status, link, msg, stops, opened, undone>>

\* Mutant: the socket is not ended.
ForgetSocket(c) == UNCHANGED socket

\* socket.end()
EndSocket(c) ==
    socket' = IF active[c] # Nil /\ socket[active[c]].phase \in {"connecting", "open"}
              THEN [socket EXCEPT ![active[c]].phase = "ending"] ELSE socket

StopSession(c) ==
    /\ c \notin stops
    /\ EndSocket(c)
    /\ active' = [active EXCEPT ![c] = Nil]
    /\ stops' = stops \cup {c}
    /\ UNCHANGED <<status, link, msg, opened, undone>>

\* The status is written; for a connection that is gone, or when the write fails, the call throws.
StopWrites(c) ==
    /\ c \in stops
    /\ stops' = stops \ {c}
    /\ \/ Exists(c) /\ SetStatus(c, "disconnected", Nil)
       \/ UNCHANGED <<status, opened>>
    /\ UNCHANGED <<link, active, socket, msg, undone>>

----------------------------------------------------------------------------
(* Messages                                                                *)

To(m, phase) == msg' = [msg EXCEPT ![m].phase = phase]

\* messages.upsert: without a session the message is dropped.
WhatsAppMessage(m, s, t) ==
    LET c == socket[s].conn
    IN  /\ msg[m].phase = "new"
        /\ socket[s].phase = "open"
        /\ msg' = [msg EXCEPT ![m] = [@ EXCEPT !.conn = c, !.thread = t, !.sock = active[c],
                      !.phase = IF active[c] = Nil THEN "lost" ELSE "look"]]
        /\ UNCHANGED <<status, link, active, socket, stops, opened, undone>>

\* handleWebhook of a text message, or of a button, which goes to the bridge at once; for a
\* connection that is not connected it is refused.
TelegramMessage(m, c, t) ==
    /\ msg[m].phase = "new"
    /\ \E phase \in IF status[c] = "connected" THEN {"look", "check"} ELSE {"lost"} :
          msg' = [msg EXCEPT ![m] = [@ EXCEPT !.conn = c, !.thread = t, !.phase = phase]]
    /\ UNCHANGED <<status, link, active, socket, stops, opened, undone>>

LinkOf(m) == link[msg[m].conn][msg[m].thread]

\* resolveThread finds the thread, for the channel or for the bridge.
FindLink(m) ==
    /\ msg[m].phase \in {"look", "relook"}
    /\ LinkOf(m) # Nil
    /\ msg' = [msg EXCEPT ![m] = IF @.phase = "look" THEN [@ EXCEPT !.phase = "check"]
                                 ELSE [@ EXCEPT !.phase = "ask", !.chat = LinkOf(m)]]
    /\ UNCHANGED <<status, link, active, socket, stops, opened, undone>>

\* Mutant: a link that is not there is not waited for in the bridge.
AskWithoutLink(m) ==
    /\ msg[m].phase \in {"look", "relook"}
    /\ LinkOf(m) = Nil
    /\ To(m, IF msg[m].phase = "look" THEN "insert" ELSE "ask")
    /\ UNCHANGED <<status, link, active, socket, stops, opened, undone>>

\* It does not, and waits for the connection.
MissLink(m) ==
    /\ msg[m].phase \in {"look", "relook"}
    /\ LinkOf(m) = Nil
    /\ To(m, IF msg[m].phase = "look" THEN "insert" ELSE "reinsert")
    /\ UNCHANGED <<status, link, active, socket, stops, opened, undone>>

\* Mutant: no unique index.
InsertAnyway(m) == Exists(msg[m].conn)

\* The connection is there, and no other message of the thread has inserted meanwhile.
MayInsert(m) == Exists(msg[m].conn) /\ LinkOf(m) = Nil

Insert(m) ==
    /\ msg[m].phase \in {"insert", "reinsert"}
    /\ MayInsert(m)
    /\ link' = [link EXCEPT ![msg[m].conn][msg[m].thread] = m]
    /\ msg' = [msg EXCEPT ![m] = IF @.phase = "insert" THEN [@ EXCEPT !.phase = "intro"]
                                 ELSE [@ EXCEPT !.phase = "ask", !.chat = m]]
    /\ UNCHANGED <<status, active, socket, stops, opened, undone>>

\* What is sent on a socket that is not open throws.
CanSend(m) == msg[m].conn \in WhatsApp => socket[msg[m].sock].phase = "open"

SendIntroduction(m) ==
    /\ msg[m].phase = "intro"
    /\ CanSend(m)
    /\ To(m, "check")
    /\ UNCHANGED <<status, link, active, socket, stops, opened, undone>>

\* The bridge takes messages of connected connections.
CheckConnected(m) ==
    /\ msg[m].phase = "check"
    /\ status[msg[m].conn] = "connected"
    /\ To(m, "relook")
    /\ UNCHANGED <<status, link, active, socket, stops, opened, undone>>

\* The gateway answers, and the thread is marked seen.
GatewayAnswers(m) ==
    /\ msg[m].phase = "ask"
    /\ To(m, "reply")
    /\ UNCHANGED <<status, link, active, socket, stops, opened, undone>>

SendReply(m) ==
    /\ msg[m].phase = "reply"
    /\ CanSend(m)
    /\ To(m, "done")
    /\ UNCHANGED <<status, link, active, socket, stops, opened, undone>>

\* A handler may throw wherever it is: no connection, or not a connected one, a link inserted
\* meanwhile, a store or gateway that fails, nothing to send on.
Throwing(m) == msg[m].phase \notin {"new", "done", "lost"}

\* The webhook's caller gets the error.
TelegramThrows(m) ==
    /\ Throwing(m) /\ msg[m].conn \in Telegram
    /\ To(m, "lost")
    /\ UNCHANGED <<status, link, active, socket, stops, opened, undone>>

----------------------------------------------------------------------------
(* The process                                                             *)

\* Sessions and handlers are gone; nothing starts the sessions again.
Restart ==
    /\ active' = [c \in Connections |-> Nil]
    /\ socket' = [s \in Sockets |-> IF socket[s].phase = "unused" THEN NoSocket
                                    ELSE [socket[s] EXCEPT !.phase = "closed", !.events = {}]]
    /\ msg' = [m \in Inbound |-> IF msg[m].phase \in {"new", "done"} THEN msg[m]
                                  ELSE [msg[m] EXCEPT !.phase = "lost"]]
    /\ stops' = {}
    /\ opened' = [c \in Connections |-> Nil]
    /\ UNCHANGED <<status, link, undone>>

\* An error of a WhatsApp message, or of an event whose status cannot be written, has nobody to
\* catch it: the process ends.
Uncaught ==
    /\ \/ \E m \in Inbound : Throwing(m) /\ msg[m].conn \in WhatsApp
       \/ \E s \in Sockets : socket[s].events \ {"drop"} # {}
    /\ Restart

ProcessKilled == Restart /\ \E s \in Sockets : ~Idle(s)

----------------------------------------------------------------------------
Session(s) ==
    \/ \E c \in WhatsApp : StartSession(s, c)
    \/ WriteAuthDir(s) \/ KeepAuthDir(s) \/ MakeSocket(s) \/ StartFails(s)
    \/ Opens(s) \/ Closes(s)
    \/ \E event \in {"open", "close", "fatal"} : HandleEvent(s, event)
    \/ DropSession(s)

Handle(m) ==
    \/ FindLink(m) \/ MissLink(m) \/ Insert(m) \/ SendIntroduction(m) \/ CheckConnected(m)
    \/ GatewayAnswers(m) \/ SendReply(m) \/ TelegramThrows(m)

User(c) ==
    \/ Create(c) \/ Delete(c) \/ StatusIsUndone(c)
    \/ \E t \in Threads : LinkIsUndone(c, t)
    \/ \E value \in UserStatuses : UserSetsStatus(c, value)

ChannelNext ==
    \/ \E c \in Connections : User(c)
    \/ \E c \in WhatsApp : StopSession(c) \/ StopWrites(c)
    \/ \E s \in Sockets : Session(s)
    \/ \E m \in Inbound, t \in Threads :
          \/ \E s \in Sockets : WhatsAppMessage(m, s, t)
          \/ \E c \in Telegram : TelegramMessage(m, c, t)
    \/ \E m \in Inbound : Handle(m)
    \/ Uncaught \/ ProcessKilled

ChannelSpec == ChannelInit /\ [][ChannelNext]_channelVars

----------------------------------------------------------------------------
(* Properties                                                              *)

\* Every variable has its type; who is past a step has what the step found.
ChannelTypeOK ==
    /\ status \in [Connections -> Statuses \cup {"absent", "deleted"}]
    /\ link \in [Connections -> [Threads -> Inbound \cup {Nil}]]
    /\ active \in [Connections -> Sockets \cup {Nil}]
    /\ socket \in [Sockets ->
          [conn : Connections \cup {Nil}, seen : Statuses \cup {Nil},
           phase : {"unused", "loaded", "auth", "connecting", "open", "ending", "closed"},
           events : SUBSET {"open", "close", "fatal", "drop"}]]
    /\ msg \in [Inbound ->
          [conn : Connections \cup {Nil}, thread : Threads \cup {Nil}, sock : Sockets \cup {Nil},
           phase : {"new", "look", "insert", "intro", "check", "relook", "reinsert", "ask",
                    "reply", "done", "lost"}, chat : Inbound \cup {Nil}]]
    /\ stops \subseteq Connections
    /\ opened \in [Connections -> Sockets \cup {Nil}]
    /\ undone \in 0 .. MaxUndone
    /\ \A m \in Inbound :
          /\ msg[m].phase # "new" => msg[m].conn \in Connections /\ msg[m].thread \in Threads
          /\ msg[m].phase \in {"ask", "reply", "done"} => msg[m].chat \in Inbound
          /\ msg[m].conn \in WhatsApp /\ msg[m].phase # "lost" => msg[m].sock \in Sockets

\* As long as every write of messaging.sqlite ended and none undid another, the agent is asked
\* about all messages of a thread in one chat, whatever messages of it are handled at the same
\* time, and across restarts.  The unique index that refuses a second link is that of one copy.
ThreadsKeepTheirChat ==
    undone = 0 =>
        \A m, n \in Inbound :
            msg[m].conn = msg[n].conn /\ msg[m].thread = msg[n].thread
            /\ msg[m].chat # Nil /\ msg[n].chat # Nil => msg[m].chat = msg[n].chat

\* Where sessions do not overlap, a socket that is connected is the session of its connection,
\* so that its messages are not dropped, and a session that stays has a socket.
SessionsFollowSockets ==
    Patient =>
        /\ \A s \in Sockets : socket[s].phase \in {"connecting", "open"} => active[socket[s].conn] = s
        /\ \A c \in Connections : active[c] # Nil =>
              /\ socket[active[c]].conn = c
              /\ socket[active[c]].phase \in {"connecting", "open"} \/ ~Idle(active[c])

\* Where sessions do not overlap, a connection that is connected because a socket's open event
\* said so, before its close was handled, has that socket as its session, or the socket was ended
\* or closed and a callback of it is still under way.  An open event that is written after the
\* close leaves a connected connection without a session, and so may an undone write.
ConnectedHasASession ==
    Patient => \A c \in Connections :
        status[c] = "connected" /\ opened[c] # Nil =>
            LET s == opened[c]
            IN  \/ active[c] = s /\ socket[s].phase = "open"
                \/ socket[s].phase = "ending" \/ socket[s].events # {}
====

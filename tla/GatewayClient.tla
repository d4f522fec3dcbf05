---- MODULE GatewayClient ----
(***************************************************************************)
(* EmbeddedGatewayClient (packages/sidecar/src/internal-gateway) over the  *)
(* gateway that GatewaySupervisor keeps: a chat asks the gateway for its   *)
(* agent, session and history, each over a socket of its own, opens a      *)
(* socket for the stream, sends the message, and writes what the run says  *)
(* to the client's stream until the run ends.  The gateway may exit, be    *)
(* stopped or be replaced at any point; frames wait in the socket, and     *)
(* several of them may be handled in one tick.                             *)
(***************************************************************************)
EXTENDS GatewaySupervisor, Sequences

CONSTANTS
    Chats,    \* calls of streamConversation
    MaxText   \* bound: length of a run's text

ASSUME MaxTextAssumption == MaxText \in Nat

VARIABLES
    chat      \* each chat: the client's side, the socket, the gateway's run

clientVars == <<vars, chat>>

NewChat == [
    pc |-> "new",       \* what the handler waits for
    on |-> None,        \* the process at the other end of the stream's socket
    frames |-> <<>>,    \* frames in the socket, not yet handled
    run |-> "none",     \* the gateway's run
    text |-> 0,         \* how much the run has said
    current |-> 0,      \* currentAssistantText
    written |-> 0,      \* how much the stream was given
    early |-> FALSE]    \* history: the run's end was handled in the tick of the acknowledgement

ChatInit == chat = [c \in Chats |-> NewChat]

ClientInit == Init /\ ChatInit

Over(c) == chat[c].pc \in {"finished", "failed"}

\* A connection attempt to target finds a gateway, the supervisor's own or one left behind.
Reachable(g) == gateway[g].state = "listening" /\ gateway[g].port = target

\* GatewayRpcClient.stop(): the socket is closed, what is in it is not handled. Of a chat
\* that is over nothing else is kept.
Stopped(pc) == [NewChat EXCEPT !.pc = pc]

----------------------------------------------------------------------------
(* Up to the stream: requests over a socket of their own                   *)

StreamConversation(c) ==
    /\ target # None
    /\ chat[c].pc = "new"
    /\ chat' = [chat EXCEPT ![c].pc = "agents.list"]

\* request(): connect, send, wait for the answer, stop.
Request(c, method, next) ==
    /\ chat[c].pc = method
    /\ \E g \in Gateways : Reachable(g)
    /\ chat' = [chat EXCEPT ![c].pc = next]

\* The agent exists at the gateway or is created there.
EnsureAgentExists(c) == Request(c, "agents.list", "sessions.list")

\* The requested session, the agent's latest one, or a new one.
EnsureConversationSession(c) == Request(c, "sessions.list", "chat.history")

BootstrapConversation(c) == Request(c, "chat.history", "connect")

\* connect() or the request fails, the socket closes, or a check refuses what it got.
RequestFails(c) ==
    /\ chat[c].pc \in {"agents.list", "sessions.list", "chat.history", "connect"}
    /\ chat' = [chat EXCEPT ![c] = Stopped("failed")]

----------------------------------------------------------------------------
(* The stream                                                              *)

\* The socket is open, the challenge answered: chat.send is sent.
Connect(c) ==
    /\ chat[c].pc = "connect"
    /\ \E g \in Gateways :
          /\ Reachable(g)
          /\ chat' = [chat EXCEPT ![c].pc = "chat.send", ![c].on = g]

\* runId is set when the handler goes on after the acknowledgement, not when that arrives.
Continue(c) ==
    /\ chat[c].pc = "acknowledged"
    /\ chat' = [chat EXCEPT ![c].pc = "stream"]

\* handleMessage: the answer to chat.send.
Response(ch, frame) ==
    IF frame.kind = "ack" THEN [ch EXCEPT !.pc = "acknowledged"]
                          ELSE Stopped("failed")

\* Mutant: an event is written from its beginning.
WriteWhole(ch, text) == [ch EXCEPT !.written = @ + text]

\* Every event carries the whole text so far; the stream is given what it has not yet.
WriteDelta(ch, text) == [ch EXCEPT !.written = @ + text - ch.current]

\* onEvent, of the chat's own run. The text that comes with the last event is written, but
\* not kept for onComplete.
Event(ch, frame) ==
    CASE frame.kind = "delta" -> [WriteDelta(ch, frame.text) EXCEPT !.current = frame.text]
      [] frame.kind = "final" -> [WriteDelta(ch, frame.text) EXCEPT !.pc = "onComplete"]
      [] frame.kind = "error" -> Stopped("failed")
      [] OTHER -> ch

\* An event handled before runId is set is nobody's.
Ignored(ch, frame) == [ch EXCEPT !.early = @ \/ frame.kind \in {"final", "error"}]

Receive(c) ==
    LET frame == Head(chat[c].frames)
        ch == [chat[c] EXCEPT !.frames = Tail(@)]
    IN  /\ chat[c].frames # <<>>
        /\ chat' = [chat EXCEPT ![c] =
              CASE ch.pc = "chat.send" -> Response(ch, frame)
                [] ch.pc = "acknowledged" -> Ignored(ch, frame)
                [] OTHER -> Event(ch, frame)]

\* Mutant: stop() forgets the pending request.
CloseQuietly(c) ==
    /\ chat[c].pc = "chat.send"
    /\ chat[c].on = None /\ chat[c].frames = <<>>
    /\ UNCHANGED chat

\* The close event: stop() rejects the pending request. Nobody tells a handler that waits for
\* the end of the run.
Close(c) ==
    /\ chat[c].pc = "chat.send"
    /\ chat[c].on = None /\ chat[c].frames = <<>>
    /\ chat' = [chat EXCEPT ![c] = Stopped("failed")]

\* onComplete has ended, well or badly.
Complete(c) ==
    /\ chat[c].pc = "onComplete"
    /\ chat' = [chat EXCEPT ![c] = Stopped("finished")]

----------------------------------------------------------------------------
(* The gateway's side of the socket                                        *)

Sends(c, run, frame) ==
    [chat EXCEPT ![c].run = run, ![c].frames = Append(@, frame)]

Serves(c, run) == chat[c].on # None /\ chat[c].run = run

\* chat.send is acknowledged and the run begins, or it is refused.
Answer(c) ==
    /\ Serves(c, "none")
    /\ \/ chat' = Sends(c, "going", [kind |-> "ack", text |-> 0])
       \/ chat' = Sends(c, "refused", [kind |-> "refusal", text |-> 0])

Says(c) ==
    /\ Serves(c, "going")
    /\ chat[c].text < MaxText
    /\ chat' = [Sends(c, "going", [kind |-> "delta", text |-> chat[c].text + 1])
                EXCEPT ![c].text = @ + 1]

\* The last event has the whole text, of which the end may not have been sent before.
Ends(c) ==
    /\ Serves(c, "going")
    /\ \E end \in {"final", "error", "aborted"}, n \in chat[c].text..MaxText :
          chat' = [Sends(c, end, [kind |-> end, text |-> n]) EXCEPT ![c].text = n]

\* The gateway closes the socket; what it has sent is still read.
Disconnects(c) ==
    /\ chat[c].on # None
    /\ chat' = [chat EXCEPT ![c].on = None]

\* A gateway that exits closes its sockets.
Sever ==
    chat' = [c \in Chats |->
        IF chat[c].on # None /\ gateway'[chat[c].on].state # "listening"
        THEN [chat[c] EXCEPT !.on = None] ELSE chat[c]]

----------------------------------------------------------------------------
Client(c) ==
    \/ EnsureAgentExists(c) \/ EnsureConversationSession(c) \/ BootstrapConversation(c)
    \/ RequestFails(c) \/ Connect(c) \/ Continue(c) \/ Receive(c) \/ Close(c) \/ Complete(c)

Gateway(c) == Answer(c) \/ Says(c) \/ Ends(c) \/ Disconnects(c)

ClientNext ==
    \/ Next /\ Sever
    \/ \E c \in Chats : (StreamConversation(c) \/ Client(c) \/ Gateway(c)) /\ UNCHANGED vars

\* A connection attempt has a timeout, a request is taken to be answered, and what has
\* arrived is handled; the gateway need not answer a chat nor end its run.
ClientSpec ==
    /\ ClientInit
    /\ [][ClientNext]_clientVars
    /\ Fairness
    /\ \A c \in Chats : WF_chat(Client(c))

----------------------------------------------------------------------------
(* Properties                                                              *)

Frames == [kind : {"ack", "refusal", "delta", "final", "error", "aborted"}, text : 0..MaxText]

\* Every variable has its type, and only a chat with a stream has a socket.
ClientTypeOK ==
    /\ TypeOK
    /\ chat \in [Chats -> [
          pc : {"new", "agents.list", "sessions.list", "chat.history", "connect", "chat.send",
                "acknowledged", "stream", "onComplete", "finished", "failed"},
          on : Gateways \cup {None}, frames : Seq(Frames),
          run : {"none", "going", "refused", "final", "error", "aborted"},
          text : 0..MaxText, current : 0..MaxText, written : 0..MaxText, early : BOOLEAN]]
    /\ \A c \in Chats : chat[c].on # None =>
          chat[c].pc \in {"chat.send", "acknowledged", "stream", "onComplete"}

\* A stream that was given the end of its run was given the whole text, each part once,
\* though events that came before runId was set were dropped; and no stream is ever given
\* more than its run has said.
StreamsAreWhole ==
    \A c \in Chats :
        /\ chat[c].written <= chat[c].text
        /\ chat[c].pc = "onComplete" => chat[c].written = chat[c].text

\* Left waiting for ever: the run was aborted, its end came in the tick of the
\* acknowledgement, or the socket closed before it ended.
LeftWaiting(c) ==
    \/ chat[c].run = "aborted" \/ chat[c].early
    \/ chat[c].on = None /\ chat[c].run = "going"

\* A chat, once begun, ends, however gateways exit and are replaced meanwhile, unless the
\* gateway still has it in hand or it is one of those that the code leaves waiting.
EveryChatEnds ==
    \A c \in Chats :
        chat[c].pc # "new" ~>
            Over(c) \/ LeftWaiting(c) \/ Serves(c, "none") \/ Serves(c, "going")
====

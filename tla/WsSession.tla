------------------------------- MODULE WsSession -------------------------------
(*****************************************************************************)
(* One gateway session over the WebSocket transport:                         *)
(* handle_ws_session_tungstenite of                                          *)
(* crates/rdg-server/src/handlers/websocket.rs, with the client and the      *)
(* backend RDP host as its environment.                                      *)
(*                                                                           *)
(* The session task reads frames and drives the GatewaySession.  At the      *)
(* first Data message in state DataTransfer it connects to the backend,      *)
(* writes that message, and spawns two tasks that run until the end:         *)
(*   ws_to_tcp  reads client frames, writes their payload to the backend and *)
(*              puts control replies into the bounded channel ctrl;          *)
(*   tcp_to_ws  selects between backend bytes and ctrl, and owns ws_sink.    *)
(* Every await of the code at which a task can be held up is a state of its  *)
(* own; what runs between two awaits is one action.  The variables a process *)
(* never touches are stated once, where its actions are put together.        *)
(*                                                                           *)
(* Client frames are in Frame.  A backend byte is its offset in the backend's*)
(* stream, so the Data frame for bytes lo..hi carries <<hi-lo+1, lo, hi>>.   *)
(* got, the src tags, and the frames that stay in toClient and toBackend     *)
(* after they were read are history: no guard but a buffer's space uses them.*)
(*****************************************************************************)
EXTENDS GatewaySession

CONSTANTS Frame,      \* the frames a client may send before it closes
          CtrlCap,    \* capacity of the ctrl channel (8 in the code)
          WireCap,    \* frames or writes a socket buffer holds
          ReadMax,    \* bytes one read of the backend returns (16384 in the code)
          MaxFrames,  \* bound: frames the client sends
          MaxBytes    \* bound: bytes the backend sends

\* A Binary frame that parses, one that does not, and a Text, Ping or Pong.
FrameType == TsgType \cup {"Malformed", "Other"}

ASSUME FrameAssumption == Frame \subseteq [type : FrameType, data : Seq(Nat), src : {0}]
ASSUME CapAssumption == CtrlCap \in Nat \ {0} /\ WireCap \in Nat \ {0} /\ ReadMax \in Nat \ {0}
ASSUME BoundAssumption == MaxFrames \in Nat /\ MaxBytes \in Nat

VARIABLES
    \* the session task
    pc,          \* where it is: "Loop", "Respond", "Connect", "InitialWrite", "Relay", "Done"
    session,     \* the GatewaySession
    hand,        \* the response it is sending
    \* the client and its connection
    client,      \* "open", "closing" (Close frame sent) or "gone"
    sent,        \* number of frames sent
    wire,        \* frames on their way to the gateway
    toClient,    \* every frame the gateway sent, in order
    clientRead,  \* how many of them the client has read
    \* the backend and its connection
    backend,     \* "none", "refused", "up", "eof" (no more bytes) or "reset"
    toBackend,   \* every payload written, in order
    backendRead, \* how many of them the backend has read
    backSent,    \* bytes the backend has sent
    \* the relay tasks
    w2t,         \* ws_to_tcp: "Idle", "Read", "Write", "SendCtrl", "Ended"
    w2tHand,     \* the payload it is writing or the reply it is sending
    skip,        \* skip_next_data
    t2w,         \* tcp_to_ws: "Idle", "Select", "Send", "Closing", "Ended"
    t2wHand,     \* the frame it is sending
    downRead,    \* bytes it has read from the backend
    ctrl,        \* the ctrl channel
    got          \* frames read since the relay was asked for, its first Data included

sessionVars == <<pc, session, hand>>
clientVars  == <<client, sent>>
backendVars == <<backend, backendRead, backSent>>
w2tVars     == <<w2t, w2tHand, skip>>
t2wVars     == <<t2w, t2wHand, downRead>>

vars == <<sessionVars, clientVars, wire, toClient, clientRead, backendVars, toBackend,
          w2tVars, t2wVars, ctrl, got>>

NoMessage    == Message("None", << >>, 0)
CloseFrame   == Message("Close", << >>, 0)
EndOfStream  == Message("Eof", << >>, 0)

Init ==
    /\ pc = "Loop" /\ session = NewSession /\ hand = NoMessage
    /\ client = "open" /\ sent = 0 /\ wire = << >> /\ toClient = << >> /\ clientRead = 0
    /\ backend = "none" /\ toBackend = << >> /\ backendRead = 0 /\ backSent = 0
    /\ w2t = "Idle" /\ w2tHand = NoMessage /\ skip = FALSE
    /\ t2w = "Idle" /\ t2wHand = NoMessage /\ downRead = 0
    /\ ctrl = << >> /\ got = << >>

-----------------------------------------------------------------------------
(* The WebSocket and the TCP connection to the backend.                      *)

\* The gateway's side of the WebSocket has read the client's Close frame.
PeerClosed == \E i \in DOMAIN got : got[i].type = "Close"

\* ws_sink.send succeeds: the frame is in the socket buffer.
WsSend(m) ==
    /\ ~PeerClosed
    /\ Len(toClient) - clientRead < WireCap
    /\ toClient' = Append(toClient, m)

\* ws_sink.send fails: Close was received, or the transport is broken.
WsSendFails == (PeerClosed \/ client = "gone") /\ UNCHANGED toClient

\* tcp_write.write_all succeeds: the payload is in the socket buffer.
TcpWrite(m) ==
    /\ backend \in {"up", "eof"}
    /\ Len(toBackend) - backendRead < WireCap
    /\ toBackend' = Append(toBackend, m)

TcpWriteFails == backend = "reset" /\ UNCHANGED toBackend

\* Both client-to-backend writes remove the 2-byte cbDataLength of a Data message; a
\* body too short to hold one is forwarded as it is.
Payload(d) == IF Len(d) >= 2 THEN SubSeq(d, 3, Len(d)) ELSE d

\* Mutant: cbDataLength counts the offsets wrongly.
encode_data_message_Short(lo, hi) == Message("Data", <<hi - lo, lo, hi>>, 0)

\* encode_data_message for the backend bytes lo..hi.
encode_data_message(lo, hi) == Message("Data", <<hi - lo + 1, lo, hi>>, 0)

-----------------------------------------------------------------------------
(* The session task.                                                         *)

\* A frame that ends the read loop: Close, a broken stream, or (in the session
\* task only) a Binary frame that does not parse.
ReadEnd(m) == m.type \in {"Close", "Eof"}

Return == pc' = "Done" /\ UNCHANGED <<session, hand>>

\* One turn of the loop up to its next await: leave, ignore a non-Binary frame,
\* ask for the relay, answer through the GatewaySession, or fail.
SessionRead ==
    /\ pc = "Loop"
    /\ wire # << >>
    /\ wire' = Tail(wire)
    /\ LET m == Head(wire) IN
        \/ /\ ReadEnd(m) \/ m.type = "Malformed"
           /\ Return /\ UNCHANGED got
        \/ /\ m.type = "Other"
           /\ UNCHANGED <<sessionVars, got>>
        \/ /\ m.type = "Data" /\ is_data_transfer(session)
           /\ pc' = "Connect"
           /\ got' = <<m>>
           /\ UNCHANGED <<session, hand>>
        \/ /\ m.type \in TsgType
           /\ Outcome(session, m) = "Some"
           /\ pc' = "Respond"
           /\ hand' = Response(session, m)
           /\ session' = Advance(session, m)
           /\ UNCHANGED got
        \/ /\ m.type \in TsgType
           /\ Outcome(session, m) = "Err"
           /\ Return /\ UNCHANGED got
    /\ UNCHANGED <<toClient, backend, toBackend, w2t, t2w>>

SessionRespond ==
    /\ pc = "Respond"
    /\ \/ WsSend(hand) /\ pc' = "Loop"
       \/ WsSendFails /\ pc' = "Done"
    /\ hand' = NoMessage
    /\ UNCHANGED <<session, wire, backend, toBackend, w2t, t2w, got>>

\* TcpStream::connect to the target of the ChannelCreate.
SessionConnect ==
    /\ pc = "Connect"
    /\ \/ backend' = "up" /\ pc' = "InitialWrite"
       \/ backend' = "refused" /\ pc' = "Done"
    /\ UNCHANGED <<session, hand, wire, toClient, toBackend, w2t, t2w, got>>

\* The write of the first Data message, then the two spawns.
SessionInitialWrite ==
    /\ pc = "InitialWrite"
    /\ \/ /\ TcpWrite(Message("Data", Payload(got[1].data), 1))
          /\ pc' = "Relay" /\ w2t' = "Read" /\ t2w' = "Select"
       \/ /\ TcpWriteFails
          /\ pc' = "Done" /\ UNCHANGED <<w2t, t2w>>
    /\ UNCHANGED <<session, hand, wire, toClient, backend, got>>

\* Mutant: select! in place of join!, the slower task left running.
SessionJoin_Select ==
    /\ pc = "Relay" /\ (w2t = "Ended" \/ t2w = "Ended")
    /\ pc' = "Done"
    /\ UNCHANGED <<session, hand, wire, toClient, backend, toBackend, w2t, t2w, got>>

\* join! of the two tasks.
SessionJoin ==
    /\ pc = "Relay" /\ w2t = "Ended" /\ t2w = "Ended"
    /\ pc' = "Done"
    /\ UNCHANGED <<session, hand, wire, toClient, backend, toBackend, w2t, t2w, got>>

SessionTask ==
    /\ SessionRead \/ SessionRespond \/ SessionConnect \/ SessionInitialWrite \/ SessionJoin
    /\ UNCHANGED <<clientVars, clientRead, backendRead, backSent, w2tHand, skip, t2wHand, downRead,
                   ctrl>>

-----------------------------------------------------------------------------
(* The ws_to_tcp task.  Its end shuts the backend's write half down.         *)

\* Mutant: CloseChannel is echoed like the other control messages.
Reply_Echo(m, src) == Message(m.type, m.data, src)

\* The reply the task owes to a control message.
Reply(m, src) ==
    CASE m.type = "Keepalive"     -> Message("Keepalive", << >>, src)
      [] m.type = "CloseChannel"  -> Message("CloseChannelResponse", << >>, src)
      [] m.type = "Unknown10"     -> Message("Unknown10", m.data, src)
      [] m.type = "ChannelCreate" -> Message("ChannelResponse", <<1>>, src)

ControlType == {"Keepalive", "CloseChannel", "Unknown10", "ChannelCreate"}

\* Mutant: the Close frame is one more frame to ignore.
IgnoredType_Close == (FrameType \cup {"Close"}) \ (ControlType \cup {"Data"})

\* Frames of the relay loop's other arms: read, logged at most, not answered.
IgnoredType == FrameType \ (ControlType \cup {"Data"})

WsToTcpRead ==
    /\ w2t = "Read"
    /\ wire # << >>
    /\ wire' = Tail(wire)
    /\ got' = Append(got, Head(wire))
    /\ LET m == Head(wire)  n == Len(got) + 1 IN
        \/ /\ m.type = "Data" /\ skip
           /\ skip' = FALSE
           /\ UNCHANGED <<w2t, w2tHand>>
        \/ /\ m.type = "Data" /\ ~skip
           /\ w2t' = "Write"
           /\ w2tHand' = Message("Data", Payload(m.data), n)
           /\ UNCHANGED skip
        \/ /\ m.type \in ControlType
           /\ w2t' = "SendCtrl"
           /\ w2tHand' = Reply(m, n)
           /\ UNCHANGED skip
        \/ /\ m.type \in IgnoredType
           /\ UNCHANGED w2tVars
        \/ /\ ReadEnd(m)
           /\ w2t' = "Ended"
           /\ UNCHANGED <<w2tHand, skip>>
    /\ UNCHANGED <<toBackend, ctrl>>

WsToTcpWrite ==
    /\ w2t = "Write"
    /\ \/ TcpWrite(w2tHand) /\ w2t' = "Read"
       \/ TcpWriteFails /\ w2t' = "Ended"
    /\ w2tHand' = NoMessage
    /\ UNCHANGED <<wire, skip, ctrl, got>>

\* Mutant: skip_next_data is set by every control message.
SkipNext_Always(m) == TRUE

\* skip_next_data after the reply m was sent: only a ChannelCreate sets it.
SkipNext(m) == skip \/ m.type = "ChannelResponse"

\* Mutant: a full channel drops the reply (try_send).
WsToTcpCtrl_TrySend ==
    /\ w2t = "SendCtrl"
    /\ \/ t2w # "Ended" /\ Len(ctrl) < CtrlCap /\ ctrl' = Append(ctrl, w2tHand)
       \/ (t2w = "Ended" \/ Len(ctrl) = CtrlCap) /\ UNCHANGED ctrl
    /\ w2t' = IF w2tHand.type = "CloseChannelResponse" THEN "Ended" ELSE "Read"
    /\ skip' = SkipNext(w2tHand)
    /\ w2tHand' = NoMessage
    /\ UNCHANGED <<wire, toBackend, got>>

\* ctrl_tx.send: waits for space, fails at once when tcp_to_ws has dropped the
\* receiver; the result is ignored.  CloseChannel then breaks the loop, and
\* ChannelCreate sets skip_next_data.
WsToTcpCtrl ==
    /\ w2t = "SendCtrl"
    /\ \/ t2w # "Ended" /\ Len(ctrl) < CtrlCap /\ ctrl' = Append(ctrl, w2tHand)
       \/ t2w = "Ended" /\ UNCHANGED ctrl
    /\ w2t' = IF w2tHand.type = "CloseChannelResponse" THEN "Ended" ELSE "Read"
    /\ skip' = SkipNext(w2tHand)
    /\ w2tHand' = NoMessage
    /\ UNCHANGED <<wire, toBackend, got>>

WsToTcp ==
    /\ WsToTcpRead \/ WsToTcpWrite \/ WsToTcpCtrl
    /\ UNCHANGED <<sessionVars, clientVars, toClient, clientRead, backendVars, t2wVars>>

-----------------------------------------------------------------------------
(* The tcp_to_ws task: select! takes either branch when both are ready.      *)

\* tcp_read.read returns n bytes.
TcpToWsData(n) ==
    /\ t2w = "Select"
    /\ backend # "reset"
    /\ n <= ReadMax /\ downRead + n <= backSent
    /\ downRead' = downRead + n
    /\ t2wHand' = encode_data_message(downRead + 1, downRead + n)
    /\ t2w' = "Send"
    /\ UNCHANGED <<toClient, ctrl>>

\* Mutant: a read error is taken for a spurious wake-up.
TcpToWsEnd_RetryOnError ==
    /\ t2w = "Select"
    /\ \/ backend = "eof" /\ downRead = backSent /\ t2w' = "Closing"
       \/ backend = "reset" /\ UNCHANGED t2w
    /\ UNCHANGED <<toClient, t2wHand, downRead, ctrl>>

\* tcp_read.read returns Ok(0) at the end of the stream, or an error.
TcpToWsEnd ==
    /\ t2w = "Select"
    /\ \/ backend = "eof" /\ downRead = backSent
       \/ backend = "reset"
    /\ t2w' = "Closing"
    /\ UNCHANGED <<toClient, t2wHand, downRead, ctrl>>

\* Mutant: the newest reply is taken first.
TcpToWsCtrl_Newest ==
    /\ t2w = "Select"
    /\ ctrl # << >>
    /\ t2wHand' = ctrl[Len(ctrl)]
    /\ ctrl' = SubSeq(ctrl, 1, Len(ctrl) - 1)
    /\ t2w' = "Send"
    /\ UNCHANGED <<toClient, downRead>>

\* ctrl_rx.recv returns the oldest reply.
TcpToWsCtrl ==
    /\ t2w = "Select"
    /\ ctrl # << >>
    /\ t2wHand' = Head(ctrl)
    /\ ctrl' = Tail(ctrl)
    /\ t2w' = "Send"
    /\ UNCHANGED <<toClient, downRead>>

TcpToWsSend ==
    /\ t2w = "Send"
    /\ \/ WsSend(t2wHand) /\ t2w' = "Select"
       \/ WsSendFails /\ t2w' = "Closing"
    /\ t2wHand' = NoMessage
    /\ UNCHANGED <<downRead, ctrl>>

\* Mutant: the loop goes on after ws_sink.close.
TcpToWsClose_NoBreak ==
    /\ t2w = "Closing"
    /\ WsSend(CloseFrame) \/ WsSendFails
    /\ t2w' = "Select"
    /\ UNCHANGED <<t2wHand, downRead, ctrl>>

\* ws_sink.close, its result ignored; then the task ends and drops ctrl_rx with
\* whatever is still queued.
TcpToWsClose ==
    /\ t2w = "Closing"
    /\ WsSend(CloseFrame) \/ WsSendFails
    /\ t2w' = "Ended"
    /\ ctrl' = << >>
    /\ UNCHANGED <<t2wHand, downRead>>

TcpToWs ==
    /\ \/ \E n \in 1..ReadMax : TcpToWsData(n)
       \/ TcpToWsEnd \/ TcpToWsCtrl \/ TcpToWsSend \/ TcpToWsClose
    /\ UNCHANGED <<sessionVars, clientVars, wire, clientRead, backendVars, toBackend, w2tVars, got>>

-----------------------------------------------------------------------------
(* The client (external).                                                    *)

ClientSend ==
    /\ client = "open"
    /\ sent < MaxFrames /\ Len(wire) < WireCap
    /\ \E m \in Frame : wire' = Append(wire, m)
    /\ sent' = sent + 1
    /\ UNCHANGED <<client, clientRead>>

\* The client sends a Close frame, on its own or in answer to one; it goes on reading.
ClientClose ==
    /\ client = "open"
    /\ Len(wire) < WireCap
    /\ wire' = Append(wire, CloseFrame)
    /\ client' = "closing"
    /\ UNCHANGED <<sent, clientRead>>

\* The client's transport breaks.
ClientVanish ==
    /\ client # "gone"
    /\ wire' = Append(wire, EndOfStream)
    /\ client' = "gone"
    /\ UNCHANGED <<sent, clientRead>>

ClientRead ==
    /\ client # "gone"
    /\ clientRead < Len(toClient)
    /\ clientRead' = clientRead + 1
    /\ UNCHANGED <<clientVars, wire>>

ClientFrame ==
    /\ pc # "Done"
    /\ UNCHANGED <<sessionVars, toClient, backendVars, toBackend, w2tVars, t2wVars, ctrl, got>>

Client == (ClientSend \/ ClientClose \/ ClientVanish \/ ClientRead) /\ ClientFrame

-----------------------------------------------------------------------------
(* The backend (external).                                                   *)

BackendRead ==
    /\ backend \in {"up", "eof"}
    /\ backendRead < Len(toBackend)
    /\ backendRead' = backendRead + 1
    /\ UNCHANGED <<backend, backSent>>

BackendSend ==
    /\ backend = "up"
    /\ backSent < MaxBytes
    /\ backSent' = backSent + 1
    /\ UNCHANGED <<backend, backendRead>>

BackendClose ==
    /\ backend = "up"
    /\ backend' = "eof"
    /\ UNCHANGED <<backendRead, backSent>>

BackendReset ==
    /\ backend \in {"up", "eof"}
    /\ backend' = "reset"
    /\ UNCHANGED <<backendRead, backSent>>

BackendFrame ==
    /\ pc # "Done"
    /\ UNCHANGED <<sessionVars, clientVars, wire, toClient, clientRead, toBackend, w2tVars, t2wVars,
                   ctrl, got>>

Backend == (BackendRead \/ BackendSend \/ BackendClose \/ BackendReset) /\ BackendFrame

-----------------------------------------------------------------------------
\* The session is over; the behaviour ends here.
Terminated == pc = "Done" /\ UNCHANGED vars

Next == SessionTask \/ WsToTcp \/ TcpToWs \/ Client \/ Backend \/ Terminated

Spec == Init /\ [][Next]_vars

\* The runtime polls a task whose await is ready, the client goes on reading and
\* so does the backend.  Nobody is assumed to send, to close or to fail.
Fairness ==
    /\ WF_vars(SessionTask) /\ WF_vars(WsToTcp) /\ WF_vars(TcpToWs)
    /\ WF_vars(ClientRead /\ ClientFrame) /\ WF_vars(BackendRead /\ BackendFrame)

FairSpec == Spec /\ Fairness

-----------------------------------------------------------------------------
(* Properties.                                                               *)

WireType == FrameType \cup {"Close", "Eof"}
WireMessage == [type : WireType, data : Seq(Nat), src : {0}]

\* What the gateway itself sends: responses and control replies, Data, Close.
SentType == {"HandshakeResponse", "TunnelResponse", "TunnelAuthResponse", "ChannelResponse",
             "Keepalive", "CloseChannelResponse", "Unknown10", "Data", "Close", "None"}
SentMessage == [type : SentType, data : Seq(Nat), src : Nat]

\* Types of the variables.
TypeOK ==
    /\ pc \in {"Loop", "Respond", "Connect", "InitialWrite", "Relay", "Done"}
    /\ session \in Session /\ hand \in SentMessage
    /\ client \in {"open", "closing", "gone"} /\ sent \in Nat
    /\ wire \in Seq(WireMessage) /\ toClient \in Seq(SentMessage) /\ clientRead \in Nat
    /\ backend \in {"none", "refused", "up", "eof", "reset"}
    /\ toBackend \in Seq(SentMessage) /\ backendRead \in Nat /\ backSent \in Nat
    /\ w2t \in {"Idle", "Read", "Write", "SendCtrl", "Ended"}
    /\ w2tHand \in SentMessage /\ skip \in BOOLEAN
    /\ t2w \in {"Idle", "Select", "Send", "Closing", "Ended"}
    /\ t2wHand \in SentMessage /\ downRead \in Nat
    /\ ctrl \in Seq(SentMessage) /\ got \in Seq(WireMessage)

\* The four responses of the handshake, in order.
HandshakeResponses == <<"HandshakeResponse", "TunnelResponse", "TunnelAuthResponse",
                        "ChannelResponse">>

\* The gateway opens a connection to a backend only after it has sent all four
\* handshake responses, each once and in protocol order, the tunnel and the
\* channel they name being the session's; nothing precedes them on the wire.
\* (process_message with the session loop and the relay start.)
HandshakeBeforeRelay ==
    backend # "none" =>
        /\ Len(toClient) >= 4
        /\ \A i \in 1..4 : toClient[i].type = HandshakeResponses[i] /\ toClient[i].src = 0
        /\ toClient[2].data = <<session.tunnel_id>>
        /\ toClient[4].data = <<session.channel_id>>

\* The first n frames of g end in a ChannelCreate that no Data has followed yet:
\* skip_next_data is meant to drop the next Data message.
Armed(g, n) == \E j \in 1..n : /\ g[j].type = "ChannelCreate"
                               /\ \A k \in (j+1)..n : g[k].type # "Data"

\* Frame i of g is a Data message for the backend.
Forwardable(g, i) == g[i].type = "Data" /\ ~Armed(g, i - 1)

\* Client to backend: what the backend is given is exactly the payloads of the
\* forwardable Data frames, in the order they came, none twice; a forwardable
\* frame that was read is with the backend, in the hand of the task that writes
\* it, or was the last one before the backend failed.  The first Data, written
\* by the session task, comes before all that ws_to_tcp writes.
UplinkFaithful ==
    /\ \A a, b \in DOMAIN toBackend : a < b => toBackend[a].src < toBackend[b].src
    /\ \A a \in DOMAIN toBackend :
         LET i == toBackend[a].src IN
         i \in DOMAIN got /\ Forwardable(got, i) /\ toBackend[a].data = Payload(got[i].data)
    /\ \A i \in DOMAIN got : Forwardable(got, i) =>
         \/ \E a \in DOMAIN toBackend : toBackend[a].src = i
         \/ i = 1 /\ pc \in {"Connect", "InitialWrite"}
         \/ w2t = "Write" /\ w2tHand.src = i
         \/ i = Len(got) /\ backend \in {"refused", "reset"}

IsDown(m) == m.type = "Data"

\* Backend to client: the Data frames sent to the client carry the backend's
\* bytes in stream order, without gap or repetition, and announce their length
\* in cbDataLength; every byte read is sent or in the hand of tcp_to_ws until
\* the WebSocket fails.
DownlinkFaithful ==
    /\ \A a \in DOMAIN toClient : IsDown(toClient[a]) =>
         LET d == toClient[a].data IN
         Len(d) = 3 /\ 1 <= d[2] /\ d[2] <= d[3] /\ d[3] <= downRead /\ d[1] = d[3] - d[2] + 1
    /\ \A a, b \in DOMAIN toClient : a < b /\ IsDown(toClient[a]) /\ IsDown(toClient[b]) =>
         toClient[a].data[3] < toClient[b].data[2]
    /\ t2w \in {"Select", "Send"} => \A o \in 1..downRead :
         \/ \E a \in DOMAIN toClient : /\ IsDown(toClient[a])
                                       /\ toClient[a].data[2] <= o /\ o <= toClient[a].data[3]
         \/ t2w = "Send" /\ IsDown(t2wHand) /\ t2wHand.data[2] <= o /\ o <= t2wHand.data[3]

\* Control replies: every reply the client is sent answers one control frame of
\* the relay, correctly, at most once and in the order of the requests; as long
\* as tcp_to_ws is serving, the reply to each control frame read is sent or on
\* its way through w2tHand, ctrl and t2wHand.  docs/ARCHITECTURE.md has frames of an
\* unknown type echoed, ws_to_tcp echoes type 0x10 only: whether a frame of another
\* unknown type gets its echo is left open here.
ControlFaithful ==
    /\ \A a, b \in DOMAIN toClient :
         a < b /\ toClient[a].src # 0 /\ toClient[b].src # 0 => toClient[a].src < toClient[b].src
    /\ \A a \in DOMAIN toClient : toClient[a].src # 0 =>
         LET i == toClient[a].src IN
         /\ i \in DOMAIN got
         /\ \/ got[i].type \in ControlType /\ toClient[a] = Reply(got[i], i)
            \/ got[i].type = "Unknown" /\ toClient[a] = Message("Unknown", got[i].data, i)
    /\ t2w \in {"Select", "Send"} =>
         \A i \in DOMAIN got : got[i].type \in ControlType =>
            \/ \E a \in DOMAIN toClient : toClient[a].src = i
            \/ t2w = "Send" /\ t2wHand.src = i
            \/ \E c \in DOMAIN ctrl : ctrl[c].src = i
            \/ w2t = "SendCtrl" /\ w2tHand.src = i

\* Once the Close frame of ws_sink.close is on the WebSocket nothing follows it,
\* and once ws_to_tcp has ended nothing more is written to the backend.
NothingAfterClose ==
    [][ /\ \A i \in DOMAIN toClient : toClient[i].type = "Close" => toClient' = toClient
        /\ w2t = "Ended" => toBackend' = toBackend ]_vars

\* A client that closes or vanishes during the handshake ends the session, and
\* during the relay ends ws_to_tcp, which shuts the backend's write half down:
\* no back-pressure through ctrl or the sockets holds the task up for ever.
ClientCloseEndsUplink == client # "open" ~> (pc = "Done" \/ w2t = "Ended")

\* A backend that closes or fails ends tcp_to_ws, which closes the WebSocket; and
\* when the client is done as well both tasks are joined and the session is over.
BackendCloseEnds ==
    /\ (pc = "Relay" /\ backend \in {"eof", "reset"}) ~> (t2w = "Ended")
    /\ (client # "open" /\ backend \in {"eof", "reset", "refused"}) ~> (pc = "Done")

\* During the relay no reply is held back for ever: unless the downlink has
\* ended, there comes a time when every control frame read has been answered
\* (the client sends finitely many), whatever the backend's traffic.
Answered == \A i \in DOMAIN got : got[i].type \in ControlType =>
                \E a \in DOMAIN toClient : toClient[a].src = i

ControlAnswered == []<>(t2w = "Ended" \/ Answered)

-----------------------------------------------------------------------------
(* The session implements a Tunnel.                                          *)

Phase == IF pc = "Done" THEN "Over" ELSE IF got = << >> THEN "Closed" ELSE "Open"

\* The Data frames read that are for the backend, and those it was given.
Given == {<<i, Payload(got[i].data)>> : i \in {j \in DOMAIN got : Forwardable(got, j)}}
Up == [a \in DOMAIN toBackend |-> <<toBackend[a].src, toBackend[a].data>>]

\* The highest backend byte that is in a Data frame sent to the client.
Ends == {0} \cup {toClient[a].data[3] : a \in {b \in DOMAIN toClient : IsDown(toClient[b])}}
Shown == CHOOSE n \in Ends : \A e \in Ends : e <= n

\* The control frames read, and the replies among the frames sent.
Asked == {i \in DOMAIN got : got[i].type \in ControlType}
Answers == {<<a, toClient[a].src>> : a \in {b \in DOMAIN toClient : toClient[b].src # 0}}

Relayed == INSTANCE Tunnel WITH phase <- Phase, given <- Given, up <- Up, taken <- downRead,
                                down <- Shown, asked <- Asked, answered <- Answers

\* The three processes with their sockets, the ctrl channel and the select are one
\* Tunnel: in every interleaving each step of theirs is one step of it or none.
ImplementsTunnel == Relayed!Spec

===============================================================================

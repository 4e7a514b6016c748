---------------------------- MODULE WsSession_proofs ----------------------------
(*****************************************************************************)
(* Proofs about WsSession, for every set of frames and every capacity.       *)
(*****************************************************************************)
EXTENDS WsSession, TLAPS

-----------------------------------------------------------------------------
(* The session state machine.                                                *)

\* process_message is only answered with a response when the request is the one the
\* state waits for.
LEMMA AnsweredRequest ==
    ASSUME NEW s, NEW m, Outcome(s, m) = "Some"
    PROVE  m.type \in RequestType /\ Awaits(s, m.type)
BY DEF Outcome, Awaits, RequestType

\* An answered request leaves a well-typed session.
LEMMA AdvanceSession ==
    ASSUME NEW s \in Session, NEW m, m.type \in RequestType, m.data \in Seq(Nat)
    PROVE  Advance(s, m) \in Session
<1>1. /\ s.next_tunnel_id \in Nat /\ s.next_tunnel_id + 1 \in Nat
      /\ s.next_channel_id \in Nat /\ s.next_channel_id + 1 \in Nat
    BY DEF Session
<1>2. CASE m.type = "HandshakeRequest"
    BY <1>2 DEF Advance, Session, SessionState
<1>3. CASE m.type = "TunnelCreate"
    <2>1. Advance(s, m) = [s EXCEPT !.state = "AwaitingTunnelAuth",
                                    !.tunnel_id = s.next_tunnel_id,
                                    !.next_tunnel_id = s.next_tunnel_id + 1]
        BY <1>3 DEF Advance
    <2> QED BY <1>1, <2>1 DEF Session, SessionState
<1>4. CASE m.type = "TunnelAuth"
    <2>1. Advance(s, m) = [s EXCEPT !.state = "AwaitingChannelCreate", !.client_name = m.data]
        BY <1>4 DEF Advance
    <2> QED BY <2>1 DEF Session, SessionState
<1>5. CASE m.type = "ChannelCreate"
    <2>1. Advance(s, m) = [s EXCEPT !.state = "DataTransfer",
                                    !.target = m.data,
                                    !.channel_id = s.next_channel_id,
                                    !.next_channel_id = s.next_channel_id + 1]
        BY <1>5 DEF Advance
    <2> QED BY <1>1, <2>1 DEF Session, SessionState
<1> QED BY <1>2, <1>3, <1>4, <1>5 DEF RequestType

-----------------------------------------------------------------------------
(* The control states of the three tasks go together: what the session task  *)
(* has reached determines which of the backend connection, the relay tasks   *)
(* and the relay's history exist.                                            *)

PhaseOK ==
    /\ pc \in {"Loop", "Respond"} => got = << >>
    /\ pc \in {"Connect", "InitialWrite"} => Len(got) = 1 /\ got[1].type = "Data"
    /\ pc \in {"Loop", "Respond", "Connect"} => backend = "none"
    /\ pc \in {"Loop", "Respond", "Connect", "InitialWrite"} => w2t = "Idle" /\ t2w = "Idle"
    /\ pc = "InitialWrite" => backend \in {"up", "eof", "reset"}
    /\ pc = "Relay" => w2t # "Idle" /\ t2w # "Idle"
    /\ pc = "Done" => w2t \in {"Idle", "Ended"} /\ t2w \in {"Idle", "Ended"}
    /\ w2t = "Idle" <=> t2w = "Idle"
    /\ w2t = "Idle" => toBackend = << >> /\ downRead = 0 /\ ctrl = << >> /\ skip = FALSE
    /\ w2t # "Idle" => backend \in {"up", "eof", "reset"} /\ got # << >>

-----------------------------------------------------------------------------
(* Type correctness.                                                         *)

\* The types of the messages the gateway builds.
LEMMA SentTypes ==
    /\ "HandshakeResponse" \in SentType /\ "TunnelResponse" \in SentType
    /\ "TunnelAuthResponse" \in SentType /\ "ChannelResponse" \in SentType
    /\ "Keepalive" \in SentType /\ "CloseChannelResponse" \in SentType /\ "Unknown10" \in SentType
    /\ "Data" \in SentType /\ "Close" \in SentType /\ "None" \in SentType
BY DEF SentType

\* A message the gateway builds.
LEMMA MessageType ==
    ASSUME NEW t \in SentType, NEW d \in Seq(Nat), NEW n \in Nat
    PROVE  Message(t, d, n) \in SentMessage
BY DEF Message, SentMessage

\* An answered request leads to a well-typed session and response.
LEMMA AdvanceType ==
    ASSUME NEW s \in Session, NEW m \in WireMessage, Outcome(s, m) = "Some"
    PROVE  Advance(s, m) \in Session /\ Response(s, m) \in SentMessage
<1>1. m.type \in RequestType
    BY AnsweredRequest
<1>2. /\ s.next_tunnel_id \in Nat /\ s.next_channel_id \in Nat
      /\ m.data \in Seq(Nat)
    BY DEF Session, WireMessage
<1>3. Advance(s, m) \in Session
    BY <1>1, <1>2, AdvanceSession
<1>4. Response(s, m) \in SentMessage
    <2>1. \/ Response(s, m) = Message("HandshakeResponse", m.data, 0)
          \/ Response(s, m) = Message("TunnelResponse", <<s.next_tunnel_id>>, 0)
          \/ Response(s, m) = Message("TunnelAuthResponse", << >>, 0)
          \/ Response(s, m) = Message("ChannelResponse", <<s.next_channel_id>>, 0)
        BY <1>1 DEF Response, RequestType
    <2>2. << >> \in Seq(Nat) /\ <<s.next_tunnel_id>> \in Seq(Nat) /\ <<s.next_channel_id>> \in Seq(Nat)
        BY <1>2
    <2> QED BY <1>2, <2>1, <2>2, MessageType, SentTypes
<1> QED BY <1>3, <1>4

\* The payload of a Data message is a sequence of bytes.
LEMMA PayloadType ==
    ASSUME NEW d \in Seq(Nat)
    PROVE  Payload(d) \in Seq(Nat)
BY DEF Payload

\* The replies of the relay are well typed and carry their tag.
LEMMA ReplyType ==
    ASSUME NEW m \in WireMessage, m.type \in ControlType, NEW n \in Nat
    PROVE  Reply(m, n) \in SentMessage /\ Reply(m, n).src = n
<1>1. \/ Reply(m, n) = Message("Keepalive", << >>, n)
      \/ Reply(m, n) = Message("CloseChannelResponse", << >>, n)
      \/ Reply(m, n) = Message("Unknown10", m.data, n)
      \/ Reply(m, n) = Message("ChannelResponse", <<1>>, n)
    BY DEF ControlType, Reply
<1>2. m.data \in Seq(Nat)
    BY DEF WireMessage
<1>3. << >> \in Seq(Nat) /\ <<1>> \in Seq(Nat)
    OBVIOUS
<1>4. Reply(m, n).src = n
    BY <1>1 DEF Message
<1> QED BY <1>1, <1>2, <1>3, <1>4, MessageType, SentTypes

\* The constant messages, and the frames a client may send, are well typed.
LEMMA ConstantTypes ==
    /\ NoMessage \in SentMessage /\ NoMessage.src = 0 /\ NoMessage.type = "None"
    /\ CloseFrame \in SentMessage /\ CloseFrame.src = 0 /\ CloseFrame.type = "Close"
    /\ CloseFrame \in WireMessage /\ EndOfStream \in WireMessage
    /\ Frame \subseteq WireMessage
<1>1. << >> \in Seq(Nat)
    OBVIOUS
<1>2. NoMessage \in SentMessage /\ NoMessage.src = 0 /\ NoMessage.type = "None"
    BY <1>1, SentTypes DEF NoMessage, Message, SentMessage
<1>3. CloseFrame \in SentMessage /\ CloseFrame.src = 0 /\ CloseFrame.type = "Close"
    BY <1>1, SentTypes DEF CloseFrame, Message, SentMessage
<1>4. CloseFrame \in WireMessage /\ EndOfStream \in WireMessage
    <2>1. "Close" \in WireType /\ "Eof" \in WireType
        BY DEF WireType
    <2> QED BY <1>1, <2>1 DEF CloseFrame, EndOfStream, Message, WireMessage
<1>5. Frame \subseteq WireMessage
    BY FrameAssumption DEF WireMessage, WireType
<1> QED BY <1>2, <1>3, <1>4, <1>5

\* Sending on the WebSocket keeps the history of frames typed.
LEMMA WsSendType ==
    ASSUME toClient \in Seq(SentMessage), NEW m \in SentMessage, WsSend(m) \/ WsSendFails
    PROVE  toClient' \in Seq(SentMessage)
BY DEF WsSend, WsSendFails

\* Writing to the backend keeps the history of payloads typed.
LEMMA TcpWriteType ==
    ASSUME toBackend \in Seq(SentMessage), NEW m \in SentMessage, TcpWrite(m) \/ TcpWriteFails
    PROVE  toBackend' \in Seq(SentMessage)
BY DEF TcpWrite, TcpWriteFails

\* Initially every variable has its type.
LEMMA TypeInit == Init => TypeOK
<1>1. NewSession \in Session
    BY DEF NewSession, Session, SessionState
<1> SUFFICES ASSUME Init PROVE TypeOK
    OBVIOUS
<1>2. session \in Session /\ hand \in SentMessage /\ w2tHand \in SentMessage /\ t2wHand \in SentMessage
    BY <1>1, ConstantTypes DEF Init
<1>3. skip \in BOOLEAN
    BY DEF Init
<1>4. /\ wire \in Seq(WireMessage) /\ toClient \in Seq(SentMessage) /\ toBackend \in Seq(SentMessage)
      /\ ctrl \in Seq(SentMessage) /\ got \in Seq(WireMessage)
    BY DEF Init
<1> QED BY <1>2, <1>3, <1>4 DEF Init, TypeOK

\* Every step keeps the types.
LEMMA TypeNext == TypeOK /\ PhaseOK /\ [Next]_vars => TypeOK'
<1> SUFFICES ASSUME TypeOK, PhaseOK, [Next]_vars PROVE TypeOK'
    OBVIOUS
<1> USE DEF TypeOK
<1>1. CASE SessionTask
    <2>1. CASE SessionRead
        <3>1. Head(wire) \in WireMessage /\ Tail(wire) \in Seq(WireMessage)
            BY <2>1 DEF SessionRead
        <3>2. /\ wire' = Tail(wire)
              /\ pc' \in {"Loop", "Connect", "Respond", "Done"}
            BY <2>1, <3>1 DEF SessionRead, Return, sessionVars
        <3>4. got' \in Seq(WireMessage)
            <4>1. got' = got \/ got' = <<Head(wire)>>
                BY <2>1 DEF SessionRead
            <4>2. got \in Seq(WireMessage) /\ <<Head(wire)>> \in Seq(WireMessage)
                BY <3>1
            <4> QED BY <4>1, <4>2
        <3>3. session' \in Session /\ hand' \in SentMessage
            <4>1. session \in Session /\ hand \in SentMessage
                OBVIOUS
            <4>2. \/ session' = session /\ hand' = hand
                  \/ /\ Outcome(session, Head(wire)) = "Some"
                     /\ session' = Advance(session, Head(wire))
                     /\ hand' = Response(session, Head(wire))
                BY <2>1 DEF SessionRead, Return, sessionVars
            <4> HIDE DEF TypeOK
            <4> QED BY <3>1, <4>1, <4>2, AdvanceType
        <3> QED BY <1>1, <2>1, <3>1, <3>2, <3>3, <3>4 DEF SessionTask, SessionRead, clientVars
    <2>2. CASE SessionRespond
        <3>1. toClient' \in Seq(SentMessage)
            BY <2>2, WsSendType DEF SessionRespond
        <3> QED BY <1>1, <2>2, <3>1, ConstantTypes DEF SessionTask, SessionRespond, clientVars
    <2>3. CASE SessionConnect
        BY <1>1, <2>3 DEF SessionTask, SessionConnect, clientVars
    <2>4. CASE SessionInitialWrite
        <3>1. toBackend' \in Seq(SentMessage)
            <4>1. got[1] \in WireMessage
                <5>1. got \in Seq(WireMessage) /\ Len(got) = 1
                    BY <2>4 DEF SessionInitialWrite, PhaseOK
                <5> HIDE DEF TypeOK
                <5> QED BY <5>1
            <4>2. Payload(got[1].data) \in Seq(Nat)
                BY <4>1, PayloadType DEF WireMessage
            <4>3. Message("Data", Payload(got[1].data), 1) \in SentMessage
                BY <4>2, MessageType, SentTypes
            <4> QED BY <2>4, <4>3, TcpWriteType DEF SessionInitialWrite
        <3> QED BY <1>1, <2>4, <3>1 DEF SessionTask, SessionInitialWrite, clientVars
    <2>5. CASE SessionJoin
        BY <1>1, <2>5 DEF SessionTask, SessionJoin, clientVars
    <2> QED BY <1>1, <2>1, <2>2, <2>3, <2>4, <2>5 DEF SessionTask
<1>2. CASE WsToTcp
    <2>1. CASE WsToTcpRead
        <3>1. Head(wire) \in WireMessage /\ Tail(wire) \in Seq(WireMessage) /\ Len(got) + 1 \in Nat
            BY <2>1 DEF WsToTcpRead
        <3>2. Message("Data", Payload(Head(wire).data), Len(got) + 1) \in SentMessage
            BY <3>1, PayloadType, MessageType, SentTypes DEF WireMessage
        <3>3. /\ w2t' \in {"Read", "Write", "SendCtrl", "Ended"}
              /\ w2tHand' \in SentMessage /\ skip' \in BOOLEAN
            BY <2>1, <3>1, <3>2, ReplyType DEF WsToTcpRead, w2tVars
        <3> QED BY <1>2, <2>1, <3>1, <3>3 DEF WsToTcp, WsToTcpRead, sessionVars, clientVars,
                                              backendVars, t2wVars
    <2>2. CASE WsToTcpWrite
        <3>1. toBackend' \in Seq(SentMessage)
            BY <2>2, TcpWriteType DEF WsToTcpWrite
        <3> QED BY <1>2, <2>2, <3>1, ConstantTypes DEF WsToTcp, WsToTcpWrite, sessionVars, clientVars,
                                                       backendVars, t2wVars
    <2>3. CASE WsToTcpCtrl
        <3>1. ctrl' \in Seq(SentMessage)
            <4>1. ctrl' = Append(ctrl, w2tHand) \/ ctrl' = ctrl
                BY <2>3 DEF WsToTcpCtrl
            <4>2. ctrl \in Seq(SentMessage) /\ w2tHand \in SentMessage
                OBVIOUS
            <4> HIDE DEF TypeOK
            <4> QED BY <4>1, <4>2
        <3>2. skip' \in BOOLEAN /\ w2tHand' \in SentMessage /\ w2t' \in {"Ended", "Read"}
            BY <2>3, ConstantTypes DEF WsToTcpCtrl, SkipNext
        <3> QED BY <1>2, <2>3, <3>1, <3>2 DEF WsToTcp, WsToTcpCtrl, sessionVars, clientVars,
                                              backendVars, t2wVars
    <2> QED BY <1>2, <2>1, <2>2, <2>3 DEF WsToTcp
<1>3. CASE TcpToWs
    <2>1. ASSUME NEW n \in 1..ReadMax, TcpToWsData(n) PROVE TypeOK'
        <3>1. encode_data_message(downRead + 1, downRead + n) \in SentMessage
            <4>1. <<(downRead + n) - (downRead + 1) + 1, downRead + 1, downRead + n>> \in Seq(Nat)
                BY CapAssumption
            <4> QED BY <4>1, MessageType, SentTypes DEF encode_data_message
        <3> QED BY <1>3, <2>1, <3>1, CapAssumption DEF TcpToWs, TcpToWsData, sessionVars, clientVars,
                                                       backendVars, w2tVars
    <2>2. CASE TcpToWsEnd
        BY <1>3, <2>2 DEF TcpToWs, TcpToWsEnd, sessionVars, clientVars, backendVars, w2tVars
    <2>3. CASE TcpToWsCtrl
        BY <1>3, <2>3 DEF TcpToWs, TcpToWsCtrl, sessionVars, clientVars, backendVars, w2tVars
    <2>4. CASE TcpToWsSend
        <3>1. toClient' \in Seq(SentMessage)
            BY <2>4, WsSendType DEF TcpToWsSend
        <3> QED BY <1>3, <2>4, <3>1, ConstantTypes DEF TcpToWs, TcpToWsSend, sessionVars, clientVars,
                                                       backendVars, w2tVars
    <2>5. CASE TcpToWsClose
        <3>1. toClient' \in Seq(SentMessage)
            BY <2>5, WsSendType, ConstantTypes DEF TcpToWsClose
        <3> QED BY <1>3, <2>5, <3>1 DEF TcpToWs, TcpToWsClose, sessionVars, clientVars, backendVars,
                                        w2tVars
    <2> QED BY <1>3, <2>1, <2>2, <2>3, <2>4, <2>5 DEF TcpToWs
<1>4. CASE Client
    <2>1. \/ wire' = wire
          \/ \E m \in WireMessage : wire' = Append(wire, m)
        BY <1>4, ConstantTypes DEF Client, ClientSend, ClientClose, ClientVanish, ClientRead
    <2>2. wire' \in Seq(WireMessage)
        <3>1. wire \in Seq(WireMessage)
            OBVIOUS
        <3> HIDE DEF TypeOK
        <3> QED BY <2>1, <3>1
    <2>3. client' \in {"open", "closing", "gone"} /\ sent' \in Nat /\ clientRead' \in Nat
        BY <1>4 DEF Client, ClientSend, ClientClose, ClientVanish, ClientRead, clientVars
    <2> QED BY <1>4, <2>2, <2>3 DEF Client, ClientFrame, sessionVars, backendVars, w2tVars, t2wVars
<1>5. CASE Backend
    BY <1>5 DEF Backend, BackendRead, BackendSend, BackendClose, BackendReset, BackendFrame,
                clientVars, sessionVars, w2tVars, t2wVars
<1>6. CASE UNCHANGED vars
    BY <1>6 DEF vars, sessionVars, clientVars, backendVars, w2tVars, t2wVars
<1> QED BY <1>1, <1>2, <1>3, <1>4, <1>5, <1>6 DEF Next, Terminated

-----------------------------------------------------------------------------
(* The phases.                                                               *)

\* Initially no relay exists.
LEMMA PhaseInit == Init => PhaseOK
BY DEF Init, PhaseOK

\* Every step keeps the control states of the three tasks together.
LEMMA PhaseNext == TypeOK /\ PhaseOK /\ [Next]_vars => PhaseOK'
<1> SUFFICES ASSUME TypeOK, PhaseOK, [Next]_vars PROVE PhaseOK'
    OBVIOUS
<1> USE DEF PhaseOK
<1>1. CASE SessionTask
    <2>1. CASE SessionRead
        BY <1>1, <2>1 DEF SessionTask, SessionRead, Return, sessionVars, clientVars, TypeOK
    <2>2. CASE SessionRespond
        BY <1>1, <2>2 DEF SessionTask, SessionRespond
    <2>3. CASE SessionConnect
        BY <1>1, <2>3 DEF SessionTask, SessionConnect
    <2>4. CASE SessionInitialWrite
        BY <1>1, <2>4 DEF SessionTask, SessionInitialWrite, TcpWrite, TcpWriteFails
    <2>5. CASE SessionJoin
        BY <1>1, <2>5 DEF SessionTask, SessionJoin
    <2> QED BY <1>1, <2>1, <2>2, <2>3, <2>4, <2>5 DEF SessionTask
<1>2. CASE WsToTcp
    <2>1. CASE WsToTcpRead
        <3>1. got' # << >>
            BY <2>1 DEF WsToTcpRead, TypeOK
        <3> QED BY <1>2, <2>1, <3>1 DEF WsToTcp, WsToTcpRead, w2tVars, sessionVars, backendVars, t2wVars, TypeOK
    <2>2. CASE WsToTcpWrite
        BY <1>2, <2>2 DEF WsToTcp, WsToTcpWrite, sessionVars, backendVars, t2wVars
    <2>3. CASE WsToTcpCtrl
        BY <1>2, <2>3 DEF WsToTcp, WsToTcpCtrl, sessionVars, backendVars, t2wVars
    <2> QED BY <1>2, <2>1, <2>2, <2>3 DEF WsToTcp
<1>3. CASE TcpToWs
    BY <1>3 DEF TcpToWs, TcpToWsData, TcpToWsEnd, TcpToWsCtrl, TcpToWsSend, TcpToWsClose, sessionVars,
                backendVars, w2tVars
<1>4. CASE Client
    BY <1>4 DEF Client, ClientFrame, sessionVars, backendVars, w2tVars, t2wVars
<1>5. CASE Backend
    BY <1>5 DEF Backend, BackendRead, BackendSend, BackendClose, BackendReset, BackendFrame,
                sessionVars, w2tVars, t2wVars
<1>6. CASE UNCHANGED vars
    BY <1>6 DEF vars, sessionVars, backendVars, w2tVars, t2wVars
<1> QED BY <1>1, <1>2, <1>3, <1>4, <1>5, <1>6 DEF Next, Terminated

\* The types hold, and the control states of the three tasks go together, in every
\* reachable state: the basis of the invariants below.
THEOREM PhaseInvariant == Spec => [](TypeOK /\ PhaseOK)
BY TypeInit, TypeNext, PhaseInit, PhaseNext, PTL DEF Spec

\* Every variable keeps its type (TypeOK) in every behaviour of the session.
THEOREM TypeCorrect == Spec => []TypeOK
BY PhaseInvariant, PTL

-----------------------------------------------------------------------------
(* The handshake precedes the relay.                                         *)

\* How many responses a session in state st has earned.
Earned(st) == CASE st = "AwaitingHandshake"     -> 0
                [] st = "AwaitingTunnelCreate"  -> 1
                [] st = "AwaitingTunnelAuth"    -> 2
                [] st = "AwaitingChannelCreate" -> 3
                [] st = "DataTransfer"          -> 4

\* m is the n-th response of the handshake of session s.
IsResponse(m, n, s) ==
    /\ m.type = HandshakeResponses[n] /\ m.src = 0
    /\ n = 2 => m.data = <<s.tunnel_id>>
    /\ n = 4 => m.data = <<s.channel_id>>

\* The strengthening: at every point of the session loop the responses sent are
\* the ones its state has earned, the one in hand being the next.
HandshakeInv ==
    /\ session.state # "Closed"
    /\ \A i \in 1..4 : i <= Len(toClient) => IsResponse(toClient[i], i, session)
    /\ pc = "Loop" => Len(toClient) = Earned(session.state)
    /\ pc = "Respond" => /\ Earned(session.state) = Len(toClient) + 1
                         /\ IsResponse(hand, Len(toClient) + 1, session)
    /\ pc \in {"Connect", "InitialWrite", "Relay"} \/ backend # "none" => Len(toClient) >= 4

\* An answered request earns exactly the next response.
LEMMA AdvanceEarns ==
    ASSUME NEW s \in Session, NEW m \in WireMessage, Outcome(s, m) = "Some"
    PROVE  /\ Advance(s, m).state # "Closed"
           /\ Earned(s.state) \in 0..3
           /\ Earned(Advance(s, m).state) = Earned(s.state) + 1
           /\ IsResponse(Response(s, m), Earned(s.state) + 1, Advance(s, m))
           /\ \A n \in 1..4, x \in SentMessage :
                n <= Earned(s.state) /\ IsResponse(x, n, s) => IsResponse(x, n, Advance(s, m))
<1>1. CASE s.state = "AwaitingHandshake" /\ m.type = "HandshakeRequest"
    <2>1. /\ Advance(s, m) = [s EXCEPT !.state = "AwaitingTunnelCreate"]
          /\ Response(s, m) = Message("HandshakeResponse", m.data, 0)
        BY <1>1 DEF Advance, Response
    <2>2. /\ Advance(s, m).state = "AwaitingTunnelCreate" /\ Advance(s, m).tunnel_id = s.tunnel_id
          /\ Advance(s, m).channel_id = s.channel_id
        BY <2>1 DEF Session
    <2> QED BY <1>1, <2>1, <2>2 DEF Earned, IsResponse, Message, HandshakeResponses
<1>2. CASE s.state = "AwaitingTunnelCreate" /\ m.type = "TunnelCreate"
    <2>1. /\ Advance(s, m) = [s EXCEPT !.state = "AwaitingTunnelAuth",
                                       !.tunnel_id = s.next_tunnel_id,
                                       !.next_tunnel_id = s.next_tunnel_id + 1]
          /\ Response(s, m) = Message("TunnelResponse", <<s.next_tunnel_id>>, 0)
        BY <1>2 DEF Advance, Response
    <2>2. /\ Advance(s, m).state = "AwaitingTunnelAuth" /\ Advance(s, m).tunnel_id = s.next_tunnel_id
          /\ Advance(s, m).channel_id = s.channel_id
        BY <2>1 DEF Session
    <2> QED BY <1>2, <2>1, <2>2 DEF Earned, IsResponse, Message, HandshakeResponses
<1>3. CASE s.state = "AwaitingTunnelAuth" /\ m.type = "TunnelAuth"
    <2>1. /\ Advance(s, m) = [s EXCEPT !.state = "AwaitingChannelCreate", !.client_name = m.data]
          /\ Response(s, m) = Message("TunnelAuthResponse", << >>, 0)
        BY <1>3 DEF Advance, Response
    <2>2. /\ Advance(s, m).state = "AwaitingChannelCreate" /\ Advance(s, m).tunnel_id = s.tunnel_id
          /\ Advance(s, m).channel_id = s.channel_id
        BY <2>1 DEF Session
    <2> QED BY <1>3, <2>1, <2>2 DEF Earned, IsResponse, Message, HandshakeResponses
<1>4. CASE s.state = "AwaitingChannelCreate" /\ m.type = "ChannelCreate"
    <2>1. /\ Advance(s, m) = [s EXCEPT !.state = "DataTransfer",
                                       !.target = m.data,
                                       !.channel_id = s.next_channel_id,
                                       !.next_channel_id = s.next_channel_id + 1]
          /\ Response(s, m) = Message("ChannelResponse", <<s.next_channel_id>>, 0)
        BY <1>4 DEF Advance, Response
    <2>2. /\ Advance(s, m).state = "DataTransfer" /\ Advance(s, m).tunnel_id = s.tunnel_id
          /\ Advance(s, m).channel_id = s.next_channel_id
        BY <2>1 DEF Session
    <2> QED BY <1>4, <2>1, <2>2 DEF Earned, IsResponse, Message, HandshakeResponses
<1> QED BY <1>1, <1>2, <1>3, <1>4 DEF Outcome, Awaits

\* A frame appended after the handshake disturbs none of its responses.
LEMMA SendKeepsHandshake ==
    ASSUME toClient \in Seq(SentMessage), NEW m \in SentMessage, WsSend(m) \/ WsSendFails,
           Len(toClient) >= 4,
           \A i \in 1..4 : i <= Len(toClient) => IsResponse(toClient[i], i, session),
           session' = session
    PROVE  /\ Len(toClient') >= 4
           /\ \A i \in 1..4 : i <= Len(toClient') => IsResponse(toClient'[i], i, session')
<1>1. toClient' = Append(toClient, m) \/ toClient' = toClient
    BY DEF WsSend, WsSendFails
<1>2. Len(toClient') >= 4 /\ \A i \in 1..4 : toClient'[i] = toClient[i]
    BY <1>1
<1> QED BY <1>2 DEF IsResponse

\* Initially no response is owed and none was sent.
LEMMA HandshakeInit == Init => HandshakeInv
BY DEF Init, HandshakeInv, NewSession, Earned

\* Every step keeps the responses sent and owed in step with the session state.
LEMMA HandshakeNext == TypeOK /\ PhaseOK /\ HandshakeInv /\ [Next]_vars => HandshakeInv'
<1> SUFFICES ASSUME TypeOK, PhaseOK, HandshakeInv, [Next]_vars PROVE HandshakeInv'
    OBVIOUS
<1>0. toClient \in Seq(SentMessage) /\ session \in Session /\ hand \in SentMessage
      /\ t2wHand \in SentMessage
    BY DEF TypeOK
<1>1. CASE SessionTask
    <2>1. CASE SessionRead
        <3> DEFINE m == Head(wire)
        <3>1. m \in WireMessage
            BY <2>1 DEF SessionRead, TypeOK
        <3>2. toClient' = toClient /\ backend' = backend /\ backend = "none" /\ pc = "Loop"
            BY <2>1 DEF SessionRead, PhaseOK
        <3>3. CASE Outcome(session, m) = "Some" /\ session' = Advance(session, m)
                   /\ hand' = Response(session, m) /\ pc' = "Respond"
            <4>1. /\ Earned(session'.state) = Len(toClient) + 1 /\ session'.state # "Closed"
                  /\ IsResponse(hand', Len(toClient) + 1, session')
                BY <1>0, <3>1, <3>2, <3>3, AdvanceEarns DEF HandshakeInv
            <4>2. \A i \in 1..4 : i <= Len(toClient) => IsResponse(toClient[i], i, session')
                BY <1>0, <3>1, <3>2, <3>3, AdvanceEarns DEF HandshakeInv
            <4> QED BY <3>2, <3>3, <4>1, <4>2 DEF HandshakeInv
        <3>4. CASE session' = session /\ pc' \in {"Done", "Loop"}
            BY <3>2, <3>4 DEF HandshakeInv, IsResponse
        <3>5. CASE session' = session /\ pc' = "Connect" /\ is_data_transfer(session)
            <4>1. Len(toClient) = 4
                BY <3>2, <3>5 DEF HandshakeInv, is_data_transfer, Earned
            <4> QED BY <3>2, <3>5, <4>1 DEF HandshakeInv
        <3> QED BY <2>1, <3>2, <3>3, <3>4, <3>5 DEF SessionRead, Return, sessionVars
    <2>2. CASE SessionRespond
        <3>1. session' = session /\ backend' = backend /\ backend = "none" /\ pc = "Respond"
            BY <2>2 DEF SessionRespond, PhaseOK
        <3>2. CASE toClient' = Append(toClient, hand) /\ pc' = "Loop"
            <4>1. Len(toClient') = Len(toClient) + 1 /\ toClient'[Len(toClient) + 1] = hand
                  /\ \A i \in 1..Len(toClient) : toClient'[i] = toClient[i]
                BY <1>0, <3>2
            <4>2. \A i \in 1..4 : i <= Len(toClient') => IsResponse(toClient'[i], i, session)
                BY <1>0, <3>1, <4>1 DEF HandshakeInv
            <4> QED BY <1>0, <3>1, <3>2, <4>1, <4>2 DEF HandshakeInv
        <3>3. CASE toClient' = toClient /\ pc' = "Done"
            BY <3>1, <3>3 DEF HandshakeInv, IsResponse
        <3> QED BY <2>2, <3>2, <3>3 DEF SessionRespond, WsSend, WsSendFails
    <2>3. CASE SessionConnect
        BY <2>3 DEF SessionConnect, HandshakeInv
    <2>4. CASE SessionInitialWrite
        BY <2>4 DEF SessionInitialWrite, HandshakeInv
    <2>5. CASE SessionJoin
        BY <2>5 DEF SessionJoin, HandshakeInv
    <2> QED BY <1>1, <2>1, <2>2, <2>3, <2>4, <2>5 DEF SessionTask
<1>2. CASE WsToTcp
    BY <1>2 DEF WsToTcp, sessionVars, backendVars, HandshakeInv
<1>3. CASE TcpToWs
    <2>1. pc' = pc /\ session' = session /\ hand' = hand /\ backend' = backend
        BY <1>3 DEF TcpToWs, sessionVars, backendVars
    <2>2. pc \notin {"Loop", "Respond"} /\ backend # "none"
        BY <1>3 DEF TcpToWs, TcpToWsData, TcpToWsEnd, TcpToWsCtrl, TcpToWsSend, TcpToWsClose, PhaseOK
    <2>3. toClient' = toClient \/ \E m \in SentMessage : WsSend(m) \/ WsSendFails
        BY <1>0, <1>3, ConstantTypes DEF TcpToWs, TcpToWsData, TcpToWsEnd, TcpToWsCtrl, TcpToWsSend,
                                         TcpToWsClose
    <2>4. /\ Len(toClient') >= 4
          /\ \A i \in 1..4 : i <= Len(toClient') => IsResponse(toClient'[i], i, session')
        BY <1>0, <2>1, <2>2, <2>3, SendKeepsHandshake DEF HandshakeInv
    <2> QED BY <2>1, <2>2, <2>4 DEF HandshakeInv
<1>4. CASE Client
    BY <1>4 DEF Client, ClientFrame, sessionVars, backendVars, HandshakeInv
<1>5. CASE Backend
    BY <1>5 DEF Backend, BackendRead, BackendSend, BackendClose, BackendReset, BackendFrame,
                sessionVars, HandshakeInv
<1>6. CASE UNCHANGED vars
    BY <1>6 DEF vars, sessionVars, backendVars, HandshakeInv
<1> QED BY <1>1, <1>2, <1>3, <1>4, <1>5, <1>6 DEF Next, Terminated

\* HandshakeBeforeRelay holds for every client and every interleaving: a backend
\* connection exists only after the four responses of process_message, in order.
THEOREM HandshakeSafety == Spec => []HandshakeBeforeRelay
<1>1. TypeOK /\ HandshakeInv => HandshakeBeforeRelay
    BY DEF TypeOK, HandshakeInv, HandshakeBeforeRelay, IsResponse
<1> QED BY <1>1, HandshakeInit, HandshakeNext, PhaseInvariant, PTL DEF Spec

-----------------------------------------------------------------------------
(* The uplink.                                                               *)

\* Frame i of the relay has been written to the backend.
Written(i) == \E a \in DOMAIN toBackend : toBackend[a].src = i

\* What ws_to_tcp holds while it writes: the newest frame, forwardable, unwritten.
WriteInv ==
    w2t = "Write" => /\ w2tHand.src = Len(got) /\ got # << >>
                     /\ Forwardable(got, Len(got))
                     /\ w2tHand.data = Payload(got[Len(got)].data)
                     /\ \A a \in DOMAIN toBackend : toBackend[a].src < Len(got)

\* skip_next_data says what the frames read so far say; while the reply to a
\* ChannelCreate is being sent it is about to.
SkipInv ==
    /\ w2t \in {"Read", "Write"} => (skip <=> Armed(got, Len(got)))
    /\ w2t = "SendCtrl" => ((skip \/ w2tHand.type = "ChannelResponse") <=> Armed(got, Len(got)))

\* Which forwardable frames are with the backend, by the state of ws_to_tcp.
DoneInv ==
    /\ w2t \in {"Read", "SendCtrl"} => \A i \in DOMAIN got : Forwardable(got, i) => Written(i)
    /\ w2t = "Write" => \A i \in 1..(Len(got) - 1) : Forwardable(got, i) => Written(i)
    /\ w2t = "Ended" => \A i \in DOMAIN got : Forwardable(got, i) =>
                           Written(i) \/ (i = Len(got) /\ backend = "reset")
    /\ w2t = "Idle" => /\ Len(got) <= 1
                       /\ got # << >> => pc \in {"Connect", "InitialWrite"} \/ backend \in {"refused", "reset"}

\* The first two conjuncts of UplinkFaithful.
OrderInv ==
    /\ \A a, b \in DOMAIN toBackend : a < b => toBackend[a].src < toBackend[b].src
    /\ \A a \in DOMAIN toBackend :
         /\ toBackend[a].src \in DOMAIN got /\ Forwardable(got, toBackend[a].src)
         /\ toBackend[a].data = Payload(got[toBackend[a].src].data)

UplinkInv == WriteInv /\ SkipInv /\ DoneInv /\ OrderInv

\* Reading one more frame changes nothing about the earlier ones.
LEMMA ReadKeepsEarlier ==
    ASSUME NEW g \in Seq(WireMessage), NEW m \in WireMessage
    PROVE  /\ Len(Append(g, m)) = Len(g) + 1 /\ Append(g, m)[Len(g) + 1] = m
           /\ \A i \in 1..Len(g) : Append(g, m)[i] = g[i]
           /\ \A i \in 1..Len(g) : Forwardable(Append(g, m), i) <=> Forwardable(g, i)
           /\ Forwardable(Append(g, m), Len(g) + 1) <=> m.type = "Data" /\ ~Armed(g, Len(g))
           /\ Armed(Append(g, m), Len(g) + 1) <=>
                m.type = "ChannelCreate" \/ (m.type # "Data" /\ Armed(g, Len(g)))
<1> DEFINE h == Append(g, m)
<1>1. Len(h) = Len(g) + 1 /\ h[Len(g) + 1] = m /\ \A i \in 1..Len(g) : h[i] = g[i] /\ Len(g) \in Nat
    OBVIOUS
<1> HIDE DEF h
<1>2. \A n \in 0..Len(g) : Armed(h, n) <=> Armed(g, n)
    BY <1>1 DEF Armed
<1>3. \A i \in 1..Len(g) : Forwardable(h, i) <=> Forwardable(g, i)
    BY <1>1, <1>2 DEF Forwardable
<1>4. Forwardable(h, Len(g) + 1) <=> m.type = "Data" /\ ~Armed(g, Len(g))
    BY <1>1, <1>2 DEF Forwardable
<1>5. Armed(h, Len(g) + 1) <=> m.type = "ChannelCreate" \/ (m.type # "Data" /\ Armed(g, Len(g)))
    <2>1. CASE m.type = "ChannelCreate"
        BY <1>1, <2>1 DEF Armed
    <2>2. CASE m.type = "Data"
        BY <1>1, <2>2 DEF Armed
    <2>3. CASE m.type \notin {"ChannelCreate", "Data"}
        BY <1>1, <2>3 DEF Armed
    <2> QED BY <2>1, <2>2, <2>3
<1> QED BY <1>1, <1>3, <1>4, <1>5 DEF h

\* Writing one more payload, newer than all before, keeps the order and adds
\* just that frame to the written ones.
LEMMA WriteExtends ==
    ASSUME NEW w \in SentMessage, got \in Seq(WireMessage), toBackend \in Seq(SentMessage),
           toBackend' = Append(toBackend, w), got' = got, OrderInv,
           w.src \in DOMAIN got, Forwardable(got, w.src), w.data = Payload(got[w.src].data),
           \A a \in DOMAIN toBackend : toBackend[a].src < w.src
    PROVE  OrderInv' /\ \A i \in Nat : Written(i)' <=> Written(i) \/ i = w.src
<1>1. /\ DOMAIN toBackend' = 1..(Len(toBackend) + 1) /\ DOMAIN toBackend = 1..Len(toBackend)
      /\ Len(toBackend) \in Nat
      /\ toBackend'[Len(toBackend) + 1] = w
      /\ \A a \in DOMAIN toBackend : toBackend'[a] = toBackend[a]
    OBVIOUS
<1>2. \A a, b \in DOMAIN toBackend' : a < b => toBackend'[a].src < toBackend'[b].src
    BY <1>1 DEF OrderInv
<1>3. \A a \in DOMAIN toBackend' :
         /\ toBackend'[a].src \in DOMAIN got' /\ Forwardable(got', toBackend'[a].src)
         /\ toBackend'[a].data = Payload(got'[toBackend'[a].src].data)
    BY <1>1 DEF OrderInv
<1>4. \A i \in Nat : Written(i)' <=> Written(i) \/ i = w.src
    BY <1>1 DEF Written
<1> QED BY <1>2, <1>3, <1>4 DEF OrderInv

\* Initially nothing was read and nothing written.
LEMMA UplinkInit == Init => UplinkInv
BY DEF Init, UplinkInv, WriteInv, SkipInv, DoneInv, OrderInv

\* Steps that leave the uplink alone, except for the phase and the backend's state.
LEMMA UplinkFrame ==
    ASSUME UplinkInv, UNCHANGED <<w2tVars, got, toBackend>>,
           backend = "reset" => backend' = "reset",
           w2t = "Idle" /\ got # << >> =>
                pc' \in {"Connect", "InitialWrite"} \/ backend' \in {"refused", "reset"}
    PROVE  UplinkInv'
<1>1. WriteInv' /\ SkipInv' /\ OrderInv'
    BY DEF UplinkInv, WriteInv, SkipInv, OrderInv, w2tVars
<1>2. DoneInv'
    BY DEF UplinkInv, DoneInv, Written, w2tVars
<1> QED BY <1>1, <1>2 DEF UplinkInv

\* The session task writes the first Data, and only that one.
LEMMA UplinkSession ==
    ASSUME TypeOK, PhaseOK, UplinkInv, SessionTask
    PROVE  UplinkInv'
<1>1. CASE SessionRead
    <2>1. /\ w2t = "Idle" /\ w2t' = w2t /\ skip' = skip /\ toBackend' = << >> /\ got = << >>
        BY <1>1 DEF SessionTask, SessionRead, PhaseOK
    <2>2. got' = << >> \/ (got' = <<Head(wire)>> /\ pc' = "Connect")
        BY <1>1, <2>1 DEF SessionRead
    <2> QED BY <2>1, <2>2 DEF UplinkInv, WriteInv, SkipInv, DoneInv, OrderInv
<1>2. CASE SessionRespond
    BY <1>2, UplinkFrame DEF SessionTask, SessionRespond, PhaseOK, w2tVars
<1>3. CASE SessionConnect
    BY <1>3, UplinkFrame DEF SessionTask, SessionConnect, PhaseOK, w2tVars
<1>4. CASE SessionInitialWrite
    <2>1. CASE TcpWriteFails /\ UNCHANGED w2t
        BY <1>4, <2>1, UplinkFrame DEF SessionTask, SessionInitialWrite, TcpWriteFails, w2tVars
    <2>2. CASE TcpWrite(Message("Data", Payload(got[1].data), 1)) /\ w2t' = "Read"
        <3> DEFINE w == Message("Data", Payload(got[1].data), 1)
        <3>1. /\ got \in Seq(WireMessage) /\ Len(got) = 1 /\ got[1].type = "Data" /\ got' = got
              /\ toBackend = << >> /\ skip = FALSE /\ skip' = skip
            BY <1>4 DEF SessionTask, SessionInitialWrite, PhaseOK, TypeOK
        <3>2. Forwardable(got, 1) /\ ~Armed(got, 1)
            BY <3>1 DEF Forwardable, Armed
        <3>3. w.src = 1 /\ w.data = Payload(got[1].data)
            BY DEF Message
        <3>4. w \in SentMessage
            <4>1. got[1] \in WireMessage
                BY <3>1
            <4>2. Payload(got[1].data) \in Seq(Nat)
                BY <4>1, PayloadType DEF WireMessage
            <4> QED BY <4>2, MessageType, SentTypes
        <3>5. toBackend' = Append(toBackend, w) /\ toBackend \in Seq(SentMessage)
            BY <2>2 DEF TcpWrite, TypeOK
        <3> HIDE DEF w
        <3>6. OrderInv' /\ \A i \in Nat : Written(i)' <=> Written(i) \/ i = 1
            BY <3>1, <3>2, <3>3, <3>4, <3>5, WriteExtends DEF UplinkInv
        <3>7. DoneInv' /\ WriteInv'
            BY <2>2, <3>1, <3>6 DEF DoneInv, WriteInv
        <3>8. SkipInv'
            BY <2>2, <3>1, <3>2 DEF SkipInv
        <3> QED BY <3>6, <3>7, <3>8 DEF UplinkInv
    <2> QED BY <1>4, <2>1, <2>2 DEF SessionInitialWrite
<1>5. CASE SessionJoin
    BY <1>5, UplinkFrame DEF SessionTask, SessionJoin, w2tVars
<1> QED BY <1>1, <1>2, <1>3, <1>4, <1>5 DEF SessionTask

\* A frame read by ws_to_tcp is in its hand when it is forwardable, and skip_next_data
\* says whether the next Data is.
LEMMA UplinkRead ==
    ASSUME TypeOK, PhaseOK, UplinkInv, WsToTcp, WsToTcpRead
    PROVE  UplinkInv'
<1> DEFINE m == Head(wire)
           n == Len(got) + 1
<1>1. /\ w2t = "Read" /\ got' = Append(got, m) /\ toBackend' = toBackend /\ backend' = backend
      /\ got \in Seq(WireMessage) /\ m \in WireMessage /\ toBackend \in Seq(SentMessage)
    BY DEF WsToTcp, WsToTcpRead, backendVars, TypeOK
<1>2. n \in Nat /\ n > 0 /\ Len(got) = n - 1 /\ DOMAIN got = 1..(n - 1)
    BY <1>1
<1>3. /\ Len(got') = n /\ got'[n] = m /\ DOMAIN got' = 1..n /\ got' # << >>
      /\ \A i \in 1..(n - 1) : got'[i] = got[i]
      /\ \A i \in 1..(n - 1) : Forwardable(got', i) <=> Forwardable(got, i)
      /\ Forwardable(got', n) <=> m.type = "Data" /\ ~Armed(got, n - 1)
      /\ Armed(got', n) <=> m.type = "ChannelCreate" \/ (m.type # "Data" /\ Armed(got, n - 1))
    BY <1>1, <1>2, ReadKeepsEarlier
<1>4. \A i \in DOMAIN got : Forwardable(got, i) => Written(i)
    BY <1>1 DEF UplinkInv, DoneInv
<1>5. \A i : Written(i)' <=> Written(i)
    BY <1>1 DEF Written
<1>6. skip <=> Armed(got, n - 1)
    BY <1>1, <1>2 DEF UplinkInv, SkipInv
<1>7. OrderInv'
    <2>1. \A a \in DOMAIN toBackend : toBackend[a].src \in 1..(n - 1)
        BY <1>2 DEF UplinkInv, OrderInv
    <2> QED BY <1>1, <1>2, <1>3, <2>1 DEF UplinkInv, OrderInv
<1>8. CASE m.type = "Data" /\ skip /\ skip' = FALSE /\ w2t' = w2t
    BY <1>1, <1>2, <1>3, <1>4, <1>5, <1>6, <1>7, <1>8 DEF UplinkInv, WriteInv, SkipInv, DoneInv
<1>9. CASE m.type = "Data" /\ ~skip /\ skip' = skip /\ w2t' = "Write"
           /\ w2tHand' = Message("Data", Payload(m.data), n)
    <2>1. w2tHand'.src = n /\ w2tHand'.data = Payload(m.data)
        BY <1>9 DEF Message
    <2>2. WriteInv'
        <3>1. \A a \in DOMAIN toBackend' : toBackend'[a].src < n
            BY <1>1, <1>2 DEF UplinkInv, OrderInv
        <3> QED BY <1>3, <1>6, <1>9, <2>1, <3>1 DEF WriteInv
    <2>3. SkipInv'
        BY <1>3, <1>6, <1>9 DEF SkipInv
    <2>4. DoneInv'
        BY <1>2, <1>3, <1>4, <1>5, <1>9 DEF DoneInv
    <2> QED BY <1>7, <2>2, <2>3, <2>4 DEF UplinkInv
<1>10. CASE m.type \in ControlType /\ skip' = skip /\ w2t' = "SendCtrl" /\ w2tHand' = Reply(m, n)
    <2>1. w2tHand'.type = "ChannelResponse" <=> m.type = "ChannelCreate"
        BY <1>10 DEF Reply, ControlType, Message
    <2>2. SkipInv'
        BY <1>3, <1>6, <1>10, <2>1 DEF SkipInv, ControlType
    <2>3. DoneInv' /\ WriteInv'
        BY <1>2, <1>3, <1>4, <1>5, <1>10 DEF DoneInv, WriteInv, ControlType
    <2> QED BY <1>7, <2>2, <2>3 DEF UplinkInv
<1>11. CASE m.type \in IgnoredType /\ UNCHANGED w2tVars
    <2>1. m.type \notin {"Data", "ChannelCreate"} /\ w2t' = "Read" /\ skip' = skip
        BY <1>1, <1>11 DEF IgnoredType, ControlType, w2tVars
    <2>2. SkipInv'
        BY <1>3, <1>6, <2>1 DEF SkipInv
    <2>3. DoneInv' /\ WriteInv'
        BY <1>2, <1>3, <1>4, <1>5, <2>1 DEF DoneInv, WriteInv
    <2> QED BY <1>7, <2>2, <2>3 DEF UplinkInv
<1>12. CASE ReadEnd(m) /\ w2t' = "Ended"
    <2>1. m.type # "Data"
        BY <1>12 DEF ReadEnd
    <2>2. DoneInv' /\ WriteInv' /\ SkipInv'
        BY <1>2, <1>3, <1>4, <1>5, <1>12, <2>1 DEF DoneInv, WriteInv, SkipInv
    <2> QED BY <1>7, <2>2 DEF UplinkInv
<1> QED BY <1>8, <1>9, <1>10, <1>11, <1>12 DEF WsToTcpRead

\* A write by ws_to_tcp adds the payload in its hand; a control reply adds nothing.
LEMMA UplinkRelay ==
    ASSUME TypeOK, PhaseOK, UplinkInv, WsToTcp
    PROVE  UplinkInv'
<1>1. CASE WsToTcpRead
    BY <1>1, UplinkRead
<1>2. CASE WsToTcpWrite
    <2>1. /\ got \in Seq(WireMessage) /\ toBackend \in Seq(SentMessage) /\ w2tHand \in SentMessage
          /\ got' = got /\ skip' = skip /\ backend' = backend
        BY <1>2 DEF WsToTcp, WsToTcpWrite, backendVars, TypeOK
    <2>2. /\ w2tHand.src = Len(got) /\ Len(got) \in DOMAIN got /\ Forwardable(got, Len(got))
          /\ w2tHand.data = Payload(got[Len(got)].data)
          /\ \A a \in DOMAIN toBackend : toBackend[a].src < Len(got)
          /\ \A i \in 1..(Len(got) - 1) : Forwardable(got, i) => Written(i)
          /\ skip <=> Armed(got, Len(got))
        BY <1>2, <2>1 DEF WsToTcpWrite, UplinkInv, WriteInv, DoneInv, SkipInv
    <2>3. CASE TcpWrite(w2tHand) /\ w2t' = "Read"
        <3>1. OrderInv' /\ \A i \in Nat : Written(i)' <=> Written(i) \/ i = Len(got)
            BY <2>1, <2>2, <2>3, WriteExtends DEF TcpWrite, UplinkInv
        <3>2. DoneInv'
            BY <2>1, <2>2, <2>3, <3>1 DEF DoneInv
        <3>3. SkipInv' /\ WriteInv'
            BY <2>1, <2>2, <2>3 DEF SkipInv, WriteInv
        <3> QED BY <3>1, <3>2, <3>3 DEF UplinkInv
    <2>4. CASE TcpWriteFails /\ w2t' = "Ended"
        <3>1. toBackend' = toBackend /\ backend = "reset"
            BY <2>4 DEF TcpWriteFails
        <3>2. \A i : Written(i)' <=> Written(i)
            BY <3>1 DEF Written
        <3>3. DoneInv'
            BY <2>1, <2>2, <2>4, <3>1, <3>2 DEF DoneInv
        <3> QED BY <2>1, <2>4, <3>1, <3>3 DEF UplinkInv, SkipInv, WriteInv, OrderInv
    <2> QED BY <1>2, <2>3, <2>4 DEF WsToTcpWrite
<1>3. CASE WsToTcpCtrl
    <2>1. /\ got' = got /\ toBackend' = toBackend /\ backend' = backend /\ w2t = "SendCtrl"
          /\ w2t' \in {"Read", "Ended"} /\ (skip' <=> skip \/ w2tHand.type = "ChannelResponse")
        BY <1>3 DEF WsToTcp, WsToTcpCtrl, SkipNext, backendVars
    <2>2. \A i : Written(i)' <=> Written(i)
        BY <2>1 DEF Written
    <2> QED BY <2>1, <2>2 DEF UplinkInv, SkipInv, WriteInv, OrderInv, DoneInv
<1> QED BY <1>1, <1>2, <1>3 DEF WsToTcp

\* Every step keeps the uplink invariant.
LEMMA UplinkNext == TypeOK /\ PhaseOK /\ UplinkInv /\ [Next]_vars => UplinkInv'
<1> SUFFICES ASSUME TypeOK, PhaseOK, UplinkInv, [Next]_vars PROVE UplinkInv'
    OBVIOUS
<1>0. w2t = "Idle" /\ got # << >> => pc \in {"Connect", "InitialWrite"} \/ backend \in {"refused", "reset"}
    BY DEF UplinkInv, DoneInv
<1>1. CASE SessionTask
    BY <1>1, UplinkSession
<1>2. CASE WsToTcp
    BY <1>2, UplinkRelay
<1>3. CASE TcpToWs
    BY <1>0, <1>3, UplinkFrame DEF TcpToWs, sessionVars, backendVars
<1>4. CASE Client
    BY <1>0, <1>4, UplinkFrame DEF Client, ClientFrame, sessionVars, backendVars
<1>5. CASE Backend
    BY <1>0, <1>5, UplinkFrame DEF Backend, BackendFrame, BackendRead, BackendSend, BackendClose,
                                   BackendReset, sessionVars
<1>6. CASE UNCHANGED vars
    BY <1>0, <1>6, UplinkFrame DEF vars, sessionVars, backendVars
<1> QED BY <1>1, <1>2, <1>3, <1>4, <1>5, <1>6 DEF Next, Terminated

\* UplinkFaithful for every client: what the backend is given is exactly the
\* payloads of the Data frames that are not skipped, in order and once each.
THEOREM UplinkSafety == Spec => []UplinkFaithful
<1>1. TypeOK /\ PhaseOK /\ UplinkInv => UplinkFaithful
    <2> SUFFICES ASSUME TypeOK, PhaseOK, UplinkInv PROVE UplinkFaithful
        OBVIOUS
    <2>1. ASSUME NEW i \in DOMAIN got, Forwardable(got, i)
          PROVE  \/ Written(i)
                 \/ i = 1 /\ pc \in {"Connect", "InitialWrite"}
                 \/ w2t = "Write" /\ w2tHand.src = i
                 \/ i = Len(got) /\ backend \in {"refused", "reset"}
        <3>1. i \in 1..Len(got) /\ Len(got) \in Nat
            BY DEF TypeOK
        <3>2. CASE w2t = "Idle"
            BY <3>1, <3>2 DEF UplinkInv, DoneInv
        <3>3. CASE w2t \in {"Read", "SendCtrl", "Ended"}
            BY <2>1, <3>3 DEF UplinkInv, DoneInv
        <3>4. CASE w2t = "Write"
            BY <2>1, <3>1, <3>4 DEF UplinkInv, DoneInv, WriteInv
        <3> QED BY <3>2, <3>3, <3>4 DEF TypeOK
    <2> QED BY <2>1 DEF UplinkFaithful, UplinkInv, OrderInv, Written
<1> QED BY <1>1, UplinkInit, UplinkNext, PhaseInvariant, PTL DEF Spec

-----------------------------------------------------------------------------
(* The way to the client.                                                    *)

\* m is the reply ws_to_tcp owes to one of the control frames of g.
IsReply(m, g) == /\ m.src \in DOMAIN g /\ g[m.src].type \in ControlType
                 /\ m = Reply(g[m.src], m.src)

\* m is a Data frame for bytes of the backend, its length announced correctly.
IsPiece(m) == /\ m.type = "Data" /\ m.src = 0 /\ Len(m.data) = 3
              /\ 1 <= m.data[2] /\ m.data[2] <= m.data[3]
              /\ m.data[1] = m.data[3] - m.data[2] + 1

\* What each place on the way to the client can hold: a response in the hand of the
\* session task, replies in the hand of ws_to_tcp and in ctrl, one or the other kind
\* of relayed frame in the hand of tcp_to_ws, and Close only from its end.
LaneInv ==
    /\ hand.type \notin {"Data", "Close"} /\ hand.src = 0
    /\ w2t = "SendCtrl" => w2tHand.src = Len(got) /\ IsReply(w2tHand, got)
    /\ \A c \in DOMAIN ctrl : IsReply(ctrl[c], got)
    /\ t2w = "Send" => IsReply(t2wHand, got) \/ IsPiece(t2wHand)
    /\ \A a \in DOMAIN toClient :
         /\ toClient[a].src # 0 => IsReply(toClient[a], got)
         /\ toClient[a].type = "Data" => IsPiece(toClient[a])
         /\ toClient[a].type = "Close" => t2w = "Ended"

\* One more message at the end of a sequence of them.
LEMMA AppendSent ==
    ASSUME NEW s \in Seq(SentMessage), NEW m \in SentMessage
    PROVE  /\ Len(s) \in Nat /\ DOMAIN s = 1..Len(s)
           /\ Append(s, m) \in Seq(SentMessage)
           /\ DOMAIN Append(s, m) = 1..(Len(s) + 1)
           /\ Append(s, m)[Len(s) + 1] = m
           /\ \A a \in DOMAIN s : Append(s, m)[a] = s[a]
OBVIOUS

\* One message less at its front.
LEMMA TailSent ==
    ASSUME NEW s \in Seq(SentMessage), s # << >>
    PROVE  /\ Len(s) \in Nat /\ DOMAIN s = 1..Len(s) /\ 1 \in DOMAIN s
           /\ Head(s) = s[1] /\ Head(s) \in SentMessage
           /\ Tail(s) \in Seq(SentMessage)
           /\ DOMAIN Tail(s) = 1..(Len(s) - 1)
           /\ \A c \in DOMAIN Tail(s) : Tail(s)[c] = s[c + 1]
OBVIOUS

\* A control reply is neither Data nor Close, and it is tagged with its request.
LEMMA ReplyKind ==
    ASSUME NEW g \in Seq(WireMessage), NEW m, IsReply(m, g)
    PROVE  m.type \notin {"Data", "Close"} /\ m.src \in 1..Len(g) /\ m.src # 0
<1>1. m.src \in 1..Len(g) /\ g[m.src].type \in ControlType /\ m = Reply(g[m.src], m.src)
    BY DEF IsReply
<1>2. \/ m = Message("Keepalive", << >>, m.src)
      \/ m = Message("CloseChannelResponse", << >>, m.src)
      \/ m = Message("Unknown10", g[m.src].data, m.src)
      \/ m = Message("ChannelResponse", <<1>>, m.src)
    BY <1>1 DEF ControlType, Reply
<1>3. m.type \notin {"Data", "Close"}
    BY <1>2 DEF Message
<1> QED BY <1>1, <1>3

\* It stays the reply to its request when more frames are read.
LEMMA ReplyStays ==
    ASSUME NEW g \in Seq(WireMessage), NEW x \in WireMessage, NEW m, IsReply(m, g)
    PROVE  IsReply(m, Append(g, x))
<1>1. m.src \in 1..Len(g)
    BY DEF IsReply
<1>2. m.src \in DOMAIN Append(g, x) /\ Append(g, x)[m.src] = g[m.src]
    BY <1>1
<1> QED BY <1>2 DEF IsReply

\* A response of process_message is neither Data nor Close, and it answers no control frame.
LEMMA ResponseKind ==
    ASSUME NEW s \in Session, NEW m \in WireMessage, Outcome(s, m) = "Some"
    PROVE  Response(s, m).type \notin {"Data", "Close"} /\ Response(s, m).src = 0
<1>1. m.type \in RequestType
    BY AnsweredRequest
<1>2. \/ Response(s, m) = Message("HandshakeResponse", m.data, 0)
      \/ Response(s, m) = Message("TunnelResponse", <<s.next_tunnel_id>>, 0)
      \/ Response(s, m) = Message("TunnelAuthResponse", << >>, 0)
      \/ Response(s, m) = Message("ChannelResponse", <<s.next_channel_id>>, 0)
    BY <1>1 DEF Response, RequestType
<1> QED BY <1>2 DEF Message

\* Who may send the client a frame, and which one.
LEMMA SinkStep ==
    ASSUME TypeOK, PhaseOK, [Next]_vars
    PROVE  \/ toClient' = toClient
           \/ /\ pc = "Respond" /\ toClient' = Append(toClient, hand)
              /\ t2w = "Idle" /\ t2w' = "Idle"
           \/ /\ t2w = "Send" /\ toClient' = Append(toClient, t2wHand)
              /\ t2w' = "Select"
           \/ /\ t2w = "Closing" /\ toClient' = Append(toClient, CloseFrame)
              /\ t2w' = "Ended"
<1>1. CASE SessionTask
    BY <1>1 DEF SessionTask, SessionRead, SessionRespond, SessionConnect, SessionInitialWrite,
                SessionJoin, WsSend, WsSendFails, PhaseOK
<1>2. CASE WsToTcp
    BY <1>2 DEF WsToTcp
<1>3. CASE TcpToWs
    BY <1>3 DEF TcpToWs, TcpToWsData, TcpToWsEnd, TcpToWsCtrl, TcpToWsSend, TcpToWsClose, WsSend,
                WsSendFails
<1>4. CASE Client
    BY <1>4 DEF Client, ClientFrame
<1>5. CASE Backend
    BY <1>5 DEF Backend, BackendFrame
<1>6. CASE UNCHANGED vars
    BY <1>6 DEF vars
<1> QED BY <1>1, <1>2, <1>3, <1>4, <1>5, <1>6 DEF Next, Terminated

\* Initially every place is empty.
LEMMA LaneInit == Init => LaneInv
BY ConstantTypes DEF Init, LaneInv

\* Steps in which the hands and ctrl stay as they are, or are given up.
LEMMA LaneFrame ==
    ASSUME TypeOK, PhaseOK, LaneInv, [Next]_vars,
           hand' = hand \/ hand' = NoMessage, got' = got,
           ctrl' = ctrl \/ ctrl' = << >>,
           w2t' # "SendCtrl" \/ (w2t' = w2t /\ w2tHand' = w2tHand),
           t2w' # "Send" \/ (t2w' = t2w /\ t2wHand' = t2wHand),
           t2w = "Ended" => t2w' = "Ended"
    PROVE  LaneInv'
<1>1. toClient \in Seq(SentMessage) /\ hand \in SentMessage /\ t2wHand \in SentMessage
      /\ got \in Seq(WireMessage)
    BY DEF TypeOK
<1>2. hand'.type \notin {"Data", "Close"} /\ hand'.src = 0
    BY ConstantTypes DEF LaneInv
<1>3. w2t' = "SendCtrl" => w2tHand'.src = Len(got') /\ IsReply(w2tHand', got')
    BY DEF LaneInv
<1>4. \A c \in DOMAIN ctrl' : IsReply(ctrl'[c], got')
    BY DEF LaneInv
<1>5. t2w' = "Send" => IsReply(t2wHand', got') \/ IsPiece(t2wHand')
    BY DEF LaneInv
<1>6. ASSUME NEW a \in DOMAIN toClient'
      PROVE  /\ toClient'[a].src # 0 => IsReply(toClient'[a], got')
             /\ toClient'[a].type = "Data" => IsPiece(toClient'[a])
             /\ toClient'[a].type = "Close" => t2w' = "Ended"
    <2>1. CASE toClient' = toClient
        BY <2>1, <1>6 DEF LaneInv
    <2>2. ASSUME NEW m \in SentMessage, toClient' = Append(toClient, m),
                 m.src # 0 => IsReply(m, got), m.type = "Data" => IsPiece(m),
                 m.type = "Close" => t2w' = "Ended"
          PROVE  /\ toClient'[a].src # 0 => IsReply(toClient'[a], got')
                 /\ toClient'[a].type = "Data" => IsPiece(toClient'[a])
                 /\ toClient'[a].type = "Close" => t2w' = "Ended"
        <3>1. CASE a = Len(toClient) + 1
            BY <1>1, <2>2, <3>1, AppendSent
        <3>2. CASE a \in DOMAIN toClient
            BY <1>1, <2>2, <3>2, AppendSent DEF LaneInv
        <3> QED BY <1>1, <1>6, <2>2, <3>1, <3>2, AppendSent
    <2>3. CASE toClient' = Append(toClient, hand)
        BY <1>1, <2>2, <2>3 DEF LaneInv
    <2>4. CASE t2w = "Send" /\ toClient' = Append(toClient, t2wHand)
        <3>1. IsReply(t2wHand, got) \/ IsPiece(t2wHand)
            BY <2>4 DEF LaneInv
        <3>2. /\ t2wHand.src # 0 => IsReply(t2wHand, got)
              /\ t2wHand.type = "Data" => IsPiece(t2wHand)
              /\ t2wHand.type # "Close"
            BY <1>1, <3>1, ReplyKind DEF IsPiece
        <3> QED BY <1>1, <2>2, <2>4, <3>2
    <2>5. CASE toClient' = Append(toClient, CloseFrame) /\ t2w' = "Ended"
        BY <2>2, <2>5, ConstantTypes
    <2> QED BY <2>1, <2>3, <2>4, <2>5, SinkStep
<1> QED BY <1>2, <1>3, <1>4, <1>5, <1>6 DEF LaneInv

\* Every step puts into every place only what belongs there.
LEMMA LaneNext == TypeOK /\ PhaseOK /\ LaneInv /\ [Next]_vars => LaneInv'
<1> SUFFICES ASSUME TypeOK, PhaseOK, LaneInv, [Next]_vars PROVE LaneInv'
    OBVIOUS
<1>0. /\ got \in Seq(WireMessage) /\ ctrl \in Seq(SentMessage) /\ session \in Session
      /\ toClient \in Seq(SentMessage) /\ w2tHand \in SentMessage /\ wire \in Seq(WireMessage)
      /\ downRead \in Nat
    BY DEF TypeOK
<1>1. CASE SessionTask
    <2>1. CASE SessionRead
        <3>1. /\ toClient' = toClient /\ t2w' = "Idle" /\ w2t' = "Idle" /\ ctrl' = << >>
              /\ got = << >> /\ t2w = "Idle"
            BY <1>1, <2>1 DEF SessionTask, SessionRead, PhaseOK
        <3>2. hand'.type \notin {"Data", "Close"} /\ hand'.src = 0
            <4>1. Head(wire) \in WireMessage
                BY <1>0, <2>1 DEF SessionRead
            <4>2. \/ hand' = hand
                  \/ /\ Outcome(session, Head(wire)) = "Some"
                     /\ hand' = Response(session, Head(wire))
                BY <2>1 DEF SessionRead, Return, sessionVars
            <4> QED BY <1>0, <4>1, <4>2, ResponseKind DEF LaneInv
        <3>3. \A a \in DOMAIN toClient : toClient[a].src = 0
            BY <3>1 DEF LaneInv, IsReply
        <3> QED BY <3>1, <3>2, <3>3 DEF LaneInv
    <2>2. CASE SessionRespond \/ SessionConnect \/ SessionInitialWrite \/ SessionJoin
        <3>1. /\ hand' = hand \/ hand' = NoMessage
              /\ got' = got /\ ctrl' = ctrl
              /\ w2t' = w2t \/ w2t' # "SendCtrl"
              /\ t2w' = t2w \/ (t2w = "Idle" /\ t2w' # "Send")
              /\ w2tHand' = w2tHand /\ t2wHand' = t2wHand
            BY <1>1, <2>2 DEF SessionTask, SessionRespond, SessionConnect, SessionInitialWrite,
                              SessionJoin, PhaseOK
        <3> QED BY <3>1, LaneFrame
    <2> QED BY <1>1, <2>1, <2>2 DEF SessionTask
<1>2. CASE WsToTcp
    <2>0. /\ hand' = hand /\ toClient' = toClient /\ t2w' = t2w /\ t2wHand' = t2wHand
        BY <1>2 DEF WsToTcp, sessionVars, t2wVars
    <2>1. CASE WsToTcpRead
        <3> DEFINE m == Head(wire)
                   n == Len(got) + 1
        <3>1. m \in WireMessage /\ got' = Append(got, m) /\ ctrl' = ctrl
            BY <1>0, <2>1 DEF WsToTcpRead
        <3>2. \A x : IsReply(x, got) => IsReply(x, got')
            BY <1>0, <3>1, ReplyStays
        <3>3. w2t' = "SendCtrl" => m.type \in ControlType /\ w2tHand' = Reply(m, n)
            BY <2>1 DEF WsToTcpRead, w2tVars
        <3>4. n \in Nat /\ n \in DOMAIN got' /\ got'[n] = m /\ Len(got') = n
            BY <1>0, <3>1
        <3>5. w2t' = "SendCtrl" => w2tHand'.src = Len(got') /\ IsReply(w2tHand', got')
            BY <3>1, <3>3, <3>4, ReplyType DEF IsReply
        <3> QED BY <2>0, <3>1, <3>2, <3>5 DEF LaneInv
    <2>2. CASE WsToTcpWrite
        BY <2>0, <2>2, LaneFrame DEF WsToTcpWrite
    <2>3. CASE WsToTcpCtrl
        <3>1. got' = got /\ w2t = "SendCtrl" /\ w2t' # "SendCtrl"
              /\ (ctrl' = ctrl \/ ctrl' = Append(ctrl, w2tHand))
            BY <2>3 DEF WsToTcpCtrl
        <3>2. \A c \in DOMAIN ctrl' : IsReply(ctrl'[c], got')
            <4>1. IsReply(w2tHand, got) /\ \A c \in DOMAIN ctrl : IsReply(ctrl[c], got)
                BY <3>1 DEF LaneInv
            <4>2. CASE ctrl' = ctrl
                BY <3>1, <4>1, <4>2
            <4>3. CASE ctrl' = Append(ctrl, w2tHand)
                <5>1. /\ DOMAIN ctrl' = 1..(Len(ctrl) + 1) /\ DOMAIN ctrl = 1..Len(ctrl)
                      /\ Len(ctrl) \in Nat /\ ctrl'[Len(ctrl) + 1] = w2tHand
                      /\ \A c \in DOMAIN ctrl : ctrl'[c] = ctrl[c]
                    BY <1>0, <4>3, AppendSent
                <5> QED BY <3>1, <4>1, <5>1
            <4> QED BY <3>1, <4>2, <4>3
        <3> QED BY <2>0, <3>1, <3>2 DEF LaneInv
    <2> QED BY <1>2, <2>1, <2>2, <2>3 DEF WsToTcp
<1>3. CASE TcpToWs
    <2>0. /\ hand' = hand /\ got' = got /\ w2t' = w2t /\ w2tHand' = w2tHand
        BY <1>3 DEF TcpToWs, sessionVars, w2tVars
    <2>1. ASSUME NEW n \in 1..ReadMax, TcpToWsData(n) PROVE LaneInv'
        <3>1. toClient' = toClient /\ ctrl' = ctrl /\ t2w = "Select" /\ t2w' = "Send"
              /\ t2wHand' = Message("Data", <<(downRead + n) - (downRead + 1) + 1, downRead + 1, downRead + n>>, 0)
            BY <2>1 DEF TcpToWsData, encode_data_message
        <3>2. IsPiece(t2wHand')
            BY <1>0, <3>1, CapAssumption DEF IsPiece, Message
        <3> QED BY <2>0, <3>1, <3>2 DEF LaneInv
    <2>2. CASE TcpToWsCtrl
        <3>1. /\ toClient' = toClient /\ ctrl # << >> /\ t2w = "Select" /\ t2w' = "Send"
              /\ t2wHand' = ctrl[1] /\ ctrl' = Tail(ctrl)
            BY <1>0, <2>2 DEF TcpToWsCtrl
        <3>2. IsReply(t2wHand', got') /\ \A c \in DOMAIN ctrl' : IsReply(ctrl'[c], got')
            BY <1>0, <2>0, <3>1, TailSent DEF LaneInv
        <3> QED BY <2>0, <3>1, <3>2 DEF LaneInv
    <2>3. CASE TcpToWsEnd \/ TcpToWsSend \/ TcpToWsClose
        <3>1. /\ ctrl' = ctrl \/ ctrl' = << >>
              /\ t2w' # "Send" /\ t2w # "Ended"
            BY <2>3 DEF TcpToWsEnd, TcpToWsSend, TcpToWsClose
        <3> QED BY <2>0, <3>1, LaneFrame
    <2> QED BY <1>3, <2>1, <2>2, <2>3 DEF TcpToWs
<1>4. CASE Client \/ Backend \/ UNCHANGED vars
    <2>1. /\ hand' = hand /\ got' = got /\ ctrl' = ctrl /\ w2t' = w2t /\ w2tHand' = w2tHand
          /\ t2w' = t2w /\ t2wHand' = t2wHand
        BY <1>4 DEF Client, ClientFrame, Backend, BackendFrame, vars, sessionVars, w2tVars, t2wVars
    <2> QED BY <2>1, LaneFrame
<1> QED BY <1>1, <1>2, <1>3, <1>4 DEF Next, Terminated

\* What each place on the way to the client holds, in every reachable state.
THEOREM LaneInvariant == Spec => []LaneInv
BY LaneInit, LaneNext, PhaseInvariant, PTL DEF Spec

\* NothingAfterClose for every client and backend: ws_sink.close is the last use of the
\* sink, and the end of ws_to_tcp the last use of the backend's write half.
THEOREM CloseSafety == Spec => NothingAfterClose
<1>1. TypeOK /\ PhaseOK /\ LaneInv /\ [Next]_vars =>
        /\ \A i \in DOMAIN toClient : toClient[i].type = "Close" => toClient' = toClient
        /\ w2t = "Ended" => toBackend' = toBackend
    <2> SUFFICES ASSUME TypeOK, PhaseOK, LaneInv, [Next]_vars
                 PROVE  /\ \A i \in DOMAIN toClient : toClient[i].type = "Close" => toClient' = toClient
                        /\ w2t = "Ended" => toBackend' = toBackend
        OBVIOUS
    <2>1. ASSUME NEW i \in DOMAIN toClient, toClient[i].type = "Close" PROVE toClient' = toClient
        <3>1. t2w = "Ended"
            BY <2>1 DEF LaneInv
        <3> QED BY <3>1, SinkStep
    <2>2. ASSUME w2t = "Ended" PROVE toBackend' = toBackend
        <3>1. CASE SessionTask
            BY <2>2, <3>1 DEF SessionTask, SessionRead, SessionRespond, SessionConnect,
                              SessionInitialWrite, SessionJoin, PhaseOK
        <3>2. CASE WsToTcp
            BY <2>2, <3>2 DEF WsToTcp, WsToTcpRead, WsToTcpWrite, WsToTcpCtrl
        <3>3. CASE TcpToWs \/ Client \/ Backend \/ UNCHANGED vars
            BY <3>3 DEF TcpToWs, Client, ClientFrame, Backend, BackendFrame, vars
        <3> QED BY <3>1, <3>2, <3>3 DEF Next, Terminated
    <2> QED BY <2>1, <2>2
<1> QED BY <1>1, PhaseInvariant, LaneInvariant, PTL DEF Spec, NothingAfterClose

-----------------------------------------------------------------------------
(* The downlink.                                                             *)

\* Byte o of the backend is in a Data frame sent to the client.
ShownByte(o) == \E a \in DOMAIN toClient : /\ IsDown(toClient[a])
                                           /\ toClient[a].data[2] <= o /\ o <= toClient[a].data[3]

\* The frames sent carry bytes that were read, in stream order.
SentOrder ==
    /\ \A a \in DOMAIN toClient : IsDown(toClient[a]) => toClient[a].data[3] <= downRead
    /\ \A a, b \in DOMAIN toClient : a < b /\ IsDown(toClient[a]) /\ IsDown(toClient[b]) =>
         toClient[a].data[3] < toClient[b].data[2]

\* The Data frame in the hand of tcp_to_ws ends with the last byte read and starts
\* where the frames sent end; without one in its hand every byte read was sent.
DownlinkInv ==
    /\ SentOrder
    /\ t2w = "Idle" => downRead = 0
    /\ t2w = "Send" /\ IsDown(t2wHand) =>
         /\ t2wHand.data[3] = downRead
         /\ \A a \in DOMAIN toClient : IsDown(toClient[a]) => toClient[a].data[3] < t2wHand.data[2]
         /\ \A o \in 1..(t2wHand.data[2] - 1) : ShownByte(o)
    /\ t2w = "Select" \/ (t2w = "Send" /\ ~IsDown(t2wHand)) => \A o \in 1..downRead : ShownByte(o)

\* The offsets in a Data frame are numbers.
LEMMA PieceType ==
    ASSUME NEW m \in SentMessage, IsPiece(m)
    PROVE  m.data[2] \in Nat /\ m.data[3] \in Nat
BY DEF IsPiece, SentMessage

\* What a frame sent adds to the bytes shown; a Data frame goes after those sent before.
LEMMA SendShows ==
    ASSUME toClient \in Seq(SentMessage), NEW m \in SentMessage, toClient' = Append(toClient, m),
           downRead \in Nat, downRead' = downRead, LaneInv, SentOrder,
           IsDown(m) => /\ m.data[3] <= downRead
                        /\ \A a \in DOMAIN toClient : IsDown(toClient[a]) => toClient[a].data[3] < m.data[2]
    PROVE  /\ SentOrder'
           /\ \A o : ShownByte(o)' <=> ShownByte(o) \/ (IsDown(m) /\ m.data[2] <= o /\ o <= m.data[3])
<1>1. /\ DOMAIN toClient' = 1..(Len(toClient) + 1) /\ DOMAIN toClient = 1..Len(toClient)
      /\ Len(toClient) \in Nat /\ toClient'[Len(toClient) + 1] = m
      /\ \A a \in DOMAIN toClient : toClient'[a] = toClient[a]
    BY AppendSent
<1>2. SentOrder'
    <2>1. \A a \in DOMAIN toClient' : IsDown(toClient'[a]) => toClient'[a].data[3] <= downRead'
        BY <1>1 DEF SentOrder
    <2>2. ASSUME NEW a \in DOMAIN toClient', NEW b \in DOMAIN toClient', a < b,
                 IsDown(toClient'[a]), IsDown(toClient'[b])
          PROVE  toClient'[a].data[3] < toClient'[b].data[2]
        <3>1. a \in DOMAIN toClient
            BY <1>1, <2>2
        <3>2. CASE b \in DOMAIN toClient
            BY <1>1, <2>2, <3>1, <3>2 DEF SentOrder
        <3>3. CASE b = Len(toClient) + 1
            BY <1>1, <2>2, <3>1, <3>3
        <3> QED BY <1>1, <3>2, <3>3
    <2> QED BY <2>1, <2>2 DEF SentOrder
<1>3. ASSUME NEW o
      PROVE  ShownByte(o)' <=> ShownByte(o) \/ (IsDown(m) /\ m.data[2] <= o /\ o <= m.data[3])
    BY <1>1 DEF ShownByte
<1> QED BY <1>2, <1>3

\* Steps that leave the downlink alone.
LEMMA DownlinkFrame ==
    ASSUME DownlinkInv, UNCHANGED <<toClient, t2wVars>>
    PROVE  DownlinkInv'
BY DEF DownlinkInv, SentOrder, ShownByte, t2wVars

\* Initially no byte was read.
LEMMA DownlinkInit == Init => DownlinkInv
BY DEF Init, DownlinkInv, SentOrder

\* The steps of tcp_to_ws.
LEMMA DownlinkTask ==
    ASSUME TypeOK, PhaseOK, LaneInv, DownlinkInv, TcpToWs
    PROVE  DownlinkInv'
<1>0. /\ toClient \in Seq(SentMessage) /\ ctrl \in Seq(SentMessage) /\ t2wHand \in SentMessage
      /\ got \in Seq(WireMessage) /\ downRead \in Nat
    BY DEF TypeOK
<1>1. ASSUME NEW n \in 1..ReadMax, TcpToWsData(n) PROVE DownlinkInv'
    <2>1. /\ toClient' = toClient /\ t2w = "Select" /\ t2w' = "Send" /\ downRead' = downRead + n
          /\ t2wHand' = Message("Data", <<(downRead + n) - (downRead + 1) + 1, downRead + 1, downRead + n>>, 0)
          /\ n \in Nat
        BY <1>1, CapAssumption DEF TcpToWsData, encode_data_message
    <2>2. t2wHand'.data[2] = downRead + 1 /\ t2wHand'.data[3] = downRead' /\ IsDown(t2wHand')
        BY <2>1 DEF Message, IsDown
    <2>3. \A o : ShownByte(o)' <=> ShownByte(o)
        BY <2>1 DEF ShownByte
    <2>4. \A o \in 1..(t2wHand'.data[2] - 1) : ShownByte(o)'
        BY <1>0, <2>1, <2>2, <2>3 DEF DownlinkInv
    <2>5. \A a \in DOMAIN toClient : IsDown(toClient[a]) => toClient[a].data[3] \in Nat
        <3>1. \A a \in DOMAIN toClient : toClient[a] \in SentMessage
            BY <1>0
        <3> QED BY <3>1, PieceType DEF LaneInv, IsDown
    <2>6. SentOrder'
        BY <1>0, <2>1, <2>5 DEF DownlinkInv, SentOrder
    <2>7. \A a \in DOMAIN toClient' : IsDown(toClient'[a]) => toClient'[a].data[3] < t2wHand'.data[2]
        BY <1>0, <2>1, <2>2, <2>5 DEF DownlinkInv, SentOrder
    <2> QED BY <2>1, <2>2, <2>4, <2>6, <2>7 DEF DownlinkInv
<1>2. CASE TcpToWsEnd
    BY <1>2 DEF TcpToWsEnd, DownlinkInv, SentOrder
<1>3. CASE TcpToWsCtrl
    <2>1. /\ toClient' = toClient /\ downRead' = downRead /\ t2w = "Select" /\ t2w' = "Send"
          /\ ctrl # << >> /\ t2wHand' = ctrl[1] /\ 1 \in DOMAIN ctrl
        BY <1>0, <1>3 DEF TcpToWsCtrl
    <2>2. ~IsDown(t2wHand')
        BY <1>0, <2>1, ReplyKind DEF LaneInv, IsDown
    <2> QED BY <2>1, <2>2 DEF DownlinkInv, SentOrder, ShownByte
<1>4. CASE TcpToWsSend
    <2>1. CASE toClient' = Append(toClient, t2wHand) /\ t2w' = "Select"
        <3>1. downRead' = downRead /\ t2w = "Send"
            BY <1>4 DEF TcpToWsSend
        <3>2. IsDown(t2wHand) =>
                /\ t2wHand.data[3] = downRead
                /\ \A a \in DOMAIN toClient : IsDown(toClient[a]) => toClient[a].data[3] < t2wHand.data[2]
                /\ t2wHand.data[2] \in Nat
                /\ \A o \in 1..(t2wHand.data[2] - 1) : ShownByte(o)
            <4>1. ASSUME IsDown(t2wHand) PROVE t2wHand.data[2] \in Nat
                <5>1. IsPiece(t2wHand)
                    BY <1>0, <3>1, <4>1, ReplyKind DEF LaneInv, IsDown
                <5> QED BY <1>0, <5>1, PieceType
            <4> QED BY <3>1, <4>1 DEF DownlinkInv
        <3>3. SentOrder' /\ \A o : ShownByte(o)' <=>
                   ShownByte(o) \/ (IsDown(t2wHand) /\ t2wHand.data[2] <= o /\ o <= t2wHand.data[3])
            <4>1. SentOrder /\ (IsDown(t2wHand) => t2wHand.data[3] <= downRead)
                BY <1>0, <3>2 DEF DownlinkInv
            <4> QED BY <1>0, <2>1, <3>1, <3>2, <4>1, SendShows
        <3>4. ASSUME NEW o \in 1..downRead PROVE ShownByte(o)'
            <4>1. CASE IsDown(t2wHand)
                BY <1>0, <3>2, <3>3, <3>4, <4>1
            <4>2. CASE ~IsDown(t2wHand)
                BY <3>1, <3>3, <3>4, <4>2 DEF DownlinkInv
            <4> QED BY <4>1, <4>2
        <3> QED BY <2>1, <3>1, <3>3, <3>4 DEF DownlinkInv
    <2>2. CASE toClient' = toClient /\ t2w' = "Closing"
        BY <1>4, <2>2 DEF TcpToWsSend, DownlinkInv, SentOrder
    <2> QED BY <1>4, <2>1, <2>2 DEF TcpToWsSend, WsSend, WsSendFails
<1>5. CASE TcpToWsClose
    <2>1. downRead' = downRead /\ t2w' = "Ended"
          /\ (toClient' = toClient \/ toClient' = Append(toClient, CloseFrame))
        BY <1>5 DEF TcpToWsClose, WsSend, WsSendFails
    <2>2. CASE toClient' = toClient
        BY <2>1, <2>2 DEF DownlinkInv, SentOrder
    <2>3. CASE toClient' = Append(toClient, CloseFrame)
        <3>1. SentOrder'
            BY <1>0, <2>1, <2>3, SendShows, ConstantTypes DEF DownlinkInv, IsDown
        <3> QED BY <2>1, <3>1 DEF DownlinkInv
    <2> QED BY <2>1, <2>2, <2>3
<1> QED BY <1>1, <1>2, <1>3, <1>4, <1>5 DEF TcpToWs

\* Every step keeps the downlink invariant.
LEMMA DownlinkNext == TypeOK /\ PhaseOK /\ LaneInv /\ DownlinkInv /\ [Next]_vars => DownlinkInv'
<1> SUFFICES ASSUME TypeOK, PhaseOK, LaneInv, DownlinkInv, [Next]_vars PROVE DownlinkInv'
    OBVIOUS
<1>1. CASE SessionTask
    <2>0. t2wHand' = t2wHand /\ downRead' = downRead
        BY <1>1 DEF SessionTask
    <2>1. CASE SessionRespond
        <3>1. /\ t2w = "Idle" /\ t2w' = t2w /\ downRead = 0
              /\ toClient \in Seq(SentMessage) /\ hand \in SentMessage
            BY <2>1 DEF SessionRespond, PhaseOK, TypeOK
        <3>2. SentOrder'
            <4>1. CASE toClient' = toClient
                BY <2>0, <4>1 DEF DownlinkInv, SentOrder
            <4>2. CASE toClient' = Append(toClient, hand)
                <5>1. ~IsDown(hand)
                    BY DEF LaneInv, IsDown
                <5> QED BY <2>0, <3>1, <4>2, <5>1, SendShows DEF DownlinkInv
            <4> QED BY <2>1, <4>1, <4>2 DEF SessionRespond, WsSend, WsSendFails
        <3> QED BY <2>0, <3>1, <3>2 DEF DownlinkInv
    <2>2. CASE SessionInitialWrite
        <3>1. t2w = "Idle" /\ t2w' \in {"Idle", "Select"} /\ downRead = 0 /\ toClient' = toClient
            BY <2>2 DEF SessionInitialWrite, PhaseOK
        <3> QED BY <2>0, <3>1 DEF DownlinkInv, SentOrder
    <2>3. CASE SessionRead \/ SessionConnect \/ SessionJoin
        BY <2>0, <2>3, DownlinkFrame DEF SessionRead, SessionConnect, SessionJoin, t2wVars
    <2> QED BY <1>1, <2>1, <2>2, <2>3 DEF SessionTask
<1>2. CASE TcpToWs
    BY <1>2, DownlinkTask
<1>3. CASE WsToTcp \/ Client \/ Backend \/ UNCHANGED vars
    BY <1>3, DownlinkFrame DEF WsToTcp, Client, ClientFrame, Backend, BackendFrame, vars
<1> QED BY <1>1, <1>2, <1>3 DEF Next, Terminated

\* The downlink invariant in every reachable state.
THEOREM DownlinkInvariant == Spec => []DownlinkInv
BY DownlinkInit, DownlinkNext, PhaseInvariant, LaneInvariant, PTL DEF Spec

\* DownlinkFaithful for every backend and every interleaving with control replies: the
\* client is given the backend's bytes in stream order, each once, with their length.
THEOREM DownlinkSafety == Spec => []DownlinkFaithful
<1>1. TypeOK /\ LaneInv /\ DownlinkInv => DownlinkFaithful
    <2> SUFFICES ASSUME TypeOK, LaneInv, DownlinkInv PROVE DownlinkFaithful
        OBVIOUS
    <2>0. t2wHand \in SentMessage /\ downRead \in Nat /\ got \in Seq(WireMessage)
        BY DEF TypeOK
    <2>1. ASSUME NEW o \in 1..downRead, t2w \in {"Select", "Send"}
          PROVE  \/ ShownByte(o)
                 \/ t2w = "Send" /\ IsDown(t2wHand) /\ t2wHand.data[2] <= o /\ o <= t2wHand.data[3]
        <3>1. CASE t2w = "Send" /\ IsDown(t2wHand)
            <4>1. IsPiece(t2wHand)
                BY <2>0, <3>1, ReplyKind DEF LaneInv, IsDown
            <4>2. t2wHand.data[2] \in Nat
                BY <2>0, <4>1, PieceType
            <4> QED BY <2>0, <2>1, <3>1, <4>2 DEF DownlinkInv
        <3> QED BY <2>1, <3>1 DEF DownlinkInv
    <2> QED BY <2>1 DEF DownlinkFaithful, DownlinkInv, SentOrder, LaneInv, IsPiece, IsDown, ShownByte
<1> QED BY <1>1, PhaseInvariant, LaneInvariant, DownlinkInvariant, PTL

-----------------------------------------------------------------------------
(* The control replies.                                                      *)

\* Along the way of a reply from the hand of ws_to_tcp through ctrl and the hand of
\* tcp_to_ws to the client, the replies are in the order of their requests.
PipeOrder ==
    /\ \A a, b \in DOMAIN toClient :
         a < b /\ toClient[a].src # 0 /\ toClient[b].src # 0 => toClient[a].src < toClient[b].src
    /\ \A c, e \in DOMAIN ctrl : c < e => ctrl[c].src < ctrl[e].src
    /\ \A a \in DOMAIN toClient, c \in DOMAIN ctrl : toClient[a].src < ctrl[c].src
    /\ t2w = "Send" => \A c \in DOMAIN ctrl : t2wHand.src < ctrl[c].src
    /\ t2w = "Send" /\ t2wHand.src # 0 => \A a \in DOMAIN toClient : toClient[a].src < t2wHand.src
    /\ w2t = "SendCtrl" =>
         /\ \A a \in DOMAIN toClient : toClient[a].src < Len(got)
         /\ \A c \in DOMAIN ctrl : ctrl[c].src < Len(got)
         /\ t2w = "Send" => t2wHand.src < Len(got)

\* The reply to control frame i is sent or on its way.
UnderWay(i) == \/ \E a \in DOMAIN toClient : toClient[a].src = i
               \/ t2w = "Send" /\ t2wHand.src = i
               \/ \E c \in DOMAIN ctrl : ctrl[c].src = i
               \/ w2t = "SendCtrl" /\ w2tHand.src = i

\* As long as tcp_to_ws serves, no request is without its reply.
NoneLost == t2w \in {"Select", "Send"} =>
                \A i \in DOMAIN got : got[i].type \in ControlType => UnderWay(i)

ControlInv == PipeOrder /\ NoneLost

\* Tags are numbers of frames read, or 0.
LEMMA TagsRead ==
    ASSUME TypeOK, LaneInv
    PROVE  /\ Len(got) \in Nat /\ DOMAIN got = 1..Len(got)
           /\ \A a \in DOMAIN toClient : toClient[a].src \in 0..Len(got)
           /\ \A c \in DOMAIN ctrl : ctrl[c].src \in 1..Len(got)
           /\ t2w = "Send" => t2wHand.src \in 0..Len(got)
           /\ w2t = "SendCtrl" => 0 < Len(got)
<1>1. got \in Seq(WireMessage) /\ Len(got) \in Nat /\ DOMAIN got = 1..Len(got)
    BY DEF TypeOK
<1>2. \A a \in DOMAIN toClient : toClient[a].src \in 0..Len(got)
    BY <1>1, ReplyKind DEF LaneInv
<1>3. \A c \in DOMAIN ctrl : ctrl[c].src \in 1..Len(got)
    BY <1>1, ReplyKind DEF LaneInv
<1>4. t2w = "Send" => t2wHand.src \in 0..Len(got)
    BY <1>1, ReplyKind DEF LaneInv, IsPiece
<1>5. w2t = "SendCtrl" => 0 < Len(got)
    BY <1>1, ReplyKind DEF LaneInv
<1> QED BY <1>1, <1>2, <1>3, <1>4, <1>5

\* Steps that leave the replies alone, except that tcp_to_ws may stop serving.
LEMMA ControlFrame ==
    ASSUME ControlInv, UNCHANGED <<toClient, ctrl, got, t2wHand>>,
           t2w' = t2w \/ t2w' \notin {"Select", "Send"},
           (w2t' = w2t /\ w2tHand' = w2tHand) \/ (w2t # "SendCtrl" /\ w2t' # "SendCtrl")
    PROVE  ControlInv'
<1>1. PipeOrder'
    BY DEF ControlInv, PipeOrder
<1>2. NoneLost'
    <2>1. t2w' = t2w => \A i : UnderWay(i) => UnderWay(i)'
        BY DEF UnderWay
    <2> QED BY <2>1 DEF ControlInv, NoneLost
<1> QED BY <1>1, <1>2 DEF ControlInv

\* Initially no reply is owed.
LEMMA ControlInit == Init => ControlInv
BY DEF Init, ControlInv, PipeOrder, NoneLost

\* A control frame read puts the youngest reply into the hand of ws_to_tcp.
LEMMA ControlRead ==
    ASSUME TypeOK, PhaseOK, LaneInv, ControlInv, WsToTcp, WsToTcpRead
    PROVE  ControlInv'
<1> DEFINE m == Head(wire)
           n == Len(got) + 1
<1>1. /\ w2t = "Read" /\ got' = Append(got, m) /\ m \in WireMessage /\ got \in Seq(WireMessage)
      /\ toClient' = toClient /\ ctrl' = ctrl /\ t2w' = t2w /\ t2wHand' = t2wHand
    BY DEF WsToTcp, WsToTcpRead, t2wVars, TypeOK
<1>2. /\ Len(got') = n /\ DOMAIN got' = 1..n /\ got'[n] = m /\ n \in Nat
      /\ \A i \in 1..Len(got) : got'[i] = got[i]
      /\ DOMAIN got = 1..Len(got)
    BY <1>1
<1>3. w2t' = "SendCtrl" => m.type \in ControlType /\ w2tHand' = Reply(m, n)
    BY <1>1 DEF WsToTcpRead, w2tVars
<1>4. m.type \in ControlType => w2t' = "SendCtrl" /\ w2tHand' = Reply(m, n)
    BY DEF WsToTcpRead, ControlType, IgnoredType, ReadEnd
<1>5. PipeOrder'
    <2>1. /\ \A a \in DOMAIN toClient : toClient[a].src < n
          /\ \A c \in DOMAIN ctrl : ctrl[c].src < n
          /\ t2w = "Send" => t2wHand.src < n
        BY TagsRead
    <2> QED BY <1>1, <1>2, <2>1 DEF ControlInv, PipeOrder
<1>6. NoneLost'
    <2>1. ASSUME NEW i \in 1..n, got'[i].type \in ControlType, t2w' \in {"Select", "Send"}
          PROVE  UnderWay(i)'
        <3>1. CASE i = n
            BY <1>1, <1>2, <1>4, <2>1, <3>1, ReplyType DEF UnderWay
        <3>2. CASE i \in 1..Len(got)
            <4>1. UnderWay(i)
                BY <1>1, <1>2, <2>1, <3>2 DEF ControlInv, NoneLost
            <4> QED BY <1>1, <4>1 DEF UnderWay
        <3> QED BY <1>2, <3>1, <3>2
    <2> QED BY <1>2, <2>1 DEF NoneLost
<1> QED BY <1>5, <1>6 DEF ControlInv

\* ctrl_tx.send puts the youngest reply behind those in the channel.
LEMMA ControlQueue ==
    ASSUME TypeOK, PhaseOK, LaneInv, ControlInv, WsToTcp, WsToTcpCtrl
    PROVE  ControlInv'
<1>1. /\ w2t = "SendCtrl" /\ w2t' # "SendCtrl" /\ got' = got /\ toClient' = toClient
      /\ t2w' = t2w /\ t2wHand' = t2wHand /\ w2tHand \in SentMessage /\ ctrl \in Seq(SentMessage)
      /\ w2tHand.src = Len(got)
    BY DEF WsToTcp, WsToTcpCtrl, t2wVars, TypeOK, LaneInv
<1>2. CASE t2w = "Ended" /\ ctrl' = ctrl
    BY <1>1, <1>2 DEF ControlInv, PipeOrder, NoneLost
<1>3. CASE ctrl' = Append(ctrl, w2tHand)
    <2>1. /\ DOMAIN ctrl' = 1..(Len(ctrl) + 1) /\ DOMAIN ctrl = 1..Len(ctrl)
          /\ Len(ctrl) \in Nat /\ ctrl'[Len(ctrl) + 1] = w2tHand
          /\ \A c \in DOMAIN ctrl : ctrl'[c] = ctrl[c]
        BY <1>1, <1>3, AppendSent
    <2>2. /\ \A a \in DOMAIN toClient : toClient[a].src < w2tHand.src
          /\ \A c \in DOMAIN ctrl : ctrl[c].src < w2tHand.src
          /\ t2w = "Send" => t2wHand.src < w2tHand.src
        BY <1>1 DEF ControlInv, PipeOrder
    <2>3. PipeOrder'
        BY <1>1, <2>1, <2>2 DEF ControlInv, PipeOrder
    <2>4. \A i : UnderWay(i) => UnderWay(i)'
        BY <1>1, <2>1 DEF UnderWay
    <2> QED BY <1>1, <2>3, <2>4 DEF ControlInv, NoneLost
<1> QED BY <1>2, <1>3 DEF WsToTcpCtrl

\* tcp_to_ws takes the oldest reply from the channel and sends it before the next.
LEMMA ControlTask ==
    ASSUME TypeOK, PhaseOK, LaneInv, ControlInv, TcpToWs
    PROVE  ControlInv'
<1>0. /\ got' = got /\ w2t' = w2t /\ w2tHand' = w2tHand
      /\ ctrl \in Seq(SentMessage) /\ toClient \in Seq(SentMessage) /\ t2wHand \in SentMessage
    BY DEF TcpToWs, w2tVars, TypeOK
<1>1. ASSUME NEW n \in 1..ReadMax, TcpToWsData(n) PROVE ControlInv'
    <2>1. /\ t2w = "Select" /\ t2w' = "Send" /\ toClient' = toClient /\ ctrl' = ctrl /\ t2wHand'.src = 0
        BY <1>1 DEF TcpToWsData, encode_data_message, Message
    <2>2. PipeOrder'
        BY <1>0, <2>1, TagsRead DEF ControlInv, PipeOrder
    <2>3. \A i : UnderWay(i) => UnderWay(i)'
        BY <1>0, <2>1 DEF UnderWay
    <2> QED BY <1>0, <2>1, <2>2, <2>3 DEF ControlInv, NoneLost
<1>2. CASE TcpToWsEnd
    BY <1>0, <1>2, ControlFrame DEF TcpToWsEnd
<1>3. CASE TcpToWsCtrl
    <2>1. /\ t2w = "Select" /\ t2w' = "Send" /\ toClient' = toClient /\ ctrl # << >>
          /\ t2wHand' = Head(ctrl) /\ ctrl' = Tail(ctrl)
        BY <1>3 DEF TcpToWsCtrl
    <2>2. /\ Len(ctrl) \in Nat /\ DOMAIN ctrl = 1..Len(ctrl) /\ 1 \in DOMAIN ctrl
          /\ t2wHand' = ctrl[1] /\ DOMAIN ctrl' = 1..(Len(ctrl) - 1)
          /\ \A c \in DOMAIN ctrl' : ctrl'[c] = ctrl[c + 1]
        BY <1>0, <2>1, TailSent
    <2>3. PipeOrder'
        BY <1>0, <2>1, <2>2 DEF ControlInv, PipeOrder
    <2>4. ASSUME NEW i, UnderWay(i) PROVE UnderWay(i)'
        <3>1. ASSUME NEW c \in DOMAIN ctrl, ctrl[c].src = i PROVE UnderWay(i)'
            <4>1. CASE c = 1
                BY <2>1, <2>2, <3>1, <4>1 DEF UnderWay
            <4>2. CASE c > 1
                <5>1. c - 1 \in DOMAIN ctrl' /\ ctrl'[c - 1] = ctrl[c]
                    BY <2>2, <3>1, <4>2
                <5> QED BY <3>1, <5>1 DEF UnderWay
            <4> QED BY <2>2, <3>1, <4>1, <4>2
        <3> QED BY <1>0, <2>1, <2>4, <3>1 DEF UnderWay
    <2> QED BY <1>0, <2>1, <2>3, <2>4 DEF ControlInv, NoneLost
<1>4. CASE TcpToWsSend
    <2>1. CASE toClient' = toClient /\ t2w' = "Closing"
        <3>1. ctrl' = ctrl /\ t2w = "Send"
            BY <1>4 DEF TcpToWsSend
        <3>2. PipeOrder'
            BY <1>0, <2>1, <3>1 DEF ControlInv, PipeOrder
        <3> QED BY <2>1, <3>2 DEF ControlInv, NoneLost
    <2>2. CASE toClient' = Append(toClient, t2wHand) /\ t2w' = "Select"
        <3>1. ctrl' = ctrl /\ t2w = "Send"
            BY <1>4 DEF TcpToWsSend
        <3>2. /\ DOMAIN toClient' = 1..(Len(toClient) + 1) /\ DOMAIN toClient = 1..Len(toClient)
              /\ Len(toClient) \in Nat /\ toClient'[Len(toClient) + 1] = t2wHand
              /\ \A a \in DOMAIN toClient : toClient'[a] = toClient[a]
            BY <1>0, <2>2, AppendSent
        <3>3. PipeOrder'
            BY <1>0, <2>2, <3>1, <3>2 DEF ControlInv, PipeOrder
        <3>4. \A i : UnderWay(i) => UnderWay(i)'
            BY <1>0, <3>1, <3>2 DEF UnderWay
        <3> QED BY <1>0, <2>2, <3>1, <3>3, <3>4 DEF ControlInv, NoneLost
    <2> QED BY <1>4, <2>1, <2>2 DEF TcpToWsSend, WsSend, WsSendFails
<1>5. CASE TcpToWsClose
    <2>1. ctrl' = << >> /\ t2w' = "Ended"
          /\ (toClient' = toClient \/ toClient' = Append(toClient, CloseFrame))
        BY <1>5 DEF TcpToWsClose, WsSend, WsSendFails
    <2>2. CASE toClient' = toClient
        BY <1>0, <2>1, <2>2 DEF ControlInv, PipeOrder, NoneLost
    <2>3. CASE toClient' = Append(toClient, CloseFrame)
        <3>1. /\ DOMAIN toClient' = 1..(Len(toClient) + 1) /\ DOMAIN toClient = 1..Len(toClient)
              /\ Len(toClient) \in Nat /\ toClient'[Len(toClient) + 1].src = 0
              /\ \A a \in DOMAIN toClient : toClient'[a] = toClient[a]
            BY <1>0, <2>3, AppendSent, ConstantTypes
        <3>2. w2t = "SendCtrl" => 0 < Len(got)
            BY TagsRead
        <3>3. PipeOrder'
            BY <1>0, <2>1, <3>1, <3>2 DEF ControlInv, PipeOrder
        <3> QED BY <2>1, <3>3 DEF ControlInv, NoneLost
    <2> QED BY <2>1, <2>2, <2>3
<1> QED BY <1>1, <1>2, <1>3, <1>4, <1>5 DEF TcpToWs

\* Every step keeps the replies in order and loses none.
LEMMA ControlNext == TypeOK /\ PhaseOK /\ LaneInv /\ ControlInv /\ [Next]_vars => ControlInv'
<1> SUFFICES ASSUME TypeOK, PhaseOK, LaneInv, ControlInv, [Next]_vars PROVE ControlInv'
    OBVIOUS
<1>1. CASE SessionTask
    <2>0. ctrl' = ctrl /\ t2wHand' = t2wHand /\ w2tHand' = w2tHand
        BY <1>1 DEF SessionTask
    <2>1. CASE SessionRead
        <3>1. t2w' = "Idle" /\ w2t' = "Idle" /\ toClient' = toClient
            BY <2>1 DEF SessionRead, PhaseOK
        <3> QED BY <2>0, <3>1 DEF ControlInv, PipeOrder, NoneLost
    <2>2. CASE SessionRespond
        <3>1. /\ t2w' = "Idle" /\ w2t' = "Idle" /\ ctrl = << >>
              /\ toClient \in Seq(SentMessage) /\ hand \in SentMessage /\ hand.src = 0
            BY <2>2 DEF SessionRespond, PhaseOK, TypeOK, LaneInv
        <3>2. CASE toClient' = toClient
            BY <2>0, <3>1, <3>2 DEF ControlInv, PipeOrder, NoneLost
        <3>3. CASE toClient' = Append(toClient, hand)
            <4>1. /\ DOMAIN toClient' = 1..(Len(toClient) + 1) /\ DOMAIN toClient = 1..Len(toClient)
                  /\ Len(toClient) \in Nat /\ toClient'[Len(toClient) + 1].src = 0
                  /\ \A a \in DOMAIN toClient : toClient'[a] = toClient[a]
                BY <3>1, <3>3, AppendSent
            <4> QED BY <2>0, <3>1, <4>1 DEF ControlInv, PipeOrder, NoneLost
        <3> QED BY <2>2, <3>2, <3>3 DEF SessionRespond, WsSend, WsSendFails
    <2>3. CASE SessionInitialWrite
        <3>1. /\ t2w' \in {"Idle", "Select"} /\ w2t' # "SendCtrl" /\ toClient' = toClient /\ got' = got
              /\ Len(got) = 1 /\ got[1].type = "Data" /\ got \in Seq(WireMessage)
            BY <2>3 DEF SessionInitialWrite, PhaseOK, TypeOK
        <3>2. \A i \in DOMAIN got : got[i].type \notin ControlType
            BY <3>1 DEF ControlType
        <3> QED BY <2>0, <3>1, <3>2 DEF ControlInv, PipeOrder, NoneLost
    <2>4. CASE SessionConnect \/ SessionJoin
        BY <2>0, <2>4, ControlFrame DEF SessionConnect, SessionJoin
    <2> QED BY <1>1, <2>1, <2>2, <2>3, <2>4 DEF SessionTask
<1>2. CASE WsToTcp
    <2>1. CASE WsToTcpWrite
        BY <1>2, <2>1, ControlFrame DEF WsToTcp, WsToTcpWrite, t2wVars
    <2> QED BY <1>2, <2>1, ControlRead, ControlQueue DEF WsToTcp
<1>3. CASE TcpToWs
    BY <1>3, ControlTask
<1>4. CASE Client \/ Backend \/ UNCHANGED vars
    BY <1>4, ControlFrame DEF Client, ClientFrame, Backend, BackendFrame, vars, w2tVars, t2wVars
<1> QED BY <1>1, <1>2, <1>3, <1>4 DEF Next, Terminated

\* The order of the replies in every reachable state.
THEOREM ControlInvariant == Spec => []ControlInv
BY ControlInit, ControlNext, PhaseInvariant, LaneInvariant, PTL DEF Spec

\* ControlFaithful for every capacity of the ctrl channel and every interleaving with the
\* backend's bytes: replies are right, in order, never repeated and never lost.
THEOREM ControlSafety == Spec => []ControlFaithful
<1>1. LaneInv /\ ControlInv => ControlFaithful
    BY DEF LaneInv, IsReply, ControlInv, PipeOrder, NoneLost, UnderWay, ControlFaithful
<1> QED BY <1>1, LaneInvariant, ControlInvariant, PTL

-----------------------------------------------------------------------------
(* The session implements the Tunnel.                                        *)

\* The uplink invariant in every reachable state.
THEOREM UplinkInvariant == Spec => []UplinkInv
BY UplinkInit, UplinkNext, PhaseInvariant, PTL DEF Spec

\* What the step-by-step simulation rests on.
SessionInv == TypeOK /\ PhaseOK /\ UplinkInv /\ LaneInv /\ DownlinkInv /\ ControlInv

\* The largest element of a set of numbers, as Shown chooses it.
LEMMA Largest ==
    ASSUME NEW E \in SUBSET Nat, NEW n \in E, \A e \in E : e <= n
    PROVE  (CHOOSE k \in E : \A e \in E : e <= k) = n
<1> DEFINE k == CHOOSE k \in E : \A e \in E : e <= k
<1>1. k \in E /\ \A e \in E : e <= k
    OBVIOUS
<1> HIDE DEF k
<1>2. k <= n /\ n <= k /\ k \in Nat /\ n \in Nat
    BY <1>1
<1>3. k = n
    BY <1>2
<1> QED BY <1>3 DEF k

\* The ends of the frames sent are numbers, none beyond what was read.
LEMMA EndsRead ==
    ASSUME TypeOK, LaneInv, SentOrder
    PROVE  Ends \in SUBSET Nat /\ \A e \in Ends : e <= downRead
<1>1. \A a \in DOMAIN toClient : toClient[a] \in SentMessage
    BY DEF TypeOK
<1>2. \A a \in DOMAIN toClient : IsDown(toClient[a]) => toClient[a].data[3] \in Nat
    BY <1>1, PieceType DEF LaneInv, IsDown
<1> QED BY <1>2 DEF Ends, SentOrder, TypeOK

\* When tcp_to_ws waits, the client was sent every byte that was read.
LEMMA SelectShown ==
    ASSUME SessionInv, t2w = "Select"
    PROVE  Shown = downRead
<1>1. Ends \in SUBSET Nat /\ \A e \in Ends : e <= downRead
    BY EndsRead DEF SessionInv, DownlinkInv
<1>2. downRead \in Nat /\ \A o \in 1..downRead : ShownByte(o)
    BY DEF SessionInv, DownlinkInv, TypeOK
<1>3. downRead \in Ends
    <2>1. CASE downRead = 0
        BY <2>1 DEF Ends
    <2>2. CASE downRead # 0
        <3>1. PICK a \in DOMAIN toClient : IsDown(toClient[a]) /\ downRead <= toClient[a].data[3]
            BY <1>2, <2>2 DEF ShownByte
        <3>2. PICK e \in Ends : downRead <= e
            BY <3>1 DEF Ends
        <3>3. e = downRead
            BY <1>1, <1>2, <3>2
        <3> QED BY <3>3
    <2> QED BY <2>1, <2>2
<1> QED BY <1>1, <1>3, Largest DEF Shown

\* While it sends a Data frame, the client was sent the bytes before that frame.
LEMMA SendShown ==
    ASSUME SessionInv, t2w = "Send", IsDown(t2wHand)
    PROVE  Shown < downRead
<1>1. Ends \in SUBSET Nat /\ downRead \in Nat
    BY EndsRead DEF SessionInv, DownlinkInv, TypeOK
<1>2. IsPiece(t2wHand)
    BY ReplyKind DEF SessionInv, LaneInv, TypeOK, IsDown
<1>3. t2wHand.data[2] \in Nat /\ 1 <= t2wHand.data[2] /\ t2wHand.data[2] <= downRead
    <2>1. t2wHand.data[2] \in Nat /\ t2wHand.data[3] = downRead
        BY <1>2, PieceType DEF SessionInv, TypeOK, DownlinkInv
    <2> QED BY <1>2, <2>1 DEF IsPiece
<1> DEFINE n == t2wHand.data[2] - 1
<1>4. n \in Nat /\ n < downRead /\ t2wHand.data[2] = n + 1
    BY <1>1, <1>3
<1>5. /\ \A a \in DOMAIN toClient : IsDown(toClient[a]) => toClient[a].data[3] < n + 1
      /\ \A o \in 1..n : ShownByte(o)
    BY <1>4 DEF SessionInv, DownlinkInv
<1> HIDE DEF n
<1>6. \A e \in Ends : e <= n
    BY <1>1, <1>4, <1>5 DEF Ends
<1>7. n \in Ends
    <2>1. CASE n = 0
        BY <2>1 DEF Ends
    <2>2. CASE n # 0
        <3>1. PICK a \in DOMAIN toClient : IsDown(toClient[a]) /\ n <= toClient[a].data[3]
            BY <1>4, <1>5, <2>2 DEF ShownByte
        <3>2. PICK e \in Ends : n <= e
            BY <3>1 DEF Ends
        <3>3. e = n
            BY <1>1, <1>4, <1>6, <3>2
        <3> QED BY <3>3
    <2> QED BY <2>1, <2>2
<1>8. Shown = n
    BY <1>1, <1>6, <1>7, Largest DEF Shown
<1> QED BY <1>4, <1>8

\* What a frame sent to the client is for the Tunnel.
LEMMA SendMaps ==
    ASSUME toClient \in Seq(SentMessage), NEW m \in SentMessage, toClient' = Append(toClient, m)
    PROVE  /\ Ends' = IF IsDown(m) THEN Ends \cup {m.data[3]} ELSE Ends
           /\ Answers' = IF m.src # 0 THEN Answers \cup {<<Len(toClient) + 1, m.src>>} ELSE Answers
           /\ \A q \in Answers : q[1] < Len(toClient) + 1
<1>1. /\ DOMAIN toClient' = 1..(Len(toClient) + 1) /\ DOMAIN toClient = 1..Len(toClient)
      /\ Len(toClient) \in Nat /\ toClient'[Len(toClient) + 1] = m
      /\ \A a \in DOMAIN toClient : toClient'[a] = toClient[a]
    BY AppendSent
<1>2. Ends' = IF IsDown(m) THEN Ends \cup {m.data[3]} ELSE Ends
    BY <1>1 DEF Ends
<1>3. Answers' = IF m.src # 0 THEN Answers \cup {<<Len(toClient) + 1, m.src>>} ELSE Answers
    BY <1>1 DEF Answers
<1>4. \A q \in Answers : q[1] < Len(toClient) + 1
    BY <1>1 DEF Answers
<1> QED BY <1>2, <1>3, <1>4

\* A frame that is neither Data nor a reply is nothing for the Tunnel, and so is no frame.
LEMMA SendHides ==
    ASSUME toClient \in Seq(SentMessage), NEW m \in SentMessage, ~IsDown(m), m.src = 0,
           toClient' = toClient \/ toClient' = Append(toClient, m)
    PROVE  Shown' = Shown /\ Answers' = Answers
<1>1. CASE toClient' = toClient
    BY <1>1 DEF Shown, Ends, Answers
<1>2. CASE toClient' = Append(toClient, m)
    <2>1. Ends' = Ends /\ Answers' = Answers
        BY <1>2, SendMaps
    <2> QED BY <2>1 DEF Shown
<1> QED BY <1>1, <1>2

\* What a payload written to the backend is for the Tunnel.
LEMMA WriteMaps ==
    ASSUME toBackend \in Seq(SentMessage), NEW m \in SentMessage, toBackend' = Append(toBackend, m)
    PROVE  Up' = Append(Up, <<m.src, m.data>>)
<1>1. /\ DOMAIN toBackend' = 1..(Len(toBackend) + 1) /\ DOMAIN toBackend = 1..Len(toBackend)
      /\ Len(toBackend) \in Nat /\ toBackend'[Len(toBackend) + 1] = m
      /\ \A a \in DOMAIN toBackend : toBackend'[a] = toBackend[a]
    BY AppendSent
<1>2. /\ Up \in Seq({<<toBackend[a].src, toBackend[a].data>> : a \in DOMAIN toBackend})
      /\ Len(Up) = Len(toBackend) /\ \A a \in DOMAIN toBackend : Up[a] = <<toBackend[a].src, toBackend[a].data>>
    BY <1>1 DEF Up
<1>3. Append(Up, <<m.src, m.data>>) = [a \in 1..(Len(Up) + 1) |-> IF a = Len(Up) + 1 THEN <<m.src, m.data>> ELSE Up[a]]
    BY <1>2
<1> QED BY <1>1, <1>2, <1>3 DEF Up

\* What a frame read during the relay is for the Tunnel.
LEMMA ReadMaps ==
    ASSUME got \in Seq(WireMessage), NEW m \in WireMessage, got' = Append(got, m)
    PROVE  /\ Given' = IF m.type = "Data" /\ ~Armed(got, Len(got))
                         THEN Given \cup {<<Len(got) + 1, Payload(m.data)>>} ELSE Given
           /\ Asked' = IF m.type \in ControlType THEN Asked \cup {Len(got) + 1} ELSE Asked
           /\ \A p \in Asked \cup {g[1] : g \in Given} : p < Len(got) + 1
<1> DEFINE n == Len(got) + 1
<1>1. /\ Len(got) \in Nat /\ DOMAIN got = 1..Len(got) /\ DOMAIN got' = 1..n /\ got'[n] = m
      /\ \A i \in 1..Len(got) : got'[i] = got[i]
    OBVIOUS
<1>2. /\ \A i \in 1..Len(got) : Forwardable(got', i) <=> Forwardable(got, i)
      /\ Forwardable(got', n) <=> m.type = "Data" /\ ~Armed(got, Len(got))
    BY ReadKeepsEarlier
<1>3. Given' = IF m.type = "Data" /\ ~Armed(got, Len(got))
                 THEN Given \cup {<<n, Payload(m.data)>>} ELSE Given
    <2>1. ASSUME NEW x
          PROVE  x \in Given' <=> \/ x \in Given
                                  \/ Forwardable(got', n) /\ x = <<n, Payload(m.data)>>
        <3>1. x \in Given' <=> \E i \in 1..n : Forwardable(got', i) /\ x = <<i, Payload(got'[i].data)>>
            BY <1>1 DEF Given
        <3>2. x \in Given <=> \E i \in 1..Len(got) : Forwardable(got, i) /\ x = <<i, Payload(got[i].data)>>
            BY <1>1 DEF Given
        <3>3. \A i \in 1..n : i = n \/ i \in 1..Len(got)
            BY <1>1
        <3>4. n \in 1..n /\ \A i \in 1..Len(got) : i \in 1..n
            BY <1>1
        <3> HIDE DEF n
        <3> QED BY <1>1, <1>2, <3>1, <3>2, <3>3, <3>4
    <2> HIDE DEF n
    <2> QED BY <1>2, <2>1
<1>4. Asked' = IF m.type \in ControlType THEN Asked \cup {n} ELSE Asked
    BY <1>1 DEF Asked
<1>5. \A p \in Asked \cup {g[1] : g \in Given} : p < n
    BY <1>1 DEF Asked, Given
<1> QED BY <1>3, <1>4, <1>5

\* What stands still for the Tunnel.
LEMMA StillMaps ==
    /\ UNCHANGED <<pc, got>> => Phase' = Phase
    /\ UNCHANGED got => Given' = Given /\ Asked' = Asked
    /\ UNCHANGED toBackend => Up' = Up
    /\ UNCHANGED toClient => Shown' = Shown /\ Answers' = Answers
BY DEF Phase, Given, Asked, Up, Shown, Ends, Answers

\* While a relay task runs, the Tunnel is open.
LEMMA RelayIsOpen ==
    ASSUME PhaseOK, w2t \in {"Read", "Write", "SendCtrl"} \/ t2w \in {"Select", "Send", "Closing"}
    PROVE  Phase = "Open"
BY DEF PhaseOK, Phase

\* The pieces the backend was given are pieces that were taken.
LEMMA UpIsGiven ==
    ASSUME OrderInv
    PROVE  /\ \A x \in Relayed!Elems(Up) : x \in Given
           /\ \A i \in DOMAIN got : Forwardable(got, i) /\ Written(i) =>
                <<i, Payload(got[i].data)>> \in Relayed!Elems(Up)
           /\ \A x \in Relayed!Elems(Up) : \E a \in DOMAIN toBackend : x[1] = toBackend[a].src
<1>1. \A x : x \in Relayed!Elems(Up) <=>
              \E a \in DOMAIN toBackend : x = <<toBackend[a].src, toBackend[a].data>>
    BY DEF Relayed!Elems, Up
<1>2. \A a \in DOMAIN toBackend : <<toBackend[a].src, toBackend[a].data>> \in Given
    BY DEF OrderInv, Given
<1>3. ASSUME NEW i \in DOMAIN got, Forwardable(got, i), Written(i)
      PROVE  <<i, Payload(got[i].data)>> \in Relayed!Elems(Up)
    BY <1>1, <1>3 DEF Written, OrderInv
<1> QED BY <1>1, <1>2, <1>3

\* Writing the newest frame delivers it.
LEMMA WriteDelivers ==
    ASSUME SessionInv, NEW w \in SentMessage, toBackend' = Append(toBackend, w),
           UNCHANGED <<got, downRead, toClient>>, Phase = "Open", Phase' = "Open",
           w.src \in DOMAIN got, Forwardable(got, w.src), w.data = Payload(got[w.src].data),
           \A a \in DOMAIN toBackend : toBackend[a].src < w.src
    PROVE  Relayed!Deliver
<1> DEFINE g == <<w.src, w.data>>
<1>1. Up' = Append(Up, g)
    BY WriteMaps DEF SessionInv, TypeOK
<1>2. g \in Given
    BY DEF Given
<1>3. g \notin Relayed!Elems(Up)
    <2>1. \A a \in DOMAIN toBackend : toBackend[a].src # w.src
        <3>1. w.src \in Nat /\ \A a \in DOMAIN toBackend : toBackend[a].src \in Nat
            <4>1. \A a \in DOMAIN toBackend : toBackend[a] \in SentMessage
                BY DEF SessionInv, TypeOK
            <4> QED BY <4>1 DEF SentMessage
        <3> QED BY <3>1
    <2> QED BY <2>1, UpIsGiven DEF SessionInv, UplinkInv
<1> HIDE DEF g
<1> QED BY <1>1, <1>2, <1>3, StillMaps DEF Relayed!Deliver

\* The initial states.
LEMMA TunnelInit == Init => Relayed!Init
<1> SUFFICES ASSUME Init PROVE Relayed!Init
    OBVIOUS
<1>1. Ends = {0}
    BY DEF Init, Ends
<1>2. Shown = 0
    BY <1>1, Largest DEF Shown
<1>3. Phase = "Closed" /\ Given = {} /\ Up = << >> /\ Asked = {} /\ Answers = {} /\ downRead = 0
    BY DEF Init, Phase, Given, Up, Asked, Answers
<1> QED BY <1>2, <1>3 DEF Relayed!Init

\* A step of the session task opens the Tunnel, delivers the first piece, ends it, or is
\* none of its business.
LEMMA TunnelSession ==
    ASSUME SessionInv, SessionTask
    PROVE  [Relayed!Next]_(Relayed!vars)
<1> USE DEF SessionInv
<1>0. downRead' = downRead /\ toClient \in Seq(SentMessage) /\ hand \in SentMessage
      /\ wire \in Seq(WireMessage) /\ got \in Seq(WireMessage)
    BY DEF SessionTask, TypeOK
<1>1. CASE SessionRead
    <2>1. /\ pc = "Loop" /\ got = << >> /\ Phase = "Closed" /\ toClient' = toClient /\ toBackend' = toBackend
        BY <1>1 DEF SessionRead, PhaseOK, Phase
    <2>2. CASE got' = got /\ pc' # "Done"
        <3>1. Phase' = Phase
            BY <2>1, <2>2 DEF Phase
        <3> QED BY <1>0, <2>1, <2>2, <3>1, StillMaps DEF Relayed!vars
    <2>3. CASE got' = got /\ pc' = "Done"
        <3>1. Phase' = "Over"
            BY <2>3 DEF Phase
        <3> QED BY <1>0, <2>1, <2>3, <3>1, StillMaps DEF Relayed!Next, Relayed!End
    <2>4. CASE got' = <<Head(wire)>> /\ pc' = "Connect" /\ Head(wire).type = "Data"
        <3>1. Phase' = "Open"
            BY <2>4 DEF Phase
        <3>2. Head(wire) \in WireMessage /\ got' = Append(got, Head(wire))
            BY <1>0, <1>1, <2>1, <2>4 DEF SessionRead
        <3>3. Given = {} /\ Asked = {}
            BY <2>1 DEF Given, Asked
        <3>4. ~Armed(got, Len(got)) /\ Head(wire).type \notin ControlType
            BY <2>1, <2>4 DEF Armed, ControlType
        <3>5. Given' = {<<Len(got) + 1, Payload(Head(wire).data)>>} /\ Asked' = Asked
            BY <1>0, <2>4, <3>2, <3>3, <3>4, ReadMaps
        <3> QED BY <1>0, <2>1, <3>1, <3>5, StillMaps DEF Relayed!Next, Relayed!Open
    <2> QED BY <1>1, <2>1, <2>2, <2>3, <2>4 DEF SessionRead, Return, sessionVars
<1>2. CASE SessionRespond
    <2>1. /\ got' = got /\ toBackend' = toBackend /\ Phase = "Closed"
        BY <1>2 DEF SessionRespond, PhaseOK, Phase
    <2>2. Shown' = Shown /\ Answers' = Answers
        BY <1>0, <1>2, SendHides DEF SessionRespond, WsSend, WsSendFails, LaneInv, IsDown
    <2>3. Phase' \in {"Closed", "Over"}
        BY <1>2 DEF SessionRespond, PhaseOK, Phase
    <2> QED BY <1>0, <2>1, <2>2, <2>3, StillMaps DEF Relayed!vars, Relayed!Next, Relayed!End
<1>3. CASE SessionConnect \/ SessionJoin \/ (SessionInitialWrite /\ TcpWriteFails /\ pc' = "Done")
    <2>1. got' = got /\ toBackend' = toBackend /\ toClient' = toClient
        BY <1>3 DEF SessionConnect, SessionJoin, SessionInitialWrite, TcpWriteFails
    <2>2. Phase = "Open" /\ Phase' \in {"Open", "Over"}
        BY <1>3, <2>1 DEF SessionConnect, SessionJoin, SessionInitialWrite, PhaseOK, Phase
    <2> QED BY <1>0, <2>1, <2>2, StillMaps DEF Relayed!vars, Relayed!Next, Relayed!End
<1>4. CASE SessionInitialWrite /\ TcpWrite(Message("Data", Payload(got[1].data), 1)) /\ pc' = "Relay"
    <2> DEFINE w == Message("Data", Payload(got[1].data), 1)
    <2>1. /\ got' = got /\ toClient' = toClient /\ Len(got) = 1 /\ got[1].type = "Data"
          /\ toBackend = << >> /\ toBackend' = Append(toBackend, w) /\ pc = "InitialWrite"
        BY <1>4 DEF SessionInitialWrite, TcpWrite, PhaseOK
    <2>0. Len(got) = 1 /\ got # << >> /\ pc' = "Relay"
        <3>1. Len(got) = 1 /\ pc' = "Relay"
            BY <1>4 DEF SessionInitialWrite, PhaseOK
        <3> QED BY <3>1
    <2>2. Phase = "Open" /\ Phase' = "Open"
        BY <2>0, <2>1 DEF Phase
    <2>3. w \in SentMessage /\ w.src = 1 /\ w.data = Payload(got[1].data)
        <3>1. got[1] \in WireMessage
            BY <1>0, <2>0
        <3>2. Payload(got[1].data) \in Seq(Nat)
            BY <3>1, PayloadType DEF WireMessage
        <3>3. w \in SentMessage
            BY <3>2, MessageType, SentTypes
        <3> QED BY <3>3 DEF Message
    <2>4. Forwardable(got, 1) /\ 1 \in DOMAIN got
        BY <1>0, <2>1 DEF Forwardable, Armed
    <2> HIDE DEF w, SessionInv
    <2>5. Relayed!Deliver
        BY <1>0, <2>1, <2>2, <2>3, <2>4, WriteDelivers
    <2> QED BY <2>5 DEF Relayed!Next
<1> QED BY <1>1, <1>2, <1>3, <1>4 DEF SessionTask, SessionInitialWrite

\* A step of ws_to_tcp gives a piece, asks a request, delivers a piece, or is hidden.
LEMMA TunnelUplink ==
    ASSUME SessionInv, WsToTcp
    PROVE  [Relayed!Next]_(Relayed!vars)
<1> USE DEF SessionInv
<1>0. /\ pc' = pc /\ toClient' = toClient /\ downRead' = downRead
      /\ got \in Seq(WireMessage) /\ wire \in Seq(WireMessage) /\ w2tHand \in SentMessage
    BY DEF WsToTcp, sessionVars, t2wVars, TypeOK
<1>1. Phase = "Open"
    BY RelayIsOpen DEF WsToTcp, WsToTcpRead, WsToTcpWrite, WsToTcpCtrl
<1>2. CASE WsToTcpRead
    <2> DEFINE m == Head(wire)
               n == Len(got) + 1
    <2>1. m \in WireMessage /\ got' = Append(got, m) /\ toBackend' = toBackend /\ w2t = "Read"
        BY <1>0, <1>2 DEF WsToTcpRead
    <2>2. /\ Given' = IF m.type = "Data" /\ ~Armed(got, Len(got))
                        THEN Given \cup {<<n, Payload(m.data)>>} ELSE Given
          /\ Asked' = IF m.type \in ControlType THEN Asked \cup {n} ELSE Asked
          /\ \A p \in Asked \cup {g[1] : g \in Given} : p < n
        BY <1>0, <2>1, ReadMaps
    <2>3. Phase' = "Open"
        BY <1>0, <1>1, <2>1 DEF Phase
    <2> HIDE DEF m, n
    <2>4. CASE m.type = "Data" /\ ~Armed(got, Len(got))
        <3>1. Given = Relayed!Elems(Up)
            <4>1. OrderInv /\ \A i \in DOMAIN got : Forwardable(got, i) => Written(i)
                BY <2>1 DEF UplinkInv, DoneInv
            <4>2. \A x \in Given : \E i \in DOMAIN got : Forwardable(got, i) /\ x = <<i, Payload(got[i].data)>>
                BY DEF Given
            <4> QED BY <4>1, <4>2, UpIsGiven
        <3>2. m.type \notin ControlType
            BY <2>4 DEF ControlType
        <3>3. \A p \in Relayed!Places : p < n
            BY <2>2 DEF Relayed!Places
        <3>4. /\ Asked' = Asked /\ Given' = Given \cup {<<n, Payload(m.data)>>}
              /\ <<n, Payload(m.data)>>[1] = n
            BY <2>2, <2>4, <3>2
        <3>5. Relayed!Give
            BY <1>0, <1>1, <2>1, <2>3, <3>1, <3>3, <3>4, StillMaps DEF Relayed!Give
        <3> QED BY <3>5 DEF Relayed!Next
    <2>5. CASE m.type \in ControlType
        <3>1. Given' = Given /\ Asked' = Asked \cup {n}
            BY <2>2, <2>5 DEF ControlType
        <3>2. \A p \in Relayed!Places : p < n
            BY <2>2 DEF Relayed!Places
        <3>3. Relayed!Ask
            BY <1>0, <1>1, <2>1, <2>3, <3>1, <3>2, StillMaps DEF Relayed!Ask
        <3> QED BY <3>3 DEF Relayed!Next
    <2>6. CASE m.type \notin ControlType /\ ~(m.type = "Data" /\ ~Armed(got, Len(got)))
        BY <1>0, <1>1, <2>1, <2>2, <2>3, <2>6, StillMaps DEF Relayed!vars
    <2> QED BY <2>4, <2>5, <2>6
<1>3. CASE WsToTcpWrite
    <2>1. got' = got /\ w2t = "Write" /\ (toBackend' = toBackend \/ toBackend' = Append(toBackend, w2tHand))
        BY <1>3 DEF WsToTcpWrite, TcpWrite, TcpWriteFails
    <2>2. Phase' = "Open"
        BY <1>0, <1>1, <2>1, StillMaps
    <2>3. CASE toBackend' = toBackend
        BY <1>0, <1>1, <2>1, <2>2, <2>3, StillMaps DEF Relayed!vars
    <2>4. CASE toBackend' = Append(toBackend, w2tHand)
        <3>1. /\ w2tHand.src \in DOMAIN got /\ Forwardable(got, w2tHand.src)
              /\ w2tHand.data = Payload(got[w2tHand.src].data)
              /\ \A a \in DOMAIN toBackend : toBackend[a].src < w2tHand.src
            BY <1>0, <2>1 DEF UplinkInv, WriteInv
        <3> HIDE DEF SessionInv
        <3>2. Relayed!Deliver
            BY <1>0, <1>1, <2>1, <2>2, <2>4, <3>1, WriteDelivers
        <3> QED BY <3>2 DEF Relayed!Next
    <2> QED BY <2>1, <2>3, <2>4
<1>4. CASE WsToTcpCtrl
    BY <1>0, <1>1, <1>4, StillMaps DEF WsToTcpCtrl, Relayed!vars
<1> QED BY <1>2, <1>3, <1>4 DEF WsToTcp

\* A step of tcp_to_ws takes bytes, shows them, answers a request, or is hidden.
LEMMA TunnelDownlink ==
    ASSUME SessionInv, TcpToWs
    PROVE  [Relayed!Next]_(Relayed!vars)
<1>0. /\ pc' = pc /\ got' = got /\ toBackend' = toBackend
      /\ toClient \in Seq(SentMessage) /\ t2wHand \in SentMessage /\ downRead \in Nat
      /\ got \in Seq(WireMessage)
    BY DEF TcpToWs, sessionVars, SessionInv, TypeOK
<1>1. Phase = "Open" /\ Phase' = "Open"
    <2>1. Phase = "Open"
        BY RelayIsOpen DEF TcpToWs, TcpToWsData, TcpToWsEnd, TcpToWsCtrl, TcpToWsSend, TcpToWsClose,
                           SessionInv
    <2> QED BY <1>0, <2>1, StillMaps
<1>2. ASSUME NEW n \in 1..ReadMax, TcpToWsData(n) PROVE Relayed!Take
    <2>1. toClient' = toClient /\ t2w = "Select" /\ downRead' = downRead + n
        BY <1>2 DEF TcpToWsData
    <2>2. Shown = downRead
        BY <2>1, SelectShown
    <2>3. downRead' > downRead
        BY <1>0, <2>1, CapAssumption
    <2> QED BY <1>0, <1>1, <2>1, <2>2, <2>3, StillMaps DEF Relayed!Take
<1>3. CASE TcpToWsEnd \/ TcpToWsCtrl
    BY <1>0, <1>1, <1>3, StillMaps DEF TcpToWsEnd, TcpToWsCtrl, Relayed!vars
<1>4. CASE TcpToWsSend
    <2>0. downRead' = downRead /\ t2w = "Send"
        BY <1>4 DEF TcpToWsSend
    <2>1. CASE toClient' = toClient
        BY <1>0, <1>1, <2>0, <2>1, StillMaps DEF Relayed!vars
    <2>2. CASE toClient' = Append(toClient, t2wHand) /\ IsDown(t2wHand)
        <3>1. Shown < downRead
            BY <2>0, <2>2, SendShown
        <3>2. t2wHand.src = 0 /\ t2wHand.data[3] = downRead
            <4>1. IsPiece(t2wHand)
                BY <1>0, <2>0, <2>2, ReplyKind DEF SessionInv, LaneInv, IsDown
            <4> QED BY <2>0, <2>2, <4>1 DEF IsPiece, SessionInv, DownlinkInv
        <3>3. Ends' = Ends \cup {downRead} /\ Answers' = Answers
            BY <1>0, <2>2, <3>2, SendMaps
        <3>4. Ends \in SUBSET Nat /\ \A e \in Ends : e <= downRead
            BY EndsRead DEF SessionInv, DownlinkInv
        <3>5. Shown' = downRead
            <4>1. Ends' \in SUBSET Nat /\ downRead \in Ends' /\ \A e \in Ends' : e <= downRead
                BY <1>0, <3>3, <3>4
            <4> QED BY <4>1, Largest DEF Shown
        <3>6. Relayed!Show
            BY <1>0, <1>1, <2>0, <3>1, <3>3, <3>5, StillMaps DEF Relayed!Show
        <3> QED BY <3>6 DEF Relayed!Next
    <2>3. CASE toClient' = Append(toClient, t2wHand) /\ ~IsDown(t2wHand)
        <3> DEFINE n == t2wHand.src
                   r == <<Len(toClient) + 1, n>>
        <3>1. IsReply(t2wHand, got)
            BY <2>0, <2>3 DEF SessionInv, LaneInv, IsPiece, IsDown
        <3>2. n \in 1..Len(got) /\ n # 0 /\ n \in Asked
            BY <1>0, <3>1, ReplyKind DEF Asked, IsReply
        <3>3. /\ Answers' = Answers \cup {r} /\ Ends' = Ends
              /\ \A q \in Answers : q[1] < Len(toClient) + 1
            BY <1>0, <2>3, <3>2, SendMaps
        <3>4. Shown' = Shown
            BY <3>3 DEF Shown
        <3>5. \A i : i \in Relayed!Unanswered <=> i \in Asked /\ \A a \in DOMAIN toClient : toClient[a].src # i
            <4>1. \A i : i \in Asked => i # 0
                BY <1>0 DEF Asked
            <4>2. \A i : i \in {q[2] : q \in Answers} <=>
                          \E a \in DOMAIN toClient : toClient[a].src # 0 /\ i = toClient[a].src
                <5>1. \A q : q \in Answers <=> \E a \in DOMAIN toClient :
                                  toClient[a].src # 0 /\ q = <<a, toClient[a].src>>
                    BY DEF Answers
                <5>2. ASSUME NEW i, i \in {q[2] : q \in Answers}
                      PROVE  \E a \in DOMAIN toClient : toClient[a].src # 0 /\ i = toClient[a].src
                    <6>1. PICK q \in Answers : i = q[2]
                        BY <5>2
                    <6>2. PICK a \in DOMAIN toClient : toClient[a].src # 0 /\ q = <<a, toClient[a].src>>
                        BY <5>1
                    <6> QED BY <6>1, <6>2
                <5>3. ASSUME NEW a \in DOMAIN toClient, toClient[a].src # 0
                      PROVE  toClient[a].src \in {q[2] : q \in Answers}
                    <6>1. <<a, toClient[a].src>> \in Answers
                        BY <5>1, <5>3
                    <6>2. <<a, toClient[a].src>>[2] = toClient[a].src
                        OBVIOUS
                    <6> QED BY <6>1, <6>2
                <5> QED BY <5>2, <5>3
            <4> QED BY <4>1, <4>2 DEF Relayed!Unanswered
        <3>6. n \in Relayed!Unanswered
            <4>1. \A a \in DOMAIN toClient : toClient[a].src < n
                BY <2>0, <3>2 DEF SessionInv, ControlInv, PipeOrder
            <4>2. \A a \in DOMAIN toClient : toClient[a].src \in Nat
                BY TagsRead DEF SessionInv
            <4> QED BY <1>0, <3>2, <3>5, <4>1, <4>2
        <3>7. ASSUME NEW i \in Relayed!Unanswered PROVE n <= i
            <4>1. i \in DOMAIN got /\ got[i].type \in ControlType /\ \A a \in DOMAIN toClient : toClient[a].src # i
                BY <3>5, <3>7 DEF Asked
            <4>2. UnderWay(i)
                BY <2>0, <4>1 DEF SessionInv, ControlInv, NoneLost
            <4>3. /\ \A c \in DOMAIN ctrl : n < ctrl[c].src
                  /\ w2t = "SendCtrl" => w2tHand.src = Len(got) /\ n < Len(got)
                BY <2>0 DEF SessionInv, ControlInv, PipeOrder, LaneInv
            <4>4. i \in Nat /\ n \in Nat
                BY <1>0, <3>2, <4>1
            <4> QED BY <2>0, <4>1, <4>2, <4>3, <4>4 DEF UnderWay
        <3>8. r[1] = Len(toClient) + 1 /\ r[2] = n
            OBVIOUS
        <3> HIDE DEF r, n
        <3>9. Relayed!Answer
            BY <1>0, <1>1, <2>0, <3>3, <3>4, <3>6, <3>7, <3>8, StillMaps DEF Relayed!Answer
        <3> QED BY <3>9 DEF Relayed!Next
    <2> QED BY <1>4, <2>1, <2>2, <2>3 DEF TcpToWsSend, WsSend, WsSendFails
<1>5. CASE TcpToWsClose
    <2>1. Shown' = Shown /\ Answers' = Answers
        BY <1>0, <1>5, SendHides, ConstantTypes DEF TcpToWsClose, WsSend, WsSendFails, IsDown
    <2> QED BY <1>0, <1>1, <1>5, <2>1, StillMaps DEF TcpToWsClose, Relayed!vars
<1> QED BY <1>2, <1>3, <1>4, <1>5 DEF TcpToWs, Relayed!Next

\* Every step of the session is a step of the Tunnel or leaves it as it is.
LEMMA TunnelNext == SessionInv /\ [Next]_vars => [Relayed!Next]_(Relayed!vars)
<1> SUFFICES ASSUME SessionInv, [Next]_vars PROVE [Relayed!Next]_(Relayed!vars)
    OBVIOUS
<1>1. CASE Client \/ Backend \/ UNCHANGED vars
    <2>1. pc' = pc /\ got' = got /\ toClient' = toClient /\ toBackend' = toBackend /\ downRead' = downRead
        BY <1>1 DEF Client, ClientFrame, Backend, BackendFrame, vars, sessionVars, t2wVars
    <2> QED BY <2>1, StillMaps DEF Relayed!vars
<1> QED BY <1>1, TunnelSession, TunnelUplink, TunnelDownlink DEF Next, Terminated

\* ImplementsTunnel for every client, backend and capacity: the session task, the two
\* relay tasks, the ctrl channel and the sockets together are one Tunnel.
THEOREM TunnelRefinement == Spec => ImplementsTunnel
<1>1. Spec => []SessionInv
    BY PhaseInvariant, UplinkInvariant, LaneInvariant, DownlinkInvariant, ControlInvariant, PTL
       DEF SessionInv
<1> QED BY <1>1, TunnelInit, TunnelNext, PTL DEF Spec, ImplementsTunnel, Relayed!Spec

===============================================================================

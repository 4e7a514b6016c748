-------------------------- MODULE RpchGateway_proofs --------------------------
(*****************************************************************************)
(* Proofs about RpchGateway, for any number of requests, cookies and PDUs.   *)
(*****************************************************************************)
EXTENDS RpchGateway, SequenceTheorems, TLAPS

-----------------------------------------------------------------------------
(* The session state machine.                                                *)

\* An answered request leaves a well-typed session.
LEMMA AdvanceSession ==
    ASSUME NEW s \in Session, NEW m, m.type \in RequestType, m.data \in Seq(Nat)
    PROVE  Advance(s, m) \in Session
<1>1. /\ s.next_tunnel_id \in Nat /\ s.next_tunnel_id + 1 \in Nat
      /\ s.next_channel_id \in Nat /\ s.next_channel_id + 1 \in Nat
    BY DEF Session
<1>2. CASE m.type = "HandshakeRequest"
    BY <1>2 DEF Advance, Session, SessionState
<1>3. CASE m.type = "TunnelCreate"
    <2>1. Advance(s, m) = [s EXCEPT !.state = "AwaitingTunnelAuth",
                                    !.tunnel_id = s.next_tunnel_id,
                                    !.next_tunnel_id = s.next_tunnel_id + 1]
        BY <1>3 DEF Advance
    <2> QED BY <1>1, <2>1 DEF Session, SessionState
<1>4. CASE m.type = "TunnelAuth"
    <2>1. Advance(s, m) = [s EXCEPT !.state = "AwaitingChannelCreate", !.client_name = m.data]
        BY <1>4 DEF Advance
    <2> QED BY <2>1 DEF Session, SessionState
<1>5. CASE m.type = "ChannelCreate"
    <2>1. Advance(s, m) = [s EXCEPT !.state = "DataTransfer",
                                    !.target = m.data,
                                    !.channel_id = s.next_channel_id,
                                    !.next_channel_id = s.next_channel_id + 1]
        BY <1>5 DEF Advance
    <2> QED BY <1>1, <2>1 DEF Session, SessionState
<1> QED BY <1>2, <1>3, <1>4, <1>5 DEF RequestType

-----------------------------------------------------------------------------
(* Type correctness.                                                         *)

\* The types of the items of an OUT stream.
LEMMA ItemTypes ==
    /\ "None" \in ItemType /\ "ConnC2" \in ItemType /\ "BindAck" \in ItemType
    /\ "Response" \in ItemType
BY DEF ItemType

\* An item the gateway builds.
LEMMA ItemInSet ==
    ASSUME NEW t \in ItemType, NEW n \in Nat, NEW d \in Seq(Nat)
    PROVE  Item(t, n, d) \in ItemSet
BY DEF Item, ItemSet

\* The empty hand.
LEMMA NoItemType == NoItem \in ItemSet
<1>1. << >> \in Seq(Nat)
    OBVIOUS
<1> QED BY <1>1, ItemTypes, ItemInSet DEF NoItem

\* The virtual connection keeps its type, and what it is paired by.
LEMMA VConnTypes ==
    /\ NewVConn \in VConn /\ NewVConn.out_call_id = 0
    /\ \A c, o \in Nat : LET v == accept_out_channel(NewVConn, c, o) IN
         v \in VConn /\ v.cookie = c /\ v.out_call_id = o
    /\ \A v \in VConn : /\ accept_in_channel(v) \in VConn /\ enter_data_transfer(v) \in VConn
                        /\ accept_in_channel(v).cookie = v.cookie
                        /\ accept_in_channel(v).out_call_id = v.out_call_id
                        /\ enter_data_transfer(v).cookie = v.cookie
                        /\ enter_data_transfer(v).out_call_id = v.out_call_id
BY DEF NewVConn, VConn, VirtualConnectionState, accept_out_channel, accept_in_channel,
       enter_data_transfer

\* A TSG call the session does not refuse leaves a well-typed session and stub.
LEMMA OpnumTypes ==
    ASSUME NEW s \in Session, NEW n \in Nat
    PROVE  /\ OpnumSession(s, n) \in Session
           /\ \A t \in Session : OpnumStub(t, n) \in Seq(Nat)
<1>1. /\ TsgHandshake.type \in RequestType /\ TsgTunnelCreate.type \in RequestType
      /\ TsgTunnelAuth.type \in RequestType /\ TsgChannelCreate.type \in RequestType
    BY DEF TsgHandshake, TsgTunnelCreate, TsgTunnelAuth, TsgChannelCreate, Message, RequestType
<1>2. /\ TsgHandshake.data \in Seq(Nat) /\ TsgTunnelCreate.data \in Seq(Nat)
      /\ TsgTunnelAuth.data \in Seq(Nat) /\ TsgChannelCreate.data \in Seq(Nat)
    BY DEF TsgHandshake, TsgTunnelCreate, TsgTunnelAuth, TsgChannelCreate, Message
<1>3. Advance(s, TsgHandshake) \in Session
    BY <1>1, <1>2, AdvanceSession
<1>4. OpnumSession(s, n) \in Session
    BY <1>1, <1>2, <1>3, AdvanceSession DEF OpnumSession
<1>5. ASSUME NEW t \in Session
      PROVE  OpnumStub(t, n) \in Seq(Nat)
    <2>1. t.tunnel_id \in Nat /\ t.channel_id \in Nat
        BY DEF Session
    <2> QED BY <2>1 DEF OpnumStub
<1> QED BY <1>4, <1>5

\* The buffer of an IN request lies between the PDUs taken and those the client sent,
\* and a request that has not come to its CONN/B1 has taken and holds nothing.
BufferOK ==
    /\ \A i \in InReq : /\ Units * done[i] <= arrived[i] /\ arrived[i] <= size[i]
                        /\ size[i] <= Units * Len(pdus[i])
    /\ \A i \in InReq : inPc[i] \in {"Idle", "First"} => done[i] = 0 /\ out_tx[i] = 0 /\ Served(i) = 0

\* With enough of the next PDU in the buffer, it is a PDU the client sent.
LEMMA CurrentPdu ==
    ASSUME TypeOK, BufferOK, NEW i \in InReq, Buffered(i) >= 1
    PROVE  /\ done[i] + 1 \in 1..Len(pdus[i]) /\ Current(i) \in Pdu
           /\ Current(i).arg \in Nat /\ Current(i).type \in PduType
<1>1. /\ done[i] \in Nat /\ arrived[i] \in Nat /\ size[i] \in Nat /\ pdus[i] \in Seq(Pdu)
      /\ Units * done[i] <= arrived[i] /\ arrived[i] <= size[i] /\ size[i] <= Units * Len(pdus[i])
    BY DEF TypeOK, BufferOK
<1>2. done[i] + 1 \in 1..Len(pdus[i])
    BY <1>1 DEF Buffered, Units
<1>3. Current(i) \in Pdu
    BY <1>1, <1>2 DEF Current
<1> QED BY <1>2, <1>3, PduAssumption

\* Initially every variable has its type.
LEMMA TypeInit == Init => TypeOK
<1> SUFFICES ASSUME Init PROVE TypeOK
    OBVIOUS
<1>1. NewSession \in Session
    BY DEF NewSession, Session, SessionState
<1>2. NoItem \in ItemSet
    BY NoItemType
<1>3. session \in [InReq -> Session] /\ hand \in [InReq -> ItemSet] /\ vconn \in [InReq -> VConn]
    BY <1>1, <1>2, VConnTypes DEF Init
<1>4. queue \in [OutReq -> Seq(ItemSet)] /\ body \in [OutReq -> Seq(ItemSet)]
    BY DEF Init
<1>5. pdus \in [InReq -> Seq(Pdu)] /\ bodyEnd \in [InReq -> BOOLEAN] /\ bound \in [InReq -> BOOLEAN]
    BY DEF Init
<1>6. DOMAIN pending \subseteq Cookie /\ pending \in [DOMAIN pending -> [vconn : VConn, out_sender : OutReq]]
    BY DEF Init
<1> QED BY <1>3, <1>4, <1>5, <1>6 DEF Init, TypeOK, Running

\* The steps of an OUT request keep the types.
LEMMA OutType ==
    ASSUME TypeOK, NEW o \in OutReq, OutServe(o) \/ OutClient(o)
    PROVE  TypeOK'
<1> USE DEF outVars, inClientVars, handlerVars
<1>1. ASSUME NEW c \in Cookie, OutAccept(o, c), UNCHANGED <<inClientVars, handlerVars>>
      PROVE  TypeOK'
    <2> DEFINE e == [vconn |-> accept_out_channel(NewVConn, c, o), out_sender |-> o]
    <2>1. e \in [vconn : VConn, out_sender : OutReq]
        BY VConnTypes, PduAssumption, RequestAssumption
    <2>2. pending' = Insert(c, e)
        BY <1>1 DEF OutAccept
    <2> HIDE DEF e
    <2>3. DOMAIN pending' \subseteq Cookie
          /\ pending' \in [DOMAIN pending' -> [vconn : VConn, out_sender : OutReq]]
        BY <2>1, <2>2 DEF Insert, TypeOK
    <2>4. out' \in [OutReq -> {"idle", "open", "ended", "gone", "rejected"}]
        BY <1>1 DEF OutAccept, TypeOK
    <2>5. UNCHANGED <<queue, body>>
        BY <1>1 DEF OutAccept
    <2> QED BY <1>1, <2>3, <2>4, <2>5 DEF TypeOK
<1>2. ASSUME OutReject(o) \/ OutFinish(o), UNCHANGED <<inClientVars, handlerVars>>
      PROVE  TypeOK'
    <2>1. out' \in [OutReq -> {"idle", "open", "ended", "gone", "rejected"}]
        BY <1>2 DEF OutReject, OutFinish, TypeOK
    <2>2. UNCHANGED <<queue, body, pending>>
        BY <1>2 DEF OutReject, OutFinish
    <2> QED BY <1>2, <2>1, <2>2 DEF TypeOK
<1>3. ASSUME OutStream(o), UNCHANGED <<inClientVars, handlerVars>>
      PROVE  TypeOK'
    <2>1. queue[o] \in Seq(ItemSet) /\ body[o] \in Seq(ItemSet) /\ queue[o] # << >>
        BY <1>3 DEF OutStream, TypeOK
    <2>2. Tail(queue[o]) \in Seq(ItemSet) /\ Append(body[o], Head(queue[o])) \in Seq(ItemSet)
        BY <2>1
    <2>3. queue' \in [OutReq -> Seq(ItemSet)] /\ body' \in [OutReq -> Seq(ItemSet)]
        BY <1>3, <2>2 DEF OutStream, TypeOK
    <2>4. UNCHANGED <<out, pending>>
        BY <1>3 DEF OutStream
    <2> QED BY <1>3, <2>3, <2>4 DEF TypeOK
<1>4. ASSUME OutDisconnect(o), UNCHANGED <<inClientVars, handlerVars>>
      PROVE  TypeOK'
    <2>1. out' \in [OutReq -> {"idle", "open", "ended", "gone", "rejected"}]
        BY <1>4 DEF OutDisconnect, TypeOK
    <2>2. queue' \in [OutReq -> Seq(ItemSet)]
        BY <1>4 DEF OutDisconnect, TypeOK
    <2>3. UNCHANGED <<body, pending>>
        BY <1>4 DEF OutDisconnect
    <2> QED BY <1>4, <2>1, <2>2, <2>3 DEF TypeOK
<1> QED BY <1>1, <1>2, <1>3, <1>4 DEF OutServe, OutClient

\* The steps of an IN client keep the types.
LEMMA InClientType ==
    ASSUME TypeOK, NEW i \in InReq, InClient(i)
    PROVE  TypeOK'
<1> USE DEF outVars, inClientVars, handlerVars
<1>1. CASE InOpen(i)
    BY <1>1 DEF InOpen, TypeOK, Running
<1>2. CASE InSendPdu(i)
    <2>1. pdus' \in [InReq -> Seq(Pdu)]
        <3>1. PICK p \in Pdu : pdus' = [pdus EXCEPT ![i] = Append(@, p)]
            BY <1>2 DEF InSendPdu
        <3>2. Append(pdus[i], p) \in Seq(Pdu)
            BY DEF TypeOK
        <3> QED BY <3>1, <3>2 DEF TypeOK
    <2>2. size' \in [InReq -> Nat]
        BY <1>2 DEF InSendPdu, TypeOK, Units
    <2> QED BY <1>2, <2>1, <2>2 DEF InSendPdu, TypeOK
<1>3. CASE InEndBody(i)
    <2>1. size' \in [InReq -> Nat]
        BY <1>3 DEF InEndBody, TypeOK
    <2>2. bodyEnd' \in [InReq -> BOOLEAN]
        BY <1>3 DEF InEndBody, TypeOK
    <2> QED BY <1>3, <2>1, <2>2 DEF InEndBody, TypeOK
<1>4. CASE InDrop(i)
    BY <1>4 DEF InDrop, End, TypeOK, Running
<1> QED BY <1>1, <1>2, <1>3, <1>4 DEF InClient

\* The steps of an IN handler keep the types.
LEMMA InHandlerType ==
    ASSUME TypeOK, BufferOK, NEW i \in InReq, InHandler(i)
    PROVE  TypeOK'
<1> USE DEF outVars, inClientVars, handlerVars
<1>1. ASSUME NEW n \in Nat, InFrame(i, n)
      PROVE  TypeOK'
    BY <1>1 DEF InFrame, TypeOK
<1>2. CASE InBodyEnds(i)
    BY <1>2 DEF InBodyEnds, End, TypeOK, Running
<1>3. CASE InFirst(i)
    <2> DEFINE c == Current(i).arg
    <2>1. done' \in [InReq -> Nat]
        BY <1>3 DEF InFirst, TypeOK
    <2>2. UNCHANGED <<outVars, inClientVars, arrived>>
        BY <1>3 DEF InFirst
    <2>3. CASE End(i, "Err400") /\ UNCHANGED pending
        BY <2>1, <2>2, <2>3 DEF End, TypeOK, Running
    <2>4. CASE c \in DOMAIN pending /\ pending' = Remove(c)
        <3>1. /\ DOMAIN pending' \subseteq Cookie
              /\ pending' \in [DOMAIN pending' -> [vconn : VConn, out_sender : OutReq]]
            BY <2>4 DEF Remove, TypeOK
        <3>2. CASE End(i, "Err500") \/ End(i, "Err400")
            BY <2>1, <2>2, <3>1, <3>2 DEF End, TypeOK, Running
        <3>3. CASE /\ out_tx' = [out_tx EXCEPT ![i] = pending[c].out_sender]
                   /\ vconn' = [vconn EXCEPT ![i] = accept_in_channel(pending[c].vconn)]
                   /\ Push(i, Item("ConnC2", pending[c].vconn.out_call_id, << >>))
                   /\ UNCHANGED <<session, bound>>
            <4>1. pending[c].vconn \in VConn /\ pending[c].out_sender \in OutReq
                BY <2>4 DEF TypeOK
            <4>2. pending[c].vconn.out_call_id \in Nat /\ << >> \in Seq(Nat)
                BY <4>1 DEF VConn
            <4>3. Item("ConnC2", pending[c].vconn.out_call_id, << >>) \in ItemSet
                BY <4>2, ItemTypes, ItemInSet
            <4>4. hand' \in [InReq -> ItemSet]
                BY <3>3, <4>3 DEF Push, TypeOK
            <4>5. accept_in_channel(pending[c].vconn) \in VConn
                BY <4>1, VConnTypes
            <4>6. vconn' \in [InReq -> VConn]
                BY <3>3, <4>5 DEF TypeOK
            <4>7. out_tx' \in [InReq -> OutReq \cup {0}]
                BY <3>3, <4>1 DEF TypeOK
            <4> QED BY <2>1, <2>2, <3>1, <3>3, <4>4, <4>6, <4>7 DEF Push, TypeOK, Running
        <3> QED BY <1>3, <2>4, <3>2, <3>3 DEF InFirst
    <2> QED BY <1>3, <2>3, <2>4 DEF InFirst
<1>4. CASE InPush(i)
    <2>1. UNCHANGED <<out, body, pending, inClientVars, arrived, done>>
        BY <1>4 DEF InPush
    <2>2. CASE End(i, "Err500") /\ UNCHANGED queue
        BY <2>1, <2>2 DEF End, TypeOK, Running
    <2>3. CASE /\ queue' = [queue EXCEPT ![out_tx[i]] = Append(@, hand[i])]
               /\ inPc' = [inPc EXCEPT ![i] = "Loop"]
               /\ bound' = [bound EXCEPT ![i] = @ \/ hand[i].type = "BindAck"]
               /\ hand' = [hand EXCEPT ![i] = NoItem]
               /\ UNCHANGED <<out_tx, vconn, session>>
        <3>1. hand[i] \in ItemSet /\ \A o \in OutReq : Append(queue[o], hand[i]) \in Seq(ItemSet)
            BY DEF TypeOK
        <3>2. queue' \in [OutReq -> Seq(ItemSet)]
            BY <2>3, <3>1 DEF TypeOK
        <3>3. hand' \in [InReq -> ItemSet]
            BY <2>3, NoItemType DEF TypeOK
        <3>4. bound' \in [InReq -> BOOLEAN]
            BY <2>3 DEF TypeOK
        <3> QED BY <2>1, <2>3, <3>2, <3>3, <3>4 DEF TypeOK, Running
    <2> QED BY <1>4, <2>2, <2>3 DEF InPush
<1>5. CASE InPdu(i)
    <2> DEFINE p == Current(i)
               t == OpnumSession(session[i], p.arg)
    <2>1. UNCHANGED <<outVars, pending, inClientVars, arrived>>
        BY <1>5 DEF InPdu
    <2>2. CASE End(i, "Err500") /\ UNCHANGED done
        BY <2>1, <2>2 DEF End, TypeOK, Running
    <2>3. CASE done' = [done EXCEPT ![i] = @ + 1] /\ UNCHANGED <<inPc, out_tx, vconn, session, bound, hand>>
        BY <2>1, <2>3 DEF TypeOK
    <2>4. Buffered(i) >= 1 /\ session[i] \in Session /\ done[i] + 1 \in Nat /\ << >> \in Seq(Nat)
        BY <1>5 DEF InPdu, Units, Buffered, TypeOK
    <2>5. p.arg \in Nat
        BY <2>4, CurrentPdu
    <2>6. CASE /\ done' = [done EXCEPT ![i] = @ + 1]
               /\ vconn' = [vconn EXCEPT ![i] = enter_data_transfer(@)]
               /\ Push(i, Item("BindAck", done[i] + 1, << >>))
               /\ UNCHANGED <<out_tx, session, bound>>
        <3>1. hand' \in [InReq -> ItemSet]
            BY <2>4, <2>6, ItemTypes, ItemInSet DEF Push, TypeOK
        <3>2. vconn' \in [InReq -> VConn]
            BY <2>6, VConnTypes DEF TypeOK
        <3> QED BY <2>1, <2>6, <3>1, <3>2 DEF Push, TypeOK, Running
    <2>7. CASE /\ done' = [done EXCEPT ![i] = @ + 1]
               /\ session' = [session EXCEPT ![i] = t]
               /\ Push(i, Item("Response", done[i] + 1, OpnumStub(t, p.arg)))
               /\ UNCHANGED <<out_tx, vconn, bound>>
        <3>1. t \in Session /\ OpnumStub(t, p.arg) \in Seq(Nat)
            BY <2>4, <2>5, OpnumTypes
        <3>2. Item("Response", done[i] + 1, OpnumStub(t, p.arg)) \in ItemSet
            BY <2>4, <3>1, ItemTypes, ItemInSet
        <3> HIDE DEF t, p
        <3>3. hand' \in [InReq -> ItemSet]
            BY <2>7, <3>2 DEF Push, TypeOK
        <3>4. session' \in [InReq -> Session]
            BY <2>7, <3>1 DEF TypeOK
        <3> QED BY <2>1, <2>7, <3>3, <3>4 DEF Push, TypeOK, Running
    <2> QED BY <1>5, <2>2, <2>3, <2>6, <2>7 DEF InPdu
<1> QED BY <1>1, <1>2, <1>3, <1>4, <1>5 DEF InHandler

\* Every step keeps the types.
LEMMA TypeNext == TypeOK /\ BufferOK /\ [Next]_vars => TypeOK'
<1> SUFFICES ASSUME TypeOK, BufferOK, [Next]_vars PROVE TypeOK'
    OBVIOUS
<1>1. CASE UNCHANGED vars
    BY <1>1 DEF vars, outVars, inClientVars, handlerVars, TypeOK
<1> QED BY <1>1, OutType, InClientType, InHandlerType DEF Next, Terminated

\* Initially nothing is buffered.
LEMMA BufferInit == Init => BufferOK
BY VConnTypes DEF Init, BufferOK, Units, Served

\* Every step keeps the buffers in bounds.
LEMMA BufferNext == TypeOK /\ BufferOK /\ [Next]_vars => BufferOK'
<1> SUFFICES ASSUME TypeOK, BufferOK, [Next]_vars PROVE BufferOK'
    OBVIOUS
<1> USE DEF inClientVars, handlerVars, Units
<1>1. ASSUME NEW o \in OutReq, OutServe(o) \/ OutClient(o)
      PROVE  BufferOK'
    BY <1>1 DEF OutServe, OutClient, BufferOK, Served
<1>2. ASSUME NEW i \in InReq, InClient(i)
      PROVE  BufferOK'
    <2>1. CASE InOpen(i)
        BY <1>2, <2>1 DEF InOpen, BufferOK, TypeOK, Served
    <2>2. CASE InSendPdu(i)
        BY <1>2, <2>2 DEF InSendPdu, BufferOK, TypeOK, Served
    <2>3. CASE InEndBody(i)
        BY <1>2, <2>3 DEF InEndBody, BufferOK, TypeOK, Served
    <2>4. CASE InDrop(i)
        BY <1>2, <2>4 DEF InDrop, End, BufferOK, TypeOK, Served, Running
    <2> QED BY <1>2, <2>1, <2>2, <2>3, <2>4 DEF InClient
<1>3. ASSUME NEW i \in InReq, InHandler(i)
      PROVE  BufferOK'
    <2>1. ASSUME NEW n \in Nat, InFrame(i, n)
          PROVE  BufferOK'
        BY <1>3, <2>1 DEF InFrame, BufferOK, TypeOK, Served
    <2>2. CASE InBodyEnds(i)
        BY <1>3, <2>2 DEF InBodyEnds, End, BufferOK, TypeOK, Served
    <2>3. CASE InFirst(i)
        <3>1. /\ done' = [done EXCEPT ![i] = 1] /\ UNCHANGED <<arrived, size, pdus>>
              /\ inPc[i] = "First" /\ Buffered(i) >= Units
            BY <2>3 DEF InFirst
        <3>2. arrived[i] >= 3 /\ \A k \in InReq : done'[k] = IF k = i THEN 1 ELSE done[k]
            BY <1>3, <3>1 DEF Buffered, TypeOK, BufferOK
        <3>3. /\ inPc'[i] \notin {"Idle", "First"}
              /\ \A k \in InReq \ {i} : /\ inPc'[k] = inPc[k] /\ out_tx'[k] = out_tx[k]
                                        /\ vconn'[k] = vconn[k]
            BY <1>3, <2>3 DEF InFirst, End, Push, TypeOK
        <3> QED BY <1>3, <3>1, <3>2, <3>3 DEF BufferOK, TypeOK, Served
    <2>4. CASE InPush(i)
        BY <1>3, <2>4 DEF InPush, End, BufferOK, TypeOK, Served
    <2>5. CASE InPdu(i)
        <3>1. /\ UNCHANGED <<arrived, size, pdus>> /\ inPc[i] = "Loop"
              /\ \/ done' = done
                 \/ done' = [done EXCEPT ![i] = @ + 1] /\ Buffered(i) >= Units
            BY <2>5 DEF InPdu
        <3>2. \A k \in InReq : \/ done'[k] = done[k]
                               \/ k = i /\ done'[k] = done[k] + 1 /\ arrived[k] >= 3 * done[k] + 3
            BY <1>3, <3>1 DEF Buffered, TypeOK
        <3>3. /\ inPc'[i] \notin {"Idle", "First"}
              /\ \A k \in InReq \ {i} : /\ inPc'[k] = inPc[k] /\ out_tx'[k] = out_tx[k]
                                        /\ vconn'[k] = vconn[k]
            BY <1>3, <2>5, <3>1 DEF InPdu, End, Push, TypeOK
        <3>4. ASSUME NEW k \in InReq
              PROVE  3 * done'[k] <= arrived'[k] /\ arrived'[k] <= size'[k] /\ size'[k] <= 3 * Len(pdus'[k])
            <4>1. /\ done[k] \in Nat /\ 3 * done[k] <= arrived[k] /\ arrived[k] <= size[k]
                  /\ size[k] <= 3 * Len(pdus[k])
                BY DEF TypeOK, BufferOK
            <4> QED BY <3>1, <3>2, <4>1
        <3>5. ASSUME NEW k \in InReq, inPc'[k] \in {"Idle", "First"}
              PROVE  done'[k] = 0 /\ out_tx'[k] = 0 /\ vconn'[k].out_call_id = 0
            <4>1. k # i /\ inPc[k] \in {"Idle", "First"} /\ done'[k] = done[k]
                BY <3>2, <3>3, <3>5
            <4> QED BY <3>3, <4>1 DEF BufferOK, Served
        <3> QED BY <3>4, <3>5 DEF BufferOK, Served
    <2> QED BY <1>3, <2>1, <2>2, <2>3, <2>4, <2>5 DEF InHandler
<1>4. CASE UNCHANGED vars
    BY <1>4 DEF vars, BufferOK, Served
<1> QED BY <1>1, <1>2, <1>3, <1>4 DEF Next, Terminated

\* Every variable keeps its type in every behaviour, and no handler takes more of a body
\* than has come.
THEOREM TypeCorrect == Spec => [](TypeOK /\ BufferOK)
BY TypeInit, TypeNext, BufferInit, BufferNext, PTL DEF Spec

-----------------------------------------------------------------------------
(* Pairing.                                                                  *)

\* An OUT request that has not come is not in the map and was never paired.
FreshInv ==
    \A o \in OutReq : out[o] = "idle" =>
        /\ \A c \in DOMAIN pending : pending[c].out_sender # o
        /\ \A i \in InReq : Served(i) # o

PairInv == FreshInv /\ ExclusivePairing

\* Initially the map is empty.
LEMMA PairInit == Init => PairInv
BY VConnTypes DEF Init, PairInv, FreshInv, ExclusivePairing, Served

\* A step that changes neither the map nor what the IN requests were paired with keeps
\* the pairing: it may drop senders, extend bodies and take PDUs.
LEMMA PairFrame ==
    ASSUME TypeOK, BufferOK, PairInv, TypeOK',
           UNCHANGED pending,
           \A o \in OutReq : out'[o] = "idle" => out[o] = "idle",
           \A i \in InReq : /\ Served(i)' = Served(i) /\ vconn'[i].cookie = vconn[i].cookie
                            /\ out_tx'[i] \in {out_tx[i], 0} /\ done'[i] >= done[i]
                            /\ Len(pdus[i]) >= 1 => pdus'[i][1] = pdus[i][1]
    PROVE  PairInv'
<1>1. FreshInv'
    BY DEF PairInv, FreshInv
<1>2. ASSUME NEW i \in InReq, Served(i) # 0
      PROVE  /\ out_tx'[i] \in {0, Served(i)'} /\ done'[i] >= 1
             /\ pdus'[i][1] = pdus[i][1] /\ vconn'[i].cookie = vconn[i].cookie
    <2>1. /\ done[i] >= 1 /\ done[i] \in Nat /\ done'[i] \in Nat /\ Len(pdus[i]) >= 1
          /\ done'[i] >= done[i]
        <3>1. /\ done[i] >= 1 /\ done[i] \in Nat /\ done'[i] \in Nat /\ Len(pdus[i]) \in Nat
              /\ arrived[i] \in Nat /\ size[i] \in Nat
            BY <1>2 DEF PairInv, ExclusivePairing, TypeOK
        <3>2. 3 * done[i] <= arrived[i] /\ arrived[i] <= size[i] /\ size[i] <= 3 * Len(pdus[i])
            BY DEF BufferOK, Units
        <3> QED BY <3>1, <3>2
    <2>2. done'[i] >= 1
        BY <2>1
    <2> QED BY <1>2, <2>1, <2>2 DEF PairInv, ExclusivePairing
<1>3. ExclusivePairing'
    BY <1>2 DEF PairInv, ExclusivePairing
<1> QED BY <1>1, <1>3 DEF PairInv

\* A new OUT request brings a sender nobody has; the entry it replaces is dropped.
LEMMA PairAccept ==
    ASSUME TypeOK, PairInv, NEW o \in OutReq, NEW c \in Cookie, OutAccept(o, c),
           UNCHANGED <<inClientVars, handlerVars>>
    PROVE  PairInv'
<1> DEFINE e == [vconn |-> accept_out_channel(NewVConn, c, o), out_sender |-> o]
<1>1. /\ pending' = Insert(c, e) /\ out[o] = "idle" /\ out' = [out EXCEPT ![o] = "open"]
      /\ UNCHANGED <<pdus, done, out_tx, vconn>>
    BY DEF OutAccept, inClientVars, handlerVars
<1>2. e.vconn.cookie = c /\ e.vconn.out_call_id = o /\ e.out_sender = o
    BY VConnTypes, PduAssumption, RequestAssumption
<1> HIDE DEF e
<1>3. /\ DOMAIN pending' = DOMAIN pending \cup {c} /\ pending'[c] = e
      /\ \A d \in DOMAIN pending \ {c} : pending'[d] = pending[d]
    BY <1>1 DEF Insert
<1>4. \A i \in InReq : Served(i)' = Served(i) /\ Served(i) # o
    BY <1>1 DEF PairInv, FreshInv, Served
<1>5. \A d \in DOMAIN pending : pending[d].out_sender # o
    BY <1>1 DEF PairInv, FreshInv
<1>6. FreshInv'
    BY <1>1, <1>2, <1>3, <1>4 DEF PairInv, FreshInv, TypeOK
<1>7. ExclusivePairing'
    BY <1>1, <1>2, <1>3, <1>4, <1>5 DEF PairInv, ExclusivePairing
<1> QED BY <1>6, <1>7 DEF PairInv

\* An IN request takes an entry out of the map: from then on its OUT request is its own.
LEMMA PairFirst ==
    ASSUME TypeOK, BufferOK, PairInv, TypeOK', NEW i \in InReq, InFirst(i)
    PROVE  PairInv'
<1> DEFINE p == Current(i)
           c == p.arg
<1>1. /\ inPc[i] = "First" /\ Served(i) = 0 /\ done[i] = 0 /\ done' = [done EXCEPT ![i] = 1]
      /\ UNCHANGED <<out, pdus>>
    BY DEF InFirst, BufferOK, outVars, inClientVars
<1>2. CASE (End(i, "Err400") \/ End(i, "Err500")) /\ UNCHANGED pending
    <2>1. \A k \in InReq : done[k] \in Nat /\ out_tx' = [out_tx EXCEPT ![i] = 0] /\ UNCHANGED vconn
        BY <1>2 DEF End, TypeOK
    <2>2. out_tx \in [InReq -> OutReq \cup {0}] /\ done \in [InReq -> Nat]
        BY DEF TypeOK
    <2>3. \A k \in InReq : /\ Served(k)' = Served(k) /\ vconn'[k].cookie = vconn[k].cookie
                           /\ out_tx'[k] \in {out_tx[k], 0} /\ done'[k] >= done[k]
                           /\ pdus'[k][1] = pdus[k][1]
        BY <1>1, <2>1, <2>2 DEF Served
    <2> QED BY <1>1, <1>2, <2>3, PairFrame
<1>3. CASE (End(i, "Err400") \/ End(i, "Err500")) /\ pending' = Remove(c)
    <2>1. /\ DOMAIN pending' \subseteq DOMAIN pending
          /\ \A d \in DOMAIN pending' : pending'[d] = pending[d]
        BY <1>3 DEF Remove
    <2>2. FreshInv'
        BY <1>1, <1>3, <2>1 DEF End, PairInv, FreshInv, Served
    <2>3. ExclusivePairing'
        <3>1. out_tx' = [out_tx EXCEPT ![i] = 0] /\ UNCHANGED vconn
            BY <1>3 DEF End
        <3>2. out_tx \in [InReq -> OutReq \cup {0}] /\ done \in [InReq -> Nat]
            BY DEF TypeOK
        <3>3. \A k \in InReq : /\ Served(k)' = Served(k) /\ vconn'[k] = vconn[k]
                               /\ out_tx'[k] \in {out_tx[k], 0} /\ (Served(k) # 0 => done'[k] = done[k])
            BY <1>1, <3>1, <3>2 DEF Served
        <3> QED BY <1>1, <2>1, <3>3 DEF PairInv, ExclusivePairing
    <2> QED BY <2>2, <2>3 DEF PairInv
<1>4. CASE /\ p.type = "ConnB1" /\ c \in DOMAIN pending
           /\ pending' = Remove(c)
           /\ out_tx' = [out_tx EXCEPT ![i] = pending[c].out_sender]
           /\ vconn' = [vconn EXCEPT ![i] = accept_in_channel(pending[c].vconn)]
    <2> DEFINE o == pending[c].out_sender
    <2>1. /\ DOMAIN pending' = DOMAIN pending \ {c}
          /\ \A d \in DOMAIN pending' : pending'[d] = pending[d]
        BY <1>4 DEF Remove
    <2>2. /\ pending[c].vconn \in VConn /\ pending[c].vconn.cookie = c
          /\ pending[c].vconn.out_call_id = o /\ o \in OutReq
        BY <1>4 DEF PairInv, ExclusivePairing, TypeOK
    <2>3. /\ Served(i)' = o /\ vconn'[i].cookie = c /\ out_tx'[i] = o /\ done'[i] = 1
          /\ \A j \in InReq \ {i} : /\ Served(j)' = Served(j) /\ vconn'[j] = vconn[j]
                                    /\ out_tx'[j] = out_tx[j] /\ done'[j] = done[j]
        BY <1>1, <1>4, <2>2, VConnTypes DEF Served, TypeOK
    <2>4. pdus[i][1].type = "ConnB1" /\ pdus[i][1].arg = c
        BY <1>1, <1>4 DEF Current
    <2> HIDE DEF p, c
    <2>5. /\ \A j \in InReq : Served(j) # o
          /\ \A d \in DOMAIN pending' : pending'[d].out_sender # o
        BY <1>4, <2>1 DEF PairInv, ExclusivePairing
    <2> HIDE DEF o
    <2>6. out[o] # "idle"
        BY <1>4, <2>2 DEF PairInv, FreshInv, o
    <2>7. FreshInv'
        BY <1>1, <2>1, <2>3, <2>6 DEF PairInv, FreshInv
    <2>8. ExclusivePairing'
        BY <1>1, <2>1, <2>3, <2>4, <2>5 DEF PairInv, ExclusivePairing
    <2> QED BY <2>7, <2>8 DEF PairInv
<1> QED BY <1>2, <1>3, <1>4 DEF InFirst

\* Every step keeps the pairing.
LEMMA PairNext == TypeOK /\ BufferOK /\ PairInv /\ [Next]_vars => PairInv'
<1> SUFFICES ASSUME TypeOK, BufferOK, PairInv, [Next]_vars PROVE PairInv'
    OBVIOUS
<1>0. TypeOK'
    BY TypeNext
<1> USE DEF inClientVars, handlerVars
<1>1. ASSUME NEW o \in OutReq, OutServe(o) \/ OutClient(o)
      PROVE  PairInv'
    <2>1. UNCHANGED <<inClientVars, handlerVars>>
        BY <1>1 DEF OutServe, OutClient
    <2>2. ASSUME NEW c \in Cookie, OutAccept(o, c)
          PROVE  PairInv'
        BY <2>1, <2>2, PairAccept
    <2>3. ASSUME OutReject(o) \/ OutFinish(o) \/ OutStream(o) \/ OutDisconnect(o)
          PROVE  PairInv'
        <3>1. UNCHANGED pending /\ \A q \in OutReq : out'[q] = "idle" => out[q] = "idle"
            BY <2>3 DEF OutReject, OutFinish, OutStream, OutDisconnect, TypeOK
        <3>2. \A k \in InReq : /\ Served(k)' = Served(k) /\ vconn'[k].cookie = vconn[k].cookie
                               /\ out_tx'[k] \in {out_tx[k], 0} /\ done'[k] >= done[k]
                               /\ pdus'[k][1] = pdus[k][1]
            BY <2>1 DEF Served, TypeOK
        <3> QED BY <1>0, <3>1, <3>2, PairFrame
    <2> QED BY <1>1, <2>2, <2>3 DEF OutServe, OutClient
<1>2. ASSUME NEW i \in InReq, InFirst(i)
      PROVE  PairInv'
    BY <1>0, <1>2, PairFirst
<1>3. ASSUME NEW i \in InReq, InClient(i) \/ (InHandler(i) /\ ~InFirst(i))
      PROVE  PairInv'
    <2>1. UNCHANGED <<out, pending>>
        BY <1>3 DEF InClient, InOpen, InSendPdu, InEndBody, InDrop, InHandler, InFrame, InBodyEnds, InPush,
                    InPdu, outVars
    <2>2. ASSUME NEW k \in InReq
          PROVE  Served(k)' = Served(k) /\ vconn'[k].cookie = vconn[k].cookie
        <3>1. vconn' = vconn \/ vconn' = [vconn EXCEPT ![i] = enter_data_transfer(@)]
            BY <1>3 DEF InClient, InOpen, InSendPdu, InEndBody, InDrop, End, InHandler, InFrame, InBodyEnds,
                        InPush, InPdu
        <3>2. vconn \in [InReq -> VConn]
            BY DEF TypeOK
        <3>3. vconn'[k] \in {vconn[k], enter_data_transfer(vconn[k])}
            BY <3>1, <3>2
        <3> QED BY <3>2, <3>3, VConnTypes DEF Served
    <2>3. ASSUME NEW k \in InReq
          PROVE  out_tx'[k] \in {out_tx[k], 0}
        <3>1. out_tx' = out_tx \/ out_tx' = [out_tx EXCEPT ![i] = 0]
            BY <1>3 DEF InClient, InOpen, InSendPdu, InEndBody, InDrop, End, InHandler, InFrame, InBodyEnds,
                        InPush, InPdu
        <3> QED BY <3>1 DEF TypeOK
    <2>4. ASSUME NEW k \in InReq
          PROVE  done'[k] >= done[k]
        <3>1. done' = done \/ done' = [done EXCEPT ![i] = @ + 1]
            BY <1>3 DEF InClient, InOpen, InSendPdu, InEndBody, InDrop, InHandler, InFrame, InBodyEnds,
                        InPush, InPdu
        <3>2. done \in [InReq -> Nat]
            BY DEF TypeOK
        <3> QED BY <3>1, <3>2
    <2>5. ASSUME NEW k \in InReq, Len(pdus[k]) >= 1
          PROVE  pdus'[k][1] = pdus[k][1]
        <3>1. pdus' = pdus \/ \E q \in Pdu : pdus' = [pdus EXCEPT ![i] = Append(@, q)]
            BY <1>3 DEF InClient, InOpen, InSendPdu, InEndBody, InDrop, InHandler, InFrame, InBodyEnds,
                        InPush, InPdu
        <3>2. pdus[k] \in Seq(Pdu) /\ pdus \in [InReq -> Seq(Pdu)]
            BY DEF TypeOK
        <3>3. \A q \in Pdu : Append(pdus[k], q)[1] = pdus[k][1]
            BY <2>5, <3>2
        <3> QED BY <3>1, <3>2, <3>3
    <2> QED BY <1>0, <2>1, <2>2, <2>3, <2>4, <2>5, PairFrame
<1>4. CASE UNCHANGED vars
    BY <1>0, <1>4, PairFrame DEF vars, outVars, Served, TypeOK
<1> QED BY <1>1, <1>2, <1>3, <1>4 DEF Next, Terminated

\* ExclusivePairing for any number of clients and cookies: the map under its lock never
\* gives one OUT response to two IN requests.
THEOREM PairingSafety == Spec => []ExclusivePairing
<1>1. PairInv => ExclusivePairing
    BY DEF PairInv
<1> QED BY <1>1, TypeInit, TypeNext, BufferInit, BufferNext, PairInit, PairNext, PTL DEF Spec

-----------------------------------------------------------------------------
(* Senders: a handler holds the one of its OUT request, so the response is   *)
(* not completed under it.                                                   *)

\* A handler that goes on holds the sender of the OUT request it was paired with; a
\* paired OUT request has come, and one in the map has not ended.
LinkInv ==
    /\ \A i \in InReq : inPc[i] \in {"Send", "Loop"} => Served(i) # 0 /\ out_tx[i] = Served(i)
    /\ \A i \in InReq : inPc[i] \in {"Idle", "First"} => ~bound[i]
    /\ \A i \in InReq : Served(i) # 0 => Served(i) \in OutReq /\ out[Served(i)] \in {"open", "ended", "gone"}
    /\ \A c \in DOMAIN pending : out[pending[c].out_sender] \in {"open", "gone"}

\* Initially no request was paired.
LEMMA LinkInit == Init => LinkInv /\ CompleteStream
BY VConnTypes DEF Init, LinkInv, CompleteStream, Served

\* The steps of an OUT request: one that ends has no sender left anywhere.
LEMMA LinkOut ==
    ASSUME TypeOK, BufferOK, PairInv, LinkInv, CompleteStream,
           NEW o \in OutReq, OutServe(o) \/ OutClient(o)
    PROVE  LinkInv' /\ CompleteStream'
<1>0. UNCHANGED <<inPc, out_tx, vconn, bound>> /\ \A i \in InReq : Served(i)' = Served(i)
    BY DEF OutServe, OutClient, handlerVars, Served
<1>1. out \in [OutReq -> {"idle", "open", "ended", "gone", "rejected"}]
      /\ queue \in [OutReq -> Seq(ItemSet)]
      /\ \A c \in DOMAIN pending : pending[c].out_sender \in OutReq
    BY DEF TypeOK
<1>2. ASSUME NEW c \in Cookie, OutAccept(o, c) PROVE LinkInv' /\ CompleteStream'
    <2> DEFINE e == [vconn |-> accept_out_channel(NewVConn, c, o), out_sender |-> o]
    <2>1. /\ pending' = Insert(c, e) /\ out[o] = "idle" /\ out' = [out EXCEPT ![o] = "open"]
          /\ UNCHANGED queue /\ e.out_sender = o
        BY <1>2 DEF OutAccept
    <2> HIDE DEF e
    <2>2. /\ DOMAIN pending' = DOMAIN pending \cup {c} /\ pending'[c] = e
          /\ \A d \in DOMAIN pending \ {c} : pending'[d] = pending[d]
        BY <2>1 DEF Insert
    <2>3. LinkInv'
        BY <1>0, <1>1, <2>1, <2>2 DEF LinkInv
    <2>4. CompleteStream'
        BY <1>0, <1>1, <2>1, <2>2 DEF CompleteStream
    <2> QED BY <2>3, <2>4
<1>3. CASE OutReject(o) \/ OutDisconnect(o)
    <2>1. /\ UNCHANGED pending /\ out[o] \in {"idle", "open"}
          /\ \/ out[o] = "idle" /\ out' = [out EXCEPT ![o] = "rejected"]
             \/ out[o] = "open" /\ out' = [out EXCEPT ![o] = "gone"]
          /\ \A q \in OutReq : queue'[q] = queue[q] \/ queue'[q] = << >>
        BY <1>1, <1>3 DEF OutReject, OutDisconnect
    <2>2. LinkInv'
        BY <1>0, <1>1, <2>1 DEF LinkInv
    <2>3. CompleteStream'
        BY <1>0, <1>1, <2>1 DEF CompleteStream
    <2> QED BY <2>2, <2>3
<1>4. CASE OutStream(o)
    <2>1. UNCHANGED <<pending, out>> /\ out[o] = "open" /\ \A q \in OutReq \ {o} : queue'[q] = queue[q]
        BY <1>1, <1>4 DEF OutStream
    <2> QED BY <1>0, <2>1 DEF LinkInv, CompleteStream
<1>5. CASE OutFinish(o)
    <2>1. /\ UNCHANGED <<pending, queue>> /\ out[o] = "open" /\ queue[o] = << >>
          /\ out' = [out EXCEPT ![o] = "ended"]
          /\ \A c \in DOMAIN pending : pending[c].out_sender # o
          /\ \A i \in InReq : out_tx[i] # o
        BY <1>5 DEF OutFinish, HasSender
    <2>2. ASSUME NEW i \in InReq, Served(i) = o PROVE inPc[i] \notin Running
        <3>1. o # 0
            BY RequestAssumption
        <3>2. inPc[i] # "First"
            BY <2>2, <3>1 DEF BufferOK
        <3> QED BY <2>1, <2>2, <3>2 DEF LinkInv, Running
    <2>3. LinkInv'
        BY <1>0, <1>1, <2>1 DEF LinkInv
    <2>4. CompleteStream'
        BY <1>0, <1>1, <2>1, <2>2 DEF CompleteStream
    <2> QED BY <2>3, <2>4
<1> QED BY <1>2, <1>3, <1>4, <1>5 DEF OutServe, OutClient

\* The steps of IN request i that pair nothing: the handler ends, or goes on with its sender.
LEMMA LinkFrame ==
    ASSUME TypeOK, BufferOK, LinkInv, CompleteStream, UNCHANGED <<out, pending>>, NEW i \in InReq,
           \A q \in OutReq : out[q] = "ended" => queue'[q] = queue[q],
           \A k \in InReq : Served(k)' = Served(k),
           \A k \in InReq \ {i} : inPc'[k] = inPc[k] /\ out_tx'[k] = out_tx[k] /\ bound'[k] = bound[k],
           \/ inPc'[i] \notin {"Idle"} \cup Running
           \/ inPc[i] = "Idle" /\ inPc'[i] = "First" /\ bound'[i] = bound[i]
           \/ inPc'[i] = inPc[i] /\ out_tx'[i] = out_tx[i] /\ bound'[i] = bound[i]
           \/ inPc[i] \in {"Send", "Loop"} /\ inPc'[i] \in {"Send", "Loop"} /\ out_tx'[i] = out_tx[i]
    PROVE  LinkInv' /\ CompleteStream'
<1>1. LinkInv'
    BY DEF LinkInv, Running
<1>2. ASSUME NEW o \in OutReq, out[o] = "ended", NEW k \in InReq, Served(k) = o
      PROVE  inPc'[k] \notin Running
    <2>1. inPc[k] \notin Running
        BY <1>2 DEF CompleteStream
    <2>2. inPc[k] # "Idle"
        BY <1>2, RequestAssumption DEF BufferOK
    <2> QED BY <2>1, <2>2 DEF Running
<1>3. CompleteStream'
    BY <1>2 DEF CompleteStream
<1> QED BY <1>1, <1>3

\* The pairing itself: the entry taken holds an OUT request that has not ended.
LEMMA LinkFirst ==
    ASSUME TypeOK, BufferOK, PairInv, LinkInv, CompleteStream, NEW i \in InReq, InFirst(i)
    PROVE  LinkInv' /\ CompleteStream'
<1> DEFINE c == Current(i).arg
<1>1. /\ inPc[i] = "First" /\ UNCHANGED <<out, queue>> /\ ~bound[i] /\ Served(i) = 0
    BY DEF InFirst, outVars, LinkInv, BufferOK
<1>2. /\ inPc \in [InReq -> Running \cup {"Idle", "Ok200", "Err400", "Err500", "Dropped"}]
      /\ out_tx \in [InReq -> OutReq \cup {0}] /\ vconn \in [InReq -> VConn]
    BY DEF TypeOK
<1>3. CASE (End(i, "Err400") \/ End(i, "Err500")) /\ (UNCHANGED pending \/ pending' = Remove(c))
    <2>1. /\ DOMAIN pending' \subseteq DOMAIN pending
          /\ \A d \in DOMAIN pending' : pending'[d] = pending[d]
        BY <1>3 DEF Remove
    <2>2. /\ inPc'[i] \in {"Err400", "Err500"} /\ UNCHANGED <<vconn, bound>>
          /\ \A k \in InReq \ {i} : inPc'[k] = inPc[k] /\ out_tx'[k] = out_tx[k]
        BY <1>2, <1>3 DEF End
    <2>3. \A k \in InReq : Served(k)' = Served(k)
        BY <2>2 DEF Served
    <2>4. LinkInv'
        BY <1>1, <2>1, <2>2, <2>3 DEF LinkInv
    <2>5. CompleteStream'
        BY <1>1, <2>1, <2>2, <2>3 DEF CompleteStream, Running
    <2> QED BY <2>4, <2>5
<1>4. CASE /\ c \in DOMAIN pending /\ pending' = Remove(c)
           /\ out_tx' = [out_tx EXCEPT ![i] = pending[c].out_sender]
           /\ vconn' = [vconn EXCEPT ![i] = accept_in_channel(pending[c].vconn)]
           /\ inPc' = [inPc EXCEPT ![i] = "Send"] /\ UNCHANGED bound
    <2> DEFINE o == pending[c].out_sender
    <2>1. /\ DOMAIN pending' \subseteq DOMAIN pending
          /\ \A d \in DOMAIN pending' : pending'[d] = pending[d]
        BY <1>4 DEF Remove
    <2>2. /\ pending[c].vconn \in VConn /\ pending[c].vconn.out_call_id = o /\ o \in OutReq
          /\ out[o] \in {"open", "gone"}
        BY <1>4 DEF PairInv, ExclusivePairing, TypeOK, LinkInv
    <2>3. /\ Served(i)' = o /\ out_tx'[i] = o /\ inPc'[i] = "Send"
          /\ \A k \in InReq \ {i} : /\ Served(k)' = Served(k) /\ out_tx'[k] = out_tx[k]
                                    /\ inPc'[k] = inPc[k]
        BY <1>2, <1>4, <2>2, VConnTypes DEF Served
    <2>4. o # 0
        BY <2>2, RequestAssumption
    <2> HIDE DEF o, c
    <2>5. LinkInv'
        BY <1>1, <1>4, <2>1, <2>2, <2>3, <2>4 DEF LinkInv
    <2>6. CompleteStream'
        BY <1>1, <2>1, <2>2, <2>3 DEF CompleteStream
    <2> QED BY <2>5, <2>6
<1> QED BY <1>3, <1>4 DEF InFirst, Push

\* Every step keeps senders and ends in step.
LEMMA LinkNext ==
    TypeOK /\ BufferOK /\ PairInv /\ LinkInv /\ CompleteStream /\ [Next]_vars => LinkInv' /\ CompleteStream'
<1> SUFFICES ASSUME TypeOK, BufferOK, PairInv, LinkInv, CompleteStream, [Next]_vars
             PROVE  LinkInv' /\ CompleteStream'
    OBVIOUS
<1>0. /\ inPc \in [InReq -> Running \cup {"Idle", "Ok200", "Err400", "Err500", "Dropped"}]
      /\ out_tx \in [InReq -> OutReq \cup {0}] /\ vconn \in [InReq -> VConn] /\ bound \in [InReq -> BOOLEAN]
      /\ queue \in [OutReq -> Seq(ItemSet)]
    BY DEF TypeOK
<1>1. ASSUME NEW i \in InReq, InClient(i) \/ (InHandler(i) /\ ~InFirst(i))
      PROVE  LinkInv' /\ CompleteStream'
    <2>1. UNCHANGED <<out, pending>>
        BY <1>1 DEF InClient, InOpen, InSendPdu, InEndBody, InDrop, InHandler, InFrame, InBodyEnds, InPush,
                    InPdu, outVars
    <2>2. ASSUME NEW k \in InReq
          PROVE  Served(k)' = Served(k)
        <3>1. vconn' = vconn \/ vconn' = [vconn EXCEPT ![i] = enter_data_transfer(@)]
            BY <1>1 DEF InClient, InOpen, InSendPdu, InEndBody, InDrop, End, InHandler, InFrame, InBodyEnds,
                        InPush, InPdu, handlerVars
        <3>2. vconn'[k] \in {vconn[k], enter_data_transfer(vconn[k])}
            BY <1>0, <3>1
        <3> QED BY <1>0, <3>2, VConnTypes DEF Served
    <2>3. CASE InOpen(i)
        BY <1>0, <2>1, <2>2, <2>3, LinkFrame DEF InOpen, outVars
    <2>4. CASE InSendPdu(i) \/ InEndBody(i) \/ \E n \in 1..(Units * MaxPdus) : InFrame(i, n)
        BY <1>0, <2>1, <2>2, <2>4, LinkFrame DEF InSendPdu, InEndBody, InFrame, outVars, handlerVars
    <2>5. CASE InDrop(i) \/ InBodyEnds(i)
        <3>1. /\ inPc'[i] \notin {"Idle"} \cup Running /\ UNCHANGED <<queue, bound>>
              /\ \A k \in InReq \ {i} : inPc'[k] = inPc[k] /\ out_tx'[k] = out_tx[k]
            BY <1>0, <2>5 DEF InDrop, InBodyEnds, End, outVars, Running
        <3> QED BY <2>1, <2>2, <3>1, LinkFrame
    <2>6. CASE InPush(i)
        <3>1. CASE End(i, "Err500") /\ UNCHANGED queue
            <4>1. /\ inPc'[i] \notin {"Idle"} \cup Running /\ UNCHANGED bound
                  /\ \A k \in InReq \ {i} : inPc'[k] = inPc[k] /\ out_tx'[k] = out_tx[k]
                BY <1>0, <3>1 DEF End, Running
            <4> QED BY <2>1, <2>2, <3>1, <4>1, LinkFrame
        <3>2. CASE /\ out[out_tx[i]] = "open" /\ queue' = [queue EXCEPT ![out_tx[i]] = Append(@, hand[i])]
                   /\ inPc' = [inPc EXCEPT ![i] = "Loop"] /\ UNCHANGED out_tx
                   /\ bound' = [bound EXCEPT ![i] = @ \/ hand[i].type = "BindAck"]
            <4>1. /\ inPc[i] = "Send" /\ inPc'[i] = "Loop"
                  /\ \A k \in InReq \ {i} : inPc'[k] = inPc[k] /\ bound'[k] = bound[k]
                BY <1>0, <2>6, <3>2 DEF InPush
            <4>2. \A q \in OutReq : out[q] = "ended" => queue'[q] = queue[q]
                BY <1>0, <3>2
            <4> QED BY <2>1, <2>2, <3>2, <4>1, <4>2, LinkFrame
        <3> QED BY <2>6, <3>1, <3>2 DEF InPush
    <2>7. CASE InPdu(i)
        <3>1. /\ inPc[i] = "Loop" /\ UNCHANGED <<queue, bound>>
              /\ \A k \in InReq \ {i} : inPc'[k] = inPc[k] /\ out_tx'[k] = out_tx[k]
              /\ \/ inPc'[i] = "Err500"
                 \/ inPc'[i] \in {"Send", "Loop"} /\ out_tx'[i] = out_tx[i]
            BY <1>0, <2>7 DEF InPdu, End, Push, outVars
        <3> QED BY <2>1, <2>2, <3>1, LinkFrame DEF Running
    <2> QED BY <1>1, <2>3, <2>4, <2>5, <2>6, <2>7 DEF InClient, InHandler
<1>2. CASE UNCHANGED vars
    BY <1>2 DEF vars, outVars, handlerVars, LinkInv, CompleteStream, Served
<1> QED BY <1>1, <1>2, LinkOut, LinkFirst DEF Next, Terminated

\* The pairing and the senders in every reachable state.
THEOREM LinkInvariant == Spec => [](TypeOK /\ BufferOK /\ PairInv /\ LinkInv /\ CompleteStream)
BY TypeInit, TypeNext, BufferInit, BufferNext, PairInit, PairNext, LinkInit, LinkNext, PTL DEF Spec

\* CompleteStream for any number of requests: the response of an OUT request is not
\* completed under a handler that may still write to it, nor with anything left in its channel.
THEOREM CompletionSafety == Spec => []CompleteStream
BY LinkInvariant, PTL

-----------------------------------------------------------------------------
(* Streams: the answers to the PDUs of one IN request, in their order.       *)

\* The first n PDUs of body p hold a Bind after the CONN/B1.
BindSeen(p, n) == \E j \in 2..n : p[j].type = "Bind"

\* PDU k, among the first n of body p, calls for an answer; x is one.
Calls(p, n, k) == /\ k \in 2..n
                  /\ p[k].type = "Bind" \/ (p[k].type = "Request" /\ BindSeen(p, k - 1))
IsAnswer(p, n, x) == Calls(p, n, x.call) /\ x.type = AnswerType(p[x.call])

\* st is CONN/C2 for OUT request o and answers to the first n PDUs of p, in their order.
StreamOK(o, st, p, n) ==
    /\ \A a \in DOMAIN st : IF a = 1 THEN st[a].type = "ConnC2" /\ st[a].call = o
                            ELSE IsAnswer(p, n, st[a])
    /\ \A a, b \in DOMAIN st : 1 < a /\ a < b => st[a].call < st[b].call

\* What a handler knows and holds: CONN/C2 for an empty stream, or the answer to the
\* newest PDU.
HandOK(i) ==
    LET o == Served(i)  st == Stream(o) IN
    /\ inPc[i] = "Loop" => /\ bound[i] <=> BindSeen(pdus[i], done[i])
                           /\ out[o] = "open" => st # << >>
    /\ inPc[i] = "Send" =>
         \/ /\ hand[i].type = "ConnC2" /\ hand[i].call = o
            /\ st = << >> /\ done[i] = 1 /\ ~bound[i]
         \/ /\ hand[i].call = done[i] /\ IsAnswer(pdus[i], done[i], hand[i])
            /\ bound[i] \/ hand[i].type = "BindAck"
            /\ out[o] = "open" => st # << >>
            /\ \A a \in DOMAIN st : a > 1 => st[a].call < done[i]

\* No answer is missing while the OUT response is there.
NoneMissing(i) ==
    LET o == Served(i)  st == Stream(o) IN
    out[o] # "gone" => \A k \in 2..done[i] : Calls(pdus[i], done[i], k) =>
        \/ \E a \in DOMAIN st : a > 1 /\ st[a].call = k
        \/ inPc[i] \in {"Send", "Dropped"} /\ hand[i].call = k

ServedOK(i) == Served(i) # 0 => /\ StreamOK(Served(i), Stream(Served(i)), pdus[i], done[i])
                                /\ HandOK(i) /\ NoneMissing(i)

StreamInv ==
    /\ \A o \in OutReq : Stream(o) # << >> => \E i \in InReq : Served(i) = o
    /\ \A i \in InReq : ServedOK(i)

\* Longer bodies and more PDUs taken leave the answers to the first n PDUs what they were.
LEMMA CallsGrow ==
    ASSUME NEW p, NEW q, NEW n \in Nat, NEW m \in Nat, n <= m, \A j \in 1..n : q[j] = p[j]
    PROVE  /\ \A k \in 1..n : Calls(q, m, k) <=> Calls(p, n, k)
           /\ BindSeen(q, n) <=> BindSeen(p, n)
           /\ \A x \in ItemSet : IsAnswer(p, n, x) => IsAnswer(q, m, x)
<1>1. ASSUME NEW k \in 1..n PROVE Calls(q, m, k) <=> Calls(p, n, k)
    <2>1. q[k] = p[k] /\ \A j \in 2..(k - 1) : q[j] = p[j]
        OBVIOUS
    <2> QED BY <2>1 DEF Calls, BindSeen
<1>2. BindSeen(q, n) <=> BindSeen(p, n)
    BY DEF BindSeen
<1>3. ASSUME NEW x \in ItemSet, IsAnswer(p, n, x) PROVE IsAnswer(q, m, x)
    <2>1. x.call \in 1..n
        BY <1>3 DEF IsAnswer, Calls
    <2> QED BY <1>1, <1>3, <2>1 DEF IsAnswer
<1> QED BY <1>1, <1>2, <1>3

LEMMA StreamGrow ==
    ASSUME NEW o, NEW st \in Seq(ItemSet), NEW p, NEW q, NEW n \in Nat, NEW m \in Nat, n <= m,
           \A j \in 1..n : q[j] = p[j], StreamOK(o, st, p, n)
    PROVE  StreamOK(o, st, q, m)
<1>1. \A a \in DOMAIN st : st[a] \in ItemSet
    OBVIOUS
<1> QED BY <1>1, CallsGrow DEF StreamOK

\* The answer to a later PDU at the end of a stream that has its CONN/C2.
LEMMA StreamAppend ==
    ASSUME NEW o, NEW st \in Seq(ItemSet), NEW p, NEW n \in Nat, NEW x \in ItemSet,
           StreamOK(o, st, p, n), st # << >>, IsAnswer(p, n, x),
           \A a \in DOMAIN st : a > 1 => st[a].call < x.call
    PROVE  StreamOK(o, Append(st, x), p, n)
<1> DEFINE t == Append(st, x)
<1>1. /\ DOMAIN st = 1..Len(st) /\ DOMAIN t = 1..(Len(st) + 1) /\ Len(st) \in Nat /\ Len(st) >= 1
      /\ \A a \in 1..Len(st) : t[a] = st[a]
      /\ t[Len(st) + 1] = x
    OBVIOUS
<1> HIDE DEF t
<1>2. ASSUME NEW a \in DOMAIN t
      PROVE  IF a = 1 THEN t[a].type = "ConnC2" /\ t[a].call = o ELSE IsAnswer(p, n, t[a])
    <2>1. CASE a = Len(st) + 1
        BY <1>1, <2>1
    <2>2. CASE a \in 1..Len(st)
        BY <1>1, <2>2 DEF StreamOK
    <2> QED BY <1>1, <1>2, <2>1, <2>2
<1>3. ASSUME NEW a \in DOMAIN t, NEW b \in DOMAIN t, 1 < a, a < b PROVE t[a].call < t[b].call
    <2>1. a \in 1..Len(st) /\ t[a] = st[a]
        BY <1>1, <1>3
    <2>2. CASE b = Len(st) + 1
        BY <1>1, <1>3, <2>1, <2>2
    <2>3. CASE b \in 1..Len(st)
        BY <1>1, <1>3, <2>1, <2>3 DEF StreamOK
    <2> QED BY <1>1, <1>3, <2>2, <2>3
<1>4. StreamOK(o, t, p, n)
    BY <1>2, <1>3 DEF StreamOK
<1> QED BY <1>4 DEF t

\* What is left of a stream when its channel is gone.
LEMMA SequencePrefix ==
    ASSUME NEW s \in Seq(ItemSet), NEW t \in Seq(ItemSet)
    PROVE  /\ s \o << >> = s
           /\ \A a \in DOMAIN s : a \in DOMAIN (s \o t) /\ (s \o t)[a] = s[a]
           /\ s \o t = << >> => s = << >>
<1>1. s \o << >> = s
    OBVIOUS
<1>2. \A a \in DOMAIN s : a \in DOMAIN (s \o t) /\ (s \o t)[a] = s[a]
    OBVIOUS
<1>3. s \o t = << >> => s = << >>
    OBVIOUS
<1> QED BY <1>1, <1>2, <1>3

LEMMA StreamPrefix ==
    ASSUME NEW o, NEW st, NEW s, NEW p, NEW n, StreamOK(o, st, p, n),
           \A a \in DOMAIN s : a \in DOMAIN st /\ st[a] = s[a]
    PROVE  StreamOK(o, s, p, n)
BY DEF StreamOK

\* An item that goes from the channel to the response body stays where it is in the stream; one
\* put into the channel is its last.
LEMMA StreamMoves ==
    ASSUME NEW s \in Seq(ItemSet), NEW t \in Seq(ItemSet), NEW x \in ItemSet
    PROVE  /\ t # << >> => Append(s, Head(t)) \o Tail(t) = s \o t
           /\ s \o Append(t, x) = Append(s \o t, x)
           /\ s \o t \in Seq(ItemSet)
<1>1. ASSUME t # << >> PROVE Append(s, Head(t)) \o Tail(t) = s \o t
    <2> DEFINE u == Append(s, Head(t)) \o Tail(t)
               v == s \o t
    <2>1. /\ u \in Seq(ItemSet) /\ v \in Seq(ItemSet) /\ Len(u) = Len(v) /\ Len(v) = Len(s) + Len(t)
        BY <1>1
    <2>2. ASSUME NEW j \in 1..Len(v) PROVE u[j] = v[j]
        BY <1>1, <2>2
    <2> HIDE DEF u, v
    <2>3. u = v
        BY <2>1, <2>2, SeqEqual
    <2> QED BY <2>3 DEF u, v
<1>2. s \o Append(t, x) = Append(s \o t, x)
    <2> DEFINE u == s \o Append(t, x)
               v == Append(s \o t, x)
    <2>1. u \in Seq(ItemSet) /\ v \in Seq(ItemSet) /\ Len(u) = Len(v) /\ Len(v) = Len(s) + Len(t) + 1
        OBVIOUS
    <2>2. ASSUME NEW j \in 1..Len(v) PROVE u[j] = v[j]
        BY <2>2
    <2> HIDE DEF u, v
    <2>3. u = v
        BY <2>1, <2>2, SeqEqual
    <2> QED BY <2>3 DEF u, v
<1>3. s \o t \in Seq(ItemSet)
    OBVIOUS
<1> QED BY <1>1, <1>2, <1>3

\* The streams are sequences of items, and the PDUs taken were sent.
LEMMA StreamTypes ==
    ASSUME TypeOK, BufferOK, LinkInv, NEW i \in InReq
    PROVE  /\ done[i] \in Nat /\ done[i] <= Len(pdus[i]) /\ pdus[i] \in Seq(Pdu) /\ hand[i] \in ItemSet
           /\ \A o \in OutReq : /\ Stream(o) \in Seq(ItemSet)
                                /\ body[o] \in Seq(ItemSet) /\ queue[o] \in Seq(ItemSet)
           /\ Served(i) # 0 => Served(i) \in OutReq
<1>1. done[i] \in Nat /\ arrived[i] \in Nat /\ size[i] \in Nat /\ pdus[i] \in Seq(Pdu) /\ hand[i] \in ItemSet
    BY DEF TypeOK
<1>2. done[i] <= Len(pdus[i])
    BY <1>1 DEF BufferOK, Units
<1>3. ASSUME NEW o \in OutReq
      PROVE  /\ Stream(o) \in Seq(ItemSet) /\ body[o] \in Seq(ItemSet) /\ queue[o] \in Seq(ItemSet)
    <2>1. body[o] \in Seq(ItemSet) /\ queue[o] \in Seq(ItemSet)
        BY DEF TypeOK
    <2> QED BY <2>1, NoItemType, StreamMoves DEF Stream
<1> QED BY <1>1, <1>2, <1>3 DEF LinkInv

\* A step that leaves the stream of IN request k and what its handler has taken alone: its body may
\* grow, its handler end (with an answer in its hand only when it is dropped or the OUT response
\* is gone), and its OUT response end.
LEMMA ServedFrame ==
    ASSUME TypeOK, BufferOK, LinkInv, NEW k \in InReq, ServedOK(k),
           Served(k)' = Served(k), done'[k] = done[k], hand'[k] = hand[k], bound'[k] = bound[k],
           \A j \in 1..done[k] : pdus'[k][j] = pdus[k][j],
           Served(k) # 0 => /\ Stream(Served(k))' = Stream(Served(k))
                            /\ out'[Served(k)] = "open" => out[Served(k)] = "open"
                            /\ out[Served(k)] = "gone" => out'[Served(k)] = "gone"
                            /\ \/ inPc'[k] = inPc[k]
                               \/ /\ inPc'[k] \notin {"Send", "Loop"} /\ inPc[k] # "Dropped"
                                  /\ \/ inPc'[k] = "Dropped" \/ inPc[k] # "Send"
                                     \/ out[Served(k)] = "gone"
    PROVE  ServedOK(k)'
<1> SUFFICES ASSUME Served(k) # 0
             PROVE  (StreamOK(Served(k), Stream(Served(k)), pdus[k], done[k]) /\ HandOK(k) /\ NoneMissing(k))'
    BY DEF ServedOK
<1> DEFINE o == Served(k)
           st == Stream(Served(k))
           p == pdus[k]
           q == pdus'[k]
           n == done[k]
<1>1. /\ o \in OutReq /\ st \in Seq(ItemSet) /\ n \in Nat /\ n <= n /\ hand[k] \in ItemSet
      /\ \A j \in 1..n : q[j] = p[j]
    BY StreamTypes
<1>2. StreamOK(o, st, p, n) /\ HandOK(k) /\ NoneMissing(k)
    BY DEF ServedOK
<1>3. o' = o /\ st' = st /\ p' = q /\ n' = n
    OBVIOUS
<1>4. StreamOK(o, st, q, n)
    BY <1>1, <1>2, StreamGrow
<1>5. /\ \A j \in 1..n : Calls(q, n, j) <=> Calls(p, n, j)
      /\ BindSeen(q, n) <=> BindSeen(p, n)
      /\ IsAnswer(p, n, hand[k]) => IsAnswer(q, n, hand[k])
    BY <1>1, CallsGrow
<1>6. HandOK(k)'
    BY <1>2, <1>3, <1>5 DEF HandOK
<1>7. NoneMissing(k)'
    <2>1. ASSUME out'[o] # "gone", NEW j \in 2..n, Calls(q, n, j)
          PROVE  \/ \E a \in DOMAIN st : a > 1 /\ st[a].call = j
                 \/ inPc'[k] \in {"Send", "Dropped"} /\ hand'[k].call = j
        <3>1. j \in 1..n /\ out[o] # "gone"
            BY <1>1, <2>1
        <3>2. \/ \E a \in DOMAIN st : a > 1 /\ st[a].call = j
              \/ inPc[k] \in {"Send", "Dropped"} /\ hand[k].call = j
            BY <1>2, <1>5, <2>1, <3>1 DEF NoneMissing
        <3> QED BY <3>1, <3>2
    <2> HIDE DEF o, st, p, q, n
    <2> QED BY <1>3, <2>1 DEF NoneMissing, o, st, p, q, n
<1> QED BY <1>3, <1>4, <1>6, <1>7

\* Initially the streams are empty.
LEMMA StreamInit == Init => StreamInv
<1> SUFFICES ASSUME Init PROVE StreamInv
    OBVIOUS
<1>1. \A i \in InReq : Served(i) = 0
    BY VConnTypes DEF Init, Served
<1>2. \A o \in OutReq : Stream(o) = << >>
    BY DEF Init, Stream
<1> QED BY <1>1, <1>2 DEF StreamInv, ServedOK

\* The steps of an OUT request.
LEMMA StreamOut ==
    ASSUME TypeOK, BufferOK, PairInv, LinkInv, StreamInv,
           NEW o \in OutReq, OutServe(o) \/ OutClient(o)
    PROVE  StreamInv'
<1>0. /\ UNCHANGED <<inPc, vconn, bound, hand, done, pdus>> /\ \A i \in InReq : Served(i)' = Served(i)
    BY DEF OutServe, OutClient, handlerVars, inClientVars, Served
<1>1. /\ out \in [OutReq -> {"idle", "open", "ended", "gone", "rejected"}]
      /\ queue \in [OutReq -> Seq(ItemSet)] /\ body \in [OutReq -> Seq(ItemSet)]
    BY DEF TypeOK
<1>2. ASSUME \A q \in OutReq : Stream(q)' = Stream(q),
             \A q \in OutReq : /\ out[q] # "idle" /\ out'[q] = "open" => out[q] = "open"
                               /\ out[q] = "gone" => out'[q] = "gone"
      PROVE  StreamInv'
    <2>1. ASSUME NEW k \in InReq PROVE ServedOK(k)'
        <3>1. Served(k) # 0 => Served(k) \in OutReq /\ out[Served(k)] # "idle"
            BY DEF LinkInv
        <3>2. ServedOK(k)
            BY DEF StreamInv
        <3> QED BY <1>0, <1>2, <3>1, <3>2, ServedFrame
    <2>2. \A q \in OutReq : Stream(q)' # << >> => \E i \in InReq : Served(i)' = q
        BY <1>0, <1>2 DEF StreamInv
    <2> QED BY <2>1, <2>2 DEF StreamInv
<1>3. CASE (\E c \in Cookie : OutAccept(o, c)) \/ OutReject(o) \/ OutFinish(o)
    <2>1. UNCHANGED <<queue, body>>
        BY <1>3 DEF OutAccept, OutReject, OutFinish
    <2>2. \A q \in OutReq : Stream(q)' = Stream(q)
        BY <2>1 DEF Stream
    <2>3. \A q \in OutReq : /\ out[q] # "idle" /\ out'[q] = "open" => out[q] = "open"
                            /\ out[q] = "gone" => out'[q] = "gone"
        BY <1>1, <1>3 DEF OutAccept, OutReject, OutFinish
    <2> QED BY <1>2, <2>2, <2>3
<1>4. CASE OutStream(o)
    <2>1. ASSUME NEW q \in OutReq PROVE Stream(q)' = Stream(q)
        <3>1. CASE q # o
            BY <1>1, <1>4, <3>1 DEF OutStream, Stream
        <3>2. CASE q = o
            <4>1. body'[o] = Append(body[o], Head(queue[o])) /\ queue'[o] = Tail(queue[o]) /\ queue[o] # << >>
                BY <1>1, <1>4 DEF OutStream
            <4>2. body[o] \in Seq(ItemSet) /\ queue[o] \in Seq(ItemSet)
                BY <1>1
            <4>3. Append(body[o], Head(queue[o])) \o Tail(queue[o]) = body[o] \o queue[o]
                BY <4>1, <4>2, NoItemType, StreamMoves
            <4> QED BY <3>2, <4>1, <4>3 DEF Stream
        <3> QED BY <3>1, <3>2
    <2> QED BY <1>2, <1>4, <2>1 DEF OutStream
<1>5. CASE OutDisconnect(o)
    <2>1. /\ UNCHANGED body /\ queue'[o] = << >> /\ out'[o] = "gone"
          /\ \A q \in OutReq \ {o} : queue'[q] = queue[q] /\ out'[q] = out[q]
        BY <1>1, <1>5 DEF OutDisconnect
    <2>2. /\ body[o] \in Seq(ItemSet) /\ queue[o] \in Seq(ItemSet)
          /\ Stream(o)' = body[o] /\ Stream(o) = body[o] \o queue[o]
          /\ \A q \in OutReq \ {o} : Stream(q)' = Stream(q)
        BY <1>1, <2>1, SequencePrefix DEF Stream
    <2>3. /\ Stream(o)' # << >> => Stream(o) # << >>
          /\ Stream(o) = << >> => body[o] = << >>
          /\ \A a \in DOMAIN body[o] : a \in DOMAIN Stream(o) /\ Stream(o)[a] = body[o][a]
        <3>1. body[o] \in Seq(ItemSet) /\ queue[o] \in Seq(ItemSet)
            BY <2>2
        <3>2. /\ body[o] \o queue[o] = << >> => body[o] = << >>
              /\ \A a \in DOMAIN body[o] : /\ a \in DOMAIN (body[o] \o queue[o])
                                           /\ (body[o] \o queue[o])[a] = body[o][a]
            BY <3>1, SequencePrefix
        <3> QED BY <2>2, <3>2
    <2>4. \A q \in OutReq : Stream(q)' # << >> => \E i \in InReq : Served(i)' = q
        BY <1>0, <2>2, <2>3 DEF StreamInv
    <2>5. ASSUME NEW k \in InReq PROVE ServedOK(k)'
        <3>1. ServedOK(k) /\ (Served(k) # 0 => Served(k) \in OutReq)
            BY DEF StreamInv, LinkInv
        <3>2. CASE Served(k) # o
            BY <1>0, <2>1, <2>2, <3>1, <3>2, ServedFrame
        <3>3. CASE Served(k) = o
            <4>1. /\ StreamOK(o, Stream(o), pdus[k], done[k]) /\ HandOK(k) /\ done[k] \in Nat
                BY <3>1, <3>3, RequestAssumption, StreamTypes DEF ServedOK
            <4>2. StreamOK(o, body[o], pdus[k], done[k])
                BY <2>3, <4>1, StreamPrefix
            <4>3. NoneMissing(k)'
                BY <1>0, <2>1, <3>3 DEF NoneMissing
            <4>4. HandOK(k)'
                <5>1. Served(k)' = o /\ Stream(Served(k))' = body[o] /\ out'[o] # "open"
                    BY <1>0, <2>1, <2>2, <3>3
                <5> QED BY <1>0, <2>3, <3>3, <4>1, <5>1 DEF HandOK
            <4> QED BY <1>0, <2>2, <3>3, <4>2, <4>3, <4>4 DEF ServedOK
        <3> QED BY <3>2, <3>3
    <2> QED BY <2>4, <2>5 DEF StreamInv
<1> QED BY <1>3, <1>4, <1>5 DEF OutServe, OutClient

\* A step of IN request i that is its own affair: the streams of the others stay.
LEMMA StreamOwn ==
    ASSUME TypeOK, BufferOK, PairInv, LinkInv, StreamInv, NEW i \in InReq, UNCHANGED out,
           \A k \in InReq : Served(k) # 0 \/ k # i => Served(k)' = Served(k),
           \A k \in InReq \ {i} : /\ done'[k] = done[k] /\ hand'[k] = hand[k] /\ bound'[k] = bound[k]
                                  /\ inPc'[k] = inPc[k] /\ pdus'[k] = pdus[k],
           \A o \in OutReq : o # Served(i)' => Stream(o)' = Stream(o),
           \A k \in InReq \ {i} : Served(k) # 0 => Served(k) # Served(i)',
           Served(i)' # 0 => Served(i)' \in OutReq,
           ServedOK(i)'
    PROVE  StreamInv'
<1>1. ASSUME NEW k \in InReq PROVE ServedOK(k)'
    <2>1. CASE k # i
        <3>1. ServedOK(k) /\ Served(k)' = Served(k) /\ (Served(k) # 0 => Served(k) \in OutReq)
            BY <2>1 DEF StreamInv, LinkInv
        <3>2. Served(k) # 0 => Stream(Served(k))' = Stream(Served(k))
            BY <2>1, <3>1
        <3> QED BY <2>1, <3>1, <3>2, ServedFrame
    <2> QED BY <2>1
<1>2. ASSUME NEW o \in OutReq, Stream(o)' # << >> PROVE \E k \in InReq : Served(k)' = o
    <2>1. CASE o = Served(i)'
        BY <2>1
    <2>2. CASE o # Served(i)'
        <3>1. Stream(o) # << >>
            BY <1>2, <2>2
        <3>2. PICK k \in InReq : Served(k) = o
            BY <3>1 DEF StreamInv
        <3>3. o # 0
            BY RequestAssumption
        <3> QED BY <3>2, <3>3
    <2> QED BY <2>1, <2>2
<1> QED BY <1>1, <1>2 DEF StreamInv

\* The pairing: the stream of an OUT request that was in the map is empty.
LEMMA StreamFirst ==
    ASSUME TypeOK, BufferOK, PairInv, LinkInv, StreamInv, NEW i \in InReq, InFirst(i)
    PROVE  StreamInv'
<1> DEFINE c == Current(i).arg
<1>1. /\ UNCHANGED <<out, queue, body, pdus>> /\ done' = [done EXCEPT ![i] = 1]
      /\ Served(i) = 0 /\ ~bound[i] /\ inPc[i] = "First"
    BY DEF InFirst, outVars, inClientVars, BufferOK, LinkInv
<1>2. /\ inPc \in [InReq -> Running \cup {"Idle", "Ok200", "Err400", "Err500", "Dropped"}]
      /\ vconn \in [InReq -> VConn] /\ hand \in [InReq -> ItemSet] /\ done \in [InReq -> Nat]
    BY DEF TypeOK
<1>3. \A o \in OutReq : Stream(o)' = Stream(o)
    BY <1>1 DEF Stream
<1>4. done'[i] = 1 /\ \A k \in InReq \ {i} : done'[k] = done[k]
    BY <1>1, <1>2
<1>5. CASE End(i, "Err400") \/ End(i, "Err500")
    <2>1. /\ UNCHANGED <<vconn, bound, hand>> /\ \A k \in InReq \ {i} : inPc'[k] = inPc[k]
        BY <1>2, <1>5 DEF End
    <2>2. \A k \in InReq : Served(k)' = Served(k)
        BY <2>1 DEF Served
    <2>3. ServedOK(i)'
        BY <1>1, <2>2 DEF ServedOK
    <2> QED BY <1>1, <1>3, <1>4, <2>1, <2>2, <2>3, StreamOwn
<1>6. CASE /\ c \in DOMAIN pending
           /\ vconn' = [vconn EXCEPT ![i] = accept_in_channel(pending[c].vconn)]
           /\ Push(i, Item("ConnC2", pending[c].vconn.out_call_id, << >>))
           /\ UNCHANGED bound
    <2>0. PICK o \in OutReq : o = pending[c].out_sender
        BY <1>6 DEF TypeOK
    <2>1. /\ pending[c].vconn \in VConn /\ pending[c].vconn.out_call_id = o /\ o \in OutReq
          /\ \A k \in InReq : Served(k) # o
        BY <1>6, <2>0 DEF PairInv, ExclusivePairing, TypeOK
    <2>2. /\ Served(i)' = o /\ \A k \in InReq \ {i} : Served(k)' = Served(k)
        BY <1>2, <1>6, <2>1, VConnTypes DEF Served
    <2>3. /\ inPc'[i] = "Send" /\ hand'[i].type = "ConnC2" /\ hand'[i].call = o
          /\ \A k \in InReq \ {i} : inPc'[k] = inPc[k] /\ hand'[k] = hand[k]
        BY <1>2, <1>6, <2>1 DEF Push, Item
    <2>4. Stream(o)' = << >>
        BY <1>3, <2>1 DEF StreamInv
    <2> HIDE DEF c
    <2>5. StreamOK(o, << >>, pdus'[i], 1)
        BY DEF StreamOK
    <2>6. HandOK(i)'
        BY <1>1, <1>4, <1>6, <2>2, <2>3, <2>4 DEF HandOK
    <2>7. NoneMissing(i)'
        BY <1>4 DEF NoneMissing
    <2>8. ServedOK(i)'
        BY <1>4, <2>2, <2>4, <2>5, <2>6, <2>7 DEF ServedOK
    <2> QED BY <1>1, <1>3, <1>4, <1>6, <2>1, <2>2, <2>3, <2>8, StreamOwn
<1> QED BY <1>5, <1>6 DEF InFirst

\* A send that succeeds: the item is the last of the stream.
LEMMA StreamPush ==
    ASSUME TypeOK, BufferOK, PairInv, LinkInv, StreamInv, NEW i \in InReq, InPush(i), out[out_tx[i]] = "open"
    PROVE  StreamInv'
<1> DEFINE o == Served(i)
           p == pdus[i]
           n == done[i]
           st == Stream(o)
           x == hand[i]
<1>1. /\ inPc[i] = "Send" /\ UNCHANGED <<out, body, pdus, done, vconn>>
      /\ queue' = [queue EXCEPT ![out_tx[i]] = Append(@, hand[i])]
      /\ inPc' = [inPc EXCEPT ![i] = "Loop"]
      /\ bound' = [bound EXCEPT ![i] = @ \/ hand[i].type = "BindAck"]
      /\ hand' = [hand EXCEPT ![i] = NoItem]
    BY DEF InPush, inClientVars
<1>2. o # 0 /\ o \in OutReq /\ out_tx[i] = o /\ out[o] = "open"
    BY <1>1 DEF LinkInv
<1>3. /\ inPc \in [InReq -> Running \cup {"Idle", "Ok200", "Err400", "Err500", "Dropped"}]
      /\ bound \in [InReq -> BOOLEAN] /\ hand \in [InReq -> ItemSet] /\ queue \in [OutReq -> Seq(ItemSet)]
    BY DEF TypeOK
<1>4. /\ n \in Nat /\ x \in ItemSet /\ st \in Seq(ItemSet) /\ body[o] \in Seq(ItemSet)
      /\ queue[o] \in Seq(ItemSet)
    BY <1>2, StreamTypes
<1>5. \A k \in InReq : Served(k)' = Served(k)
    BY <1>1 DEF Served
<1>6. /\ inPc'[i] = "Loop" /\ bound'[i] = (bound[i] \/ x.type = "BindAck")
      /\ \A k \in InReq \ {i} : inPc'[k] = inPc[k] /\ bound'[k] = bound[k] /\ hand'[k] = hand[k]
      /\ queue'[o] = Append(queue[o], x)
      /\ \A q \in OutReq \ {o} : queue'[q] = queue[q]
    BY <1>1, <1>2, <1>3
<1>7. Stream(o)' = Append(st, x)
    <2>1. body[o] \o Append(queue[o], x) = Append(body[o] \o queue[o], x)
        BY <1>4, StreamMoves
    <2> QED BY <1>1, <1>2, <1>5, <1>6, <2>1 DEF Stream
<1>8. \A q \in OutReq : q # Served(i)' => Stream(q)' = Stream(q)
    BY <1>1, <1>5, <1>6 DEF Stream
<1>9. StreamOK(o, st, p, n) /\ HandOK(i) /\ NoneMissing(i)
    BY <1>2 DEF StreamInv, ServedOK
<1> DEFINE t == Append(st, x)
<1>10. /\ \A a \in DOMAIN st : a \in DOMAIN t /\ t[a] = st[a]
       /\ Len(st) + 1 \in DOMAIN t /\ t[Len(st) + 1] = x /\ t # << >>
       /\ st # << >> => Len(st) + 1 > 1
    BY <1>4
<1>11. CASE x.type = "ConnC2" /\ x.call = o /\ st = << >> /\ n = 1 /\ ~bound[i]
    <2>1. DOMAIN t = {1} /\ t[1] = x
        BY <1>11
    <2> HIDE DEF t
    <2>2. StreamOK(o, t, p, n)
        BY <1>11, <2>1 DEF StreamOK
    <2>3. ~BindSeen(p, n) /\ ~bound'[i]
        <3>1. 2..n = {} /\ x.type # "BindAck"
            BY <1>11
        <3> QED BY <1>6, <1>11, <3>1 DEF BindSeen
    <2>4. HandOK(i)'
        BY <1>1, <1>5, <1>6, <1>7, <1>10, <2>3 DEF HandOK, t
    <2>5. NoneMissing(i)'
        BY <1>1, <1>11 DEF NoneMissing
    <2>6. ServedOK(i)'
        BY <1>1, <1>5, <1>7, <2>2, <2>4, <2>5 DEF ServedOK, t
    <2> QED BY <1>1, <1>2, <1>5, <1>6, <1>8, <2>6, StreamOwn DEF PairInv, ExclusivePairing
<1>12. CASE /\ x.call = n /\ IsAnswer(p, n, x) /\ st # << >>
            /\ bound[i] \/ x.type = "BindAck"
            /\ \A a \in DOMAIN st : a > 1 => st[a].call < n
    <2>1. StreamOK(o, t, p, n)
        BY <1>4, <1>9, <1>12, StreamAppend
    <2> HIDE DEF t
    <2>2. BindSeen(p, n) /\ bound'[i]
        <3>1. Calls(p, n, n)
            BY <1>12 DEF IsAnswer
        <3>2. bound'[i]
            BY <1>6, <1>12
        <3>3. n \in 2..n /\ \A j \in 2..(n - 1) : j \in 2..n
            BY <1>4, <3>1 DEF Calls
        <3> QED BY <3>1, <3>2, <3>3 DEF Calls, BindSeen
    <2>3. HandOK(i)'
        BY <1>1, <1>5, <1>6, <1>7, <1>10, <2>2 DEF HandOK, t
    <2>4. NoneMissing(i)'
        <3>1. ASSUME NEW k \in 2..n, Calls(p, n, k) PROVE \E a \in DOMAIN t : a > 1 /\ t[a].call = k
            <4>1. \/ \E a \in DOMAIN st : a > 1 /\ st[a].call = k
                  \/ x.call = k
                BY <1>2, <1>9, <3>1 DEF NoneMissing
            <4> QED BY <1>10, <1>12, <4>1
        <3> QED BY <1>1, <1>5, <1>7, <3>1 DEF NoneMissing, t
    <2>5. ServedOK(i)'
        BY <1>1, <1>5, <1>7, <2>1, <2>3, <2>4 DEF ServedOK, t
    <2> QED BY <1>1, <1>2, <1>5, <1>6, <1>8, <2>5, StreamOwn DEF PairInv, ExclusivePairing
<1> QED BY <1>1, <1>2, <1>9, <1>11, <1>12 DEF HandOK

\* The handler takes the next PDU: an answer is made up for each that calls for one.
LEMMA StreamPdu ==
    ASSUME TypeOK, BufferOK, PairInv, LinkInv, StreamInv, NEW i \in InReq, InPdu(i),
           done' = [done EXCEPT ![i] = @ + 1]
    PROVE  StreamInv'
<1> DEFINE o == Served(i)
           p == pdus[i]
           n == done[i]
           st == Stream(o)
           q == Current(i)
<1>1. inPc[i] = "Loop" /\ UNCHANGED <<out, queue, body, pdus>> /\ Buffered(i) >= Units - 1
    BY DEF InPdu, outVars, inClientVars
<1>2. o # 0 /\ o \in OutReq
    BY <1>1 DEF LinkInv
<1>3. /\ inPc \in [InReq -> Running \cup {"Idle", "Ok200", "Err400", "Err500", "Dropped"}]
      /\ bound \in [InReq -> BOOLEAN] /\ hand \in [InReq -> ItemSet] /\ done \in [InReq -> Nat]
      /\ vconn \in [InReq -> VConn]
    BY DEF TypeOK
<1>4. /\ n \in Nat /\ st \in Seq(ItemSet) /\ n >= 1 /\ q = p[n + 1] /\ n + 1 \in Nat
      /\ n + 1 \in 2..(n + 1) /\ 2..(n + 1) = (2..n) \cup {n + 1}
    <2>1. n \in Nat /\ st \in Seq(ItemSet)
        BY <1>2, StreamTypes
    <2>2. n >= 1
        BY <1>2 DEF PairInv, ExclusivePairing
    <2> QED BY <2>1, <2>2 DEF Current
<1>5. done'[i] = n + 1 /\ \A k \in InReq \ {i} : done'[k] = done[k]
    BY <1>3
<1>6. StreamOK(o, st, p, n) /\ HandOK(i) /\ NoneMissing(i)
    BY <1>2 DEF StreamInv, ServedOK
<1>7. /\ bound[i] <=> BindSeen(p, n)
      /\ out[o] = "open" => st # << >>
      /\ out[o] # "gone" => \A k \in 2..n : Calls(p, n, k) => \E a \in DOMAIN st : a > 1 /\ st[a].call = k
    BY <1>1, <1>6 DEF HandOK, NoneMissing
<1>8. /\ StreamOK(o, st, p, n + 1)
      /\ \A k \in 1..n : Calls(p, n + 1, k) <=> Calls(p, n, k)
      /\ \A a \in DOMAIN st : a > 1 => st[a].call < n + 1
    <2>1. n <= n + 1
        BY <1>4
    <2>2. \A a \in DOMAIN st : a > 1 => st[a].call \in 2..n
        BY <1>6 DEF StreamOK, IsAnswer, Calls
    <2>3. StreamOK(o, st, p, n + 1)
        BY <1>4, <1>6, <2>1, StreamGrow
    <2>4. \A k \in 1..n : Calls(p, n + 1, k) <=> Calls(p, n, k)
        BY <1>4, <2>1, CallsGrow
    <2>5. \A a \in DOMAIN st : a > 1 => st[a].call < n + 1
        BY <1>4, <2>2
    <2> QED BY <2>3, <2>4, <2>5
<1>9. ASSUME NEW k \in InReq PROVE Served(k)' = Served(k)
    <2>1. vconn' = vconn \/ vconn' = [vconn EXCEPT ![i] = enter_data_transfer(@)]
        BY DEF InPdu, End
    <2>2. vconn'[k] \in {vconn[k], enter_data_transfer(vconn[k])}
        BY <1>3, <2>1
    <2> QED BY <1>3, <2>2, VConnTypes DEF Served
<1>10. \A r \in OutReq : Stream(r)' = Stream(r)
    BY <1>1 DEF Stream
<1>11. o' = o /\ st' = st /\ p' = p
    BY <1>1, <1>2, <1>9, <1>10
<1>12. ASSUME UNCHANGED bound, \A k \in InReq \ {i} : inPc'[k] = inPc[k] /\ hand'[k] = hand[k],
              HandOK(i)', NoneMissing(i)'
       PROVE  StreamInv'
    <2>1. ServedOK(i)'
        BY <1>5, <1>8, <1>11, <1>12 DEF ServedOK
    <2> QED BY <1>1, <1>2, <1>5, <1>9, <1>10, <1>12, <2>1, StreamOwn DEF PairInv, ExclusivePairing
<1>13. ASSUME UNCHANGED <<inPc, bound, hand>>, q.type = "Ignored" \/ (q.type = "Request" /\ ~bound[i])
       PROVE  StreamInv'
    <2>1. ~Calls(p, n + 1, n + 1)
        BY <1>4, <1>7, <1>13 DEF Calls
    <2>2. BindSeen(p, n + 1) <=> BindSeen(p, n)
        BY <1>4, <1>13 DEF BindSeen
    <2>3. HandOK(i)'
        BY <1>1, <1>5, <1>7, <1>11, <1>13, <2>2 DEF HandOK
    <2>4. ASSUME NEW k \in 2..(n + 1), Calls(p, n + 1, k), out[o] # "gone"
          PROVE  \E a \in DOMAIN st : a > 1 /\ st[a].call = k
        BY <1>4, <1>7, <1>8, <2>1, <2>4
    <2>5. NoneMissing(i)'
        BY <1>1, <1>5, <1>11, <2>4 DEF NoneMissing
    <2> QED BY <1>12, <1>13, <2>3, <2>5
<1>14. ASSUME NEW x \in ItemSet, Push(i, x), UNCHANGED bound, x.call = n + 1,
              \/ q.type = "Bind" /\ x.type = "BindAck"
              \/ q.type = "Request" /\ x.type = "Response" /\ bound[i]
       PROVE  StreamInv'
    <2>1. /\ inPc'[i] = "Send" /\ hand'[i] = x
          /\ \A k \in InReq \ {i} : inPc'[k] = inPc[k] /\ hand'[k] = hand[k]
        BY <1>3, <1>14 DEF Push
    <2>2. Calls(p, n + 1, n + 1)
        BY <1>4, <1>7, <1>14 DEF Calls
    <2>3. IsAnswer(p, n + 1, x)
        BY <1>4, <1>14, <2>2 DEF IsAnswer, AnswerType
    <2>4. HandOK(i)'
        BY <1>1, <1>5, <1>7, <1>8, <1>11, <1>14, <2>1, <2>3 DEF HandOK
    <2>5. ASSUME NEW k \in 2..(n + 1), Calls(p, n + 1, k), out[o] # "gone"
          PROVE  (\E a \in DOMAIN st : a > 1 /\ st[a].call = k) \/ x.call = k
        BY <1>4, <1>7, <1>8, <1>14, <2>5
    <2>6. NoneMissing(i)'
        BY <1>1, <1>5, <1>11, <2>1, <2>5 DEF NoneMissing
    <2> QED BY <1>12, <1>14, <2>1, <2>4, <2>6
<1>15. CASE /\ q.type = "Bind" /\ Push(i, Item("BindAck", done[i] + 1, << >>)) /\ UNCHANGED bound
    <2> DEFINE x == Item("BindAck", done[i] + 1, << >>)
    <2>1. x \in ItemSet /\ x.call = n + 1 /\ x.type = "BindAck"
        <3>1. << >> \in Seq(Nat)
            OBVIOUS
        <3> QED BY <1>4, <3>1, ItemTypes, ItemInSet DEF Item
    <2> HIDE DEF x
    <2>2. Push(i, x)
        BY <1>15 DEF x
    <2> QED BY <1>14, <1>15, <2>1, <2>2
<1>16. CASE /\ q.type = "Request" /\ bound[i] /\ UNCHANGED bound
            /\ Push(i, Item("Response", done[i] + 1, OpnumStub(OpnumSession(session[i], q.arg), q.arg)))
    <2> DEFINE x == Item("Response", done[i] + 1, OpnumStub(OpnumSession(session[i], q.arg), q.arg))
    <2>1. q.arg \in Nat
        <3>1. Buffered(i) >= 1
            BY <1>1 DEF Units, Buffered, TypeOK
        <3> QED BY <3>1, CurrentPdu
    <2>2. session[i] \in Session
        BY DEF TypeOK
    <2>3. OpnumStub(OpnumSession(session[i], q.arg), q.arg) \in Seq(Nat)
        BY <2>1, <2>2, OpnumTypes
    <2>4. x \in ItemSet /\ x.call = n + 1 /\ x.type = "Response"
        BY <1>4, <2>3, ItemTypes, ItemInSet DEF Item
    <2> HIDE DEF x
    <2>5. Push(i, x)
        BY <1>16 DEF x
    <2> QED BY <1>14, <1>16, <2>4, <2>5
<1>17. done' # done
    BY <1>4, <1>5
<1> QED BY <1>13, <1>15, <1>16, <1>17 DEF InPdu

\* Every step keeps the streams.
LEMMA StreamNext ==
    TypeOK /\ BufferOK /\ PairInv /\ LinkInv /\ CompleteStream /\ StreamInv /\ [Next]_vars => StreamInv'
<1> SUFFICES ASSUME TypeOK, BufferOK, PairInv, LinkInv, CompleteStream, StreamInv, [Next]_vars
             PROVE  StreamInv'
    OBVIOUS
<1>0. /\ inPc \in [InReq -> Running \cup {"Idle", "Ok200", "Err400", "Err500", "Dropped"}]
      /\ pdus \in [InReq -> Seq(Pdu)]
    BY DEF TypeOK
<1>1. ASSUME UNCHANGED <<out, queue, body, vconn, done, hand, bound>>,
             \A k \in InReq : \A j \in 1..done[k] : pdus'[k][j] = pdus[k][j],
             \A k \in InReq :
                \/ inPc'[k] = inPc[k]
                \/ /\ inPc'[k] \notin {"Send", "Loop"} /\ inPc[k] # "Dropped"
                   /\ inPc'[k] = "Dropped" \/ inPc[k] # "Send" \/ (Served(k) # 0 => out[Served(k)] = "gone")
      PROVE  StreamInv'
    <2>1. \A k \in InReq : Served(k)' = Served(k)
        BY <1>1 DEF Served
    <2>2. \A o \in OutReq : Stream(o)' = Stream(o)
        BY <1>1 DEF Stream
    <2>3. ASSUME NEW k \in InReq PROVE ServedOK(k)'
        <3>1. ServedOK(k) /\ (Served(k) # 0 => Served(k) \in OutReq)
            BY DEF StreamInv, LinkInv
        <3> QED BY <1>1, <2>1, <2>2, <3>1, ServedFrame
    <2>4. \A o \in OutReq : Stream(o)' # << >> => \E k \in InReq : Served(k)' = o
        BY <2>1, <2>2 DEF StreamInv
    <2> QED BY <2>3, <2>4 DEF StreamInv
<1>2. ASSUME NEW i \in InReq, InClient(i)
      PROVE  StreamInv'
    <2>1. CASE InOpen(i) \/ InEndBody(i)
        BY <1>0, <1>1, <2>1 DEF InOpen, InEndBody, outVars, inClientVars, handlerVars
    <2>2. CASE InSendPdu(i)
        <3>1. PICK x \in Pdu : pdus' = [pdus EXCEPT ![i] = Append(@, x)]
            BY <2>2 DEF InSendPdu
        <3>2. ASSUME NEW k \in InReq, NEW j \in 1..done[k] PROVE pdus'[k][j] = pdus[k][j]
            <4>1. done[k] \in Nat /\ done[k] <= Len(pdus[k]) /\ pdus[k] \in Seq(Pdu)
                BY StreamTypes
            <4>2. j \in 1..Len(pdus[k])
                BY <4>1
            <4>3. Append(pdus[k], x)[j] = pdus[k][j]
                BY <4>1, <4>2
            <4> QED BY <1>0, <3>1, <4>3
        <3> QED BY <1>1, <2>2, <3>2 DEF InSendPdu, outVars, handlerVars
    <2>3. CASE InDrop(i)
        <3>1. /\ inPc'[i] = "Dropped" /\ inPc[i] \in Running /\ \A k \in InReq \ {i} : inPc'[k] = inPc[k]
              /\ UNCHANGED <<out, queue, body, vconn, done, hand, bound, pdus>>
            BY <1>0, <2>3 DEF InDrop, End, outVars, inClientVars
        <3> QED BY <1>1, <3>1 DEF Running
    <2> QED BY <1>2, <2>1, <2>2, <2>3 DEF InClient
<1>3. ASSUME NEW i \in InReq, InHandler(i)
      PROVE  StreamInv'
    <2>1. CASE \E n \in 1..(Units * MaxPdus) : InFrame(i, n)
        BY <1>0, <1>1, <2>1 DEF InFrame, outVars, inClientVars
    <2>2. CASE InBodyEnds(i)
        <3>1. /\ inPc'[i] \in {"Err400", "Ok200", "Err500"} /\ inPc[i] \in {"First", "Loop"}
              /\ \A k \in InReq \ {i} : inPc'[k] = inPc[k]
              /\ UNCHANGED <<out, queue, body, vconn, done, hand, bound, pdus>>
            BY <1>0, <2>2 DEF InBodyEnds, Reading, End, outVars, inClientVars
        <3> QED BY <1>1, <3>1
    <2>3. CASE InFirst(i)
        BY <2>3, StreamFirst
    <2>4. CASE InPush(i)
        <3>1. CASE out[out_tx[i]] = "open"
            BY <2>4, <3>1, StreamPush
        <3>2. CASE out[out_tx[i]] # "open"
            <4>1. /\ inPc'[i] = "Err500" /\ inPc[i] = "Send" /\ \A k \in InReq \ {i} : inPc'[k] = inPc[k]
                  /\ UNCHANGED <<out, queue, body, vconn, done, hand, bound, pdus>>
                BY <1>0, <2>4, <3>2 DEF InPush, End, inClientVars
            <4>2. Served(i) \in OutReq /\ out_tx[i] = Served(i) /\ out[Served(i)] \in {"open", "ended", "gone"}
                BY <4>1 DEF LinkInv
            <4>3. out[Served(i)] # "ended"
                BY <4>1, <4>2 DEF CompleteStream, Running
            <4> QED BY <1>1, <3>2, <4>1, <4>2, <4>3
        <3> QED BY <3>1, <3>2
    <2>5. CASE InPdu(i)
        <3>1. CASE done' = [done EXCEPT ![i] = @ + 1]
            BY <2>5, <3>1, StreamPdu
        <3>2. CASE End(i, "Err500") /\ UNCHANGED done
            <4>1. /\ inPc'[i] = "Err500" /\ inPc[i] = "Loop" /\ \A k \in InReq \ {i} : inPc'[k] = inPc[k]
                  /\ UNCHANGED <<out, queue, body, vconn, done, hand, bound, pdus>>
                BY <1>0, <2>5, <3>2 DEF InPdu, End, outVars, inClientVars
            <4> QED BY <1>1, <4>1
        <3> QED BY <2>5, <3>1, <3>2 DEF InPdu
    <2> QED BY <1>3, <2>1, <2>2, <2>3, <2>4, <2>5 DEF InHandler
<1>4. CASE UNCHANGED vars
    BY <1>1, <1>4 DEF vars, outVars, handlerVars, inClientVars
<1> QED BY <1>2, <1>3, <1>4, StreamOut DEF Next, Terminated

\* The senders and the streams in every reachable state.
THEOREM StreamInvariant == Spec => [](LinkInv /\ StreamInv)
BY TypeInit, TypeNext, BufferInit, BufferNext, PairInit, PairNext, LinkInit, LinkNext,
   StreamInit, StreamNext, PTL DEF Spec

\* A connection leaves the established state only with a Bind; the client has begun to send its
\* newest PDU; and a request that is over has left nothing without a reason.
AccountOK(i) ==
    /\ Served(i) # 0 => vconn[i].state = "ConnectionEstablished" \/ BindSeen(pdus[i], done[i])
    /\ Units * Len(pdus[i]) < size[i] + Units \/ pdus[i] = << >>
    /\ ~bodyEnd[i] => size[i] = Units * Len(pdus[i])
    /\ inPc[i] = "Ok200" => done[i] = Len(pdus[i])
    /\ inPc[i] = "Err500" /\ Served(i) # 0 /\ out[Served(i)] # "gone" =>
         CutShort(i) \/ (Buffered(i) >= Units /\ Refused(i, done[i] + 1))

AccountInv == \A i \in InReq : AccountOK(i)

\* Initially nothing was sent.
LEMMA AccountInit == Init => AccountInv
BY VConnTypes DEF Init, AccountInv, AccountOK, Units, Served

\* What an IN request knows of its body survives a step that leaves the request as it is,
\* whatever becomes of the OUT response but that it comes back.
LEMMA AccountFrame ==
    ASSUME TypeOK, NEW k \in InReq, AccountOK(k),
           vconn'[k] = vconn[k], session'[k] = session[k], inPc'[k] = inPc[k], pdus'[k] = pdus[k],
           size'[k] = size[k], arrived'[k] = arrived[k], done'[k] = done[k], bodyEnd'[k] = bodyEnd[k],
           Served(k) # 0 /\ out[Served(k)] = "gone" => out'[Served(k)] = "gone"
    PROVE  AccountOK(k)'
<1>1. Served(k)' = Served(k) /\ Buffered(k)' = Buffered(k) /\ CutShort(k)' = CutShort(k)
    BY DEF Served, Buffered, CutShort, Units
<1>2. Refused(k, done[k] + 1)' <=> Refused(k, done[k] + 1)
    BY DEF Refused
<1> QED BY <1>1, <1>2 DEF AccountOK, Refused, BindSeen

\* A longer body, or one more PDU taken from it, has the Binds it had.
LEMMA BindStays ==
    ASSUME NEW p \in Seq(Pdu), NEW q \in Seq(Pdu), NEW n \in Nat, NEW m \in Nat, n <= m,
           \A j \in 1..n : q[j] = p[j], BindSeen(p, n)
    PROVE  BindSeen(q, m)
BY DEF BindSeen

\* The steps of an OUT request leave the bodies alone, and no response comes back.
LEMMA AccountOut ==
    ASSUME TypeOK, LinkInv, AccountInv, NEW o \in OutReq, OutServe(o) \/ OutClient(o)
    PROVE  AccountInv'
<1>1. UNCHANGED <<vconn, session, inPc, pdus, size, bodyEnd, arrived, done>>
    BY DEF OutServe, OutClient, handlerVars, inClientVars
<1>2. ASSUME NEW k \in InReq PROVE AccountOK(k)'
    <2>1. Served(k) # 0 /\ out[Served(k)] = "gone" => out'[Served(k)] = "gone"
        <3>1. Served(k) # 0 => Served(k) \in OutReq
            BY DEF LinkInv
        <3> QED BY <3>1 DEF OutServe, OutClient, OutStream, OutFinish, OutAccept, OutReject, OutDisconnect, TypeOK
    <2> QED BY <1>1, <2>1, AccountFrame DEF AccountInv
<1> QED BY <1>2 DEF AccountInv

\* A step of IN request i leaves out and the other requests as they are.
LEMMA AccountOther ==
    ASSUME TypeOK, AccountInv, NEW i \in InReq, InHandler(i) \/ InClient(i), AccountOK(i)'
    PROVE  AccountInv'
<1>0. /\ inPc \in [InReq -> Running \cup {"Idle", "Ok200", "Err400", "Err500", "Dropped"}]
      /\ session \in [InReq -> Session] /\ vconn \in [InReq -> VConn]
      /\ done \in [InReq -> Nat] /\ arrived \in [InReq -> Nat] /\ size \in [InReq -> Nat]
      /\ pdus \in [InReq -> Seq(Pdu)] /\ bodyEnd \in [InReq -> BOOLEAN]
    BY DEF TypeOK
<1> DEFINE Stays(k) == /\ vconn'[k] = vconn[k] /\ session'[k] = session[k] /\ inPc'[k] = inPc[k]
                       /\ pdus'[k] = pdus[k] /\ size'[k] = size[k] /\ arrived'[k] = arrived[k]
                       /\ done'[k] = done[k] /\ bodyEnd'[k] = bodyEnd[k]
<1>1. ASSUME NEW k \in InReq \ {i} PROVE Stays(k)
    <2>1. CASE InClient(i)
        BY <1>0, <1>1, <2>1 DEF InClient, InOpen, InSendPdu, InEndBody, InDrop, End, handlerVars, inClientVars
    <2>2. CASE InBodyEnds(i) \/ \E n \in 1..(Units * MaxPdus) : InFrame(i, n)
        BY <1>0, <1>1, <2>2 DEF InBodyEnds, InFrame, End, inClientVars
    <2>3. CASE InFirst(i)
        BY <1>0, <1>1, <2>3 DEF InFirst, End, Push, inClientVars
    <2>4. CASE InPush(i)
        BY <1>0, <1>1, <2>4 DEF InPush, End, inClientVars
    <2>5. CASE InPdu(i)
        BY <1>0, <1>1, <2>5 DEF InPdu, End, Push, inClientVars
    <2> QED BY <2>1, <2>2, <2>3, <2>4, <2>5 DEF InHandler
<1>2. out' = out
    BY DEF InClient, InOpen, InSendPdu, InEndBody, InDrop, InHandler, InFrame, InBodyEnds, InFirst, InPush,
           InPdu, outVars
<1>3. ASSUME NEW k \in InReq \ {i} PROVE AccountOK(k)'
    BY <1>1, <1>2, <1>3, AccountFrame DEF AccountInv
<1> QED BY <1>3 DEF AccountInv

\* A handler that ends in its loop has nothing left, refuses the next PDU, or has a part of one.
LEMMA AccountEnds ==
    ASSUME TypeOK, BufferOK, LinkInv, StreamInv, AccountInv, NEW i \in InReq, inPc[i] = "Loop",
           UNCHANGED <<pdus, size, bodyEnd, arrived, done, vconn, session>>,
           \/ inPc'[i] = "Ok200" /\ Buffered(i) = 0 /\ arrived[i] = size[i]
           \/ inPc'[i] = "Err500" /\ Buffered(i) \in 1..(Units - 1)
           \/ /\ inPc'[i] = "Err500" /\ Buffered(i) >= Units
              /\ \/ Current(i).type \in {"Malformed", "ConnB1", "OtherBind"}
                 \/ Current(i).type = "Bind" /\ ~CanEnterDataTransfer(vconn[i])
                 \/ Current(i).type = "Request" /\ bound[i] /\ OpnumRefused(session[i], Current(i).arg)
    PROVE  AccountOK(i)'
<1>1. /\ pdus[i] \in Seq(Pdu) /\ size[i] \in Nat /\ done[i] \in Nat /\ arrived[i] \in Nat
      /\ Units * done[i] <= arrived[i] /\ arrived[i] <= size[i] /\ size[i] <= Units * Len(pdus[i])
      /\ Len(pdus[i]) \in Nat
    BY DEF TypeOK, BufferOK
<1>2. AccountOK(i)
    BY DEF AccountInv
<1>3. Buffered(i)' = Buffered(i) /\ CutShort(i)' = CutShort(i)
    BY DEF Buffered, CutShort, Units
<1>4. ASSUME Buffered(i) = 0, arrived[i] = size[i] PROVE done[i] = Len(pdus[i])
    <2>1. CASE pdus[i] = << >>
        BY <1>1, <2>1 DEF Units
    <2>2. CASE Units * Len(pdus[i]) < size[i] + Units
        BY <1>1, <1>4, <2>2 DEF Units, Buffered
    <2> QED BY <1>2, <2>1, <2>2 DEF AccountOK
<1>5. ASSUME \/ Current(i).type \in {"Malformed", "ConnB1", "OtherBind"}
             \/ Current(i).type = "Bind" /\ ~CanEnterDataTransfer(vconn[i])
             \/ Current(i).type = "Request" /\ bound[i] /\ OpnumRefused(session[i], Current(i).arg)
      PROVE  Refused(i, done[i] + 1)
    <2>1. Served(i) # 0 /\ (bound[i] <=> BindSeen(pdus[i], done[i]))
        BY DEF LinkInv, StreamInv, ServedOK, HandOK
    <2>2. ~CanEnterDataTransfer(vconn[i]) => vconn[i].state # "ConnectionEstablished"
        BY DEF CanEnterDataTransfer
    <2>3. vconn[i].state # "ConnectionEstablished" => BindSeen(pdus[i], done[i])
        BY <1>2, <2>1 DEF AccountOK
    <2>4. BindSeen(pdus[i], done[i]) <=> \E j \in 2..((done[i] + 1) - 1) : pdus[i][j].type = "Bind"
        BY <1>1 DEF BindSeen
    <2> QED BY <1>5, <2>1, <2>2, <2>3, <2>4 DEF Refused, Current
<1>6. Refused(i, done[i] + 1)' <=> Refused(i, done[i] + 1)
    BY DEF Refused
<1>7. inPc'[i] = "Ok200" => done[i] = Len(pdus[i])
    BY <1>4
<1>8. inPc'[i] = "Err500" => CutShort(i) \/ (Buffered(i) >= Units /\ Refused(i, done[i] + 1))
    BY <1>5 DEF CutShort
<1>9. Served(i)' = Served(i)
    BY DEF Served
<1> HIDE DEF CutShort, Refused, Buffered
<1> QED BY <1>2, <1>3, <1>6, <1>7, <1>8, <1>9 DEF AccountOK

\* A client's part of a body, a frame, and an end that leaves nothing to account for.
LEMMA AccountBody ==
    ASSUME TypeOK, BufferOK, LinkInv, AccountInv, NEW i \in InReq,
           InClient(i) \/ \E n \in 1..(Units * MaxPdus) : InFrame(i, n)
    PROVE  AccountOK(i)'
<1>0. /\ inPc \in [InReq -> Running \cup {"Idle", "Ok200", "Err400", "Err500", "Dropped"}]
      /\ pdus \in [InReq -> Seq(Pdu)] /\ size \in [InReq -> Nat] /\ arrived \in [InReq -> Nat]
      /\ done \in [InReq -> Nat] /\ bodyEnd \in [InReq -> BOOLEAN]
      /\ \A k \in InReq : /\ Units * done[k] <= arrived[k] /\ arrived[k] <= size[k]
                           /\ size[k] <= Units * Len(pdus[k])
    BY DEF TypeOK, BufferOK
<1>1. AccountOK(i)
    BY DEF AccountInv
<1>2. /\ UNCHANGED <<vconn, done>> /\ inPc'[i] \in {"First", "Send", "Loop", "Dropped"}
      /\ Served(i)' = Served(i)
    BY <1>0 DEF InClient, InOpen, InSendPdu, InEndBody, InDrop, InFrame, Reading, End, handlerVars, Running,
                Served
<1>3. CASE UNCHANGED pdus
    <2>1. Units * Len(pdus[i]) < size'[i] + Units \/ pdus[i] = << >>
        <3>1. CASE InEndBody(i)
            <4>1. PICK n \in arrived[i]..size[i] : size[i] - n < Units /\ size' = [size EXCEPT ![i] = n]
                BY <3>1 DEF InEndBody
            <4>2. size'[i] = n /\ n \in Nat /\ pdus[i] \in Seq(Pdu)
                BY <1>0, <4>1
            <4>3. size[i] = Units * Len(pdus[i])
                BY <1>1, <3>1 DEF AccountOK, InEndBody
            <4> QED BY <1>0, <4>1, <4>2, <4>3 DEF Units
        <3>2. CASE UNCHANGED size
            BY <1>1, <3>2 DEF AccountOK
        <3>3. ~InSendPdu(i)
            BY <1>0, <1>3 DEF InSendPdu
        <3> QED BY <3>1, <3>2, <3>3 DEF InClient, InOpen, InDrop, InFrame, inClientVars
    <2>2. ~bodyEnd'[i] => size'[i] = size[i] /\ ~bodyEnd[i]
        BY <1>0, <1>3 DEF InClient, InOpen, InEndBody, InDrop, InFrame, InSendPdu, inClientVars
    <2> QED BY <1>1, <1>2, <1>3, <2>1, <2>2 DEF AccountOK, BindSeen
<1>4. CASE InSendPdu(i)
    <2>1. PICK p \in Pdu : pdus' = [pdus EXCEPT ![i] = Append(@, p)]
        BY <1>4 DEF InSendPdu
    <2>2. /\ pdus'[i] = Append(pdus[i], p) /\ pdus[i] \in Seq(Pdu) /\ done[i] \in Nat
          /\ done[i] <= Len(pdus[i]) /\ size'[i] = size[i] + Units
        BY <1>0, <1>4, <2>1 DEF InSendPdu, Units
    <2>3. pdus'[i] \in Seq(Pdu) /\ Len(pdus'[i]) = Len(pdus[i]) + 1
          /\ \A j \in 1..done[i] : pdus'[i][j] = pdus[i][j]
        BY <2>2
    <2>4. Units * Len(pdus'[i]) < size'[i] + Units
        <3>1. CASE pdus[i] = << >>
            BY <1>0, <2>2, <2>3, <3>1 DEF Units
        <3>2. CASE Units * Len(pdus[i]) < size[i] + Units
            BY <1>0, <2>2, <2>3, <3>2 DEF Units
        <3> QED BY <1>1, <3>1, <3>2 DEF AccountOK
    <2>5. BindSeen(pdus[i], done[i]) => BindSeen(pdus'[i], done[i])
        BY <2>3 DEF BindSeen
    <2>6. ~bodyEnd'[i] => size'[i] = Units * Len(pdus'[i])
        BY <1>0, <1>1, <1>4, <2>2, <2>3 DEF InSendPdu, AccountOK, Units
    <2> QED BY <1>1, <1>2, <2>4, <2>5, <2>6 DEF AccountOK
<1> QED BY <1>3, <1>4 DEF InClient, InOpen, InEndBody, InDrop, InFrame, inClientVars

\* The first PDU, and a send.
LEMMA AccountFirst ==
    ASSUME TypeOK, BufferOK, LinkInv, CompleteStream, AccountInv, NEW i \in InReq, InFirst(i) \/ InPush(i)
    PROVE  AccountOK(i)'
<1>0. /\ inPc \in [InReq -> Running \cup {"Idle", "Ok200", "Err400", "Err500", "Dropped"}]
      /\ vconn \in [InReq -> VConn] /\ UNCHANGED <<pdus, size, bodyEnd, out, arrived>>
    BY DEF TypeOK, InFirst, InPush, outVars, inClientVars
<1>1. AccountOK(i)
    BY DEF AccountInv
<1>2. CASE InFirst(i)
    <2>1. Served(i) = 0
        BY <1>2 DEF InFirst, BufferOK
    <2>2. CASE UNCHANGED vconn /\ inPc'[i] \in {"Err400", "Err500"}
        BY <1>0, <1>1, <2>1, <2>2 DEF AccountOK, Served
    <2>3. CASE \E c \in DOMAIN pending :
                 /\ vconn' = [vconn EXCEPT ![i] = accept_in_channel(pending[c].vconn)] /\ inPc'[i] = "Send"
        <3>1. vconn'[i].state = "ConnectionEstablished"
            BY <1>0, <2>3 DEF accept_in_channel, TypeOK, VConn
        <3> QED BY <1>0, <1>1, <2>3, <3>1 DEF AccountOK
    <2> QED BY <1>0, <1>2, <2>2, <2>3 DEF InFirst, End, Push
<1>3. CASE InPush(i)
    <2>1. /\ inPc[i] = "Send" /\ Served(i) # 0 /\ out_tx[i] = Served(i) /\ out[Served(i)] # "ended"
          /\ out[Served(i)] \in {"open", "ended", "gone"} /\ UNCHANGED <<vconn, done>>
          /\ Served(i)' = Served(i) /\ Served(i) \in OutReq
        BY <1>3 DEF InPush, End, LinkInv, CompleteStream, Running, Served
    <2>2. inPc'[i] = "Loop" \/ (inPc'[i] = "Err500" /\ out[Served(i)] = "gone")
        BY <1>0, <1>3, <2>1 DEF InPush, End
    <2> QED BY <1>0, <1>1, <2>1, <2>2 DEF AccountOK
<1> QED BY <1>2, <1>3

\* A PDU, and the end of the body.
LEMMA AccountPdu ==
    ASSUME TypeOK, BufferOK, PairInv, LinkInv, StreamInv, AccountInv, NEW i \in InReq,
           InPdu(i) \/ InBodyEnds(i)
    PROVE  AccountOK(i)'
<1>0. /\ inPc \in [InReq -> Running \cup {"Idle", "Ok200", "Err400", "Err500", "Dropped"}]
      /\ vconn \in [InReq -> VConn] /\ done \in [InReq -> Nat] /\ arrived \in [InReq -> Nat]
      /\ pdus \in [InReq -> Seq(Pdu)] /\ UNCHANGED <<pdus, size, bodyEnd, arrived>>
    BY DEF TypeOK, InPdu, InBodyEnds, inClientVars
<1>b. Buffered(i) \in Nat
    BY <1>0 DEF BufferOK, Buffered, Units
<1>1. AccountOK(i)
    BY DEF AccountInv
<1>2. CASE InBodyEnds(i) /\ inPc[i] = "First"
    <2>1. inPc'[i] = "Err400" /\ UNCHANGED <<vconn, done>>
        BY <1>0, <1>2 DEF InBodyEnds, End
    <2> QED BY <1>0, <1>1, <2>1 DEF AccountOK, Served
<1>3. CASE InBodyEnds(i) /\ inPc[i] = "Loop"
    <2>1. /\ UNCHANGED <<vconn, done, session>> /\ arrived[i] = size[i] /\ Buffered(i) < Units - 1
          /\ inPc'[i] = IF Buffered(i) = 0 THEN "Ok200" ELSE "Err500"
        BY <1>0, <1>3 DEF InBodyEnds, End, Reading, Needed
    <2>2. Buffered(i) = 0 \/ Buffered(i) \in 1..(Units - 1)
        BY <1>0, <1>b, <2>1 DEF Units
    <2> QED BY <1>0, <1>b, <1>3, <2>1, <2>2, AccountEnds
<1>4. CASE InPdu(i) /\ End(i, "Err500") /\ UNCHANGED done
    <2>1. /\ UNCHANGED <<vconn, session>> /\ inPc'[i] = "Err500" /\ inPc[i] = "Loop" /\ Buffered(i) >= Units - 1
        BY <1>0, <1>4 DEF InPdu, End
    <2>2. Buffered(i) < Units => Buffered(i) \in 1..(Units - 1)
        BY <1>0, <1>b, <2>1 DEF Units
    <2>3. CASE Buffered(i) < Units
        BY <1>0, <1>4, <2>1, <2>2, <2>3, AccountEnds
    <2>4. CASE ~(Buffered(i) < Units)
        <3>1. Buffered(i) >= Units
            BY <1>0, <1>b, <2>4 DEF Units
        <3>2. done' # [done EXCEPT ![i] = @ + 1]
            BY <1>0, <1>4
        <3>3. \/ Current(i).type \in {"Malformed", "ConnB1", "OtherBind"}
              \/ Current(i).type = "Bind" /\ ~CanEnterDataTransfer(vconn[i])
              \/ Current(i).type = "Request" /\ bound[i] /\ OpnumRefused(session[i], Current(i).arg)
            BY <1>4, <2>4, <3>2 DEF InPdu
        <3> QED BY <1>0, <1>4, <2>1, <3>1, <3>3, AccountEnds
    <2> QED BY <2>3, <2>4
<1>5. CASE InPdu(i) /\ done' = [done EXCEPT ![i] = @ + 1]
    <2>1. /\ Served(i) # 0 /\ done[i] >= 1 /\ done'[i] = done[i] + 1 /\ inPc[i] = "Loop"
          /\ inPc'[i] \in {"Send", "Loop"}
        BY <1>0, <1>5 DEF InPdu, End, Push, LinkInv, PairInv, ExclusivePairing
    <2>2. BindSeen(pdus[i], done[i]) => BindSeen(pdus[i], done[i] + 1)
        BY <1>0, BindStays
    <2>3. \/ Current(i).type = "Bind"
          \/ vconn'[i] = vconn[i]
        BY <1>0, <1>5 DEF InPdu
    <2>4. Current(i).type = "Bind" => BindSeen(pdus[i], done[i] + 1)
        <3>1. done[i] + 1 \in 2..(done[i] + 1)
            BY <1>0, <2>1
        <3> QED BY <3>1 DEF BindSeen, Current
    <2>5. vconn'[i].state = "ConnectionEstablished" \/ BindSeen(pdus'[i], done'[i])
        BY <1>0, <1>1, <2>1, <2>2, <2>3, <2>4 DEF AccountOK
    <2> QED BY <1>0, <1>1, <2>1, <2>5 DEF AccountOK
<1> QED BY <1>2, <1>3, <1>4, <1>5 DEF InPdu, InBodyEnds, Reading

\* Every step accounts for the PDUs that are left.
LEMMA AccountNext ==
    TypeOK /\ BufferOK /\ PairInv /\ LinkInv /\ CompleteStream /\ StreamInv /\ AccountInv /\ [Next]_vars
        => AccountInv'
<1> SUFFICES ASSUME TypeOK, BufferOK, PairInv, LinkInv, CompleteStream, StreamInv, AccountInv, [Next]_vars
             PROVE  AccountInv'
    OBVIOUS
<1>1. ASSUME NEW i \in InReq, InHandler(i) \/ InClient(i) PROVE AccountInv'
    <2>1. AccountOK(i)'
        BY <1>1, AccountBody, AccountFirst, AccountPdu DEF InHandler
    <2> QED BY <1>1, <2>1, AccountOther
<1>2. CASE UNCHANGED vars
    BY <1>2 DEF vars, outVars, handlerVars, inClientVars, AccountInv, AccountOK, Served, Refused, CutShort,
                Buffered, BindSeen
<1> QED BY <1>1, <1>2, AccountOut DEF Next, Terminated

\* StreamFaithful for any number of requests and PDUs and any capacity: what goes down an OUT
\* stream is CONN/C2 and then the answers to the PDUs of its own IN request, in order; and no PDU
\* is left over but by a request that refused it, lost its response, was dropped or gave up on a
\* part of it.
THEOREM StreamSafety == Spec => []StreamFaithful
<1>1. StreamInv /\ AccountInv => StreamFaithful
    BY DEF StreamInv, ServedOK, StreamOK, NoneMissing, IsAnswer, Calls, BindSeen, Answerable, StreamFaithful,
           AccountInv, AccountOK
<1> QED BY <1>1, StreamInvariant, TypeInit, TypeNext, BufferInit, BufferNext, PairInit, PairNext, LinkInit,
           LinkNext, StreamInit, StreamNext, AccountInit, AccountNext, PTL DEF Spec

-----------------------------------------------------------------------------
(* Grants: what a client was told, and how far its session is.               *)

\* At which stage opnum n is granted.
Rank(n) == CASE n = 1 -> 1 [] n = 2 -> 2 [] n = 4 -> 3
Grants == {1, 2, 4}
GrantState == {"AwaitingHandshake", "AwaitingTunnelAuth", "AwaitingChannelCreate", "DataTransfer"}

\* The client of IN request i was told that opnum n was granted, or is about to be.
Granted(i, n) == \E a \in DOMAIN Stream(Served(i)) : Answers(i, a, n)
Holding(i, n) == inPc[i] = "Send" /\ hand[i].type = "Response" /\ pdus[i][hand[i].call].arg = n

GrantOK(i) ==
    LET st == Stream(Served(i))  g == Stage(session[i].state) IN
    /\ session[i].state \in GrantState
    /\ \A n \in Grants :
         /\ Granted(i, n) => Rank(n) <= g
         /\ Holding(i, n) => Rank(n) = g /\ ~Granted(i, n)
         /\ inPc[i] \in {"Send", "Loop"} /\ out[Served(i)] = "open" /\ Rank(n) <= g =>
              Granted(i, n) \/ Holding(i, n)
         /\ \A a, b \in DOMAIN st : Answers(i, a, n) /\ Answers(i, b, n) => a = b
    /\ \A a \in DOMAIN st : Answers(i, a, 4) => \E b \in 1..(a - 1) : Answers(i, b, 2)
    /\ \A b \in DOMAIN st : Answers(i, b, 2) => \E c \in 1..(b - 1) : Answers(i, c, 1)
    /\ \A a \in DOMAIN st : /\ Answers(i, a, 1) => st[a].stub[1] = session[i].tunnel_id
                            /\ Answers(i, a, 4) => st[a].stub[1] = session[i].channel_id
    /\ Holding(i, 1) => hand[i].stub[1] = session[i].tunnel_id
    /\ Holding(i, 4) => hand[i].stub[1] = session[i].channel_id

GrantInv == \A i \in InReq : /\ Served(i) # 0 => GrantOK(i)
                             /\ Served(i) = 0 => session[i].state = "AwaitingHandshake"

\* What process_tsg_opnum does when the session does not refuse: opnums 1, 2 and 4 each take it one
\* stage on, from the stage before theirs, and only they set the id they return.
LEMMA OpnumGrant ==
    ASSUME NEW s \in Session, NEW n \in Nat, s.state \in GrantState, ~OpnumRefused(s, n)
    PROVE  LET t == OpnumSession(s, n) IN
           /\ t.state \in GrantState
           /\ n \notin Grants => t = s
           /\ n \in Grants => Stage(t.state) = Stage(s.state) + 1 /\ Stage(t.state) = Rank(n)
           /\ n = 1 => OpnumStub(t, n)[1] = t.tunnel_id
           /\ n = 4 => OpnumStub(t, n)[1] = t.channel_id
           /\ n # 1 => t.tunnel_id = s.tunnel_id
           /\ n # 4 => t.channel_id = s.channel_id
<1> USE DEF TsgHandshake, TsgTunnelCreate, TsgTunnelAuth, TsgChannelCreate, Message, Outcome, Awaits,
            is_data_transfer, GrantState, Stage, Rank, Grants
<1>1. CASE n = 1
    <2>1. s.state = "AwaitingHandshake"
        BY <1>1 DEF OpnumRefused
    <2> DEFINE u == Advance(s, TsgHandshake)
               t == [u EXCEPT !.state = "AwaitingTunnelAuth", !.tunnel_id = u.next_tunnel_id,
                              !.next_tunnel_id = u.next_tunnel_id + 1]
    <2>2. u = [s EXCEPT !.state = "AwaitingTunnelCreate"]
        BY DEF Advance
    <2>3. OpnumSession(s, n) = t
        BY <1>1 DEF OpnumSession, Advance
    <2>4. t.state = "AwaitingTunnelAuth" /\ t.channel_id = s.channel_id
        BY <2>2 DEF Session
    <2> HIDE DEF t, u
    <2>5. OpnumStub(t, n)[1] = t.tunnel_id
        BY <1>1 DEF OpnumStub
    <2> QED BY <1>1, <2>1, <2>3, <2>4, <2>5
<1>2. CASE n = 2
    <2>1. s.state = "AwaitingTunnelAuth"
        BY <1>2 DEF OpnumRefused
    <2> DEFINE t == [s EXCEPT !.state = "AwaitingChannelCreate", !.client_name = << >>]
    <2>2. OpnumSession(s, n) = t
        BY <1>2 DEF OpnumSession, Advance
    <2>3. t.state = "AwaitingChannelCreate" /\ t.tunnel_id = s.tunnel_id /\ t.channel_id = s.channel_id
        BY DEF Session
    <2> HIDE DEF t
    <2> QED BY <1>2, <2>1, <2>2, <2>3
<1>3. CASE n = 4
    <2>1. s.state = "AwaitingChannelCreate"
        BY <1>3 DEF OpnumRefused
    <2> DEFINE t == [s EXCEPT !.state = "DataTransfer", !.target = <<3389>>,
                              !.channel_id = s.next_channel_id, !.next_channel_id = s.next_channel_id + 1]
    <2>2. OpnumSession(s, n) = t
        BY <1>3 DEF OpnumSession, Advance
    <2>3. t.state = "DataTransfer" /\ t.tunnel_id = s.tunnel_id
        BY DEF Session
    <2> HIDE DEF t
    <2>4. OpnumStub(t, n)[1] = t.channel_id
        BY <1>3 DEF OpnumStub
    <2> QED BY <1>3, <2>1, <2>2, <2>3, <2>4
<1>4. CASE n \notin {1, 2, 4}
    <2>1. OpnumSession(s, n) = s
        BY <1>4 DEF OpnumSession
    <2> QED BY <1>4, <2>1
<1> QED BY <1>1, <1>2, <1>3, <1>4

\* The stages.
LEMMA Stages ==
    /\ \A n \in Grants : Rank(n) \in Nat /\ Rank(n) >= 1
    /\ \A m, n \in Grants : Rank(m) = Rank(n) => m = n
    /\ \A s \in GrantState : Stage(s) \in Nat
    /\ Stage("AwaitingHandshake") = 0 /\ "AwaitingHandshake" \in GrantState
    /\ Rank(1) <= Rank(2) /\ Rank(2) <= Rank(4) /\ 1 \in Grants /\ 2 \in Grants /\ 4 \in Grants
<1>1. Rank(1) = 1 /\ Rank(2) = 2 /\ Rank(4) = 3
    BY DEF Rank
<1>2. /\ Stage("AwaitingHandshake") = 0 /\ Stage("AwaitingTunnelAuth") = 1
      /\ Stage("AwaitingChannelCreate") = 2 /\ Stage("DataTransfer") = 3
    BY DEF Stage
<1> QED BY <1>1, <1>2 DEF Grants, GrantState

\* The responses of a stream, and one in the hand of the handler, answer PDUs that were taken.
LEMMA ResponseCall ==
    ASSUME TypeOK, BufferOK, LinkInv, StreamInv, NEW i \in InReq, Served(i) # 0
    PROVE  /\ \A a \in DOMAIN Stream(Served(i)) : Stream(Served(i))[a].type = "Response" =>
                Stream(Served(i))[a].call \in 1..done[i]
           /\ inPc[i] = "Send" /\ hand[i].type = "Response" => hand[i].call \in 1..done[i]
<1>1. StreamOK(Served(i), Stream(Served(i)), pdus[i], done[i]) /\ HandOK(i) /\ done[i] \in Nat
    BY StreamTypes DEF StreamInv, ServedOK
<1>2. ASSUME NEW a \in DOMAIN Stream(Served(i)), Stream(Served(i))[a].type = "Response"
      PROVE  Stream(Served(i))[a].call \in 1..done[i]
    BY <1>1, <1>2 DEF StreamOK, IsAnswer, Calls
<1>3. ASSUME inPc[i] = "Send", hand[i].type = "Response" PROVE hand[i].call \in 1..done[i]
    BY <1>1, <1>3 DEF HandOK, IsAnswer, Calls
<1> QED BY <1>2, <1>3

\* A step that grants nothing to IN request i and tells its client nothing new: its stream stays or is
\* cut with the OUT response, its handler goes on with what it holds or ends.
LEMMA GrantKeep ==
    ASSUME TypeOK, BufferOK, LinkInv, StreamInv, NEW i \in InReq, Served(i) # 0, GrantOK(i),
           Served(i)' = Served(i), session'[i] = session[i],
           \A j \in 1..done[i] : pdus'[i][j] = pdus[i][j],
           Stream(Served(i))' \in Seq(ItemSet),
           \A a \in DOMAIN Stream(Served(i))' : /\ a \in DOMAIN Stream(Served(i))
                                                /\ Stream(Served(i))'[a] = Stream(Served(i))[a],
           out'[Served(i)] = "open" => out[Served(i)] = "open" /\ Stream(Served(i))' = Stream(Served(i)),
           \A n \in Grants : Holding(i, n)' => Holding(i, n) /\ hand'[i] = hand[i],
           inPc'[i] \in {"Send", "Loop"} =>
               inPc[i] \in {"Send", "Loop"} /\ \A n \in Grants : Holding(i, n) => Holding(i, n)'
    PROVE  GrantOK(i)'
<1> DEFINE st == Stream(Served(i))
           g == Stage(session[i].state)
<1>1. st \in Seq(ItemSet)
    BY StreamTypes
<1>2. ASSUME NEW a \in DOMAIN st' , NEW n \in Grants PROVE Answers(i, a, n)' <=> Answers(i, a, n)
    <2>1. a \in DOMAIN st /\ st'[a] = st[a]
        OBVIOUS
    <2>2. st[a].type = "Response" => pdus'[i][st[a].call] = pdus[i][st[a].call]
        BY <2>1, ResponseCall
    <2>3. Answers(i, a, n)' <=> st'[a].type = "Response" /\ pdus'[i][st'[a].call].arg = n
        BY DEF Answers
    <2>4. Answers(i, a, n) <=> st[a].type = "Response" /\ pdus[i][st[a].call].arg = n
        BY DEF Answers
    <2> HIDE DEF st
    <2> QED BY <2>1, <2>2, <2>3, <2>4
<1>3. \A n \in Grants : Granted(i, n)' => Granted(i, n)
    BY <1>2 DEF Granted
<1>4. out'[Served(i)] = "open" => \A n \in Grants : Granted(i, n) => Granted(i, n)'
    BY <1>2 DEF Granted
<1>5. \A a \in DOMAIN st' : \A b \in 1..(a - 1) : b \in DOMAIN st'
    OBVIOUS
<1>6. /\ \A n \in Grants :
           /\ Granted(i, n)' => Rank(n) <= g
           /\ Holding(i, n)' => Rank(n) = g /\ ~Granted(i, n)'
           /\ inPc'[i] \in {"Send", "Loop"} /\ out'[Served(i)] = "open" /\ Rank(n) <= g =>
                Granted(i, n)' \/ Holding(i, n)'
           /\ \A a, b \in DOMAIN st' : Answers(i, a, n)' /\ Answers(i, b, n)' => a = b
    BY <1>2, <1>3, <1>4 DEF GrantOK
<1>7. /\ \A a \in DOMAIN st' : Answers(i, a, 4)' => \E b \in 1..(a - 1) : Answers(i, b, 2)'
      /\ \A b \in DOMAIN st' : Answers(i, b, 2)' => \E c \in 1..(b - 1) : Answers(i, c, 1)'
    BY <1>2, <1>5, Stages DEF GrantOK
<1>8. /\ \A a \in DOMAIN st' : /\ Answers(i, a, 1)' => st'[a].stub[1] = session[i].tunnel_id
                               /\ Answers(i, a, 4)' => st'[a].stub[1] = session[i].channel_id
      /\ Holding(i, 1)' => hand'[i].stub[1] = session[i].tunnel_id
      /\ Holding(i, 4)' => hand'[i].stub[1] = session[i].channel_id
    BY <1>2, Stages DEF GrantOK
<1>9. session[i].state \in GrantState
    BY DEF GrantOK
<1> QED BY <1>6, <1>7, <1>8, <1>9 DEF GrantOK

\* Initially no session has begun.
LEMMA GrantInit == Init => GrantInv
BY VConnTypes DEF Init, GrantInv, Served, NewSession

\* The steps of an OUT request.
LEMMA GrantOut ==
    ASSUME TypeOK, TypeOK', BufferOK, LinkInv, StreamInv, GrantInv,
           NEW o \in OutReq, OutServe(o) \/ OutClient(o)
    PROVE  GrantInv'
<1>0. /\ UNCHANGED <<inPc, vconn, session, hand, done, pdus>> /\ \A i \in InReq : Served(i)' = Served(i)
    BY DEF OutServe, OutClient, handlerVars, inClientVars, Served
<1>1. /\ out \in [OutReq -> {"idle", "open", "ended", "gone", "rejected"}]
      /\ queue \in [OutReq -> Seq(ItemSet)] /\ body \in [OutReq -> Seq(ItemSet)]
    BY DEF TypeOK
<1>2. ASSUME NEW r \in OutReq
      PROVE  /\ Stream(r)' \in Seq(ItemSet)
             /\ \A a \in DOMAIN Stream(r)' : a \in DOMAIN Stream(r) /\ Stream(r)'[a] = Stream(r)[a]
             /\ out'[r] = "open" => Stream(r)' = Stream(r)
             /\ out[r] # "idle" /\ out'[r] = "open" => out[r] = "open"
    <2>1. body[r] \in Seq(ItemSet) /\ queue[r] \in Seq(ItemSet) /\ Stream(r) \in Seq(ItemSet)
        <3>1. body[r] \in Seq(ItemSet) /\ queue[r] \in Seq(ItemSet)
            BY <1>1
        <3> QED BY <3>1, NoItemType, StreamMoves DEF Stream
    <2>2. CASE (\E c \in Cookie : OutAccept(o, c)) \/ OutReject(o) \/ OutFinish(o)
        <3>1. UNCHANGED <<queue, body>>
            BY <2>2 DEF OutAccept, OutReject, OutFinish
        <3>2. Stream(r)' = Stream(r)
            BY <3>1 DEF Stream
        <3> QED BY <1>1, <2>1, <2>2, <3>2 DEF OutAccept, OutReject, OutFinish
    <2>3. CASE OutStream(o)
        <3>1. CASE r # o
            <4>1. Stream(r)' = Stream(r)
                BY <1>1, <2>3, <3>1 DEF OutStream, Stream
            <4> QED BY <2>1, <2>3, <4>1 DEF OutStream
        <3>2. CASE r = o
            <4>1. body'[o] = Append(body[o], Head(queue[o])) /\ queue'[o] = Tail(queue[o]) /\ queue[o] # << >>
                BY <1>1, <2>3 DEF OutStream
            <4>2. Append(body[o], Head(queue[o])) \o Tail(queue[o]) = body[o] \o queue[o]
                BY <2>1, <3>2, <4>1, NoItemType, StreamMoves
            <4>3. Stream(r)' = Stream(r)
                BY <3>2, <4>1, <4>2 DEF Stream
            <4> QED BY <2>1, <2>3, <4>3 DEF OutStream
        <3> QED BY <3>1, <3>2
    <2>4. CASE OutDisconnect(o)
        <3>1. /\ body'[r] = body[r] /\ (r = o => queue'[r] = << >> /\ out'[r] = "gone")
              /\ r # o => queue'[r] = queue[r] /\ out'[r] = out[r]
            BY <1>1, <2>4 DEF OutDisconnect
        <3>2. CASE r # o
            BY <2>1, <3>1, <3>2 DEF Stream
        <3>3. CASE r = o
            <4>1. body[r] \o << >> = body[r]
                BY <2>1, SequencePrefix
            <4>2. \A a \in DOMAIN body[r] : /\ a \in DOMAIN (body[r] \o queue[r])
                                            /\ (body[r] \o queue[r])[a] = body[r][a]
                BY <2>1, SequencePrefix
            <4>3. Stream(r)' = body[r] /\ Stream(r) = body[r] \o queue[r]
                BY <3>1, <3>3, <4>1 DEF Stream
            <4> QED BY <2>1, <3>1, <3>3, <4>2, <4>3
        <3> QED BY <3>2, <3>3
    <2> QED BY <2>2, <2>3, <2>4 DEF OutServe, OutClient
<1>3. ASSUME NEW i \in InReq, Served(i) # 0 PROVE GrantOK(i)'
    <2>1. GrantOK(i) /\ Served(i) \in OutReq /\ out[Served(i)] # "idle"
        BY <1>3 DEF GrantInv, LinkInv
    <2>2. \A n \in Grants : Holding(i, n)' <=> Holding(i, n)
        BY <1>0 DEF Holding
    <2>3. PICK r \in OutReq : r = Served(i)
        BY <2>1
    <2>4. Served(i)' = r /\ Stream(Served(i))' = Stream(r)'
        BY <1>0, <2>3
    <2>5. Stream(Served(i)) = Stream(r)
        BY <2>3
    <2> QED BY <1>0, <1>2, <1>3, <2>1, <2>2, <2>3, <2>4, <2>5, GrantKeep
<1> QED BY <1>0, <1>3 DEF GrantInv

\* A send that succeeds: what the handler held is told.
LEMMA GrantPush ==
    ASSUME TypeOK, BufferOK, PairInv, LinkInv, StreamInv, NEW i \in InReq, InPush(i),
           out[out_tx[i]] = "open", GrantOK(i)
    PROVE  GrantOK(i)'
<1> DEFINE o == Served(i)
           st == Stream(o)
           x == hand[i]
           t == Append(st, x)
           g == Stage(session[i].state)
<1>1. /\ inPc[i] = "Send" /\ UNCHANGED <<out, body, pdus, done, vconn, session>>
      /\ queue' = [queue EXCEPT ![out_tx[i]] = Append(@, hand[i])]
      /\ inPc' = [inPc EXCEPT ![i] = "Loop"]
    BY DEF InPush, inClientVars
<1>2. o # 0 /\ o \in OutReq /\ out_tx[i] = o /\ out[o] = "open"
    BY <1>1 DEF LinkInv
<1>3. inPc'[i] = "Loop" /\ queue'[o] = Append(queue[o], x)
    BY <1>1, <1>2 DEF TypeOK
<1>4. x \in ItemSet /\ st \in Seq(ItemSet) /\ body[o] \in Seq(ItemSet) /\ queue[o] \in Seq(ItemSet)
    BY <1>2, StreamTypes
<1>5. Served(i)' = o
    BY <1>1 DEF Served
<1>6. Stream(Served(i))' = t
    <2>1. body[o] \o Append(queue[o], x) = Append(body[o] \o queue[o], x)
        BY <1>4, StreamMoves
    <2> QED BY <1>1, <1>2, <1>3, <1>5, <2>1 DEF Stream
<1>len. PICK L \in Nat : L = Len(st)
    BY <1>4
<1>7. /\ DOMAIN st = 1..L /\ DOMAIN t = 1..(L + 1)
      /\ \A a \in 1..L : t[a] = st[a]
      /\ t[L + 1] = x
    BY <1>4, <1>len
<1>8. ASSUME NEW n \in Grants
      PROVE  /\ \A a \in 1..L : Answers(i, a, n)' <=> Answers(i, a, n)
             /\ Answers(i, L + 1, n)' <=> Holding(i, n)
             /\ ~Holding(i, n)'
    <2>1. \A a : Answers(i, a, n)' <=> t[a].type = "Response" /\ pdus[i][t[a].call].arg = n
        BY <1>1, <1>6 DEF Answers
    <2>2. \A a : Answers(i, a, n) <=> st[a].type = "Response" /\ pdus[i][st[a].call].arg = n
        BY DEF Answers
    <2>3. Holding(i, n) <=> x.type = "Response" /\ pdus[i][x.call].arg = n
        BY <1>1 DEF Holding
    <2>4. ~Holding(i, n)'
        BY <1>3 DEF Holding
    <2> HIDE DEF st, t, x
    <2>5. \A a \in 1..L : Answers(i, a, n)' <=> Answers(i, a, n)
        BY <1>7, <2>1, <2>2
    <2>6. Answers(i, L + 1, n)' <=> Holding(i, n)
        <3>1. Answers(i, L + 1, n)' <=> t[L + 1].type = "Response" /\ pdus[i][t[L + 1].call].arg = n
            BY <2>1
        <3> QED BY <1>7, <2>3, <3>1
    <2> QED BY <2>4, <2>5, <2>6
<1> HIDE DEF st, t, x
<1>9. \A n \in Grants : Granted(i, n)' <=> Granted(i, n) \/ Holding(i, n)
    <2>1. \A n \in Grants : Granted(i, n)' <=> \E a \in 1..(L + 1) : Answers(i, a, n)'
        BY <1>6, <1>7 DEF Granted
    <2>2. \A n \in Grants : Granted(i, n) <=> \E a \in 1..L : Answers(i, a, n)
        BY <1>7 DEF Granted, st
    <2>3. 1..(L + 1) = (1..L) \cup {L + 1}
        BY <1>7
    <2> QED BY <1>8, <2>1, <2>2, <2>3
<1>10. \A m, n \in Grants : Holding(i, m) /\ Holding(i, n) => m = n
    BY DEF Holding
<1>11. ASSUME NEW n \in Grants
       PROVE  /\ Granted(i, n)' => Rank(n) <= g
              /\ Rank(n) <= g => Granted(i, n)'
              /\ \A a, b \in 1..(L + 1) : Answers(i, a, n)' /\ Answers(i, b, n)' => a = b
    <2>1. Rank(n) \in Nat /\ g \in Nat
        BY Stages DEF GrantOK
    <2>2. Granted(i, n)' => Rank(n) <= g
        BY <1>9, <2>1 DEF GrantOK
    <2>3. Rank(n) <= g => Granted(i, n)'
        BY <1>1, <1>2, <1>9 DEF GrantOK
    <2>4. ASSUME NEW a \in 1..(L + 1), NEW b \in 1..(L + 1), Answers(i, a, n)', Answers(i, b, n)'
          PROVE  a = b
        <3>1. CASE Holding(i, n)
            <4>1. \A d \in 1..L : ~Answers(i, d, n)
                BY <1>7, <3>1 DEF GrantOK, Granted, st
            <4> QED BY <1>7, <1>8, <2>4, <4>1
        <3>2. CASE ~Holding(i, n)
            <4>1. a \in 1..L /\ b \in 1..L
                BY <1>7, <1>8, <2>4, <3>2
            <4> QED BY <1>7, <1>8, <2>4, <4>1 DEF GrantOK, st
        <3> QED BY <3>1, <3>2
    <2> QED BY <2>2, <2>3, <2>4
<1>12. ASSUME NEW m \in Grants, NEW n \in Grants, NEW a \in 1..(L + 1), Answers(i, a, n)',
              m # n, Rank(m) <= Rank(n),
              \A b \in 1..L : Answers(i, b, n) => \E c \in 1..(b - 1) : Answers(i, c, m)
       PROVE  \E c \in 1..(a - 1) : Answers(i, c, m)'
    <2>1. CASE a \in 1..L
        <3>1. PICK c \in 1..(a - 1) : Answers(i, c, m)
            BY <1>8, <1>12, <2>1
        <3>2. c \in 1..L
            BY <1>7, <2>1
        <3> QED BY <1>8, <3>1, <3>2
    <2>2. CASE a = L + 1
        <3>1. Holding(i, n)
            BY <1>8, <1>12, <2>2
        <3>2. ~Holding(i, m) /\ Rank(m) <= g
            BY <1>10, <1>12, <3>1 DEF GrantOK
        <3>3. Granted(i, m)
            BY <1>1, <1>2, <3>2 DEF GrantOK
        <3>4. PICK c \in 1..L : Answers(i, c, m)
            BY <1>7, <3>3 DEF Granted, st
        <3>5. c \in 1..(a - 1)
            BY <1>7, <2>2
        <3> QED BY <1>8, <3>4, <3>5
    <2> QED BY <1>7, <2>1, <2>2
<1>13. /\ \A a \in 1..(L + 1) : Answers(i, a, 4)' => \E b \in 1..(a - 1) : Answers(i, b, 2)'
       /\ \A b \in 1..(L + 1) : Answers(i, b, 2)' => \E c \in 1..(b - 1) : Answers(i, c, 1)'
    <2>1. /\ \A b \in 1..L : Answers(i, b, 4) => \E c \in 1..(b - 1) : Answers(i, c, 2)
          /\ \A b \in 1..L : Answers(i, b, 2) => \E c \in 1..(b - 1) : Answers(i, c, 1)
        BY <1>7 DEF GrantOK, st
    <2> QED BY <1>12, <2>1, Stages
<1>14. \A a \in 1..(L + 1) :
          /\ Answers(i, a, 1)' => t[a].stub[1] = session[i].tunnel_id
          /\ Answers(i, a, 4)' => t[a].stub[1] = session[i].channel_id
    <2>1. /\ \A a \in 1..L : /\ Answers(i, a, 1) => st[a].stub[1] = session[i].tunnel_id
                             /\ Answers(i, a, 4) => st[a].stub[1] = session[i].channel_id
          /\ Holding(i, 1) => x.stub[1] = session[i].tunnel_id
          /\ Holding(i, 4) => x.stub[1] = session[i].channel_id
        BY <1>7 DEF GrantOK, st, x
    <2>2. 1..(L + 1) = (1..L) \cup {L + 1}
        BY <1>7
    <2>3. ASSUME NEW a \in 1..L
          PROVE  /\ Answers(i, a, 1)' => t[a].stub[1] = session[i].tunnel_id
                 /\ Answers(i, a, 4)' => t[a].stub[1] = session[i].channel_id
        BY <1>7, <1>8, <2>1, Stages
    <2>4. /\ Answers(i, L + 1, 1)' => t[L + 1].stub[1] = session[i].tunnel_id
          /\ Answers(i, L + 1, 4)' => t[L + 1].stub[1] = session[i].channel_id
        BY <1>7, <1>8, <2>1, Stages
    <2> QED BY <2>2, <2>3, <2>4
<1>15. session[i].state \in GrantState
    BY DEF GrantOK
<1> QED BY <1>1, <1>6, <1>7, <1>8, <1>11, <1>13, <1>14, <1>15, Stages DEF GrantOK

\* A PDU is taken: a Request the session grants takes it one stage on.
LEMMA GrantPdu ==
    ASSUME TypeOK, BufferOK, PairInv, LinkInv, StreamInv, NEW i \in InReq, InPdu(i), GrantOK(i)
    PROVE  GrantOK(i)'
<1> DEFINE q == Current(i)
           n == Current(i).arg
           s == session[i]
           u == OpnumSession(session[i], Current(i).arg)
           st == Stream(Served(i))
<1>1. /\ inPc[i] = "Loop" /\ UNCHANGED <<out, queue, body, pdus>> /\ Buffered(i) >= 1
    BY DEF InPdu, outVars, inClientVars, Units, Buffered, TypeOK
<1>2. Served(i) # 0 /\ Served(i) \in OutReq /\ st \in Seq(ItemSet)
    BY <1>1, StreamTypes DEF LinkInv
<1>3. /\ inPc \in [InReq -> Running \cup {"Idle", "Ok200", "Err400", "Err500", "Dropped"}]
      /\ hand \in [InReq -> ItemSet] /\ session \in [InReq -> Session] /\ vconn \in [InReq -> VConn]
      /\ done[i] \in Nat
    BY DEF TypeOK
<1>4. Served(i)' = Served(i)
    <2>1. vconn' = vconn \/ vconn' = [vconn EXCEPT ![i] = enter_data_transfer(@)]
        BY DEF InPdu, End
    <2>2. vconn'[i] \in {vconn[i], enter_data_transfer(vconn[i])}
        BY <1>3, <2>1
    <2> QED BY <1>3, <2>2, VConnTypes DEF Served
<1>5. Stream(Served(i))' = Stream(Served(i))
    BY <1>1, <1>4 DEF Stream
<1>6. \A m \in Grants : ~Holding(i, m)
    BY <1>1 DEF Holding
<1>7. ASSUME session'[i] = session[i], \A m \in Grants : ~Holding(i, m)' PROVE GrantOK(i)'
    BY <1>1, <1>2, <1>4, <1>5, <1>6, <1>7, GrantKeep
<1>8. CASE End(i, "Err500")
    BY <1>3, <1>7, <1>8 DEF End, Holding
<1>9. CASE UNCHANGED <<inPc, session, hand>>
    BY <1>6, <1>7, <1>9, <1>1 DEF Holding
<1>10. CASE Push(i, Item("BindAck", done[i] + 1, << >>)) /\ UNCHANGED session
    <2>1. hand'[i].type = "BindAck"
        BY <1>3, <1>10 DEF Push, Item
    <2> QED BY <1>7, <1>10, <2>1 DEF Holding
<1>11. CASE /\ ~OpnumRefused(s, n)
            /\ session' = [session EXCEPT ![i] = u]
            /\ Push(i, Item("Response", done[i] + 1, OpnumStub(u, n)))
    <2>1. s \in Session /\ n \in Nat /\ s.state \in GrantState
        BY <1>1, <1>3, CurrentPdu DEF GrantOK
    <2>2. /\ u.state \in GrantState
          /\ n \notin Grants => u = s
          /\ n \in Grants => Stage(u.state) = Stage(s.state) + 1 /\ Stage(u.state) = Rank(n)
          /\ n = 1 => OpnumStub(u, n)[1] = u.tunnel_id
          /\ n = 4 => OpnumStub(u, n)[1] = u.channel_id
          /\ n # 1 => u.tunnel_id = s.tunnel_id
          /\ n # 4 => u.channel_id = s.channel_id
        BY <1>11, <2>1, OpnumGrant
    <2>3. /\ inPc'[i] = "Send" /\ hand'[i].type = "Response" /\ hand'[i].call = done[i] + 1
          /\ hand'[i].stub = OpnumStub(u, n)
        BY <1>3, <1>11 DEF Push, Item
    <2>4. session'[i] = u
        BY <1>3, <1>11
    <2>5. pdus'[i][hand'[i].call].arg = n
        BY <1>1, <2>3 DEF Current
    <2>6. \A m : Holding(i, m)' <=> n = m
        BY <2>3, <2>5 DEF Holding
    <2>7. \A a, m : Answers(i, a, m)' <=> Answers(i, a, m)
        BY <1>1, <1>5 DEF Answers
    <2>8. \A m : Granted(i, m)' <=> Granted(i, m)
        BY <1>5, <2>7 DEF Granted
    <2> HIDE DEF n, u
    <2>9. CASE n \notin Grants
        BY <1>7, <2>2, <2>4, <2>6, <2>9
    <2>10. CASE n \in Grants
        <3> DEFINE g == Stage(s.state)
        <3>1. g \in Nat /\ Rank(n) = g + 1 /\ Stage(u.state) = g + 1
            BY <2>1, <2>2, <2>10, Stages
        <3> HIDE DEF g
        <3>2. \A m \in Grants : /\ Rank(m) \in Nat /\ (Granted(i, m) => Rank(m) <= g)
                                /\ out[Served(i)] = "open" /\ Rank(m) <= g => Granted(i, m)
            BY <1>1, <1>6, Stages DEF GrantOK, g
        <3>3. ~Granted(i, n)
            BY <2>10, <3>1, <3>2
        <3>4. ASSUME NEW m \in Grants
              PROVE  /\ Granted(i, m)' => Rank(m) <= g + 1
                     /\ Holding(i, m)' => Rank(m) = g + 1 /\ ~Granted(i, m)'
                     /\ out'[Served(i)] = "open" /\ Rank(m) <= g + 1 => Granted(i, m)' \/ Holding(i, m)'
                     /\ \A a, b \in DOMAIN st : Answers(i, a, m)' /\ Answers(i, b, m)' => a = b
            <4>1. Granted(i, m)' => Rank(m) <= g + 1
                BY <2>8, <3>1, <3>2
            <4>2. Holding(i, m)' => Rank(m) = g + 1 /\ ~Granted(i, m)'
                BY <2>6, <2>8, <3>1, <3>3
            <4>3. Rank(m) = g + 1 => Holding(i, m)'
                BY <2>6, <2>10, <3>1, Stages
            <4>4. out'[Served(i)] = "open" /\ Rank(m) <= g + 1 => Granted(i, m)' \/ Holding(i, m)'
                BY <1>1, <2>8, <3>1, <3>2, <4>3
            <4>5. \A a, b \in DOMAIN st : Answers(i, a, m)' /\ Answers(i, b, m)' => a = b
                BY <2>7 DEF GrantOK
            <4> QED BY <4>1, <4>2, <4>4, <4>5
        <3>5. /\ \A a \in DOMAIN st : Answers(i, a, 4)' => \E b \in 1..(a - 1) : Answers(i, b, 2)'
              /\ \A b \in DOMAIN st : Answers(i, b, 2)' => \E c \in 1..(b - 1) : Answers(i, c, 1)'
            BY <2>7 DEF GrantOK
        <3>6. \A a \in DOMAIN st : /\ Answers(i, a, 1)' => st[a].stub[1] = u.tunnel_id
                                   /\ Answers(i, a, 4)' => st[a].stub[1] = u.channel_id
            <4>1. \A a \in DOMAIN st : /\ Answers(i, a, 1) => n # 1 /\ st[a].stub[1] = s.tunnel_id
                                       /\ Answers(i, a, 4) => n # 4 /\ st[a].stub[1] = s.channel_id
                BY <3>3 DEF GrantOK, Granted
            <4> QED BY <2>2, <2>7, <4>1
        <3>7. /\ Holding(i, 1)' => hand'[i].stub[1] = u.tunnel_id
              /\ Holding(i, 4)' => hand'[i].stub[1] = u.channel_id
            BY <2>2, <2>3, <2>6
        <3> QED BY <1>4, <1>5, <2>2, <2>3, <2>4, <3>1, <3>4, <3>5, <3>6, <3>7 DEF GrantOK
    <2> QED BY <2>9, <2>10
<1> QED BY <1>8, <1>9, <1>10, <1>11 DEF InPdu

\* The pairing: nothing is granted yet.
LEMMA GrantFirst ==
    ASSUME TypeOK, BufferOK, PairInv, LinkInv, StreamInv, GrantInv, NEW i \in InReq, InFirst(i)
    PROVE  /\ UNCHANGED session
           /\ \A k \in InReq \ {i} : Served(k)' = Served(k)
           /\ Served(i)' # 0 => GrantOK(i)'
<1> DEFINE c == Current(i).arg
<1>1. /\ UNCHANGED <<out, queue, body, session>> /\ Served(i) = 0 /\ inPc[i] = "First"
      /\ session[i].state = "AwaitingHandshake"
    BY DEF InFirst, outVars, BufferOK, End, GrantInv
<1>2. /\ inPc \in [InReq -> Running \cup {"Idle", "Ok200", "Err400", "Err500", "Dropped"}]
      /\ vconn \in [InReq -> VConn] /\ hand \in [InReq -> ItemSet]
    BY DEF TypeOK
<1>3. CASE End(i, "Err400") \/ End(i, "Err500")
    <2>1. \A k \in InReq : Served(k)' = Served(k)
        BY <1>3 DEF End, Served
    <2> QED BY <1>1, <2>1
<1>4. CASE /\ c \in DOMAIN pending
           /\ vconn' = [vconn EXCEPT ![i] = accept_in_channel(pending[c].vconn)]
           /\ Push(i, Item("ConnC2", pending[c].vconn.out_call_id, << >>))
    <2>0. PICK o \in OutReq : o = pending[c].out_sender
        BY <1>4 DEF TypeOK
    <2>1. /\ pending[c].vconn \in VConn /\ pending[c].vconn.out_call_id = o
          /\ \A k \in InReq : Served(k) # o
        BY <1>4, <2>0 DEF PairInv, ExclusivePairing, TypeOK
    <2>2. /\ Served(i)' = o /\ \A k \in InReq \ {i} : Served(k)' = Served(k)
        BY <1>2, <1>4, <2>1, VConnTypes DEF Served
    <2>3. hand'[i].type = "ConnC2"
        BY <1>2, <1>4 DEF Push, Item
    <2>4. Stream(o)' = << >>
        BY <1>1, <2>1 DEF StreamInv, Stream
    <2> HIDE DEF c
    <2>5. Stream(Served(i))' = << >> /\ DOMAIN Stream(Served(i))' = {}
        BY <2>2, <2>4
    <2>6. \A n \in Grants : ~Granted(i, n)' /\ ~Holding(i, n)' /\ ~(Rank(n) <= Stage("AwaitingHandshake"))
        BY <2>3, <2>5, Stages DEF Granted, Holding
    <2>7. GrantOK(i)'
        BY <1>1, <2>5, <2>6, Stages DEF GrantOK
    <2> QED BY <1>1, <2>2, <2>7
<1> QED BY <1>3, <1>4 DEF InFirst

\* Every step keeps the grants in order.
LEMMA GrantNext ==
    TypeOK /\ TypeOK' /\ BufferOK /\ PairInv /\ LinkInv /\ StreamInv /\ GrantInv /\ [Next]_vars => GrantInv'
<1> SUFFICES ASSUME TypeOK, TypeOK', BufferOK, PairInv, LinkInv, StreamInv, GrantInv, [Next]_vars
             PROVE  GrantInv'
    OBVIOUS
<1>0. /\ inPc \in [InReq -> Running \cup {"Idle", "Ok200", "Err400", "Err500", "Dropped"}]
      /\ hand \in [InReq -> ItemSet] /\ session \in [InReq -> Session] /\ vconn \in [InReq -> VConn]
      /\ pdus \in [InReq -> Seq(Pdu)] /\ queue \in [OutReq -> Seq(ItemSet)]
    BY DEF TypeOK
<1>1. ASSUME NEW k \in InReq, Served(k) # 0, Served(k)' = Served(k), session'[k] = session[k],
             Stream(Served(k))' = Stream(Served(k)), out'[Served(k)] = out[Served(k)],
             \A j \in 1..done[k] : pdus'[k][j] = pdus[k][j],
             inPc'[k] \notin {"Send", "Loop"} \/ (inPc'[k] = inPc[k] /\ hand'[k] = hand[k])
      PROVE  GrantOK(k)'
    <2>1. GrantOK(k) /\ Stream(Served(k)) \in Seq(ItemSet)
        BY <1>1, StreamTypes DEF GrantInv
    <2>2. inPc[k] = "Send" /\ hand[k].type = "Response" => pdus'[k][hand[k].call] = pdus[k][hand[k].call]
        BY <1>1, ResponseCall
    <2>3. \A n \in Grants : Holding(k, n)' => Holding(k, n) /\ hand'[k] = hand[k]
        BY <1>1, <2>2 DEF Holding
    <2>4. inPc'[k] \in {"Send", "Loop"} =>
              inPc[k] \in {"Send", "Loop"} /\ \A n \in Grants : Holding(k, n) => Holding(k, n)'
        BY <1>1, <2>2 DEF Holding
    <2> QED BY <1>1, <2>1, <2>3, <2>4, GrantKeep
<1>2. ASSUME NEW i \in InReq, UNCHANGED out, session'[i] = session[i] \/ Served(i) # 0,
             \A k \in InReq \ {i} : /\ Served(k)' = Served(k) /\ session'[k] = session[k]
                                    /\ inPc'[k] = inPc[k] /\ hand'[k] = hand[k] /\ pdus'[k] = pdus[k]
                                    /\ Served(k) # 0 => Stream(Served(k))' = Stream(Served(k)),
             Served(i)' # 0 => GrantOK(i)', Served(i) # 0 => Served(i)' = Served(i)
      PROVE  GrantInv'
    <2>1. ASSUME NEW k \in InReq \ {i}, Served(k)' # 0 PROVE GrantOK(k)'
        BY <1>1, <1>2, <2>1
    <2>2. \A k \in InReq : Served(k)' = 0 => session'[k].state = "AwaitingHandshake"
        BY <1>2 DEF GrantInv
    <2> QED BY <1>2, <2>1, <2>2 DEF GrantInv
<1>3. ASSUME NEW i \in InReq, UNCHANGED <<out, queue, body, vconn, session>>,
             \A k \in InReq : \A j \in 1..done[k] : pdus'[k][j] = pdus[k][j],
             \A k \in InReq \ {i} : inPc'[k] = inPc[k] /\ hand'[k] = hand[k] /\ pdus'[k] = pdus[k],
             inPc'[i] \notin {"Send", "Loop"} \/ (inPc'[i] = inPc[i] /\ hand'[i] = hand[i])
      PROVE  GrantInv'
    <2>1. \A k \in InReq : Served(k)' = Served(k)
        BY <1>3 DEF Served
    <2>2. \A k \in InReq : Stream(Served(k))' = Stream(Served(k))
        BY <1>3, <2>1 DEF Stream
    <2>3. Served(i) # 0 => GrantOK(i)'
        BY <1>1, <1>3, <2>1, <2>2
    <2> QED BY <1>2, <1>3, <2>1, <2>2, <2>3
<1>4. ASSUME NEW i \in InReq, InClient(i)
      PROVE  GrantInv'
    <2>1. CASE InOpen(i) \/ InEndBody(i)
        BY <1>0, <1>3, <2>1 DEF InOpen, InEndBody, outVars, inClientVars, handlerVars
    <2>2. CASE InSendPdu(i)
        <3>1. PICK x \in Pdu : pdus' = [pdus EXCEPT ![i] = Append(@, x)]
            BY <2>2 DEF InSendPdu
        <3>2. ASSUME NEW k \in InReq, NEW j \in 1..done[k] PROVE pdus'[k][j] = pdus[k][j]
            <4>1. done[k] \in Nat /\ done[k] <= Len(pdus[k]) /\ pdus[k] \in Seq(Pdu)
                BY StreamTypes
            <4>2. j \in 1..Len(pdus[k])
                BY <4>1
            <4>3. Append(pdus[k], x)[j] = pdus[k][j]
                BY <4>1, <4>2
            <4> QED BY <1>0, <3>1, <4>3
        <3>3. \A k \in InReq \ {i} : pdus'[k] = pdus[k]
            BY <1>0, <3>1
        <3> QED BY <1>3, <2>2, <3>2, <3>3 DEF InSendPdu, outVars, handlerVars
    <2>3. CASE InDrop(i)
        <3>1. /\ inPc'[i] = "Dropped" /\ \A k \in InReq \ {i} : inPc'[k] = inPc[k]
              /\ UNCHANGED <<out, queue, body, vconn, session, hand, pdus>>
            BY <1>0, <2>3 DEF InDrop, End, outVars, inClientVars
        <3> QED BY <1>3, <3>1
    <2> QED BY <1>4, <2>1, <2>2, <2>3 DEF InClient
<1>5. ASSUME NEW i \in InReq, InHandler(i)
      PROVE  GrantInv'
    <2>1. CASE \E n \in 1..(Units * MaxPdus) : InFrame(i, n)
        BY <1>0, <1>3, <2>1 DEF InFrame, outVars, inClientVars
    <2>2. CASE InBodyEnds(i)
        <3>1. /\ inPc'[i] \in {"Err400", "Ok200", "Err500"} /\ \A k \in InReq \ {i} : inPc'[k] = inPc[k]
              /\ UNCHANGED <<out, queue, body, vconn, session, hand, pdus>>
            BY <1>0, <2>2 DEF InBodyEnds, End, outVars, inClientVars
        <3> QED BY <1>3, <3>1
    <2>3. CASE InFirst(i)
        <3>1. /\ UNCHANGED <<session, out, queue, body, pdus>> /\ Served(i) = 0
              /\ \A k \in InReq \ {i} : inPc'[k] = inPc[k] /\ hand'[k] = hand[k]
            BY <1>0, <2>3, GrantFirst DEF InFirst, End, Push, outVars, inClientVars, BufferOK
        <3>2. /\ \A k \in InReq \ {i} : Served(k)' = Served(k)
              /\ Served(i)' # 0 => GrantOK(i)'
            BY <2>3, GrantFirst
        <3>3. \A k \in InReq \ {i} : Stream(Served(k))' = Stream(Served(k))
            BY <3>1, <3>2 DEF Stream
        <3> QED BY <1>2, <3>1, <3>2, <3>3
    <2>4. CASE InPush(i)
        <3>1. CASE out[out_tx[i]] = "open"
            <4>1. /\ UNCHANGED <<out, body, pdus, vconn, session>>
                  /\ queue' = [queue EXCEPT ![out_tx[i]] = Append(@, hand[i])]
                  /\ inPc[i] = "Send"
                  /\ \A k \in InReq \ {i} : inPc'[k] = inPc[k] /\ hand'[k] = hand[k]
                BY <1>0, <2>4, <3>1 DEF InPush, inClientVars
            <4>2. \A k \in InReq : Served(k)' = Served(k)
                BY <4>1 DEF Served
            <4>3. Served(i) # 0 /\ out_tx[i] = Served(i) /\ GrantOK(i)
                BY <4>1 DEF LinkInv, GrantInv
            <4>4. ASSUME NEW k \in InReq \ {i}, Served(k) # 0 PROVE Stream(Served(k))' = Stream(Served(k))
                <5>1. Served(k) # out_tx[i] /\ Served(k) \in OutReq
                    BY <4>3, <4>4 DEF PairInv, ExclusivePairing, LinkInv
                <5>2. queue'[Served(k)] = queue[Served(k)]
                    BY <1>0, <4>1, <5>1
                <5> QED BY <4>1, <4>2, <5>2 DEF Stream
            <4>5. GrantOK(i)'
                BY <2>4, <3>1, <4>3, GrantPush
            <4> QED BY <1>2, <4>1, <4>2, <4>4, <4>5
        <3>2. CASE out[out_tx[i]] # "open"
            <4>1. /\ inPc'[i] = "Err500" /\ \A k \in InReq \ {i} : inPc'[k] = inPc[k]
                  /\ UNCHANGED <<out, queue, body, vconn, session, hand, pdus>>
                BY <1>0, <2>4, <3>2 DEF InPush, End, inClientVars
            <4> QED BY <1>3, <4>1
        <3> QED BY <3>1, <3>2
    <2>5. CASE InPdu(i)
        <3>1. /\ UNCHANGED <<out, queue, body, pdus>> /\ inPc[i] = "Loop"
              /\ \A k \in InReq \ {i} : inPc'[k] = inPc[k] /\ hand'[k] = hand[k] /\ session'[k] = session[k]
                                       /\ vconn'[k] = vconn[k]
            BY <1>0, <2>5 DEF InPdu, End, Push, outVars, inClientVars
        <3>2. \A k \in InReq \ {i} : Served(k)' = Served(k)
            BY <3>1 DEF Served
        <3>3. \A k \in InReq \ {i} : Stream(Served(k))' = Stream(Served(k))
            BY <3>1, <3>2 DEF Stream
        <3>4. Served(i) # 0 /\ GrantOK(i)
            BY <3>1 DEF LinkInv, GrantInv
        <3>5. Served(i)' = Served(i)
            <4>1. vconn' = vconn \/ vconn' = [vconn EXCEPT ![i] = enter_data_transfer(@)]
                BY <2>5 DEF InPdu, End
            <4>2. vconn'[i] \in {vconn[i], enter_data_transfer(vconn[i])}
                BY <1>0, <4>1
            <4> QED BY <1>0, <4>2, VConnTypes DEF Served
        <3>6. GrantOK(i)'
            BY <2>5, <3>4, GrantPdu
        <3> QED BY <1>2, <3>1, <3>2, <3>3, <3>4, <3>5, <3>6
    <2> QED BY <1>5, <2>1, <2>2, <2>3, <2>4, <2>5 DEF InHandler
<1>6. CASE UNCHANGED vars
    <2>1. UNCHANGED <<out, queue, body, vconn, session, inPc, hand, pdus>>
        BY <1>6 DEF vars, outVars, handlerVars, inClientVars
    <2>2. \A k \in InReq : Served(k)' = Served(k) /\ Stream(Served(k))' = Stream(Served(k))
        BY <2>1 DEF Served, Stream
    <2> QED BY <1>1, <2>1, <2>2 DEF GrantInv
<1> QED BY <1>4, <1>5, <1>6, GrantOut DEF Next, Terminated

\* TunnelBeforeChannel for any number of requests and PDUs: whatever a client sends, and however the
\* OUT response and the handler interleave, it is told of a channel only after its tunnel and its
\* authorisation, once each.
THEOREM GrantSafety == Spec => []TunnelBeforeChannel
<1>1. TypeOK /\ BufferOK /\ LinkInv /\ GrantInv => TunnelBeforeChannel
  <2> SUFFICES ASSUME TypeOK, BufferOK, LinkInv, GrantInv PROVE TunnelBeforeChannel
      OBVIOUS
  <2>1. ASSUME NEW i \in InReq, Served(i) # 0 PROVE GrantOK(i)
      BY <2>1 DEF GrantInv
  <2>2. ASSUME NEW i \in InReq, Served(i) # 0
        PROVE  \A a \in DOMAIN Stream(Served(i)) : \A b \in 1..(a - 1) : b \in DOMAIN Stream(Served(i))
      <3>1. Stream(Served(i)) \in Seq(ItemSet)
          BY <2>2, StreamTypes
      <3> QED BY <3>1
  <2> QED BY <2>1, <2>2 DEF GrantOK, Grants, TunnelBeforeChannel
<1> QED BY <1>1, TypeInit, TypeNext, BufferInit, BufferNext, PairInit, PairNext, LinkInit, LinkNext,
           StreamInit, StreamNext, GrantInit, GrantNext, PTL DEF Spec

-----------------------------------------------------------------------------
(* Refinement: the requests implement OutStreams.                            *)

\* The virtual connections: one in the map waits for its IN request, and one that was
\* taken is bound only with its BindAck, before which its session has not moved.
ConnOK(i) ==
    /\ vconn[i].state \in {"ConnectionEstablished", "DataTransfer"}
    /\ vconn[i].state = "ConnectionEstablished" =>
         /\ ~bound[i] /\ session[i].state = "AwaitingHandshake"
         /\ inPc[i] = "Send" => hand[i].type # "BindAck"

ConnInv ==
    /\ \A c \in DOMAIN pending : CanAcceptIn(pending[c].vconn, c)
    /\ \A i \in InReq : Served(i) # 0 => ConnOK(i)

\* Initially no virtual connection is in use.
LEMMA ConnInit == Init => ConnInv
BY VConnTypes DEF Init, ConnInv, Served

\* What the methods of a virtual connection do to its state.
LEMMA VConnStates ==
    /\ \A c, o \in Nat : CanAcceptIn(accept_out_channel(NewVConn, c, o), c)
    /\ \A v \in VConn : /\ accept_in_channel(v).state = "ConnectionEstablished"
                        /\ enter_data_transfer(v).state = "DataTransfer"
BY DEF NewVConn, VConn, CanAcceptIn, accept_out_channel, accept_in_channel, enter_data_transfer

\* A step leaves the IN requests other than i as they are.
OthersStay(i) ==
    \A k \in InReq \ {i} :
        /\ vconn'[k] = vconn[k] /\ bound'[k] = bound[k] /\ session'[k] = session[k]
        /\ inPc'[k] = inPc[k] /\ hand'[k] = hand[k] /\ done'[k] = done[k]
        /\ out_tx'[k] = out_tx[k] /\ pdus'[k] = pdus[k]

\* Every step of IN request i leaves the others as they are.
LEMMA OthersKeep ==
    ASSUME TypeOK, NEW i \in InReq, InHandler(i) \/ InClient(i)
    PROVE  OthersStay(i)
<1>0. /\ inPc \in [InReq -> Running \cup {"Idle", "Ok200", "Err400", "Err500", "Dropped"}]
      /\ hand \in [InReq -> ItemSet] /\ session \in [InReq -> Session] /\ vconn \in [InReq -> VConn]
      /\ bound \in [InReq -> BOOLEAN] /\ done \in [InReq -> Nat] /\ out_tx \in [InReq -> OutReq \cup {0}]
      /\ pdus \in [InReq -> Seq(Pdu)]
    BY DEF TypeOK
<1>1. CASE InClient(i)
    BY <1>0, <1>1 DEF InClient, InOpen, InSendPdu, InEndBody, InDrop, End, handlerVars,
                         inClientVars, OthersStay
<1>2. CASE InBodyEnds(i) \/ \E n \in 1..(Units * MaxPdus) : InFrame(i, n)
    BY <1>0, <1>2 DEF InBodyEnds, InFrame, End, inClientVars, OthersStay
<1>3. CASE InFirst(i)
    BY <1>0, <1>3 DEF InFirst, End, Push, inClientVars, OthersStay
<1>4. CASE InPush(i)
    BY <1>0, <1>4 DEF InPush, End, inClientVars, OthersStay
<1>5. CASE InPdu(i)
    BY <1>0, <1>5 DEF InPdu, End, Push, inClientVars, OthersStay
<1> QED BY <1>1, <1>2, <1>3, <1>4, <1>5 DEF InHandler

\* Every step keeps the virtual connections in step with binding and session.
LEMMA ConnNext ==
    TypeOK /\ BufferOK /\ PairInv /\ LinkInv /\ GrantInv /\ ConnInv /\ [Next]_vars => ConnInv'
<1> SUFFICES ASSUME TypeOK, BufferOK, PairInv, LinkInv, GrantInv, ConnInv, [Next]_vars
             PROVE  ConnInv'
    OBVIOUS
<1>0. /\ inPc \in [InReq -> Running \cup {"Idle", "Ok200", "Err400", "Err500", "Dropped"}]
      /\ hand \in [InReq -> ItemSet] /\ session \in [InReq -> Session] /\ vconn \in [InReq -> VConn]
      /\ bound \in [InReq -> BOOLEAN]
    BY DEF TypeOK
<1>1. ASSUME NEW o \in OutReq, OutServe(o) \/ OutClient(o) PROVE ConnInv'
    <2>1. UNCHANGED <<vconn, bound, session, inPc, hand>>
        BY <1>1 DEF OutServe, OutClient, handlerVars
    <2>2. \A i \in InReq : Served(i)' # 0 => ConnOK(i)'
        BY <2>1 DEF ConnInv, ConnOK, Served
    <2>3. ASSUME NEW c \in Cookie, OutAccept(o, c)
          PROVE  \A k \in DOMAIN pending' : CanAcceptIn(pending'[k].vconn, k)
        <3> DEFINE e == [vconn |-> accept_out_channel(NewVConn, c, o), out_sender |-> o]
        <3>1. pending' = Insert(c, e)
            BY <2>3 DEF OutAccept
        <3>2. CanAcceptIn(e.vconn, c)
            <4>1. c \in Nat /\ o \in Nat
                BY RequestAssumption, PduAssumption
            <4> QED BY <4>1, VConnStates
        <3> HIDE DEF e
        <3> QED BY <3>1, <3>2 DEF Insert, ConnInv
    <2>4. UNCHANGED pending \/ \E c \in Cookie : OutAccept(o, c)
        BY <1>1 DEF OutServe, OutClient, OutStream, OutFinish, OutReject, OutDisconnect
    <2> QED BY <2>2, <2>3, <2>4 DEF ConnInv
<1>2. ASSUME NEW i \in InReq, OthersStay(i), Served(i)' # 0 => ConnOK(i)',
             UNCHANGED pending \/ \E c \in DOMAIN pending : pending' = Remove(c)
      PROVE  ConnInv'
    <2>1. \A c \in DOMAIN pending' : CanAcceptIn(pending'[c].vconn, c)
        BY <1>2 DEF ConnInv, Remove
    <2>2. \A k \in InReq \ {i} : Served(k)' # 0 => ConnOK(k)'
        BY <1>2 DEF OthersStay, ConnInv, ConnOK, Served
    <2> QED BY <1>2, <2>1, <2>2 DEF ConnInv
<1>3. ASSUME NEW i \in InReq, InClient(i) \/ InBodyEnds(i) \/ \E n \in 1..(Units * MaxPdus) : InFrame(i, n)
      PROVE  ConnInv'
    <2>1. /\ UNCHANGED <<pending, vconn, bound, session, hand>>
          /\ inPc'[i] = "Send" => inPc[i] = "Send"
        BY <1>0, <1>3 DEF InClient, InOpen, InSendPdu, InEndBody, InDrop, InBodyEnds, InFrame, End, handlerVars
    <2>2. Served(i)' # 0 => ConnOK(i)'
        BY <2>1 DEF ConnInv, ConnOK, Served
    <2>3. OthersStay(i)
        BY <1>3, OthersKeep DEF InHandler
    <2> QED BY <1>2, <2>1, <2>2, <2>3
<1>4. ASSUME NEW i \in InReq, InPush(i) PROVE ConnInv'
    <2>1. /\ inPc[i] = "Send" /\ UNCHANGED <<pending, vconn, session>> /\ inPc'[i] # "Send"
          /\ bound'[i] \in {bound[i], bound[i] \/ hand[i].type = "BindAck"}
        BY <1>0, <1>4 DEF InPush, End
    <2>2. Served(i) # 0 => ConnOK(i)
        BY DEF ConnInv
    <2>3. Served(i)' # 0 => ConnOK(i)'
        BY <2>1, <2>2 DEF ConnOK, Served
    <2>4. OthersStay(i)
        BY <1>4, OthersKeep DEF InHandler
    <2> QED BY <1>2, <2>1, <2>3, <2>4
<1>5. ASSUME NEW i \in InReq, InPdu(i) PROVE ConnInv'
    <2>1. inPc[i] = "Loop" /\ UNCHANGED <<pending, bound>>
        BY <1>5 DEF InPdu, End
    <2>2. Served(i) # 0 /\ ConnOK(i)
        BY <2>1 DEF LinkInv, ConnInv
    <2>3. ASSUME UNCHANGED <<vconn, session>>, inPc'[i] # "Send" PROVE ConnOK(i)'
        BY <2>1, <2>2, <2>3 DEF ConnOK
    <2>4. ASSUME vconn' = [vconn EXCEPT ![i] = enter_data_transfer(@)] PROVE ConnOK(i)'
        <3>1. vconn'[i].state = "DataTransfer"
            BY <1>0, <2>4, VConnStates
        <3> QED BY <3>1 DEF ConnOK
    <2>5. ASSUME bound[i], UNCHANGED vconn PROVE ConnOK(i)'
        BY <2>1, <2>2, <2>5 DEF ConnOK
    <2>6. \/ UNCHANGED <<vconn, session>> /\ inPc'[i] # "Send"
          \/ vconn' = [vconn EXCEPT ![i] = enter_data_transfer(@)]
          \/ bound[i] /\ UNCHANGED vconn
        BY <1>0, <1>5 DEF InPdu, End, Push
    <2>7. OthersStay(i)
        BY <1>5, OthersKeep DEF InHandler
    <2> QED BY <1>2, <2>1, <2>3, <2>4, <2>5, <2>6, <2>7
<1>6. ASSUME NEW i \in InReq, InFirst(i) PROVE ConnInv'
    <2>1. inPc[i] = "First" /\ Served(i) = 0 /\ ~bound[i] /\ session[i].state = "AwaitingHandshake"
        BY <1>6 DEF InFirst, BufferOK, LinkInv, GrantInv
    <2>2. OthersStay(i)
        BY <1>6, OthersKeep DEF InHandler
    <2>3. CASE UNCHANGED vconn
        <3>1. Served(i)' = 0
            BY <2>1, <2>3 DEF Served
        <3>2. UNCHANGED pending \/ \E c \in DOMAIN pending : pending' = Remove(c)
            BY <1>6 DEF InFirst
        <3> QED BY <1>2, <2>2, <3>1, <3>2
    <2>4. CASE \E c \in DOMAIN pending :
                 /\ pending' = Remove(c) /\ vconn' = [vconn EXCEPT ![i] = accept_in_channel(pending[c].vconn)]
                 /\ Push(i, Item("ConnC2", pending[c].vconn.out_call_id, << >>))
                 /\ UNCHANGED <<session, bound>>
        <3>1. PICK c \in DOMAIN pending :
                 /\ pending' = Remove(c) /\ vconn' = [vconn EXCEPT ![i] = accept_in_channel(pending[c].vconn)]
                 /\ Push(i, Item("ConnC2", pending[c].vconn.out_call_id, << >>))
                 /\ UNCHANGED <<session, bound>>
            BY <2>4
        <3>2. pending[c].vconn \in VConn
            BY DEF TypeOK
        <3>3. vconn'[i].state = "ConnectionEstablished"
            BY <1>0, <3>1, <3>2, VConnStates
        <3>4. hand'[i].type = "ConnC2"
            BY <1>0, <3>1 DEF Push, Item
        <3>5. ConnOK(i)'
            BY <2>1, <3>1, <3>3, <3>4 DEF ConnOK
        <3> QED BY <1>2, <2>2, <3>1, <3>5
    <2> QED BY <1>6, <2>3, <2>4 DEF InFirst, End
<1>7. CASE UNCHANGED vars
    BY <1>7 DEF vars, outVars, handlerVars, ConnInv, ConnOK, Served
<1> QED BY <1>1, <1>3, <1>4, <1>5, <1>6, <1>7 DEF Next, InHandler, Terminated

\* A step of IN request i changes what OutStreams sees of i alone.
LEMMA MapsFrame ==
    ASSUME NEW i \in InReq, OthersStay(i)
    PROVE  /\ Peers' = [Peers EXCEPT ![i] = Served(i)']
           /\ Levels' = [Levels EXCEPT ![i] = Levels'[i]]
           /\ Called' = [Called EXCEPT ![i] = Called'[i]]
           /\ Owed' = [Owed EXCEPT ![i] = Owed'[i]]
           /\ Writers' = IF out_tx'[i] # 0 THEN Writers \cup {i} ELSE Writers \ {i}
<1>1. \A k \in InReq \ {i} : Served(k)' = Served(k)
    BY DEF OthersStay, Served
<1>2. Peers' = [Peers EXCEPT ![i] = Served(i)']
    BY <1>1 DEF Peers
<1>3. Levels' = [Levels EXCEPT ![i] = Levels'[i]]
    BY <1>1 DEF Levels, OthersStay
<1>4. Called' = [Called EXCEPT ![i] = Called'[i]]
    <2>1. ASSUME NEW k \in InReq \ {i} PROVE Called'[k] = Called[k]
        <3>1. done'[k] = done[k] /\ pdus'[k] = pdus[k]
            BY DEF OthersStay
        <3> QED BY <3>1 DEF Called, Answerable
    <2> QED BY <2>1 DEF Called
<1>5. Owed' = [Owed EXCEPT ![i] = Owed'[i]]
    BY DEF Owed, OthersStay
<1>6. Writers' = IF out_tx'[i] # 0 THEN Writers \cup {i} ELSE Writers \ {i}
    BY DEF Writers, OthersStay
<1> QED BY <1>2, <1>3, <1>4, <1>5, <1>6

\* PDUs that were taken stay what they were, so as many of them call for an answer.
LEMMA CalledStays ==
    ASSUME NEW i \in InReq, done[i] \in Nat, done'[i] = done[i],
           \A j \in 1..done[i] : pdus'[i][j] = pdus[i][j]
    PROVE  Called'[i] = Called[i]
<1>1. ASSUME NEW k \in 2..done[i] PROVE Answerable(i, k)' <=> Answerable(i, k)
    BY DEF Answerable
<1> QED BY <1>1 DEF Called

\* A step of IN request i that OutStreams does not see.
LEMMA StepHidden ==
    ASSUME NEW i \in InReq, OthersStay(i), UNCHANGED <<outVars, pending>>, Served(i)' = Served(i),
           Levels'[i] = Levels[i], Called'[i] = Called[i], Owed'[i] = Owed[i],
           out_tx'[i] # 0 <=> out_tx[i] # 0
    PROVE  UNCHANGED Streams!vars
<1>1. DOMAIN Peers = InReq /\ Peers[i] = Served(i)
    BY DEF Peers
<1>2. Peers' = Peers
    BY <1>1, MapsFrame DEF Peers
<1>3. Levels' = Levels
    BY MapsFrame DEF Levels
<1>4. Called' = Called
    BY MapsFrame DEF Called
<1>5. Owed' = Owed
    BY MapsFrame DEF Owed
<1>6. Writers' = Writers
    BY MapsFrame DEF Writers
<1>7. Waiting' = Waiting
    BY DEF Waiting
<1> QED BY <1>2, <1>3, <1>4, <1>5, <1>6, <1>7
        DEF Streams!vars, Streams!outVars, Streams!inVars, outVars

\* A handler that has a sender and ends is an IN request that stops.
LEMMA StepStops ==
    ASSUME TypeOK, NEW i \in InReq, OthersStay(i), NEW how, how # "Send", End(i, how), out_tx[i] # 0,
           UNCHANGED <<outVars, pending, done>>, pdus' = pdus
    PROVE  Streams!Stop(i)
<1>0. inPc'[i] = how /\ out_tx'[i] = 0 /\ vconn' = vconn /\ session' = session
    BY DEF End, TypeOK
<1>1. i \in Writers /\ Writers' = Writers \ {i}
    BY <1>0, MapsFrame DEF Writers
<1>2. Owed' = [Owed EXCEPT ![i] = {}]
    <2>1. Owed'[i] = {}
        BY <1>0 DEF Owed
    <2> QED BY <2>1, MapsFrame
<1>3. Peers' = Peers /\ Levels' = Levels /\ Waiting' = Waiting
    BY <1>0 DEF Peers, Levels, Served, Waiting
<1>4. Called' = Called
    BY DEF Called, Answerable
<1> QED BY <1>1, <1>2, <1>3, <1>4 DEF Streams!Stop, Streams!outVars, outVars

\* Initially OutStreams is in its initial state.
LEMMA StreamsInit == Init => Streams!Init
<1> SUFFICES ASSUME Init PROVE Streams!Init
    OBVIOUS
<1>1. Waiting = [c \in {} |-> 0]
    BY DEF Init, Waiting
<1>2. \A i \in InReq : Served(i) = 0
    BY VConnTypes DEF Init, Served
<1>3. Peers = [i \in InReq |-> 0] /\ Levels = [i \in InReq |-> 0]
    BY <1>2 DEF Peers, Levels
<1>4. Writers = {} /\ Owed = [i \in InReq |-> {}]
    BY DEF Init, Writers, Owed
<1>5. Called = [i \in InReq |-> {}]
    <2>1. \A i \in InReq : {k \in 2..done[i] : Answerable(i, k)} = {}
        BY DEF Init
    <2> QED BY <2>1 DEF Called
<1> QED BY <1>1, <1>3, <1>4, <1>5 DEF Init, Streams!Init

\* The steps of an OUT request are its steps.
LEMMA StreamsOut ==
    ASSUME TypeOK, PairInv, NEW o \in OutReq, OutServe(o) \/ OutClient(o)
    PROVE  Streams!Next
<1>0. UNCHANGED <<inClientVars, handlerVars>>
    BY DEF OutServe, OutClient
<1>1. UNCHANGED Streams!inVars
    <2>1. Peers' = Peers /\ Levels' = Levels
        BY <1>0 DEF handlerVars, Peers, Levels, Served
    <2>2. Called' = Called
        BY <1>0 DEF handlerVars, inClientVars, Called, Answerable
    <2>3. Owed' = Owed /\ Writers' = Writers
        BY <1>0 DEF handlerVars, Owed, Writers
    <2> QED BY <2>1, <2>2, <2>3 DEF Streams!inVars
<1>2. ASSUME NEW c \in Cookie, OutAccept(o, c) PROVE Streams!Accept(o, c)
    <2> DEFINE e == [vconn |-> accept_out_channel(NewVConn, c, o), out_sender |-> o]
    <2>1. pending' = Insert(c, e) /\ e.out_sender = o
        BY <1>2 DEF OutAccept
    <2> HIDE DEF e
    <2>2. Waiting' = [k \in DOMAIN Waiting \cup {c} |-> IF k = c THEN o ELSE Waiting[k]]
        BY <2>1 DEF Waiting, Insert
    <2> QED BY <1>1, <1>2, <2>2 DEF OutAccept, Streams!Accept
<1>3. CASE OutReject(o)
    <2>1. Waiting' = Waiting
        BY <1>3 DEF OutReject, Waiting
    <2>2. Streams!Reject(o)
        BY <1>1, <1>3, <2>1 DEF OutReject, Streams!Reject
    <2> QED BY <2>2 DEF Streams!Next
<1>4. CASE OutStream(o)
    <2>1. Waiting' = Waiting
        BY <1>4 DEF OutStream, Waiting
    <2>2. Streams!Show(o)
        BY <1>1, <1>4, <2>1 DEF OutStream, Streams!Show
    <2> QED BY <2>2 DEF Streams!Next
<1>5. CASE OutFinish(o)
    <2>1. Waiting' = Waiting
        BY <1>5 DEF OutFinish, Waiting
    <2>2. \A c \in DOMAIN Waiting : Waiting[c] # o
        BY <1>5 DEF OutFinish, HasSender, Waiting
    <2>3. ASSUME NEW i \in Writers PROVE Peers[i] # o
        <3>1. out_tx[i] # 0 /\ out_tx[i] # o /\ o # 0
            BY <1>5, RequestAssumption DEF OutFinish, HasSender, Writers
        <3>2. Served(i) # 0 => out_tx[i] \in {0, Served(i)}
            BY DEF PairInv, ExclusivePairing, Writers
        <3> QED BY <3>1, <3>2 DEF Peers, Writers
    <2>4. Streams!Finish(o)
        BY <1>1, <1>5, <2>1, <2>2, <2>3 DEF OutFinish, Streams!Finish
    <2> QED BY <2>4 DEF Streams!Next
<1>6. CASE OutDisconnect(o)
    <2>1. Waiting' = Waiting
        BY <1>6 DEF OutDisconnect, Waiting
    <2>2. Streams!Leave(o)
        BY <1>1, <1>6, <2>1 DEF OutDisconnect, Streams!Leave
    <2> QED BY <2>2 DEF Streams!Next
<1> QED BY <1>2, <1>3, <1>4, <1>5, <1>6 DEF OutServe, OutClient, Streams!Next

\* Opening, the client's part of the body, frames and the end of the body: hidden, or
\* the IN request stops.
LEMMA StreamsBody ==
    ASSUME TypeOK, BufferOK, PairInv, LinkInv, NEW i \in InReq,
           InClient(i) \/ InBodyEnds(i) \/ \E n \in 1..(Units * MaxPdus) : InFrame(i, n)
    PROVE  Streams!Next \/ UNCHANGED Streams!vars
<1>0. /\ inPc \in [InReq -> Running \cup {"Idle", "Ok200", "Err400", "Err500", "Dropped"}]
      /\ done[i] \in Nat /\ pdus[i] \in Seq(Pdu) /\ done[i] <= Len(pdus[i]) /\ pdus \in [InReq -> Seq(Pdu)]
    BY StreamTypes DEF TypeOK
<1>1. OthersStay(i)
    BY OthersKeep DEF InHandler
<1>2. ASSUME NEW how, how # "Send", inPc[i] \in Running, End(i, how),
             UNCHANGED <<outVars, pending, pdus, done>>
      PROVE  Streams!Next \/ UNCHANGED Streams!vars
    <2>1. CASE out_tx[i] # 0
        BY <1>1, <1>2, <2>1, StepStops DEF Streams!Next
    <2>2. CASE out_tx[i] = 0
        <3>1. inPc[i] = "First"
            <4>1. inPc[i] \notin {"Send", "Loop"}
                BY <2>2 DEF LinkInv
            <4> QED BY <1>2, <4>1 DEF Running
        <3>2. inPc'[i] = how /\ out_tx'[i] = 0 /\ vconn' = vconn /\ session' = session
            BY <1>0, <1>2 DEF End, TypeOK
        <3>3. Served(i)' = Served(i) /\ Levels' = Levels
            BY <3>2 DEF Served, Levels
        <3>4. Owed'[i] = Owed[i]
            BY <1>2, <3>1, <3>2 DEF Owed
        <3>5. Called'[i] = Called[i]
            BY <1>0, <1>2, CalledStays
        <3> QED BY <1>1, <1>2, <2>2, <3>2, <3>3, <3>4, <3>5, StepHidden
    <2> QED BY <2>1, <2>2
<1>3. CASE InDrop(i) \/ InBodyEnds(i)
    <2>1. \E how \in {"Dropped", "Err400", "Ok200", "Err500"} : End(i, how)
        BY <1>3 DEF InDrop, InBodyEnds
    <2>2. UNCHANGED <<outVars, pending, pdus, done>> /\ inPc[i] \in Running
        BY <1>3 DEF InDrop, InBodyEnds, inClientVars, Reading, Running
    <2> QED BY <1>2, <2>1, <2>2
<1>4. CASE InOpen(i) \/ InSendPdu(i) \/ InEndBody(i) \/ \E n \in 1..(Units * MaxPdus) : InFrame(i, n)
    <2>1. /\ UNCHANGED <<outVars, pending, vconn, session, hand, out_tx, done>>
          /\ inPc'[i] = "Send" <=> inPc[i] = "Send"
        BY <1>0, <1>4 DEF InOpen, InSendPdu, InEndBody, InFrame, handlerVars
    <2>2. pdus' = pdus \/ \E p \in Pdu : pdus' = [pdus EXCEPT ![i] = Append(@, p)]
        BY <1>4 DEF InOpen, InSendPdu, InEndBody, InFrame, inClientVars
    <2>3. \A j \in 1..done[i] : pdus'[i][j] = pdus[i][j]
        <3>1. ASSUME NEW p \in Pdu, pdus' = [pdus EXCEPT ![i] = Append(@, p)], NEW j \in 1..done[i]
              PROVE  pdus'[i][j] = pdus[i][j]
            <4>1. pdus'[i] = Append(pdus[i], p) /\ j \in 1..Len(pdus[i])
                BY <1>0, <3>1
            <4> QED BY <1>0, <4>1
        <3> QED BY <2>2, <3>1
    <2>4. Called'[i] = Called[i]
        BY <1>0, <2>1, <2>3, CalledStays
    <2>5. Served(i)' = Served(i) /\ Levels' = Levels
        BY <2>1 DEF Served, Levels
    <2>6. Owed'[i] = Owed[i]
        BY <2>1 DEF Owed
    <2> QED BY <1>1, <2>1, <2>4, <2>5, <2>6, StepHidden
<1> QED BY <1>3, <1>4 DEF InClient

\* The first PDU: the IN request takes the OUT request that waits under its cookie, or
\* nothing is seen of it.
LEMMA StreamsFirst ==
    ASSUME TypeOK, BufferOK, PairInv, LinkInv, ConnInv, NEW i \in InReq, InFirst(i)
    PROVE  Streams!Next \/ UNCHANGED Streams!vars
<1>0. /\ inPc \in [InReq -> Running \cup {"Idle", "Ok200", "Err400", "Err500", "Dropped"}]
      /\ done \in [InReq -> Nat] /\ out_tx \in [InReq -> OutReq \cup {0}] /\ vconn \in [InReq -> VConn]
      /\ hand \in [InReq -> ItemSet]
    BY DEF TypeOK
<1>1. OthersStay(i)
    BY OthersKeep DEF InHandler
<1>2. /\ inPc[i] = "First" /\ done[i] = 0 /\ done'[i] = 1 /\ out_tx[i] = 0 /\ Served(i) = 0
      /\ UNCHANGED <<outVars, pdus>>
    BY <1>0 DEF InFirst, BufferOK, inClientVars
<1>3. Called[i] = {} /\ Called'[i] = {}
    <2>1. 2..done[i] = {} /\ 2..done'[i] = {}
        BY <1>2
    <2> QED BY <2>1 DEF Called
<1>4. CASE End(i, "Err400") /\ UNCHANGED pending
    <2>1. inPc'[i] = "Err400" /\ out_tx'[i] = 0 /\ vconn' = vconn /\ session' = session
        BY <1>0, <1>4 DEF End
    <2>2. Served(i)' = Served(i) /\ Levels' = Levels
        BY <2>1 DEF Served, Levels
    <2>3. Owed'[i] = Owed[i]
        BY <1>2, <2>1 DEF Owed
    <2> QED BY <1>1, <1>2, <1>3, <1>4, <2>1, <2>2, <2>3, StepHidden
<1>5. ASSUME NEW c \in DOMAIN pending, pending' = Remove(c),
             out_tx' = [out_tx EXCEPT ![i] = pending[c].out_sender],
             vconn' = [vconn EXCEPT ![i] = accept_in_channel(pending[c].vconn)],
             Push(i, Item("ConnC2", pending[c].vconn.out_call_id, << >>))
      PROVE  Streams!Pair(i, c)
    <2> DEFINE o == pending[c].out_sender
    <2>1. o \in OutReq /\ o # 0 /\ pending[c].vconn \in VConn /\ pending[c].vconn.out_call_id = o
        BY RequestAssumption DEF TypeOK, PairInv, ExclusivePairing
    <2>2. DOMAIN Waiting = DOMAIN pending /\ Waiting[c] = o
        BY DEF Waiting
    <2>3. vconn'[i].out_call_id = o /\ vconn'[i].state = "ConnectionEstablished"
        BY <1>0, <1>5, <2>1, VConnTypes, VConnStates
    <2>4. Peers[i] = 0 /\ Served(i)' = o /\ Levels'[i] = 1
        BY <1>2, <2>1, <2>3 DEF Peers, Served, Levels
    <2>5. Owed'[i] = {[type |-> "ConnC2", call |-> Waiting[c], stub |-> << >>]}
        BY <1>0, <1>5, <2>1, <2>2 DEF Push, Item, Owed
    <2>6. Waiting' = [k \in DOMAIN Waiting \ {c} |-> Waiting[k]]
        BY <1>5 DEF Waiting, Remove
    <2>7. Writers' = Writers \cup {i}
        <3>1. out_tx'[i] # 0
            BY <1>0, <1>5, <2>1
        <3> QED BY <1>1, <3>1, MapsFrame
    <2>8. Called' = Called
        BY <1>1, <1>3, MapsFrame DEF Called
    <2>9. /\ Peers' = [Peers EXCEPT ![i] = Waiting[c]]
          /\ Levels' = [Levels EXCEPT ![i] = 1]
          /\ Owed' = [Owed EXCEPT ![i] = {[type |-> "ConnC2", call |-> Waiting[c], stub |-> << >>]}]
        BY <1>1, <2>2, <2>4, <2>5, MapsFrame
    <2> QED BY <1>2, <2>2, <2>4, <2>6, <2>7, <2>8, <2>9 DEF Streams!Pair, Streams!outVars, outVars
<1>6. \/ End(i, "Err400") /\ UNCHANGED pending
      \/ \E c \in DOMAIN pending :
           /\ pending' = Remove(c) /\ out_tx' = [out_tx EXCEPT ![i] = pending[c].out_sender]
           /\ vconn' = [vconn EXCEPT ![i] = accept_in_channel(pending[c].vconn)]
           /\ Push(i, Item("ConnC2", pending[c].vconn.out_call_id, << >>))
    BY DEF InFirst, ConnInv
<1>7. DOMAIN pending \subseteq Cookie
    BY DEF TypeOK
<1> QED BY <1>4, <1>5, <1>6, <1>7 DEF Streams!Next

\* out_tx.send: what is owed is written, or the IN request stops.
LEMMA StreamsPush ==
    ASSUME TypeOK, BufferOK, PairInv, LinkInv, NEW i \in InReq, InPush(i)
    PROVE  Streams!Next
<1>0. /\ inPc \in [InReq -> Running \cup {"Idle", "Ok200", "Err400", "Err500", "Dropped"}]
      /\ done[i] \in Nat
    BY DEF TypeOK
<1>1. OthersStay(i)
    BY OthersKeep DEF InHandler
<1>2. /\ inPc[i] = "Send" /\ out_tx[i] = Served(i) /\ Served(i) # 0
      /\ UNCHANGED <<out, body, pending, pdus, done>>
    BY DEF InPush, LinkInv, inClientVars
<1>3. CASE End(i, "Err500") /\ UNCHANGED queue
    <2>1. Streams!Stop(i)
        BY <1>1, <1>2, <1>3, StepStops DEF outVars
    <2> QED BY <2>1 DEF Streams!Next
<1>4. CASE /\ out[out_tx[i]] = "open" /\ queue' = [queue EXCEPT ![out_tx[i]] = Append(@, hand[i])]
           /\ inPc' = [inPc EXCEPT ![i] = "Loop"] /\ UNCHANGED <<out_tx, vconn, session>>
    <2>1. i \in Writers /\ Peers[i] = out_tx[i] /\ Owed[i] = {hand[i]}
        BY <1>2 DEF Writers, Peers, Owed
    <2>2. Owed' = [Owed EXCEPT ![i] = {}]
        <3>1. Owed'[i] = {}
            BY <1>0, <1>4 DEF Owed
        <3> QED BY <1>1, <3>1, MapsFrame
    <2>3. Peers' = Peers /\ Levels' = Levels /\ Waiting' = Waiting /\ Writers' = Writers
        BY <1>2, <1>4 DEF Peers, Levels, Served, Waiting, Writers
    <2>4. Called' = Called
        BY <1>2 DEF Called, Answerable
    <2>5. Streams!Write(i)
        BY <1>2, <1>4, <2>1, <2>2, <2>3, <2>4 DEF Streams!Write
    <2> QED BY <2>5 DEF Streams!Next
<1> QED BY <1>3, <1>4 DEF InPush

\* A PDU that calls for an answer is one call more, and the others are none.
LEMMA CalledGrows ==
    ASSUME NEW i \in InReq, done[i] \in Nat, done[i] >= 1, done'[i] = done[i] + 1, pdus' = pdus
    PROVE  LET n == done[i] + 1
               new == \/ pdus[i][n].type = "Bind"
                      \/ pdus[i][n].type = "Request" /\ BindSeen(pdus[i], done[i])
           IN  Called'[i] = IF new THEN Called[i] \cup {n} ELSE Called[i]
<1> DEFINE n == done[i] + 1
           p == pdus[i]
           Asks(k) == p[k].type = "Bind" \/ (p[k].type = "Request" /\ \E j \in 2..(k - 1) : p[j].type = "Bind")
<1>1. Called[i] = {k \in 2..done[i] : Asks(k)} /\ Called'[i] = {k \in 2..n : Asks(k)}
    BY DEF Called, Answerable
<1>2. 2..n = (2..done[i]) \cup {n} /\ n - 1 = done[i]
    OBVIOUS
<1>3. Asks(n) <=> p[n].type = "Bind" \/ (p[n].type = "Request" /\ BindSeen(p, done[i]))
    BY <1>2 DEF BindSeen
<1> HIDE DEF Asks, n, p
<1>4. Called'[i] = IF Asks(n) THEN Called[i] \cup {n} ELSE Called[i]
    BY <1>1, <1>2
<1> QED BY <1>3, <1>4 DEF n, p

\* A granted opnum returns more than a return code; any other one returns S_OK.
LEMMA StubLength ==
    ASSUME NEW s, NEW n \in Nat
    PROVE  /\ n \in Grants => Len(OpnumStub(s, n)) > 1
           /\ n \notin Grants => OpnumStub(s, n) = <<0>>
<1>1. n = 1 => OpnumStub(s, n) = <<s.tunnel_id, 0>>
    BY DEF OpnumStub
<1>2. n = 2 => OpnumStub(s, n) = <<0, 3, 0>>
    BY DEF OpnumStub
<1>3. n = 4 => OpnumStub(s, n) = <<s.channel_id, 0>>
    BY DEF OpnumStub
<1>4. n \notin Grants => OpnumStub(s, n) = <<0>>
    BY DEF OpnumStub, Grants
<1> QED BY <1>1, <1>2, <1>3, <1>4 DEF Grants

\* One turn of the loop over PDUs: a call, nothing, or the end of the IN request.
LEMMA StreamsPdu ==
    ASSUME TypeOK, BufferOK, PairInv, LinkInv, StreamInv, GrantInv, ConnInv, NEW i \in InReq, InPdu(i)
    PROVE  Streams!Next \/ UNCHANGED Streams!vars
<1> DEFINE q == Current(i)
           n == done[i] + 1
           t == OpnumSession(session[i], q.arg)
<1>0. /\ inPc \in [InReq -> Running \cup {"Idle", "Ok200", "Err400", "Err500", "Dropped"}]
      /\ done \in [InReq -> Nat] /\ vconn \in [InReq -> VConn] /\ session \in [InReq -> Session]
      /\ hand \in [InReq -> ItemSet]
    BY DEF TypeOK
<1>1. OthersStay(i)
    BY OthersKeep DEF InHandler
<1>2. /\ inPc[i] = "Loop" /\ out_tx[i] = Served(i) /\ Served(i) # 0 /\ UNCHANGED <<outVars, pending, pdus>>
      /\ Buffered(i) >= 1
    <2>1. Buffered(i) >= Units - 1 /\ Buffered(i) \in Int
        BY DEF InPdu, Buffered, Units, TypeOK
    <2> QED BY <2>1 DEF InPdu, LinkInv, inClientVars, Units
<1>3. q.arg \in Nat /\ q = pdus[i][n]
    BY <1>2, CurrentPdu DEF Current
<1>4. done[i] \in Nat /\ done[i] >= 1
    BY <1>0, <1>2 DEF PairInv, ExclusivePairing
<1>5. bound[i] <=> BindSeen(pdus[i], done[i])
    BY <1>2 DEF StreamInv, ServedOK, HandOK
<1>6. ConnOK(i) /\ session[i].state \in GrantState
    BY <1>2 DEF ConnInv, GrantInv, GrantOK
<1>7. i \in Writers /\ Owed[i] = {} /\ Waiting' = Waiting
    BY <1>2 DEF Writers, Owed, Waiting
<1>8. CASE End(i, "Err500") /\ UNCHANGED done
    <2>1. Streams!Stop(i)
        BY <1>1, <1>2, <1>8, StepStops
    <2> QED BY <2>1 DEF Streams!Next
<1>9. CASE /\ done' = [done EXCEPT ![i] = @ + 1]
           /\ q.type = "Ignored" \/ (q.type = "Request" /\ ~bound[i])
           /\ UNCHANGED <<inPc, out_tx, vconn, session, bound, hand>>
    <2>1. done'[i] = n
        BY <1>0, <1>9
    <2>2. Called'[i] = Called[i]
        BY <1>2, <1>3, <1>4, <1>5, <1>9, <2>1, CalledGrows
    <2>3. Served(i)' = Served(i) /\ Levels' = Levels /\ Owed' = Owed
        BY <1>9 DEF Served, Levels, Owed
    <2> QED BY <1>1, <1>2, <1>9, <2>2, <2>3, StepHidden
<1>10. ASSUME NEW x, x.call = n, done' = [done EXCEPT ![i] = @ + 1], Push(i, x), UNCHANGED out_tx,
              Served(i)' = Served(i), q.type = "Bind" \/ (q.type = "Request" /\ bound[i]),
              Streams!Binds(i, x) \/ Streams!Grants(i, x) \/ Streams!Replies(i, x)
       PROVE  Streams!Next
    <2>1. done'[i] = n /\ inPc'[i] = "Send" /\ hand'[i] = x
        BY <1>0, <1>10 DEF Push
    <2>2. Called'[i] = Called[i] \cup {n} /\ \A k \in Called[i] : k < n
        <3>1. Called'[i] = Called[i] \cup {n}
            BY <1>2, <1>3, <1>4, <1>5, <1>10, <2>1, CalledGrows
        <3>2. \A k \in Called[i] : k \in 2..done[i]
            BY DEF Called
        <3> QED BY <1>4, <3>1, <3>2
    <2>3. Owed'[i] = {x}
        BY <2>1 DEF Owed
    <2>4. Peers' = Peers
        BY <1>1, <1>10, MapsFrame DEF Peers
    <2>5. Writers' = Writers
        BY <1>10 DEF Writers
    <2>6. /\ Called' = [Called EXCEPT ![i] = Called[i] \cup {x.call}]
          /\ Owed' = [Owed EXCEPT ![i] = {x}]
        BY <1>1, <1>10, <2>2, <2>3, MapsFrame
    <2> HIDE DEF n
    <2>7. Streams!Call(i)
        BY <1>2, <1>7, <1>10, <2>2, <2>3, <2>4, <2>5, <2>6 DEF Streams!Call, Streams!outVars, outVars
    <2> QED BY <2>7 DEF Streams!Next
<1>11. CASE /\ done' = [done EXCEPT ![i] = @ + 1] /\ q.type = "Bind" /\ CanEnterDataTransfer(vconn[i])
            /\ vconn' = [vconn EXCEPT ![i] = enter_data_transfer(@)]
            /\ Push(i, Item("BindAck", done[i] + 1, << >>)) /\ UNCHANGED <<out_tx, session>>
    <2> DEFINE x == Item("BindAck", done[i] + 1, << >>)
    <2>1. x.call = n /\ x.type = "BindAck"
        BY DEF Item
    <2>2. Served(i)' = Served(i) /\ vconn'[i].state = "DataTransfer"
        BY <1>0, <1>11, VConnTypes, VConnStates DEF Served
    <2>3. session'[i].state = "AwaitingHandshake" /\ vconn[i].state = "ConnectionEstablished"
        BY <1>6, <1>11 DEF ConnOK, CanEnterDataTransfer
    <2>4. Levels[i] = 1
        BY <1>2, <2>3 DEF Levels
    <2>5. Levels'[i] = 2
        BY <1>2, <2>2, <2>3, Stages DEF Levels
    <2> HIDE DEF x
    <2>6. Streams!Binds(i, x)
        BY <1>1, <2>1, <2>4, <2>5, MapsFrame DEF Streams!Binds
    <2>7. Push(i, x)
        BY <1>11 DEF x
    <2> QED BY <1>10, <1>11, <2>1, <2>2, <2>6, <2>7
<1>12. CASE /\ done' = [done EXCEPT ![i] = @ + 1] /\ q.type = "Request" /\ bound[i]
            /\ ~OpnumRefused(session[i], q.arg) /\ session' = [session EXCEPT ![i] = t]
            /\ Push(i, Item("Response", done[i] + 1, OpnumStub(t, q.arg))) /\ UNCHANGED <<out_tx, vconn>>
    <2> DEFINE x == Item("Response", done[i] + 1, OpnumStub(t, q.arg))
    <2>1. x.call = n /\ x.type = "Response" /\ x.stub = OpnumStub(t, q.arg)
        BY DEF Item
    <2>2. Served(i)' = Served(i) /\ vconn'[i].state # "ConnectionEstablished"
        BY <1>6, <1>12 DEF ConnOK, Served
    <2>3. session'[i] = t
        BY <1>0, <1>12
    <2>4. Levels[i] = 2 + Stage(session[i].state) /\ Levels'[i] = 2 + Stage(t.state)
        BY <1>2, <1>12, <2>2, <2>3 DEF Levels
    <2>5. session[i] \in Session
        BY <1>0
    <2>6. /\ t.state \in GrantState
          /\ q.arg \notin Grants => t = session[i]
          /\ q.arg \in Grants => Stage(t.state) = Stage(session[i].state) + 1
        BY <1>3, <1>6, <1>12, <2>5, OpnumGrant
    <2>7. Stage(session[i].state) \in 0..3 /\ Stage(t.state) \in 0..3
        <3>1. /\ Stage("AwaitingHandshake") = 0 /\ Stage("AwaitingTunnelAuth") = 1
              /\ Stage("AwaitingChannelCreate") = 2 /\ Stage("DataTransfer") = 3
            BY DEF Stage
        <3> QED BY <1>6, <2>6, <3>1 DEF GrantState
    <2>8. Levels'[i] = Levels[i] => Levels' = Levels
        BY <1>1, MapsFrame DEF Levels
    <2>9. /\ q.arg \in Grants => Len(x.stub) > 1
          /\ q.arg \notin Grants => x.stub = <<0>>
        BY <1>3, <2>1, StubLength
    <2> HIDE DEF x, t
    <2>10. ASSUME q.arg \in Grants PROVE Streams!Grants(i, x)
        <3>1. Levels[i] \in 2..4 /\ Levels'[i] = Levels[i] + 1
            BY <2>4, <2>6, <2>7, <2>10
        <3>2. Levels' = [Levels EXCEPT ![i] = Levels[i] + 1]
            BY <1>1, <3>1, MapsFrame
        <3> QED BY <2>1, <2>9, <2>10, <3>1, <3>2 DEF Streams!Grants
    <2>11. ASSUME q.arg \notin Grants PROVE Streams!Replies(i, x)
        <3>1. Levels[i] >= 2
            BY <2>4, <2>7
        <3>2. Levels'[i] = Levels[i]
            BY <2>4, <2>6, <2>11
        <3> QED BY <2>1, <2>8, <2>9, <2>11, <3>1, <3>2 DEF Streams!Replies
    <2>12. Push(i, x)
        BY <1>12 DEF x
    <2> QED BY <1>10, <1>12, <2>1, <2>2, <2>10, <2>11, <2>12
<1> QED BY <1>8, <1>9, <1>11, <1>12 DEF InPdu

\* Every step of the requests is a step of OutStreams or leaves it as it is.
LEMMA StreamsNext ==
    TypeOK /\ BufferOK /\ PairInv /\ LinkInv /\ StreamInv /\ GrantInv /\ ConnInv /\ [Next]_vars
    => [Streams!Next]_(Streams!vars)
<1> SUFFICES ASSUME TypeOK, BufferOK, PairInv, LinkInv, StreamInv, GrantInv, ConnInv, [Next]_vars
             PROVE  Streams!Next \/ UNCHANGED Streams!vars
    OBVIOUS
<1>1. CASE UNCHANGED vars
    <2>1. Peers' = Peers /\ Levels' = Levels /\ Waiting' = Waiting
        BY <1>1 DEF vars, handlerVars, Peers, Levels, Served, Waiting
    <2>2. Called' = Called
        BY <1>1 DEF vars, handlerVars, inClientVars, Called, Answerable
    <2>3. Owed' = Owed /\ Writers' = Writers
        BY <1>1 DEF vars, handlerVars, Owed, Writers
    <2> QED BY <1>1, <2>1, <2>2, <2>3
            DEF vars, outVars, Streams!vars, Streams!outVars, Streams!inVars
<1> QED BY <1>1, StreamsOut, StreamsBody, StreamsFirst, StreamsPush, StreamsPdu
        DEF Next, InHandler, Terminated

\* ImplementsOutStreams for any number of requests, cookies and PDUs, any capacity and any
\* cut of the bodies into frames.
THEOREM OutStreamsRefinement == Spec => ImplementsOutStreams
BY TypeInit, TypeNext, BufferInit, BufferNext, PairInit, PairNext, LinkInit, LinkNext,
   StreamInit, StreamNext, GrantInit, GrantNext, ConnInit, ConnNext, StreamsInit, StreamsNext,
   PTL DEF Spec, ImplementsOutStreams, Streams!Spec

===============================================================================

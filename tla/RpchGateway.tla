----------------------------- MODULE RpchGateway ------------------------------
(*****************************************************************************)
(* The RPC-over-HTTP transport of crates/rdg-server/src/handlers/rpch.rs:    *)
(* OUT and IN requests of any number of clients, paired through the shared   *)
(* map of pending connections.                                               *)
(*                                                                           *)
(* An OUT request leaves a VirtualConnection and the sender of a bounded     *)
(* channel in pending under the client's cookie; its response body streams   *)
(* the channel until every sender is dropped.  An IN request with the same   *)
(* cookie takes both out of the map and answers the RPC PDUs of its own body *)
(* through the sender, driving a GatewaySession.                             *)
(*                                                                           *)
(* The body of an IN request reaches the handler in frames that need not     *)
(* match PDUs.  A PDU is cut into Units units: part of its header, the rest  *)
(* of the header, the rest of the PDU; a frame brings any number of units.   *)
(* Requests are numbers; the call id of a CONN/A1 is the number of its OUT   *)
(* request, that of an RPC PDU its position in the IN body.                  *)
(*****************************************************************************)
EXTENDS GatewaySession, VirtualConnection

CONSTANTS OutReq,   \* OUT requests
          InReq,    \* IN requests
          Cookie,   \* virtual connection cookies the clients choose
          Pdu,      \* PDUs an IN body may hold
          OutCap,   \* capacity of an OUT channel (64 in the code)
          BodyCap,  \* PDUs of an IN body that are on their way or in the handler's buffer
          MaxPdus   \* bound: PDUs of one IN body

\* A first PDU that is not a CONN/B1 is Malformed or an RPC PDU.  RPC PDUs: a Bind to
\* the TSG interface, a Bind to another one, a Request, another type the header parser
\* knows, and one whose header or body does not parse (an RTS PDU is of this kind).
PduType == {"ConnB1", "Bind", "OtherBind", "Request", "Ignored", "Malformed"}

ASSUME RequestAssumption == OutReq \subseteq Nat \ {0} /\ InReq \subseteq Nat \ {0}
ASSUME PduAssumption == Pdu \subseteq [type : PduType, arg : Nat] /\ Cookie \subseteq Nat
ASSUME CapAssumption == OutCap \in Nat \ {0} /\ BodyCap \in Nat \ {0} /\ MaxPdus \in Nat

VARIABLES
    out,      \* per OUT request: "idle", "open", "ended" (stream complete), "gone" (client
              \* left), "rejected"
    queue,    \* per OUT request: its channel
    body,     \* per OUT request: what its response body has carried
    pending,  \* RpchState.pending: a function on the cookies in use
    inPc,     \* per IN request: "Idle", "First", "Send", "Loop", or how it ended: "Ok200",
              \* "Err400", "Err500", "Dropped"
    pdus,     \* per IN request: the PDUs of its body so far
    arrived,  \* per IN request: units of them in the handler's buffer or beyond
    done,     \* per IN request: PDUs taken from the buffer
    size,     \* per IN request: units of them the client has sent
    bodyEnd,  \* per IN request: the client has ended the body
    out_tx,   \* per IN request: the OUT request whose sender it holds (0: none)
    vconn,    \* per IN request: the VirtualConnection it took
    session,  \* per IN request: its GatewaySession
    bound,    \* per IN request: a Bind was acknowledged
    hand      \* per IN request: what it is sending on out_tx

outVars == <<out, queue, body>>
inClientVars == <<pdus, size, bodyEnd>>
handlerVars == <<inPc, arrived, done, out_tx, vconn, session, bound, hand>>
vars == <<outVars, pending, inClientVars, handlerVars>>

Units == 3

\* What goes down an OUT stream: its type, its call id and its stub.
Item(type, call, stub) == [type |-> type, call |-> call, stub |-> stub]
NoItem == Item("None", 0, << >>)

Init ==
    /\ out = [o \in OutReq |-> "idle"]
    /\ queue = [o \in OutReq |-> << >>] /\ body = [o \in OutReq |-> << >>]
    /\ pending = [c \in {} |-> NewVConn]
    /\ inPc = [i \in InReq |-> "Idle"]
    /\ pdus = [i \in InReq |-> << >>] /\ size = [i \in InReq |-> 0] /\ bodyEnd = [i \in InReq |-> FALSE]
    /\ arrived = [i \in InReq |-> 0] /\ done = [i \in InReq |-> 0]
    /\ out_tx = [i \in InReq |-> 0]
    /\ vconn = [i \in InReq |-> NewVConn]
    /\ session = [i \in InReq |-> NewSession]
    /\ bound = [i \in InReq |-> FALSE]
    /\ hand = [i \in InReq |-> NoItem]

-----------------------------------------------------------------------------
(* The OUT channel.                                                          *)

\* pending.insert: an entry with the same cookie is replaced and dropped.
Insert(c, entry) == [k \in DOMAIN pending \cup {c} |-> IF k = c THEN entry ELSE pending[k]]

\* handle_out_channel of a CONN/A1: from here its response body is streaming.
OutAccept(o, c) ==
    /\ out[o] = "idle"
    /\ out' = [out EXCEPT ![o] = "open"]
    /\ pending' = Insert(c, [vconn |-> accept_out_channel(NewVConn, c, o), out_sender |-> o])
    /\ UNCHANGED <<queue, body>>

\* handle_out_channel of any other body: 400.
OutReject(o) ==
    /\ out[o] = "idle"
    /\ out' = [out EXCEPT ![o] = "rejected"]
    /\ UNCHANGED <<queue, body, pending>>

\* The response body takes the oldest item of the channel.
OutStream(o) ==
    /\ out[o] = "open" /\ queue[o] # << >>
    /\ body' = [body EXCEPT ![o] = Append(@, Head(queue[o]))]
    /\ queue' = [queue EXCEPT ![o] = Tail(@)]
    /\ UNCHANGED <<out, pending>>

\* A sender of OUT request o is alive: in the map, or with an IN request.
HasSender(o) ==
    \/ \E c \in DOMAIN pending : pending[c].out_sender = o
    \/ \E i \in InReq : out_tx[i] = o

\* Mutant: the stream ends whenever the channel is empty.
OutFinish_Empty(o) ==
    /\ out[o] = "open" /\ queue[o] = << >>
    /\ out' = [out EXCEPT ![o] = "ended"]
    /\ UNCHANGED <<queue, body, pending>>

\* The channel is empty and no sender is left: the response is complete.
OutFinish(o) ==
    /\ out[o] = "open" /\ queue[o] = << >> /\ ~HasSender(o)
    /\ out' = [out EXCEPT ![o] = "ended"]
    /\ UNCHANGED <<queue, body, pending>>

\* The client drops the response (external): the receiver goes with what it holds; the
\* map keeps the entry.
OutDisconnect(o) ==
    /\ out[o] = "open"
    /\ out' = [out EXCEPT ![o] = "gone"]
    /\ queue' = [queue EXCEPT ![o] = << >>]
    /\ UNCHANGED <<body, pending>>

OutServe(o) == (OutStream(o) \/ OutFinish(o)) /\ UNCHANGED <<inClientVars, handlerVars>>

OutClient(o) ==
    /\ (\E c \in Cookie : OutAccept(o, c)) \/ OutReject(o) \/ OutDisconnect(o)
    /\ UNCHANGED <<inClientVars, handlerVars>>

-----------------------------------------------------------------------------
(* The IN channel: its body.                                                 *)

Running == {"First", "Send", "Loop"}

\* A client opens an IN request (external).
InOpen(i) ==
    /\ inPc[i] = "Idle"
    /\ inPc' = [inPc EXCEPT ![i] = "First"]
    /\ UNCHANGED <<outVars, pending, inClientVars, arrived, done, out_tx, vconn, session, bound, hand>>

\* The client adds a PDU to the body, or ends it, perhaps inside the last PDU (external).
InSendPdu(i) ==
    /\ inPc[i] \in Running /\ ~bodyEnd[i]
    /\ Len(pdus[i]) < MaxPdus /\ Len(pdus[i]) - done[i] < BodyCap
    /\ \E p \in Pdu : pdus' = [pdus EXCEPT ![i] = Append(@, p)]
    /\ size' = [size EXCEPT ![i] = @ + Units]
    /\ UNCHANGED <<outVars, pending, bodyEnd, handlerVars>>

InEndBody(i) ==
    /\ inPc[i] \in Running /\ ~bodyEnd[i]
    /\ bodyEnd' = [bodyEnd EXCEPT ![i] = TRUE]
    /\ \E n \in arrived[i]..size[i] :
         size[i] - n < Units /\ size' = [size EXCEPT ![i] = n]
    /\ UNCHANGED <<outVars, pending, pdus, handlerVars>>

\* Units of the next PDU, and of those after it, in the buffer.
Buffered(i) == arrived[i] - Units * done[i]

\* Units the read loop of the current state waits for: the whole CONN/B1, or the header
\* of an RPC PDU.
Needed(i) == IF inPc[i] = "First" THEN Units ELSE Units - 1

Reading(i) == inPc[i] \in {"First", "Loop"} /\ Buffered(i) < Needed(i)

\* body.frame() returns data: n units more.
InFrame(i, n) ==
    /\ Reading(i)
    /\ arrived[i] + n <= size[i]
    /\ arrived' = [arrived EXCEPT ![i] = @ + n]
    /\ UNCHANGED <<outVars, pending, inClientVars, inPc, done, out_tx, vconn, session, bound, hand>>

-----------------------------------------------------------------------------
(* The IN channel: its handler.                                              *)

Current(i) == pdus[i][done[i] + 1]

\* Mutant: the sender outlives the handler.
End_KeepSender(i, how) ==
    /\ inPc' = [inPc EXCEPT ![i] = how]
    /\ UNCHANGED <<out_tx, vconn, session, bound, hand>>

\* The handler returns: its sender is dropped.
End(i, how) ==
    /\ inPc' = [inPc EXCEPT ![i] = how]
    /\ out_tx' = [out_tx EXCEPT ![i] = 0]
    /\ UNCHANGED <<vconn, session, bound, hand>>

\* Mutant: what is sent is the stub alone, without its PDU.
Push_Raw(i, item) ==
    /\ inPc' = [inPc EXCEPT ![i] = "Send"]
    /\ hand' = [hand EXCEPT ![i] = [type |-> item.type, stub |-> item.stub]]

\* The handler goes to the next out_tx.send.
Push(i, item) ==
    /\ inPc' = [inPc EXCEPT ![i] = "Send"]
    /\ hand' = [hand EXCEPT ![i] = item]

\* body.frame() returns None or an error while the handler waits for more.
InBodyEnds(i) ==
    /\ Reading(i)
    /\ bodyEnd[i] /\ arrived[i] = size[i]
    /\ End(i, IF inPc[i] = "First" THEN "Err400" ELSE IF Buffered(i) = 0 THEN "Ok200" ELSE "Err500")
    /\ UNCHANGED <<outVars, pending, inClientVars, arrived, done>>

\* The connection breaks and the server drops the handler (external).
InDrop(i) ==
    /\ inPc[i] \in Running
    /\ End(i, "Dropped")
    /\ UNCHANGED <<outVars, pending, inClientVars, arrived, done>>

\* Mutant: the entry stays in the map for another IN request.
Remove_Keep(c) == pending

\* pending.remove
Remove(c) == [k \in DOMAIN pending \ {c} |-> pending[k]]

\* The first PDU: anything but a CONN/B1 of a pending cookie is a 400.  The entry is
\* gone from the map before accept_in_channel checks it.
InFirst(i) ==
    /\ inPc[i] = "First" /\ Buffered(i) >= Units
    /\ done' = [done EXCEPT ![i] = 1]
    /\ LET p == Current(i)  c == p.arg IN
        \/ /\ p.type # "ConnB1" \/ c \notin DOMAIN pending
           /\ End(i, "Err400")
           /\ UNCHANGED pending
        \/ /\ p.type = "ConnB1" /\ c \in DOMAIN pending
           /\ pending' = Remove(c)
           /\ IF CanAcceptIn(pending[c].vconn, c)
              THEN /\ out_tx' = [out_tx EXCEPT ![i] = pending[c].out_sender]
                   /\ vconn' = [vconn EXCEPT ![i] = accept_in_channel(pending[c].vconn)]
                   /\ Push(i, Item("ConnC2", pending[c].vconn.out_call_id, << >>))
                   /\ UNCHANGED <<session, bound>>
              ELSE End(i, "Err500")
    /\ UNCHANGED <<outVars, inClientVars, arrived>>

\* Mutant: an item that finds the channel full is dropped (try_send).
InPush_TrySend(i) ==
    /\ inPc[i] = "Send"
    /\ LET o == out_tx[i] IN
        \/ /\ out[o] = "open"
           /\ queue' = [queue EXCEPT ![o] = IF Len(@) < OutCap THEN Append(@, hand[i]) ELSE @]
           /\ inPc' = [inPc EXCEPT ![i] = "Loop"]
           /\ bound' = [bound EXCEPT ![i] = @ \/ hand[i].type = "BindAck"]
           /\ hand' = [hand EXCEPT ![i] = NoItem]
           /\ UNCHANGED <<out_tx, vconn, session>>
        \/ /\ out[o] # "open"
           /\ End(i, "Err500")
           /\ UNCHANGED queue
    /\ UNCHANGED <<out, body, pending, inClientVars, arrived, done>>

\* Mutant: a send to an OUT response that is gone waits.
InPush_NoError(i) ==
    /\ inPc[i] = "Send"
    /\ LET o == out_tx[i] IN
       /\ out[o] = "open" /\ Len(queue[o]) < OutCap
       /\ queue' = [queue EXCEPT ![o] = Append(@, hand[i])]
       /\ inPc' = [inPc EXCEPT ![i] = "Loop"]
       /\ bound' = [bound EXCEPT ![i] = @ \/ hand[i].type = "BindAck"]
       /\ hand' = [hand EXCEPT ![i] = NoItem]
       /\ UNCHANGED <<out_tx, vconn, session>>
    /\ UNCHANGED <<out, body, pending, inClientVars, arrived, done>>

\* out_tx.send: waits for space, fails when the OUT response is gone.  A BindAck that
\* was sent makes the connection bound.
InPush(i) ==
    /\ inPc[i] = "Send"
    /\ LET o == out_tx[i] IN
        \/ /\ out[o] = "open" /\ Len(queue[o]) < OutCap
           /\ queue' = [queue EXCEPT ![o] = Append(@, hand[i])]
           /\ inPc' = [inPc EXCEPT ![i] = "Loop"]
           /\ bound' = [bound EXCEPT ![i] = @ \/ hand[i].type = "BindAck"]
           /\ hand' = [hand EXCEPT ![i] = NoItem]
           /\ UNCHANGED <<out_tx, vconn, session>>
        \/ /\ out[o] # "open"
           /\ End(i, "Err500")
           /\ UNCHANGED queue
    /\ UNCHANGED <<out, body, pending, inClientVars, arrived, done>>

\* The messages process_tsg_opnum makes up for opnums 1, 2 and 4.
TsgHandshake     == Message("HandshakeRequest", <<1, 0>>, 0)
TsgTunnelCreate  == Message("TunnelCreate", << >>, 0)
TsgTunnelAuth    == Message("TunnelAuth", << >>, 0)
TsgChannelCreate == Message("ChannelCreate", <<3389>>, 0)

\* Mutant: the session's verdict on TsgCreateChannel is ignored.
OpnumRefused_NotChannel(s, n) ==
    \/ n = 1 /\ \/ Outcome(s, TsgHandshake) = "Err"
                \/ Outcome(Advance(s, TsgHandshake), TsgTunnelCreate) = "Err"
    \/ n = 2 /\ Outcome(s, TsgTunnelAuth) = "Err"

\* process_tsg_opnum: whether the session refuses, the session afterwards, and the stub
\* of the response (a tunnel or channel id, S_OK, flags).
OpnumRefused(s, n) ==
    \/ n = 1 /\ \/ Outcome(s, TsgHandshake) = "Err"
                \/ Outcome(Advance(s, TsgHandshake), TsgTunnelCreate) = "Err"
    \/ n = 2 /\ Outcome(s, TsgTunnelAuth) = "Err"
    \/ n = 4 /\ Outcome(s, TsgChannelCreate) = "Err"

OpnumSession(s, n) ==
    CASE n = 1 -> Advance(Advance(s, TsgHandshake), TsgTunnelCreate)
      [] n = 2 -> Advance(s, TsgTunnelAuth)
      [] n = 4 -> Advance(s, TsgChannelCreate)
      [] OTHER -> s

OpnumStub(s, n) ==
    CASE n = 1 -> <<s.tunnel_id, 0>>
      [] n = 2 -> <<0, 3, 0>>
      [] n = 4 -> <<s.channel_id, 0>>
      [] OTHER -> <<0>>

\* One turn of process_rpc_pdus_streaming with a header in the buffer.  The header
\* parser fails unless the whole PDU is there, so the loop that reads the rest of it
\* is never entered with anything left to read.
InPdu(i) ==
    /\ inPc[i] = "Loop" /\ Buffered(i) >= Units - 1
    /\ LET p == Current(i)  s == OpnumSession(session[i], p.arg) IN
        \/ /\ \/ Buffered(i) < Units
              \/ p.type \in {"Malformed", "ConnB1", "OtherBind"}
              \/ p.type = "Bind" /\ ~CanEnterDataTransfer(vconn[i])
              \/ p.type = "Request" /\ bound[i] /\ OpnumRefused(session[i], p.arg)
           /\ End(i, "Err500")
           /\ UNCHANGED done
        \/ /\ Buffered(i) >= Units
           /\ done' = [done EXCEPT ![i] = @ + 1]
           /\ \/ /\ p.type = "Bind" /\ CanEnterDataTransfer(vconn[i])
                 /\ vconn' = [vconn EXCEPT ![i] = enter_data_transfer(@)]
                 /\ Push(i, Item("BindAck", done[i] + 1, << >>))
                 /\ UNCHANGED <<out_tx, session, bound>>
              \/ /\ p.type = "Request" /\ bound[i] /\ ~OpnumRefused(session[i], p.arg)
                 /\ session' = [session EXCEPT ![i] = s]
                 /\ Push(i, Item("Response", done[i] + 1, OpnumStub(s, p.arg)))
                 /\ UNCHANGED <<out_tx, vconn, bound>>
              \/ /\ p.type = "Ignored" \/ (p.type = "Request" /\ ~bound[i])
                 /\ UNCHANGED <<inPc, out_tx, vconn, session, bound, hand>>
    /\ UNCHANGED <<outVars, pending, inClientVars, arrived>>

InHandler(i) ==
    \/ \E n \in 1..(Units * MaxPdus) : InFrame(i, n)
    \/ InBodyEnds(i) \/ InFirst(i) \/ InPush(i) \/ InPdu(i)

InClient(i) == InOpen(i) \/ InSendPdu(i) \/ InEndBody(i) \/ InDrop(i)

\* Every request has been served; the behaviour ends here.
Terminated ==
    /\ \A o \in OutReq : out[o] \in {"ended", "gone", "rejected"}
    /\ \A i \in InReq : inPc[i] \notin Running \cup {"Idle"}
    /\ UNCHANGED vars

Next ==
    \/ \E o \in OutReq : OutServe(o) \/ OutClient(o)
    \/ \E i \in InReq : InHandler(i) \/ InClient(i)
    \/ Terminated

Spec == Init /\ [][Next]_vars

\* The runtime polls a handler whose await is ready, what the client has sent arrives,
\* and the client reads its OUT response.  Nobody is assumed to open, send or leave.
Fairness ==
    /\ \A o \in OutReq : WF_vars(OutServe(o))
    /\ \A i \in InReq : WF_vars(InHandler(i))

FairSpec == Spec /\ Fairness

-----------------------------------------------------------------------------
(* Properties.                                                               *)

ItemType == {"None", "ConnC2", "BindAck", "Response"}
ItemSet == [type : ItemType, call : Nat, stub : Seq(Nat)]

\* Types of the variables.
TypeOK ==
    /\ out \in [OutReq -> {"idle", "open", "ended", "gone", "rejected"}]
    /\ queue \in [OutReq -> Seq(ItemSet)] /\ body \in [OutReq -> Seq(ItemSet)]
    /\ DOMAIN pending \subseteq Cookie
    /\ pending \in [DOMAIN pending -> [vconn : VConn, out_sender : OutReq]]
    /\ inPc \in [InReq -> Running \cup {"Idle", "Ok200", "Err400", "Err500", "Dropped"}]
    /\ pdus \in [InReq -> Seq(Pdu)] /\ size \in [InReq -> Nat] /\ bodyEnd \in [InReq -> BOOLEAN]
    /\ arrived \in [InReq -> Nat] /\ done \in [InReq -> Nat]
    /\ out_tx \in [InReq -> OutReq \cup {0}]
    /\ vconn \in [InReq -> VConn] /\ session \in [InReq -> Session]
    /\ bound \in [InReq -> BOOLEAN] /\ hand \in [InReq -> ItemSet]

\* The OUT request IN request i was paired with, now or in the past; 0: none.
Served(i) == vconn[i].out_call_id

\* An OUT request is paired at most once, with one IN request of its own cookie: no
\* other IN request finds it in the map, holds its sender or ever held it, whatever
\* the order in which requests with equal cookies come.
ExclusivePairing ==
    /\ \A c \in DOMAIN pending :
         LET e == pending[c] IN
         /\ e.vconn.cookie = c /\ e.vconn.out_call_id = e.out_sender
         /\ \A d \in DOMAIN pending : pending[d].out_sender = e.out_sender => d = c
         /\ \A i \in InReq : Served(i) # e.out_sender
    /\ \A i \in InReq : Served(i) # 0 =>
         /\ out_tx[i] \in {0, Served(i)}
         /\ done[i] >= 1 /\ pdus[i][1].type = "ConnB1" /\ pdus[i][1].arg = vconn[i].cookie
         /\ \A j \in InReq : Served(j) = Served(i) => j = i

\* All that was put into the channel of OUT request o.
Stream(o) == body[o] \o queue[o]

\* Bind or Request k of IN request i calls for an answer: a Request only after a Bind.
Answerable(i, k) ==
    /\ k \in 2..done[i]
    /\ \/ pdus[i][k].type = "Bind"
       \/ pdus[i][k].type = "Request" /\ \E j \in 2..(k - 1) : pdus[i][j].type = "Bind"

AnswerType(p) == IF p.type = "Bind" THEN "BindAck" ELSE "Response"

\* PDU k of IN request i, all of it there, is one a connection ends over: it does not
\* parse or is of a wrong kind, it is a second Bind, or a Request the session refuses.
Refused(i, k) ==
    LET p == pdus[i][k]  isBound == \E j \in 2..(k - 1) : pdus[i][j].type = "Bind" IN
    \/ p.type \in {"Malformed", "ConnB1", "OtherBind"}
    \/ p.type = "Bind" /\ isBound
    \/ p.type = "Request" /\ isBound /\ OpnumRefused(session[i], p.arg)

\* The buffer ends inside the next PDU.
CutShort(i) == Buffered(i) \in 1..(Units - 1)

\* The stream of a paired OUT request is CONN/C2 with the call id of its CONN/A1, then
\* one answer, of the right kind and with the right call id, to each Bind and each
\* Request taken, in the order of the IN body.  No answer is missing as long as the OUT
\* response is there, except one in the hand of the handler, or lost with it.  Nor is a
\* PDU left over without a reason: a request that ends with 200 took every PDU of its
\* body, and one that ends with 500 while the response is there had a PDU to refuse next,
\* or only a part of one.  Whether it may give up on a part is WholePduAwaited.
StreamFaithful ==
    /\ \A o \in OutReq : Stream(o) # << >> => \E i \in InReq : Served(i) = o
    /\ \A i \in InReq : Served(i) # 0 =>
        LET o == Served(i)  st == Stream(o) IN
        /\ \A a \in DOMAIN st :
             IF a = 1 THEN st[a].type = "ConnC2" /\ st[a].call = o
             ELSE /\ Answerable(i, st[a].call)
                  /\ st[a].type = AnswerType(pdus[i][st[a].call])
        /\ \A a, b \in DOMAIN st : 1 < a /\ a < b => st[a].call < st[b].call
        /\ out[o] # "gone" => \A k \in 2..done[i] : Answerable(i, k) =>
             \/ \E a \in DOMAIN st : a > 1 /\ st[a].call = k
             \/ inPc[i] \in {"Send", "Dropped"} /\ hand[i].call = k
        /\ inPc[i] = "Ok200" => done[i] = Len(pdus[i])
        /\ inPc[i] = "Err500" /\ out[o] # "gone" =>
             CutShort(i) \/ (Buffered(i) >= Units /\ Refused(i, done[i] + 1))

\* What the loop over body.frame() says it does ("Read until we have the complete PDU"):
\* with a part of a PDU in its buffer, a paired request fails only when no more of the
\* body comes.
WholePduAwaited ==
    \A i \in InReq :
        Served(i) # 0 /\ inPc[i] = "Err500" /\ out[Served(i)] # "gone" /\ CutShort(i) =>
            bodyEnd[i] /\ arrived[i] = size[i]

\* Position a of the stream of IN request i answers opnum n.
Answers(i, a, n) ==
    LET st == Stream(Served(i)) IN
    st[a].type = "Response" /\ pdus[i][st[a].call].arg = n

\* A client is told of a channel only after it was told of the tunnel and of its
\* authorisation, in this order; each of the three is granted once, and with the id of
\* the session.
TunnelBeforeChannel ==
    \A i \in InReq : Served(i) # 0 =>
        LET st == Stream(Served(i)) IN
        /\ \A a, b \in DOMAIN st : \A n \in {1, 2, 4} :
             Answers(i, a, n) /\ Answers(i, b, n) => a = b
        /\ \A a \in DOMAIN st : Answers(i, a, 4) => \E b \in 1..(a - 1) :
             Answers(i, b, 2) /\ \E c \in 1..(b - 1) : Answers(i, c, 1)
        /\ \A a \in DOMAIN st :
             /\ Answers(i, a, 1) => st[a].stub[1] = session[i].tunnel_id
             /\ Answers(i, a, 4) => st[a].stub[1] = session[i].channel_id

\* The response of a paired OUT request is complete only when its IN request is over,
\* and then has carried all that was put into the channel.
CompleteStream ==
    \A o \in OutReq : out[o] = "ended" =>
        /\ queue[o] = << >>
        /\ \A i \in InReq : Served(i) = o => inPc[i] \notin Running
        /\ \A c \in DOMAIN pending : pending[c].out_sender # o

\* An IN request whose body has ended is over some time: neither a full channel nor an
\* OUT response that is gone holds its handler for ever.
BodyEndEndsIn == \A i \in InReq : bodyEnd[i] ~> inPc[i] \notin Running

\* An OUT response nobody can write to any more ends: its entry was replaced by one with
\* the same cookie, or its IN request is over.
AbandonedOutEnds ==
    \A o \in OutReq :
        (/\ out[o] = "open"
         /\ \A c \in DOMAIN pending : pending[c].out_sender # o
         /\ \A i \in InReq : Served(i) = o => inPc[i] \notin Running) ~> out[o] # "open"

-----------------------------------------------------------------------------
(* The requests implement OutStreams.                                        *)

\* The OUT requests in the map under their cookies, and those the IN requests took.
Waiting == [c \in DOMAIN pending |-> pending[c].out_sender]
Peers == [i \in InReq |-> Served(i)]
Writers == {i \in InReq : out_tx[i] # 0}

\* How far a session in state s is, and with it an IN request.
Stage(s) == CASE s = "AwaitingHandshake" -> 0 [] s = "AwaitingTunnelAuth" -> 1
              [] s = "AwaitingChannelCreate" -> 2 [] s = "DataTransfer" -> 3
Levels == [i \in InReq |-> IF Served(i) = 0 THEN 0
                           ELSE IF vconn[i].state = "ConnectionEstablished" THEN 1
                           ELSE 2 + Stage(session[i].state)]

\* The PDUs taken that call for an answer, and the one being sent.
Called == [i \in InReq |-> {k \in 2..done[i] : Answerable(i, k)}]
Owed == [i \in InReq |-> IF inPc[i] = "Send" THEN {hand[i]} ELSE {}]

Streams == INSTANCE OutStreams WITH
    Out <- OutReq, In <- InReq, Key <- Cookie, state <- out, waiting <- Waiting, held <- queue,
    shown <- body, peer <- Peers, writing <- Writers, level <- Levels, calls <- Called, due <- Owed

\* The handlers with the map, the frames of the bodies, the virtual connections and the
\* sessions are OutStreams: in every interleaving each step is one step of it or none.
ImplementsOutStreams == Streams!Spec

===============================================================================

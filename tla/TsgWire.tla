-------------------------------- MODULE TsgWire -------------------------------
(*****************************************************************************)
(* The TSG messages of crates/rdg-proto/src/messages.rs on the wire: write   *)
(* and parse of every message, and parse_message.                            *)
(*                                                                           *)
(* A message is its type and the values of its fields in the order of the    *)
(* struct; optional fields are sets, strings and data are sequences.         *)
(*****************************************************************************)
EXTENDS Wire

Type == [HandshakeRequest |-> 1, HandshakeResponse |-> 2, ExtendedAuthMsg |-> 3, TunnelCreate |-> 4,
         TunnelResponse |-> 5, TunnelAuth |-> 6, TunnelAuthResponse |-> 7, ChannelCreate |-> 8,
         ChannelResponse |-> 9, Data |-> 10, ServiceMessage |-> 11, ReauthMessage |-> 12,
         Keepalive |-> 13, CloseChannel |-> 14, CloseChannelResponse |-> 15]

HEADER_SIZE == 8

\* MessageHeader::write.
Header(type, length) == PutNums(<<2, 2, 4>>, <<Type[type], 0, length>>)

\* The NUL is written as well.
encode_utf16le(s) == Bytes(Append(s, 0))

\* A length of 16 bits, and what is that long.
PutSized(b) == LE(Len(b), 2) \o b

PutOpt(opt, w) == FlattenSeq([i \in 1..(IF opt = {} THEN 0 ELSE 1) |-> LE(CHOOSE n \in opt : TRUE, w)])
OptSize(opt, size) == IF opt = {} THEN 0 ELSE size

-----------------------------------------------------------------------------
(* write.                                                                    *)

WriteHandshakeRequest(v) == Header("HandshakeRequest", HEADER_SIZE + 6) \o PutNums(<<1, 1, 2, 2>>, v)

WriteHandshakeResponse(v) == Header("HandshakeResponse", HEADER_SIZE + 10) \o PutNums(<<4, 1, 1, 2, 2>>, v)

\* The cookie is not written.
WriteTunnelCreate(v) == Header("TunnelCreate", HEADER_SIZE + 8) \o PutNums(<<4, 2, 2>>, v)

WriteTunnelResponse(v) ==
    Header("TunnelResponse", HEADER_SIZE + 10 + OptSize(v[5], 4) + OptSize(v[6], 4)) \o
    PutNums(<<2, 4, 2, 2>>, v) \o PutOpt(v[5], 4) \o PutOpt(v[6], 4)

WriteTunnelAuth(v) ==
    LET name == encode_utf16le(v[2]) IN
    Header("TunnelAuth", HEADER_SIZE + 4 + Len(name)) \o LE(v[1], 2) \o PutSized(name)

\* With the length 0 of a response that is never there.
WriteTunnelAuthResponse(v) ==
    Header("TunnelAuthResponse", HEADER_SIZE + 16) \o PutNums(<<4, 2, 2, 4, 4>>, v \o <<0>>)

WriteChannelCreate(v) ==
    LET name == encode_utf16le(v[5]) IN
    Header("ChannelCreate", HEADER_SIZE + 8 + Len(name)) \o PutNums(<<1, 1, 2, 2>>, v) \o PutSized(name)

\* Mutant: the length of the cookie is not counted.
WriteChannelResponse_Short(v) ==
    LET cookie == IF v[6] = {} THEN <<>> ELSE PutSized(CHOOSE b \in v[6] : TRUE) IN
    Header("ChannelResponse", HEADER_SIZE + 8 + OptSize(v[4], 4) + OptSize(v[5], 2)
                              + OptSize(v[6], Len(cookie) - 2)) \o
    PutNums(<<4, 2, 2>>, v) \o PutOpt(v[4], 4) \o PutOpt(v[5], 2) \o cookie

WriteChannelResponse(v) ==
    LET cookie == IF v[6] = {} THEN <<>> ELSE PutSized(CHOOSE b \in v[6] : TRUE) IN
    Header("ChannelResponse", HEADER_SIZE + 8 + OptSize(v[4], 4) + OptSize(v[5], 2) + Len(cookie)) \o
    PutNums(<<4, 2, 2>>, v) \o PutOpt(v[4], 4) \o PutOpt(v[5], 2) \o cookie

\* DataMessage::write and write_echo_response.
WriteRaw(type, v) == Header(type, HEADER_SIZE + Len(v[1])) \o v[1]

\* write_keepalive and write_close_channel_response.
WriteEmpty(type) == Header(type, HEADER_SIZE)

Write(m) ==
    CASE m.type = "HandshakeRequest" -> WriteHandshakeRequest(m.vals)
      [] m.type = "HandshakeResponse" -> WriteHandshakeResponse(m.vals)
      [] m.type = "TunnelCreate" -> WriteTunnelCreate(m.vals)
      [] m.type = "TunnelResponse" -> WriteTunnelResponse(m.vals)
      [] m.type = "TunnelAuth" -> WriteTunnelAuth(m.vals)
      [] m.type = "TunnelAuthResponse" -> WriteTunnelAuthResponse(m.vals)
      [] m.type = "ChannelCreate" -> WriteChannelCreate(m.vals)
      [] m.type = "ChannelResponse" -> WriteChannelResponse(m.vals)
      [] m.type = "Keepalive" -> WriteEmpty(m.type)
      [] OTHER -> WriteRaw(m.type, m.vals)

-----------------------------------------------------------------------------
(* parse, of a payload.                                                      *)

\* The check before a length of 16 bits and what is that long.
NeedSized(r) == Need(Need(r, 2), 2 + UN(SubSeq(r.in, 1, 2)))

\* What follows a length of 16 bits.
GetSized(r) ==
    LET n == GetNum(r, 2)
        b == GetRaw(n, Last(n.out))
    IN IF b.st = "Ok" THEN [b EXCEPT !.out = Append(r.out, Last(@))] ELSE b

GetName(r) ==
    LET b == GetSized(r) IN
    IF b.st = "Ok" /\ ~Reads_utf16le(Last(b.out)) THEN Err(b) ELSE Convert(b, read_utf16le)

Some(v) == {v}

\* A number that is there when a bit of the flags, value f, is set.
GetOpt(r, f, bit, w) ==
    IF r.st # "Ok" THEN r
    ELSE IF ~HasBit(r.out[f], bit) THEN Push(r, {}, 0)
    ELSE Convert(GetNum(Need(r, w), w), Some)

ParseHandshakeRequest(p) == GetNums(Need(Start(p), 6), <<1, 1, 2, 2>>)

ParseHandshakeResponse(p) == GetNums(Need(Start(p), 10), <<4, 1, 1, 2, 2>>)

\* A cookie that is cut off counts as none.
ParseTunnelCreate(p) ==
    LET r == GetNums(Need(Start(p), 8), <<4, 2, 2>>) IN
    IF r.st # "Ok" THEN r
    ELSE IF ~HasBit(r.out[2], 1) \/ Len(r.in) < 2 THEN Push(r, {}, 0)
    ELSE IF NeedSized(r).st # "Ok" THEN Push(r, {}, 2)
    ELSE Convert(GetName(r), Some)

ParseTunnelResponse(p) ==
    GetOpt(GetOpt(GetNums(Need(Start(p), 10), <<2, 4, 2, 2>>), 3, 1, 4), 3, 2, 4)

ParseTunnelAuth(p) == GetName(NeedSized(GetNums(Need(Start(p), 4), <<2>>)))

ParseTunnelAuthResponse(p) == GetNums(Need(Start(p), 12), <<4, 2, 2, 4>>)

ParseChannelCreate(p) == GetName(NeedSized(GetNums(Need(Start(p), 8), <<1, 1, 2, 2>>)))

ParseChannelResponse(p) ==
    LET r == GetOpt(GetOpt(GetNums(Need(Start(p), 8), <<4, 2, 2>>), 2, 1, 4), 2, 2, 2) IN
    IF r.st # "Ok" THEN r
    ELSE IF ~HasBit(r.out[2], 4) THEN Push(r, {}, 0)
    ELSE Convert(GetSized(NeedSized(r)), Some)

ParsePayload(type, p) ==
    CASE type = 1 -> ParseHandshakeRequest(p)
      [] type = 2 -> ParseHandshakeResponse(p)
      [] type = 4 -> ParseTunnelCreate(p)
      [] type = 5 -> ParseTunnelResponse(p)
      [] type = 6 -> ParseTunnelAuth(p)
      [] type = 7 -> ParseTunnelAuthResponse(p)
      [] type = 8 -> ParseChannelCreate(p)
      [] type = 9 -> ParseChannelResponse(p)
      [] type = 13 -> Start(p)
      [] OTHER -> GetRest(Start(p))

\* MessageHeader::parse.
ParseHeader(b) == GetNums(Need(Start(b), HEADER_SIZE), <<2, 2, 4>>)

\* The payload of a message with header h, and what it holds; the slice panics
\* when it ends before it starts or past the buffer.
Payload(h, b) ==
    IF h.st # "Ok" THEN h
    ELSE IF h.out[3] < HEADER_SIZE \/ Len(b) < h.out[3] THEN [h EXCEPT !.st = "Panic"]
    ELSE ParsePayload(h.out[1], SubSeq(b, HEADER_SIZE + 1, h.out[3]))

\* Mutant: the buffer's length is not compared with the message's.
parse_message_Unchecked(b) ==
    LET h == ParseHeader(b) IN Payload(Check(h, HEADER_SIZE <= h.out[3]), b)

\* The whole message must be in the buffer; what comes after it is left alone.
parse_message(b) ==
    LET h == ParseHeader(b) IN
    Payload(Check(h, HEADER_SIZE <= h.out[3] /\ h.out[3] <= Len(b)), b)

===============================================================================

-------------------------------- MODULE RpcWire -------------------------------
(*****************************************************************************)
(* The PDUs of RPC over HTTP on the wire: the DCE/RPC ones of                *)
(* crates/rdg-proto/src/rpc.rs and the RTS ones of rpch.rs.                  *)
(*                                                                           *)
(* What a parser returns is the reader's out, the fields in the order of the *)
(* struct.  Values the code only copies (identifiers, versions, sizes of     *)
(* windows) are small numbers here; lengths, counts and codes are the        *)
(* code's.                                                                   *)
(*****************************************************************************)
EXTENDS Wire

RPC_HEADER_SIZE == 16
RTS_HEADER_LEN == 20
PTYPE_RTS == 20
Drep == <<16, 0, 0, 0>>

\* RpcPduType::from_u8.
PduType == [Request |-> 0, Response |-> 2, Bind |-> 11, BindAck |-> 12, BindNak |-> 13,
            AlterContext |-> 14, AlterContextResp |-> 15]

\* to_bytes_le and from_bytes_le of a uuid: its first three fields turn round.
UuidLe(u) == [i \in 1..16 |-> u[<<4, 3, 2, 1, 6, 5, 8, 7, 9, 10, 11, 12, 13, 14, 15, 16>>[i]]]

\* get_uuid_le.
GetUuid(r) == Convert(GetRaw(Need(r, 16), 16), UuidLe)

\* SyntaxId: a uuid and a version.
Syntax(uuid, version) == <<uuid, version>>
SyntaxTsg == Syntax([i \in 1..16 |-> i], 7)
SyntaxNdr == Syntax([i \in 1..16 |-> i + 1], 2)

PutSyntax(s) == UuidLe(s[1]) \o LE(s[2], 4)
GetSyntax(r) == GetNum(GetUuid(Need(r, 20)), 4)

\* A reader's step whose values are dropped.
Dropped(r, s) == [s EXCEPT !.out = r.out]

-----------------------------------------------------------------------------
(* The header, and what a PDU holds between it and the auth trailer.         *)

PutHeader(ptype, frag_length, auth_length, call_id) ==
    <<5, 0, ptype, 3>> \o Drep \o PutNums(<<2, 2, 4>>, <<frag_length, auth_length, call_id>>)

\* RpcPduHeader::parse.
ParseRpcHeader(b) ==
    LET r1 == GetNums(Need(Start(b), RPC_HEADER_SIZE), <<1, 1>>)
        r2 == GetNum(Check(r1, r1.out = <<5, 0>>), 1)
        r3 == GetNum(GetRaw(GetNum(Check(r2, \E t \in DOMAIN PduType : PduType[t] = r2.out[3]), 1), 4), 2)
    IN GetNums(Check(r3, RPC_HEADER_SIZE <= r3.out[6] /\ r3.out[6] <= Len(b)), <<2, 4>>)

\* The body of a PDU of the given type, with room for its fixed fields; a
\* range past the end of the buffer panics.
Body(b, ptype, fixed) ==
    LET Inside(h) ==
            LET end == h.out[6] - h.out[7]
                r == Check(h, h.out[3] = PduType[ptype] /\ end >= RPC_HEADER_SIZE + fixed)
            IN IF r.st # "Ok" THEN r
               ELSE IF end > Len(b) THEN [r EXCEPT !.st = "Panic"]
               ELSE [r EXCEPT !.in = SubSeq(b, RPC_HEADER_SIZE + 1, end)]
    IN Then(ParseRpcHeader(b), Inside)

-----------------------------------------------------------------------------
(* Bind and Request are read, BindAck and Response written.                  *)

\* n more syntaxes, which are read and dropped.
RECURSIVE SkipSyntaxes(_, _)
SkipSyntaxes(r, n) ==
    IF n <= 0 \/ r.st # "Ok" THEN r
    ELSE Then(Dropped(r, GetSyntax(r)), LAMBDA s : SkipSyntaxes(s, n - 1))

\* A presentation context: its id, the number of transfer syntaxes, the abstract
\* syntax and the transfer syntaxes, of which the first is kept.
GetContext(r) ==
    LET Syntaxes(c) ==
            Then(Then(Skip(Check(c, Last(c.out) # 0), 1), GetSyntax),
                 LAMBDA a : SkipSyntaxes(GetSyntax(a), Last(c.out) - 1))
    IN Then(GetNums(Need(r, 4), <<2, 1>>), Syntaxes)

\* n more contexts, which are read and dropped.
RECURSIVE SkipContexts(_, _)
SkipContexts(r, n) ==
    IF n <= 0 \/ r.st # "Ok" THEN r
    ELSE Then(Dropped(r, GetContext(r)), LAMBDA s : SkipContexts(s, n - 1))

\* BindPdu::parse: the contexts, of which the first is kept.
ParseBind(b) ==
    LET Contexts(r) ==
            Then(Skip(Check(r, Last(r.out) # 0), 3),
                 LAMBDA s : IF s.st # "Ok" THEN s ELSE SkipContexts(GetContext(s), Last(r.out) - 1))
    IN Then(GetNums(Body(b, "Bind", 12), <<2, 2, 4, 1>>), Contexts)

is_tsg_bind(v) == SubSeq(v, 15, 16) = SyntaxTsg /\ SubSeq(v, 17, 18) = SyntaxNdr

\* RequestPdu::parse.
ParseRequest(b) == GetRest(GetNums(Body(b, "Request", 8), <<4, 2, 2>>))

pad_to_4(len) == (4 - (len % 4)) % 4

\* BindAckPdu::accepted and encode.
EncodeBindAck(call_id, assoc_group_id, sec_addr) ==
    LET padding == pad_to_4(2 + Len(sec_addr))
        frag_length == RPC_HEADER_SIZE + 10 + Len(sec_addr) + padding + 8 + 20
    IN PutHeader(PduType.BindAck, frag_length, 0, call_id) \o
       PutNums(<<2, 2, 4, 2>>, <<58, 58, assoc_group_id, Len(sec_addr)>>) \o sec_addr \o Zeros(padding) \o
       <<1, 0, 0, 0>> \o Zeros(4) \o PutSyntax(SyntaxNdr)

\* ResponsePdu::new and encode.
EncodeResponse(call_id, context_id, stub_data) ==
    PutHeader(PduType.Response, RPC_HEADER_SIZE + 8 + Len(stub_data), 0, call_id) \o
    PutNums(<<4, 2, 1, 1>>, <<Len(stub_data), context_id, 0, 0>>) \o stub_data

-----------------------------------------------------------------------------
(* RTS PDUs: a header with commands.  A command is its kind, the numbers and *)
(* the uuids it holds.                                                       *)

RtsCommand == [ReceiveWindowSize |-> [code |-> 0, nums |-> 1, uuids |-> 0],
               FlowControlAck |-> [code |-> 1, nums |-> 2, uuids |-> 1],
               ConnectionTimeout |-> [code |-> 2, nums |-> 1, uuids |-> 0],
               Cookie |-> [code |-> 3, nums |-> 0, uuids |-> 1],
               ChannelLifetime |-> [code |-> 4, nums |-> 1, uuids |-> 0],
               ClientKeepalive |-> [code |-> 5, nums |-> 1, uuids |-> 0],
               Version |-> [code |-> 6, nums |-> 1, uuids |-> 0],
               AssociationGroupId |-> [code |-> 13, nums |-> 0, uuids |-> 1]]

Num(kind, n) == [kind |-> kind, nums |-> <<n>>, uuids |-> <<>>]
Id(kind, u) == [kind |-> kind, nums |-> <<>>, uuids |-> <<u>>]

encoded_len(kind) == 2 + 4 * RtsCommand[kind].nums + 16 * RtsCommand[kind].uuids

write_to(c) ==
    LE(RtsCommand[c.kind].code, 2) \o
    FlattenSeq([i \in 1..Len(c.nums) |-> LE(c.nums[i], 4)]) \o
    FlattenSeq([i \in 1..Len(c.uuids) |-> UuidLe(c.uuids[i])])

\* Pushes the command.
ParseCommand(r) ==
    LET t == GetNum(Need(r, 2), 2)
        kinds == {k \in DOMAIN RtsCommand : RtsCommand[k].code = Last(t.out)}
        kind == CHOOSE k \in kinds : TRUE
        f == RtsCommand[kind]
        n == GetNums(Need(t, encoded_len(kind) - 2), [i \in 1..f.nums |-> 4])
        u == IF f.uuids = 0 THEN n ELSE GetUuid(n)
    IN IF t.st # "Ok" THEN t
       ELSE IF kinds = {} THEN Err(t)
       ELSE IF u.st # "Ok" THEN u
       ELSE [u EXCEPT !.out = Append(r.out, [kind |-> kind,
                                             nums |-> SubSeq(u.out, Len(t.out) + 1, Len(n.out)),
                                             uuids |-> SubSeq(u.out, Len(n.out) + 1, Len(u.out))])]

RECURSIVE ParseCommands(_, _)
ParseCommands(r, n) == IF n = 0 \/ r.st # "Ok" THEN r ELSE ParseCommands(ParseCommand(r), n - 1)

\* RtsPdu::parse: the header, flags, number of commands, commands.
ParseRts(b) ==
    LET r == GetNums(GetRaw(GetNums(Need(Start(b), RTS_HEADER_LEN), <<1, 1, 1, 1>>), 4), <<2, 2, 4, 2, 2>>)
        h == Check(r, SubSeq(r.out, 1, 3) = <<5, 0, PTYPE_RTS>> /\ r.out[5] = Drep /\ r.out[6] = Len(b))
        s == ParseCommands(h, Last(h.out))
    IN IF h.st # "Ok" THEN h ELSE Check(s, s.in = <<>>)

Commands(v) == SubSeq(v, 11, Len(v))

\* RtsPdu::new and to_bytes.
RtsBytes(call_id, flags, commands) ==
    LET total_len == RTS_HEADER_LEN + FoldLeft(LAMBDA n, c : n + encoded_len(c.kind), 0, commands) IN
    <<5, 0, PTYPE_RTS, 0>> \o Drep \o
    PutNums(<<2, 2, 4, 2, 2>>, <<total_len, 0, call_id, flags, Len(commands)>>) \o
    FlattenSeq([i \in 1..Len(commands) |-> write_to(commands[i])])

conn_a1(v, out) ==
    <<Num("Version", 1), Id("Cookie", v), Id("Cookie", out), Num("ReceiveWindowSize", 26)>>

conn_b1(v, in, group) ==
    <<Num("Version", 1), Id("Cookie", v), Id("Cookie", in), Num("ChannelLifetime", 107),
      Num("ClientKeepalive", 30), Id("AssociationGroupId", group)>>

conn_c2 == <<Num("Version", 1), Num("ReceiveWindowSize", 26), Num("ConnectionTimeout", 12)>>

\* ConnA1::from_pdu and ConnB1::from_pdu.
Kinds(commands) == [i \in 1..Len(commands) |-> commands[i].kind]
IsConnA1(flags, commands) ==
    flags = 0 /\ Kinds(commands) = <<"Version", "Cookie", "Cookie", "ReceiveWindowSize">>
IsConnB1(flags, commands) ==
    flags = 0 /\ Kinds(commands) = <<"Version", "Cookie", "Cookie", "ChannelLifetime", "ClientKeepalive",
                                     "AssociationGroupId">>

===============================================================================

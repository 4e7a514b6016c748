--------------------------------- MODULE Pure ---------------------------------
(*****************************************************************************)
(* The functions of the program that keep no state, each called on bounded   *)
(* inputs and compared with what the format or the rule says: the encoders   *)
(* and parsers of crates/rdg-proto and the rule engine of crates/rdg-core.   *)
(*                                                                           *)
(* A behaviour is one call: in is the function and its input, out what it    *)
(* returns.                                                                  *)
(*****************************************************************************)
EXTENDS TsgWire, RpcWire, NtlmWire, Acl, FiniteSets

VARIABLES in, out

vars == <<in, out>>

-----------------------------------------------------------------------------
(* Inputs.  Numbers at both ends of their width; names up to the longest     *)
(* whose length in bytes still fits 16 bits.                                 *)

N1 == {0, Base - 1}
N2 == {0, Base * Base - 1}
N4 == {1, Base^4 - 1}
LongestName == [i \in 1..((Base * Base) \div 2 - 2) |-> 3]
ShortNames == {<<>>, <<5>>, <<Base, Base - 1>>}
Datas == {<<>>, <<7>>, <<0, Base - 1, 4>>}

\* Flags that say which of the optional fields are there.
Flag(bit, opt) == IF opt = {} THEN 0 ELSE bit

Of(type, vals) == [type |-> type, vals |-> vals]
Opts(S) == {{}} \cup {{s} : s \in S}

TsgMessages ==
    {Of("HandshakeRequest", v) : v \in N1 \X N1 \X N2 \X N2} \cup
    {Of("HandshakeResponse", v) : v \in N4 \X N1 \X N1 \X N2 \X N2} \cup
    {Of("TunnelCreate", <<a, Flag(1, c), d, c>>) : a \in N4, d \in N2, c \in Opts(ShortNames)} \cup
    {Of("TunnelResponse", <<a, b, Flag(1, t) + Flag(2, c), d, t, c>>) :
        a \in N2, b \in N4, d \in N2, t \in Opts(N4), c \in Opts(N4)} \cup
    {Of("TunnelAuth", <<a, n>>) : a \in N2, n \in ShortNames \cup {LongestName}} \cup
    {Of("TunnelAuthResponse", v) : v \in N4 \X N2 \X N2 \X N4} \cup
    {Of("ChannelCreate", <<1, 0, p, 3, n>>) : p \in N2, n \in ShortNames \cup {LongestName}} \cup
    {Of("ChannelResponse", <<a, Flag(1, i) + Flag(2, u) + Flag(4, k), d, i, u, k>>) :
        a \in N4, d \in N2, i \in Opts(N4), u \in Opts(N2), k \in Opts(Datas)} \cup
    {Of("Data", <<d>>) : d \in Datas} \cup
    {Of("Keepalive", <<>>)} \cup
    {Of("CloseChannel", <<d>>) : d \in Datas}

\* What is left of a message on the wire: TunnelCreate::write drops the cookie,
\* which it need not write, as only clients send one.
Carried(m) == IF m.type = "TunnelCreate" THEN [m.vals EXCEPT ![4] = {}] ELSE m.vals

\* A TunnelCreate with a cookie as clients lay it out.
ClientTunnelCreate(v, cookie) ==
    LET name == encode_utf16le(cookie) IN
    Header("TunnelCreate", HEADER_SIZE + 10 + Len(name)) \o PutNums(<<4, 2, 2>>, v) \o PutSized(name)

\* Where a buffer is damaged: one byte takes another value.
Damage(b) == {[b EXCEPT ![i] = v] : i \in {j \in DOMAIN b : j <= 80}, v \in {0, 1, 4, Base - 1}}
Cuts(b) == {SubSeq(b, 1, n) : n \in 0..(Len(b) - 1)}

\* Those whose every prefix and damage is tried.
Small(m) == m.type \notin {"TunnelAuth", "ChannelCreate"} \/ Last(m.vals) # LongestName

U(n) == [i \in 1..16 |-> (i + n) % Base]

\* The auth trailer of a PDU whose body has n bytes: padding to a multiple of
\* four, the eight bytes of a sec_trailer, and the token, whose length alone is
\* the auth_length of the header.
Trailer(n, token) == Zeros(pad_to_4(n)) \o <<10, 2, pad_to_4(n), 0>> \o LE(7, 4)

PutPdu(ptype, body, token) ==
    LET rest == IF token = <<>> THEN body ELSE body \o Trailer(Len(body), token) \o token
    IN PutHeader(ptype, RPC_HEADER_SIZE + Len(rest), Len(token), 6) \o rest

\* What clients send: a Bind of contexts, each with its syntaxes, and a Request,
\* with a trailer unless the token is empty.
WriteBind(contexts, token) ==
    PutPdu(PduType.Bind,
           PutNums(<<2, 2, 4, 1>>, <<9, 10, 11, Len(contexts)>>) \o Zeros(3) \o
           FlattenSeq([i \in 1..Len(contexts) |->
               LE(i, 2) \o <<Len(contexts[i]) - 1, 0>> \o
               FlattenSeq([j \in 1..Len(contexts[i]) |-> PutSyntax(contexts[i][j])])]),
           token)

WriteRequest(opnum, stub, token) ==
    PutPdu(PduType.Request, PutNums(<<4, 2, 2>>, <<Len(stub), 0, opnum>>) \o stub, token)

\* The stub that RequestPdu::parse finds: it takes auth_length off the end, so
\* that padding and sec_trailer stay.
StubRead(stub, token) == IF token = <<>> THEN stub ELSE stub \o Trailer(Len(stub), token)

Syntaxes == {SyntaxTsg, SyntaxNdr, Syntax(U(3), 7)}
Contexts == UNION {[1..n -> Syntaxes] : n \in 2..3}
Binds == {<<c>> : c \in Contexts} \cup {<<c, <<SyntaxTsg, SyntaxNdr>>>> : c \in [1..2 -> Syntaxes]}
Tokens == {<<>>, <<1, 2, 3, 4>>}

AllCommands ==
    {Num(k, n) : k \in {j \in DOMAIN RtsCommand : RtsCommand[j].uuids = 0}, n \in N4} \cup
    {Id(k, U(2)) : k \in {"Cookie", "AssociationGroupId"}} \cup
    {[kind |-> "FlowControlAck", nums |-> <<n, 8>>, uuids |-> <<U(5)>>] : n \in N4}
CommandLists == {<<>>} \cup {<<c>> : c \in AllCommands} \cup (AllCommands \X AllCommands) \cup
                {conn_a1(U(1), U(2)), conn_b1(U(1), U(2), U(4)), conn_c2}

\* A Type3 message as clients lay it out: the buffers, then what they hold.
WriteAuthenticate(bufs) ==
    LET offset(i) == 64 + Len(FlattenSeq(SubSeq(bufs, 1, i - 1))) IN
    SIGNATURE \o LE(3, 4) \o FlattenSeq([i \in 1..6 |-> SecBuf(Len(bufs[i]), offset(i))]) \o LE(5, 4) \o
    FlattenSeq(bufs)

Type3 == {<<lm, nt, Encoded(d), Encoded(u), Encoded(<<9>>), key>> :
          lm \in {<<>>, <<1>>}, nt \in {<<2, 2, 2>>}, d \in ShortNames, u \in ShortNames \ {<<>>}, key \in Datas}

WriteNegotiate(domain, workstation) ==
    SIGNATURE \o LE(1, 4) \o LE(5, 4) \o SecBuf(Len(domain), 32) \o
    SecBuf(Len(workstation), 32 + Len(domain)) \o domain \o workstation

-----------------------------------------------------------------------------
(* The calls.                                                                *)

Init == in = [fn |-> "none"] /\ out = [st |-> "none"]

Called(i, o) == in' = i /\ out' = o

\* What is read may be followed by the next message.
WriteThenParse ==
    /\ in.fn = "none"
    /\ \E m \in TsgMessages, next \in {<<>>, <<1, 0>>} :
           Called([fn |-> "tsg", val |-> m, buf |-> Write(m)], parse_message(Write(m) \o next))

ParseClientCookie ==
    /\ in.fn = "none"
    /\ \E v \in N4 \X {1, 3} \X N2, cookie \in ShortNames, next \in {<<>>, <<1, 0>>} :
           Called([fn |-> "cookie", val |-> Append(v, {cookie})],
                parse_message(ClientTunnelCreate(v, cookie) \o next))

ParseDamagedMessage ==
    /\ in.fn = "none"
    /\ \E m \in {n \in TsgMessages : Small(n)} : \E b \in Damage(Write(m)) :
           Called([fn |-> "damaged"], parse_message(b))

\* A cookie whole, cut off, and one that is no UTF-16.
ParseCookie ==
    /\ in.fn = "none"
    /\ \E fields \in {0, 1}, cookie \in {<<3, 0>>, <<3, 0, 4, 0, 0, 0>>, <<3>>, <<Base - 1, Base - 1>>},
          n \in 0..6, cut \in {0, 1} :
           Called([fn |-> "damaged"],
                ParseTunnelCreate(PutNums(<<4, 2, 2>>, <<1, fields, 0>>) \o
                                  SubSeq(LE(n, 2) \o cookie, 1, 2 + Len(cookie) - cut)))

ParseTruncatedMessage ==
    /\ in.fn = "none"
    /\ \E m \in {n \in TsgMessages : Small(n)} : \E b \in Cuts(Write(m)) :
           Called([fn |-> "truncated"], parse_message(b))

ParseBindPdu ==
    /\ in.fn = "none"
    /\ \E c \in Binds, token \in Tokens, next \in {<<>>, <<5>>} :
           Called([fn |-> "bind", val |-> c], ParseBind(WriteBind(c, token) \o next))

ParseRequestPdu ==
    /\ in.fn = "none"
    /\ \E n \in {1, 9}, stub \in Datas, token \in Tokens :
           Called([fn |-> "request", val |-> <<Len(stub), 0, n, StubRead(stub, token)>>],
                ParseRequest(WriteRequest(n, stub, token)))

ParseRtsPdu ==
    /\ in.fn = "none"
    /\ \E c \in CommandLists, flags \in {0, 2} :
           Called([fn |-> "rts", val |-> c, flags |-> flags], ParseRts(RtsBytes(4, flags, c)))

RtsSamples == {conn_a1(U(1), U(2)), <<Num("Version", 1), [kind |-> "FlowControlAck", nums |-> <<2, 8>>, uuids |-> <<U(5)>>]>>}

ParseDamagedPdu ==
    /\ in.fn = "none"
    /\ \/ \E c \in RtsSamples : \E b \in Damage(RtsBytes(4, 0, c)) : Called([fn |-> "damaged"], ParseRts(b))
       \/ \E c \in {<<<<SyntaxTsg, SyntaxNdr>>>>}, token \in Tokens : \E b \in Damage(WriteBind(c, token)) :
           Called([fn |-> "damaged"], ParseBind(b))
       \/ \E token \in Tokens : \E b \in Damage(WriteRequest(9, <<1, 2, 3>>, token)) :
           Called([fn |-> "damaged"], ParseRequest(b))

ParseTruncatedPdu ==
    /\ in.fn = "none"
    /\ \/ \E c \in CommandLists : \E b \in Cuts(RtsBytes(4, 0, c)) : Called([fn |-> "truncated"], ParseRts(b))
       \/ \E c \in Binds : \E b \in Cuts(WriteBind(c, <<>>)) : Called([fn |-> "truncated"], ParseBind(b))
       \/ \E b \in Cuts(WriteRequest(9, <<1, 2, 3>>, <<1>>)) : Called([fn |-> "truncated"], ParseRequest(b))

\* A client reads the acknowledgement: its header here, the body in AckRead.
EncodePdu ==
    /\ in.fn = "none"
    /\ \/ \E call \in N4, addr \in UNION {[1..n -> {3}] : n \in 0..6} :
           LET b == EncodeBindAck(call, 5, addr) IN
           Called([fn |-> "ack", val |-> <<call, addr>>, buf |-> b], ParseRpcHeader(b))
       \/ \E call \in N4, stub \in Datas :
           LET b == EncodeResponse(call, 2, stub) IN
           Called([fn |-> "response", val |-> <<call, stub>>, buf |-> b], ParseRpcHeader(b))

ParseType3 ==
    /\ in.fn = "none"
    /\ \E bufs \in Type3 :
           Called([fn |-> "authenticate", val |-> bufs], parse_authenticate(WriteAuthenticate(bufs)))

ParseDamagedNtlm ==
    /\ in.fn = "none"
    /\ \/ \E bufs \in Type3 : \E b \in Damage(WriteAuthenticate(bufs)) \cup Cuts(WriteAuthenticate(bufs)) :
           Called([fn |-> "damaged"], parse_authenticate(b))
       \/ \E d, w \in {<<>>, <<3>>, <<3, 0>>} :
           \E b \in {WriteNegotiate(d, w)} \cup Damage(WriteNegotiate(d, w)) \cup Cuts(WriteNegotiate(d, w)) :
               Called([fn |-> "damaged"], parse_negotiate(b))

ParseType1 ==
    /\ in.fn = "none"
    /\ \E d, w \in ShortNames :
           Called([fn |-> "negotiate", val |-> <<5, d, w>>], parse_negotiate(WriteNegotiate(Encoded(d), Encoded(w))))

SerializeChallenge ==
    /\ in.fn = "none"
    /\ \E name \in ShortNames \cup {[i \in 1..40 |-> 6]}, challenge \in {[i \in 1..8 |-> i], Zeros(8)} :
           LET b == serialize_challenge(name, challenge, build_target_info(name, [i \in 1..8 |-> 9])) IN
           Called([fn |-> "challenge", val |-> <<name, challenge>>, buf |-> b],
                Result(<<Name(Taken(b, 12)), Taken(b, 40)>>))

-----------------------------------------------------------------------------
(* The rule engine's inputs and calls.                                       *)

Text(chars, n) == UNION {[1..k -> chars] : k \in 0..n}

Glob ==
    /\ in.fn = "none"
    /\ \E p \in Text({Star, 1, 2, 3}, 4), c \in Text({Star, 1, 2, 3}, 4) \cup Text({1, 3}, 5) :
           Called([fn |-> "glob", pattern |-> p, cand |-> c], [st |-> "Ok", val |-> glob_matches(p, c)])

Addresses == UNION {{[fam |-> f, num |-> n] : n \in 0..(2^Width[f] - 1)} : f \in DOMAIN Width}

\* Prefixes up to one bit more than the address has.
Cidr ==
    /\ in.fn = "none"
    /\ \E a, ip \in Addresses : \E prefix \in 0..(Width[a.fam] + 1) :
           LET pattern == [text |-> <<5, 7, 5>>, net |-> {[fam |-> a.fam, num |-> a.num, prefix |-> prefix]}] IN
           Called([fn |-> "cidr", net |-> a, prefix |-> prefix, ip |-> ip],
                [st |-> "Ok", val |-> host_matches(pattern, [text |-> <<5, 5>>, ip |-> {ip}])])

HostA == [text |-> <<1, 3>>, ip |-> {}]
Patterns == {[text |-> <<Star>>, net |-> {}], [text |-> <<2, Star>>, net |-> {}], [text |-> <<3>>, net |-> {}]}
Rules == [priority : {1, 2}, user : {{}, {1}}, group : {{}, {7}}, host : Opts(Patterns), port : {{}},
          action : {"ALLOW", "deny"}]
\* Two rules of any kind, and a third that always fits.
RuleLists == {<<>>} \cup {<<r, s>> : r, s \in Rules} \cup
             {<<r, [priority |-> p, user |-> {}, group |-> {}, host |-> {}, port |-> {80}, action |-> "allow"], s>> :
                  p \in {1, 2}, r, s \in {q \in Rules : q.host = {} /\ q.group = {}}}

Check_access ==
    /\ in.fn = "none"
    /\ \E rules \in RuleLists, groups \in {{}, {7}} :
           LET req == [user |-> 1, groups |-> groups, host |-> HostA, port |-> 80] IN
           Called([fn |-> "acl", rules |-> rules, req |-> req], [st |-> "Ok", val |-> check_access(rules, req)])

Next == \/ WriteThenParse \/ ParseClientCookie \/ ParseDamagedMessage \/ ParseCookie \/ ParseTruncatedMessage
        \/ ParseBindPdu \/ ParseRequestPdu \/ ParseRtsPdu \/ ParseDamagedPdu \/ ParseTruncatedPdu \/ EncodePdu
        \/ ParseType3 \/ ParseDamagedNtlm \/ ParseType1 \/ SerializeChallenge
        \/ Glob \/ Cidr \/ Check_access

Spec == Init /\ [][Next]_vars

-----------------------------------------------------------------------------
(* Properties.                                                               *)

\* parse_message returns the message that was written, with optional fields where
\* their flags say and whatever follows it in the buffer; its length field is
\* the length of what was written.  The one field a write drops is the cookie of
\* a TunnelCreate, and what a client sends there is read.  A wrong size sum in a
\* write breaks this for some combination of optional fields only.
TsgRoundTrip ==
    /\ in.fn = "tsg" =>
           /\ out.st = "Ok"
           /\ out.out = Carried(in.val)
           /\ UN(SubSeq(in.buf, 5, 8)) = Len(in.buf)
    /\ in.fn = "cookie" => out.st = "Ok" /\ out.out = in.val

\* How a client reads a bind_ack: the results start at the next multiple of four
\* after the address.
AckRead(b) ==
    LET n == UN(SubSeq(b, 25, 26))
        at == 26 + n + pad_to_4(26 + n)
    IN [addr |-> SubSeq(b, 27, 26 + n), results |-> SubSeq(b, at + 1, at + 8), syntax |-> SubSeq(b, at + 9, Len(b))]

\* The PDUs of RPC over HTTP mean the same on both sides: a Bind is read as its
\* first context with that context's first transfer syntax, a Request without
\* the token that may end it (the rest of an auth trailer stays with the stub),
\* RTS commands as they were sent, so that only a CONN/A1 is taken for one; an acknowledgement and a response carry their own length, and
\* what a client finds after the padded address is acceptance and NDR.
RpcRoundTrip ==
    /\ in.fn = "bind" => /\ out.st = "Ok"
                         /\ SubSeq(out.out, 12, 14) = <<Len(in.val), 1, Len(in.val[1]) - 1>>
                         /\ SubSeq(out.out, 15, 18) = in.val[1][1] \o in.val[1][2]
                         /\ is_tsg_bind(out.out) = (SubSeq(in.val[1], 1, 2) = <<SyntaxTsg, SyntaxNdr>>)
    /\ in.fn = "request" => out.st = "Ok" /\ SubSeq(out.out, 9, 12) = in.val
    /\ in.fn = "rts" => /\ out.st = "Ok" /\ Commands(out.out) = in.val
                        /\ IsConnA1(out.out[9], Commands(out.out)) =>
                               in.flags = 0 /\ in.val = conn_a1(U(1), U(2))
                        /\ IsConnB1(out.out[9], Commands(out.out)) =>
                               in.flags = 0 /\ in.val = conn_b1(U(1), U(2), U(4))
    /\ in.fn = "ack" => /\ out.st = "Ok" /\ out.out[6] = Len(in.buf) /\ out.out[8] = in.val[1]
                        /\ AckRead(in.buf) = [addr |-> in.val[2], results |-> <<1, 0, 0, 0, 0, 0, 0, 0>>,
                                              syntax |-> PutSyntax(SyntaxNdr)]
    /\ in.fn = "response" => /\ out.st = "Ok" /\ out.out[6] = Len(in.buf)
                             /\ SubSeq(in.buf, 25, Len(in.buf)) = in.val[2]

\* The AV pairs of b, up to the end mark, which must be the last bytes.
PairsEndAt(b) ==
    LET Walk[at \in 0..Len(b)] ==
            IF at + 4 > Len(b) THEN -1
            ELSE IF UN(At(b, at, 2)) = 0 THEN at + 4
            ELSE IF at + 4 + UN(At(b, at + 2, 2)) > Len(b) THEN -1
            ELSE Walk[at + 4 + UN(At(b, at + 2, 2))]
    IN Walk[0]

\* NTLM's security buffers point at what they name: a client finds the name and
\* the target information of the challenge where it says they are, the list of
\* pairs ending with the message, and Type1 and Type3 messages are read back.
NtlmRoundTrip ==
    /\ in.fn = "challenge" =>
        /\ out.st = "Ok" /\ out.out[1] = in.val[1]
        /\ PairsEndAt(out.out[2]) = Len(out.out[2])
        /\ BufOffset(in.buf, 40) + BufLen(in.buf, 40) = Len(in.buf)
        /\ At(in.buf, 24, 8) = in.val[2]
    /\ in.fn = "authenticate" =>
        /\ out.st = "Ok"
        /\ <<out.out[2], out.out[3], out.out[7]>> = <<in.val[1], in.val[2], in.val[6]>>
        /\ \A i \in 4..6 : Encoded(out.out[i]) = in.val[i - 1]
    /\ in.fn = "negotiate" => out.st = "Ok" /\ out.out = in.val

\* What one side writes is what the other side reads, in all three protocols.
RoundTrip == TsgRoundTrip /\ RpcRoundTrip /\ NtlmRoundTrip

\* No parser reads or slices past what it was given, whatever byte of a message
\* is changed and wherever it is cut: a panic would end the connection's task,
\* and the checks that prevent it are written by hand before every group of
\* reads.  And no proper prefix of a TSG message or of a PDU is taken for a
\* whole one, as the callers hand over what one read returned.
ParsersSafe == out.st # "Panic" /\ (in.fn = "truncated" => out.st = "Err")

\* What a pattern matches, as a relation on the texts: a star stands for any text.
GlobMatch(p, c) ==
    LET P == Lower(p)
        M[i \in 0..Len(p), j \in 0..Len(c)] ==
            IF i = 0 THEN j = 0
            ELSE IF P[i] = Star THEN \E k \in 0..j : M[i - 1, k]
            ELSE j > 0 /\ P[i] = Lower(c)[j] /\ M[i - 1, j - 1]
    IN M[Len(p), Len(c)]

\* The loop with its one remembered star takes only what the pattern stands
\* for, and finds a match, in any case of the letters, whenever some way of
\* filling the stars gives one.  The second half leaves out candidates that hold
\* a '*' themselves, which no host's name does: there the loop may take a star
\* of the pattern for that very character and miss the match, as it does for
\* the pattern '*.com' and '*a.com'.
GlobCorrect ==
    in.fn = "glob" =>
        /\ out.val => GlobMatch(in.pattern, in.cand)
        /\ Star \notin Range(in.cand) /\ GlobMatch(in.pattern, in.cand) => out.val

\* A network holds the addresses of its family that share its first prefix bits,
\* all of them for prefix 0; a prefix longer than the address makes no network.
CidrCorrect ==
    in.fn = "cidr" =>
        LET w == Width[in.net.fam] IN
        out.val = (/\ in.net.fam = in.ip.fam
                   /\ in.prefix <= w
                   /\ in.net.num \div 2^(w - in.prefix) = in.ip.num \div 2^(w - in.prefix))

\* The decision is that of a matching rule with no matching rule above it, the
\* last listed of several, and Deny when nothing matches.  Sorting and then
\* taking the largest must agree on which of equals is the last.
EvaluateCorrect ==
    in.fn = "acl" =>
        LET fits == {i \in DOMAIN in.rules : rule_matches(in.rules[i], in.req)}
            top == {i \in fits : \A j \in fits : in.rules[j].priority <= in.rules[i].priority}
            last == CHOOSE i \in top : \A j \in top : j <= i
        IN out.val = IF fits = {} THEN "Deny" ELSE rule_action(in.rules[last])

\* The engine decides as the rules say: patterns, networks and priorities.
AclCorrect == GlobCorrect /\ CidrCorrect /\ EvaluateCorrect

===============================================================================

------------------------------- MODULE NtlmWire -------------------------------
(*****************************************************************************)
(* The NTLM messages of crates/rdg-proto/src/ntlm.rs on the wire: the        *)
(* challenge that is written, the Type1 and Type3 messages that are read.    *)
(* A field is a security buffer: a length and an offset into the message,    *)
(* at a fixed place.  The flags, the version and the time are values that    *)
(* nothing depends on.                                                       *)
(*****************************************************************************)
EXTENDS Wire

SIGNATURE == <<14, 20, 12, 13, 19, 19, 16, 0>>

\* The bytes of b from place at (0 for the first) on.
At(b, at, n) == SubSeq(b, at + 1, at + n)

\* encode_utf16le, without a NUL.
Encoded(s) == Bytes(s)

\* String::from_utf16_lossy, of whole units.
Lossy(b) == [i \in 1..(Len(b) \div 2) |-> IF Units(b)[i] = Surrogate THEN Replacement ELSE Units(b)[i]]

-----------------------------------------------------------------------------
(* read_security_buffer_raw: whether it succeeds, and what it returns.       *)

BufLen(b, at) == UN(At(b, at, 2))
BufOffset(b, at) == UN(At(b, at + 4, 4))

ReadsBuffer(b, at) == Len(b) >= at + 8 /\ (BufLen(b, at) = 0 \/ Len(b) >= BufOffset(b, at) + BufLen(b, at))

\* The range that is taken; one past the end of the message panics.
Taken(b, at) ==
    IF BufLen(b, at) = 0 THEN [st |-> "Ok", val |-> <<>>]
    ELSE IF BufOffset(b, at) + BufLen(b, at) > Len(b) THEN [st |-> "Panic", val |-> <<>>]
    ELSE [st |-> "Ok", val |-> At(b, BufOffset(b, at), BufLen(b, at))]

\* read_security_buffer: bytes of odd length are single characters.
ReadName(b, at) ==
    LET raw == Taken(b, at) IN
    IF ~ReadsBuffer(b, at) THEN [st |-> "Ok", val |-> <<>>]
    ELSE IF Len(raw.val) % 2 = 0 THEN [raw EXCEPT !.val = Lossy(@)] ELSE raw

-----------------------------------------------------------------------------
AllOk(rs) == \A i \in DOMAIN rs : rs[i].st = "Ok"
Result(rs) == IF AllOk(rs) THEN [st |-> "Ok", out |-> [i \in DOMAIN rs |-> rs[i].val]]
              ELSE [st |-> "Panic", out |-> <<>>]
Refused == [st |-> "Err", out |-> <<>>]

IsMessage(b, size, type) == Len(b) >= size /\ At(b, 0, 8) = SIGNATURE /\ UN(At(b, 8, 4)) = type

\* Flags, domain, workstation; a buffer that cannot be read counts as empty.
parse_negotiate(b) ==
    IF ~IsMessage(b, 32, 1) THEN Refused
    ELSE Result(<<[st |-> "Ok", val |-> UN(At(b, 12, 4))], ReadName(b, 16), ReadName(b, 24)>>)

Name(raw) == [raw EXCEPT !.val = Lossy(@)]

\* Flags, lm and nt response, domain, username, workstation, session key; the
\* key may be one that cannot be read.
parse_authenticate(b) ==
    IF ~IsMessage(b, 64, 3) \/ \E at \in {12, 20, 28, 36, 44} : ~ReadsBuffer(b, at) THEN Refused
    ELSE Result(<<[st |-> "Ok", val |-> UN(At(b, 60, 4))], Taken(b, 12), Taken(b, 20), Name(Taken(b, 28)),
                  Name(Taken(b, 36)), Name(Taken(b, 44)),
                  IF ReadsBuffer(b, 52) THEN Taken(b, 52) ELSE [st |-> "Ok", val |-> <<>>]>>)

-----------------------------------------------------------------------------
\* AV pairs: computer and domain, each NetBIOS and DNS, the time, the end.
Pair(id, b) == PutNums(<<2, 2>>, <<id, Len(b)>>) \o b

build_target_info(name, time) ==
    FlattenSeq([id \in 1..4 |-> Pair(id, Encoded(name))]) \o Pair(7, time) \o Pair(0, <<>>)

SecBuf(len, offset) == PutNums(<<2, 2, 4>>, <<len, len, offset>>)

serialize_challenge(name, challenge, info) ==
    LET enc == Encoded(name) IN
    SIGNATURE \o LE(2, 4) \o SecBuf(Len(enc), 56) \o LE(5, 4) \o challenge \o Zeros(8) \o
    SecBuf(Len(info), 56 + Len(enc)) \o <<10, 0, 20, 13, 0, 0, 0, 15>> \o enc \o info

===============================================================================

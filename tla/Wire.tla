--------------------------------- MODULE Wire ---------------------------------
(*****************************************************************************)
(* Reading and writing bytes, for the formats of crates/rdg-proto.           *)
(*                                                                           *)
(* A byte is a number below Base (256 in the code; the layouts and widths do *)
(* not depend on it), a buffer a sequence of bytes, a string the sequence of *)
(* its UTF-16 units.  A reader is what is left of a buffer with the values   *)
(* read so far, and a status: Err when the code returns an error, Panic when *)
(* it reads where nothing is left (bytes::Buf and slices panic there).  An   *)
(* optional value is a set of at most one.                                   *)
(*****************************************************************************)
EXTENDS Integers, Sequences, SequencesExt

CONSTANT Base
ASSUME BaseAssumption == Base \in Nat /\ Base > 20

\* put_u8, put_u16_le, put_u32_le; a cast to fewer bits cuts the number off.
LE(n, w) == [i \in 1..w |-> (n \div Base^(i - 1)) % Base]

\* get_u8, get_u16_le, get_u32_le.
UN(b) == LET v[i \in 0..Len(b)] == IF i = 0 THEN 0 ELSE v[i - 1] + b[i] * Base^(i - 1) IN v[Len(b)]

\* Numbers of the given widths.
PutNums(ws, ns) == FlattenSeq([i \in 1..Len(ws) |-> LE(ns[i], ws[i])])

Zeros(n) == [i \in 1..n |-> 0]

HasBit(n, bit) == (n \div bit) % 2 = 1

-----------------------------------------------------------------------------
Start(b) == [st |-> "Ok", in |-> b, out |-> <<>>]
Err(r) == [r EXCEPT !.st = "Err"]
Push(r, v, n) == [r EXCEPT !.in = SubSeq(@, n + 1, Len(@)), !.out = Append(@, v)]

\* An early return unless cond holds; cond is about a reader that is Ok.
Check(r, cond) == IF r.st = "Ok" /\ ~cond THEN Err(r) ELSE r

\* The check of what is left, before reads that would panic.
Need(r, n) == Check(r, Len(r.in) >= n)

GetRaw(r, n) ==
    IF r.st # "Ok" THEN r
    ELSE IF Len(r.in) < n THEN [r EXCEPT !.st = "Panic"]
    ELSE Push(r, SubSeq(r.in, 1, n), n)

GetNum(r, w) ==
    IF r.st # "Ok" THEN r
    ELSE IF Len(r.in) < w THEN [r EXCEPT !.st = "Panic"]
    ELSE Push(r, UN(SubSeq(r.in, 1, w)), w)

\* The value read last, converted.
Convert(r, F(_)) == IF r.st = "Ok" THEN [r EXCEPT !.out[Len(r.out)] = F(@)] ELSE r

\* What Step makes of r, with r computed once.
Then(r, Step(_)) == CHOOSE s \in {Step(t) : t \in {r}} : TRUE

GetNums(r, ws) == FoldLeft(LAMBDA s, w : GetNum(s, w), r, ws)

\* advance.
Skip(r, n) ==
    IF r.st # "Ok" THEN r
    ELSE IF Len(r.in) < n THEN [r EXCEPT !.st = "Panic"]
    ELSE [r EXCEPT !.in = SubSeq(@, n + 1, Len(@))]

\* All that is left.
GetRest(r) == IF r.st = "Ok" THEN Push(r, r.in, Len(r.in)) ELSE r

-----------------------------------------------------------------------------
(* Strings.  One unit stands for the unpaired surrogates.                    *)

Surrogate == Base * Base - 1
Replacement == Base * Base - 2

\* The units of a buffer of even length.
Units(b) == [i \in 1..(Len(b) \div 2) |-> b[2 * i - 1] + Base * b[2 * i]]

Bytes(s) == [i \in 1..(2 * Len(s)) |-> LE(s[(i + 1) \div 2], 2)[2 - (i % 2)]]

\* The units before the first NUL.
ToNul(s) == LET nul == {i \in DOMAIN s : s[i] = 0} IN
            IF nul = {} THEN s ELSE SubSeq(s, 1, (CHOOSE i \in nul : \A j \in nul : i <= j) - 1)

\* Whether read_utf16le of messages.rs succeeds, and what it returns.
Reads_utf16le(b) == Len(b) % 2 = 0 /\ \A i \in DOMAIN ToNul(Units(b)) : ToNul(Units(b))[i] # Surrogate
read_utf16le(b) == ToNul(Units(b))

===============================================================================

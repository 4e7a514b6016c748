--------------------------- MODULE GuacProxy_proofs ---------------------------
(*****************************************************************************)
(* The Guacamole proxy is faithful in both directions.  The invariant says   *)
(* how far each direction has got: of guacd's items the first p were read,   *)
(* and the line under way starts after item a; of the browser's messages the *)
(* first r were read.                                                        *)
(*****************************************************************************)
EXTENDS GuacProxy, FiniteSetTheorems, SequenceTheorems, TLAPS

Connecting == {"Idle", "Connect", "SendError", "SendClose"}
Handshaking == {"WriteSelect", "ReadArgs", "WriteConnect", "ReadReady", "SendReady"}
Break == {"NL"}
Positive == Nat \ {0}
Piece == Seq(Item \cup {"error", "Close"})
Instruction == {Select} \cup {ConnectTo(t) : t \in Target} \cup {Text(n) : n \in Nat}

Types ==
    /\ main \in MainState /\ target \in Target /\ text \in Nat
    /\ down \in {"None", "Read", "Send", "Done"} /\ up \in {"None", "Read", "Write", "Done"}
    /\ browser \in {"Away", "Open", "Closed", "Gone"}
    /\ guacd \in {"Absent", "Open", "Closed", "Reset"}
    /\ line \in Seq(Item) /\ fromGuacd \in Seq(Item) /\ sent \in Seq(Item)
    /\ fromBrowser \in Seq(Nat) /\ typed \in Seq(Nat)
    /\ shown \in Seq(Piece) /\ told \in Seq(Instruction)

\* Where the handler is, and what it has sent to the browser by then.
PhaseInv ==
    /\ main \in Connecting <=> guacd = "Absent" /\ main # "Ended"
    /\ guacd = "Absent" => /\ sent = <<>> /\ line = <<>> /\ fromGuacd = <<>> /\ told = <<>>
                           /\ up = "None"
    /\ main \in {"Idle", "Connect", "SendError"} \cup Handshaking => shown = <<>>
    /\ main = "SendClose" => shown = <<ErrorText>> \/ (shown = <<>> /\ browser # "Open")
    /\ browser = "Away" => fromBrowser = <<>>
    /\ down = "None" <=> up = "None"
    /\ up # "None" => main \in {"Select", "Ended"} /\ shown # <<>>

\* The instructions of the handshake.
ToldInv ==
    /\ main = "WriteSelect" => told = <<>>
    /\ main \in {"ReadArgs", "WriteConnect"} => Len(told) = 1
    /\ main \in {"ReadReady", "SendReady"} => Len(told) = 2
    /\ up = "None" => Len(told) <= 2
    /\ up # "None" => Len(told) >= 2

\* There is somebody who reads guacd's lines.
Reading == main \in Handshaking \/ down \in {"Read", "Send"}

\* Lines taken so far.
LinesTaken == IF main \in {"WriteSelect", "ReadArgs"} THEN 0 ELSE Len(shown) + 1

\* The first p items were read, and those after a are in line.
ReadUpTo(a, p) ==
    /\ a <= p /\ p <= Len(sent)
    /\ guacd \in {"Open", "Closed"} => Len(fromGuacd) = Len(sent) - p
    /\ guacd = "Reset" => fromGuacd = <<>>
    /\ \A j \in 1..Len(fromGuacd) : fromGuacd[j] = sent[p + j]
    /\ Len(line) = p - a
    /\ \A j \in 1..Len(line) : line[j] = sent[a + j]
    /\ \A j \in 1..(Len(line) - 1) : line[j] # "NL"
    /\ a = 0 \/ sent[a] = "NL"
    /\ CountIn(sent, Break, a) = LinesTaken

\* The stream has ended in the middle of a line, and that line was taken.
AtEnd == guacd = "Closed" /\ fromGuacd = <<>> /\ line = <<>>

DownInv ==
    /\ Reading => AtEnd \/ \E a, p \in 0..Len(sent) : ReadUpTo(a, p)
    /\ main \in {"WriteSelect", "WriteConnect"} => line = <<>>
    /\ main = "SendReady" => IsReady(line)
    /\ main = "SendReady" \/ down = "Send" => line # <<>> /\ LineRead

\* The first r messages were read.
HeardUpTo(r) ==
    /\ browser = "Gone" => fromBrowser = <<>>
    /\ browser # "Gone" => Len(fromBrowser) = Len(typed) - r
    /\ \A j \in 1..Len(fromBrowser) : fromBrowser[j] = typed[r + j]
    /\ up = "None" => r = 0
    /\ up = "Read" => Len(told) = CountIn(typed, Positive, r) + 2
    /\ up = "Write" => /\ r > 0 /\ text = typed[r] /\ text > 0
                       /\ Len(told) = CountIn(typed, Positive, r) + 1

UpInv == up # "Done" => \E r \in 0..Len(typed) : HeardUpTo(r)

IInv == Types /\ PhaseInv /\ ToldInv /\ DownInv /\ UpInv /\ RelayFaithful

-----------------------------------------------------------------------------
(* Counting.                                                                 *)

\* A count is a number, and there is nothing among the first 0 elements.
LEMMA CountType ==
    ASSUME NEW s, NEW T, NEW i \in Nat
    PROVE  /\ IsFiniteSet({j \in 1..i : s[j] \in T})
           /\ CountIn(s, T, i) \in Nat
           /\ CountIn(s, T, 0) = 0
<1>1. IsFiniteSet(1..i)
    BY FS_Interval
<1>2. IsFiniteSet({j \in 1..i : s[j] \in T})
    BY <1>1, FS_Subset
<1>3. {j \in 1..0 : s[j] \in T} = {}
    OBVIOUS
<1> QED BY <1>2, <1>3, FS_CardinalityType, FS_EmptySet DEF CountIn

\* One element more.
LEMMA CountNext ==
    ASSUME NEW s, NEW T, NEW i \in Nat
    PROVE  CountIn(s, T, i + 1) = CountIn(s, T, i) + (IF s[i + 1] \in T THEN 1 ELSE 0)
<1> DEFINE A(n) == {j \in 1..n : s[j] \in T}
<1>0. /\ IsFiniteSet(A(i)) /\ Cardinality(A(i)) \in Nat
      /\ CountIn(s, T, i) = Cardinality(A(i)) /\ CountIn(s, T, i + 1) = Cardinality(A(i + 1))
    BY CountType DEF CountIn
<1>1. CASE s[i + 1] \in T
    <2>1. A(i + 1) = A(i) \cup {i + 1} /\ i + 1 \notin A(i)
        BY <1>1
    <2> HIDE DEF A
    <2>2. Cardinality(A(i) \cup {i + 1}) = Cardinality(A(i)) + 1
        BY <1>0, <2>1, FS_AddElement
    <2> QED BY <1>0, <1>1, <2>1, <2>2
<1>2. CASE s[i + 1] \notin T
    <2>1. A(i + 1) = A(i)
        BY <1>2
    <2> HIDE DEF A
    <2> QED BY <1>0, <1>2, <2>1
<1> QED BY <1>1, <1>2

\* Elements that are not counted.
LEMMA CountFlat ==
    ASSUME NEW s, NEW T, NEW a \in Nat, NEW b \in Nat, a <= b,
           \A j \in (a + 1)..b : s[j] \notin T
    PROVE  CountIn(s, T, b) = CountIn(s, T, a)
<1>1. {j \in 1..b : s[j] \in T} = {j \in 1..a : s[j] \in T}
    OBVIOUS
<1> QED BY <1>1 DEF CountIn

\* What comes after the first i elements does not matter.
LEMMA CountSame ==
    ASSUME NEW s, NEW t, NEW T, NEW i \in Nat, \A j \in 1..i : s[j] = t[j]
    PROVE  CountIn(s, T, i) = CountIn(t, T, i)
<1>1. {j \in 1..i : s[j] \in T} = {j \in 1..i : t[j] \in T}
    OBVIOUS
<1> QED BY <1>1 DEF CountIn

-----------------------------------------------------------------------------
(* Lines.                                                                    *)

\* A line of the stream stays one, whatever guacd sends after it.
LEMMA LineStays ==
    ASSUME Types, NEW n \in Nat, NEW t, IsLine(n, t),
           \/ sent' = sent /\ (guacd = "Closed" => guacd' = "Closed")
           \/ guacd = "Open" /\ \E x \in Item : sent' = Append(sent, x)
    PROVE  IsLine(n, t)'
<1>1. PICK a \in 0..Len(sent), b \in 0..Len(sent) :
        /\ a <= b /\ t = SubSeq(sent, a + 1, b)
        /\ a = 0 \/ sent[a] = "NL"
        /\ CountIn(sent, {"NL"}, a) = n - 1 /\ CountIn(sent, {"NL"}, b) = n - 1
        /\ \/ b < Len(sent) /\ sent[b + 1] = "NL"
           \/ a < b /\ b = Len(sent) /\ guacd = "Closed"
    BY DEF IsLine
<1>2. CASE sent' = sent /\ (guacd = "Closed" => guacd' = "Closed")
    BY <1>1, <1>2 DEF IsLine
<1>3. CASE guacd = "Open" /\ \E x \in Item : sent' = Append(sent, x)
    <2>1. PICK x \in Item : sent' = Append(sent, x)
        BY <1>3
    <2>2. /\ sent' \in Seq(Item) /\ Len(sent') = Len(sent) + 1 /\ Len(sent) \in Nat
          /\ \A j \in 1..Len(sent) : sent'[j] = sent[j]
        BY <2>1 DEF Types
    <2>3. b < Len(sent) /\ sent[b + 1] = "NL"
        BY <1>1, <1>3
    <2>4. CountIn(sent', {"NL"}, a) = CountIn(sent, {"NL"}, a)
        <3>1. \A j \in 1..a : sent'[j] = sent[j]
            BY <2>2
        <3> QED BY <3>1, CountSame
    <2>5. CountIn(sent', {"NL"}, b) = CountIn(sent, {"NL"}, b)
        <3>1. \A j \in 1..b : sent'[j] = sent[j]
            BY <2>2
        <3> QED BY <3>1, CountSame
    <2>6. SubSeq(sent', a + 1, b) = SubSeq(sent, a + 1, b)
        <3>1. /\ SubSeq(sent', a + 1, b) \in Seq(Item) /\ Len(SubSeq(sent', a + 1, b)) = b - a
              /\ \A j \in 1..(b - a) : SubSeq(sent', a + 1, b)[j] = sent'[a + j]
            BY <1>1, <2>2, <2>3
        <3>2. /\ SubSeq(sent, a + 1, b) \in Seq(Item) /\ Len(SubSeq(sent, a + 1, b)) = b - a
              /\ \A j \in 1..(b - a) : SubSeq(sent, a + 1, b)[j] = sent[a + j]
            BY <1>1, <2>2, <2>3 DEF Types
        <3>3. \A j \in 1..(b - a) : a + j \in 1..Len(sent)
            BY <2>2, <2>3
        <3> QED BY <2>2, <3>1, <3>2, <3>3, SeqEqual
    <2>7. a \in 0..Len(sent') /\ b \in 0..Len(sent')
        BY <2>2
    <2>8. (a = 0 \/ sent'[a] = "NL") /\ b < Len(sent') /\ sent'[b + 1] = "NL"
        BY <1>1, <2>2, <2>3
    <2> QED BY <1>1, <2>4, <2>5, <2>6, <2>7, <2>8 DEF IsLine
<1> QED BY <1>2, <1>3

\* What has been read when read_line returns is a line of the stream, without its end.
LEMMA LineOfStream ==
    ASSUME Types, NEW a \in 0..Len(sent), NEW p \in 0..Len(sent), ReadUpTo(a, p),
           line # <<>>, LineRead
    PROVE  /\ IsLine(LinesTaken + 1, Trimmed(line)) /\ Trimmed(line) \in Seq(Item)
           /\ IsReady(line) => IsReady(Trimmed(line))
<1> DEFINE m == Len(line)
<1>1. /\ a \in Nat /\ p \in Nat /\ m \in Nat /\ m > 0 /\ m = p - a /\ line \in Seq(Item)
      /\ sent \in Seq(Item) /\ Len(sent) \in Nat /\ p <= Len(sent)
      /\ \A j \in 1..m : line[j] = sent[a + j]
      /\ \A j \in 1..(m - 1) : line[j] # "NL"
    BY DEF Types, ReadUpTo
<1>2. \A j \in (a + 1)..(p - 1) : sent[j] # "NL"
    <2> SUFFICES ASSUME NEW j \in (a + 1)..(p - 1) PROVE sent[j] # "NL"
        OBVIOUS
    <2>1. (j - a) \in 1..(m - 1) /\ a + (j - a) = j
        BY <1>1
    <2>2. line[j - a] # "NL" /\ line[j - a] = sent[a + (j - a)]
        BY <1>1, <2>1
    <2> QED BY <2>1, <2>2
<1>3. CASE Last(line) = "NL"
    <2>1. Trimmed(line) = SubSeq(line, 1, m - 1)
        BY <1>3, <1>1 DEF Trimmed, Front
    <2>2. sent[p] = "NL"
        BY <1>1, <1>3 DEF Last
    <2>3. Trimmed(line) = SubSeq(sent, a + 1, p - 1)
        <3>1. /\ SubSeq(line, 1, m - 1) \in Seq(Item) /\ Len(SubSeq(line, 1, m - 1)) = m - 1
              /\ \A j \in 1..(m - 1) : SubSeq(line, 1, m - 1)[j] = line[j]
            BY <1>1
        <3>2. /\ SubSeq(sent, a + 1, p - 1) \in Seq(Item) /\ Len(SubSeq(sent, a + 1, p - 1)) = m - 1
              /\ \A j \in 1..(m - 1) : SubSeq(sent, a + 1, p - 1)[j] = sent[a + j]
            BY <1>1
        <3> QED BY <1>1, <2>1, <3>1, <3>2, SeqEqual
    <2>4. CountIn(sent, {"NL"}, p - 1) = CountIn(sent, {"NL"}, a)
        BY <1>1, <1>2, CountFlat
    <2>5. IsLine(LinesTaken + 1, Trimmed(line))
        <3>1. p - 1 \in 0..Len(sent) /\ a <= p - 1 /\ p - 1 < Len(sent) /\ (p - 1) + 1 = p
            BY <1>1
        <3>2. CountIn(sent, {"NL"}, a) = (LinesTaken + 1) - 1
            BY <1>1, CountType DEF ReadUpTo, LinesTaken, Break, Types
        <3> QED BY <2>2, <2>3, <2>4, <3>1, <3>2 DEF IsLine, ReadUpTo
    <2>6. IsReady(line) => IsReady(Trimmed(line))
        <3> SUFFICES ASSUME NEW i \in DOMAIN line, line[i] = "ready"
                     PROVE  IsReady(SubSeq(line, 1, m - 1))
            BY <2>1 DEF IsReady
        <3>1. i \in 1..(m - 1)
            <4>1. line[m] = "NL" /\ i \in 1..m
                BY <1>1, <1>3 DEF Last
            <4>2. i # m
                BY <4>1
            <4> QED BY <1>1, <4>1, <4>2
        <3>2. i \in DOMAIN SubSeq(line, 1, m - 1) /\ SubSeq(line, 1, m - 1)[i] = line[i]
            BY <1>1, <3>1
        <3> QED BY <3>2 DEF IsReady
    <2> QED BY <1>1, <2>1, <2>5, <2>6
<1>4. CASE Last(line) # "NL"
    <2>1. Trimmed(line) = line
        BY <1>4 DEF Trimmed
    <2>2. fromGuacd = <<>> /\ guacd = "Closed" /\ p = Len(sent)
        BY <1>1, <1>4 DEF LineRead, ReadUpTo, Types
    <2>3. line = SubSeq(sent, a + 1, p)
        <3>1. /\ SubSeq(sent, a + 1, p) \in Seq(Item) /\ Len(SubSeq(sent, a + 1, p)) = m
              /\ \A j \in 1..m : SubSeq(sent, a + 1, p)[j] = sent[a + j]
            BY <1>1
        <3> QED BY <1>1, <3>1, SeqEqual
    <2>4. CountIn(sent, {"NL"}, p) = CountIn(sent, {"NL"}, a)
        <3>1. sent[p] # "NL"
            BY <1>1, <1>4 DEF Last
        <3> QED BY <1>1, <1>2, <3>1, CountFlat
    <2>5. IsLine(LinesTaken + 1, Trimmed(line))
        <3>1. CountIn(sent, {"NL"}, a) = (LinesTaken + 1) - 1
            BY <1>1, CountType DEF ReadUpTo, LinesTaken, Break, Types
        <3>2. a <= p /\ a < p /\ (a = 0 \/ sent[a] = "NL")
            BY <1>1 DEF ReadUpTo
        <3> QED BY <2>1, <2>2, <2>3, <2>4, <3>1, <3>2 DEF IsLine
    <2> QED BY <1>1, <2>1, <2>5
<1> QED BY <1>3, <1>4

-----------------------------------------------------------------------------
(* The initial state, types, and phases.                                     *)

\* Nothing was sent or read.
LEMMA ProxyInit == Init => IInv
<1> SUFFICES ASSUME Init PROVE IInv
    OBVIOUS
<1>1. target \in Target
    BY GuacAssumption DEF Init
<1>2. Types
    BY <1>1 DEF Init, Types, MainState
<1>3. PhaseInv /\ ToldInv
    BY DEF Init, PhaseInv, ToldInv, Connecting, Handshaking
<1>4. DownInv
    BY DEF Init, DownInv, Reading, Handshaking
<1>5. UpInv
    <2>1. HeardUpTo(0)
        BY DEF Init, HeardUpTo
    <2> QED BY <2>1 DEF Init, UpInv
<1>6. RelayFaithful
    <2>1. IsPrefix(<<>>, <<ErrorText, CloseFrame>>)
        BY DEF IsPrefix
    <2> QED BY <2>1 DEF Init, RelayFaithful, LinesShown, TextsTold
<1> QED BY <1>2, <1>3, <1>4, <1>5, <1>6 DEF IInv

\* A line is a text the browser can be sent, also without its end.
LEMMA TrimmedType == ASSUME line \in Seq(Item) PROVE Trimmed(line) \in Piece
<1>1. Trimmed(line) \in Seq(Item)
    BY DEF Trimmed, Front
<1> QED BY <1>1 DEF Piece

\* What is appended to the history has its type.
LEMMA Grown ==
    ASSUME Types
    PROVE  /\ <<>> \in Seq(Item) /\ <<>> \in Seq(Nat)
           /\ \A t \in Piece : Append(shown, t) \in Seq(Piece)
           /\ \A i \in Instruction : Append(told, i) \in Seq(Instruction)
BY DEF Types

\* What the tasks of the proxy do keeps the types.
LEMMA TypesOwn ==
    ASSUME Types, guac_proxy \/ Tasks
    PROVE  Types'
<1>1. CASE Connect
    BY <1>1 DEF Connect, Types, MainState
<1>2. CASE Refuse
    <2>1. ErrorText \in Piece /\ CloseFrame \in Piece
        BY DEF ErrorText, CloseFrame, Piece
    <2>2. shown' \in Seq(Piece)
        <3>1. CASE ShowFails
            BY <3>1 DEF ShowFails, Types
        <3>2. CASE ShowBrowser(ErrorText) \/ ShowBrowser(CloseFrame)
            BY <2>1, <3>2, Grown DEF ShowBrowser
        <3> QED BY <1>2, <3>1, <3>2 DEF Refuse
    <2>3. main' \in MainState
        BY <1>2 DEF Refuse, MainState
    <2> QED BY <1>2, <2>2, <2>3 DEF Refuse, Types
<1>3. CASE WriteInstruction
    <2>1. Select \in Instruction /\ ConnectTo(target) \in Instruction
        BY DEF Instruction, Types
    <2>2. told' \in Seq(Instruction)
        <3>1. CASE TellFails
            BY <3>1 DEF TellFails, Types
        <3>2. CASE TellGuacd(Select) \/ TellGuacd(ConnectTo(target))
            BY <2>1, <3>2, Grown DEF TellGuacd
        <3> QED BY <1>3, <3>1, <3>2 DEF WriteInstruction
    <2>3. main' \in MainState
        BY <1>3 DEF WriteInstruction, MainState
    <2> QED BY <1>3, <2>2, <2>3 DEF WriteInstruction, Types
<1>4. CASE ReadAnswer
    <2>1. main' \in MainState
        BY <1>4 DEF ReadAnswer, MainState
    <2>2. line' \in Seq(Item)
        BY <1>4, Grown DEF ReadAnswer, Types
    <2> QED BY <1>4, <2>1, <2>2 DEF ReadAnswer, Types
<1>5. CASE SendReady
    <2>1. CASE ShowFails
        BY <1>5, <2>1 DEF SendReady, ShowFails, ShowBrowser, Types, MainState
    <2>2. CASE ShowBrowser(Trimmed(line))
        <3>1. shown' \in Seq(Piece)
            BY <2>2, Grown, TrimmedType DEF ShowBrowser, Types
        <3>2. /\ main' = "Select" /\ down' = "Read" /\ up' = "Read" /\ line' = <<>>
              /\ UNCHANGED <<target, text, browser, guacd, fromGuacd, toGuacd, fromBrowser, sent, typed, told>>
            BY <1>5, <2>2 DEF SendReady, ShowBrowser, ShowFails
        <3> QED BY <3>1, <3>2, Grown DEF Types, MainState
    <2> QED BY <1>5, <2>1, <2>2 DEF SendReady
<1>6. CASE SelectEnds
    BY <1>6 DEF SelectEnds, Types, MainState
<1>7. CASE Fill
    BY <1>7 DEF Fill, Types
<1>8. CASE DownRead
    BY <1>8 DEF DownRead, Types
<1>9. CASE DownSend
    <2>1. CASE ShowFails
        BY <1>9, <2>1 DEF DownSend, ShowFails, ShowBrowser, Types
    <2>2. CASE ShowBrowser(Trimmed(line))
        <3>1. shown' \in Seq(Piece)
            BY <2>2, Grown, TrimmedType DEF ShowBrowser, Types
        <3>2. /\ down' = "Read" /\ line' = <<>>
              /\ UNCHANGED <<main, up, target, text, browser, guacd, fromGuacd, fromBrowser, sent, typed, told>>
            BY <1>9, <2>2 DEF DownSend, ShowBrowser, ShowFails
        <3> QED BY <3>1, <3>2, Grown DEF Types
    <2> QED BY <1>9, <2>1, <2>2 DEF DownSend
<1>10. CASE UpRead
    <2>1. CASE fromBrowser # <<>>
        <3>1. Head(fromBrowser) \in Nat /\ Tail(fromBrowser) \in Seq(Nat)
            BY <2>1 DEF Types
        <3> QED BY <1>10, <2>1, <3>1 DEF UpRead, Types
    <2>2. CASE fromBrowser = <<>>
        BY <1>10, <2>2 DEF UpRead, Types
    <2> QED BY <2>1, <2>2
<1>11. CASE UpWrite
    <2>1. Text(text) \in Instruction
        BY DEF Instruction, Types
    <2>2. told' \in Seq(Instruction)
        BY <1>11, <2>1, Grown DEF UpWrite, TellGuacd, TellFails, Types
    <2> QED BY <1>11, <2>2 DEF UpWrite, Types
<1> QED BY <1>1, <1>2, <1>3, <1>4, <1>5, <1>6, <1>7, <1>8, <1>9, <1>10, <1>11 DEF guac_proxy, Tasks

\* And so does the rest.
LEMMA TypesNext == ASSUME Types, [Next]_vars PROVE Types'
<1>1. CASE \E t \in Target, cookie, enabled \in BOOLEAN : guac_ws_handler(t, cookie, enabled)
    BY <1>1 DEF guac_ws_handler, Types, MainState
<1>2. CASE guac_proxy \/ Tasks
    BY <1>2, TypesOwn
<1>3. CASE Peers
    <2>1. CASE BrowserSends
        BY <2>1 DEF BrowserSends, Types
    <2>2. CASE GuacdSends
        BY <2>2 DEF GuacdSends, Types
    <2>3. CASE BrowserReads \/ GuacdLeaves \/ GuacdReads
        <3>1. fromGuacd' \in Seq(Item)
            BY <2>3, Grown DEF BrowserReads, GuacdLeaves, GuacdReads, Types
        <3> QED BY <2>3, <3>1 DEF BrowserReads, GuacdLeaves, GuacdReads, Types
    <2>4. CASE \E how \in {"Closed", "Gone"} : BrowserLeaves(how)
        BY <2>4 DEF BrowserLeaves, Types
    <2> QED BY <1>3, <2>1, <2>2, <2>3, <2>4 DEF Peers
<1>4. CASE Terminated \/ UNCHANGED vars
    BY <1>4 DEF Terminated, vars, Types
<1> QED BY <1>1, <1>2, <1>3, <1>4 DEF Next

\* An instruction of the handshake is written, or the handler ends.
LEMMA InstructionTold ==
    ASSUME Types, ToldInv, WriteInstruction
    PROVE  \/ main' = "Ended" /\ told' = told
           \/ main = "WriteSelect" /\ main' = "ReadArgs" /\ Len(told') = 1
           \/ main = "WriteConnect" /\ main' = "ReadReady" /\ Len(told') = 2
<1>1. \A i : Len(Append(told, i)) = Len(told) + 1
    <2>1. \A i : told \in Seq(Instruction \cup {i})
        BY DEF Types
    <2> QED BY <2>1
<1>2. main = "WriteSelect" => Len(told) = 0
    BY DEF ToldInv
<1>3. main = "WriteConnect" => Len(told) = 1
    BY DEF ToldInv
<1>4. \A i : TellGuacd(i) => Len(told') = Len(told) + 1
    BY <1>1 DEF TellGuacd
<1>5. TellFails => told' = told
    BY DEF TellFails
<1>6. CASE main = "WriteSelect"
    <2>1. TellGuacd(Select) => Len(told') = 1
        BY <1>2, <1>4, <1>6
    <2> QED BY <1>5, <1>6, <2>1 DEF WriteInstruction
<1>7. CASE main = "WriteConnect"
    <2>1. ASSUME TellGuacd(ConnectTo(target)) PROVE Len(told') = 2
        <3>1. Len(told') = Len(told) + 1
            BY <1>4, <2>1
        <3>2. Len(told) = 1
            BY <1>3, <1>7
        <3> QED BY <3>1, <3>2
    <2> QED BY <1>5, <1>7, <2>1 DEF WriteInstruction
<1> QED BY <1>6, <1>7 DEF WriteInstruction

\* The phases.
LEMMA PhaseNext ==
    ASSUME Types, PhaseInv, ToldInv, [Next]_vars
    PROVE  PhaseInv' /\ ToldInv'
<1> USE DEF Types, PhaseInv, ToldInv, Connecting, Handshaking
<1>1. CASE \E t \in Target, cookie, enabled \in BOOLEAN : guac_ws_handler(t, cookie, enabled)
    BY <1>1 DEF guac_ws_handler
<1>2. CASE Connect
    BY <1>2 DEF Connect
<1>3. CASE Refuse
    <2>1. CASE main = "SendError"
        <3>1. CASE ShowBrowser(ErrorText)
            <4>1. shown' = <<ErrorText>>
                BY <2>1, <3>1 DEF ShowBrowser
            <4> QED BY <1>3, <2>1, <4>1 DEF Refuse
        <3>2. CASE ShowFails
            BY <1>3, <2>1, <3>2 DEF Refuse, ShowFails
        <3> QED BY <1>3, <2>1, <3>1, <3>2 DEF Refuse
    <2>2. CASE main = "SendClose"
        BY <1>3, <2>2 DEF Refuse
    <2> QED BY <1>3, <2>1, <2>2 DEF Refuse
<1>4. CASE WriteInstruction
    <2>1. UNCHANGED <<down, up, line, browser, guacd, fromGuacd, fromBrowser, sent, shown>>
        BY <1>4 DEF WriteInstruction
    <2>2. guacd # "Absent" /\ up = "None" /\ shown = <<>>
        BY <1>4 DEF WriteInstruction
    <2>3. CASE main' = "Ended" /\ told' = told
        BY <2>1, <2>2, <2>3
    <2>4. CASE main = "WriteSelect" /\ main' = "ReadArgs" /\ Len(told') = 1
        BY <2>1, <2>2, <2>4
    <2>5. CASE main = "WriteConnect" /\ main' = "ReadReady" /\ Len(told') = 2
        BY <2>1, <2>2, <2>5
    <2> QED BY <1>4, <2>3, <2>4, <2>5, InstructionTold
<1>5. CASE ReadAnswer
    BY <1>5 DEF ReadAnswer
<1>6. CASE SendReady
    <2>1. CASE ShowFails
        BY <1>6, <2>1 DEF SendReady, ShowFails, ShowBrowser
    <2>2. CASE ShowBrowser(Trimmed(line))
        <3>1. shown' # <<>>
            <4>1. Len(shown') = Len(shown) + 1
                BY <2>2, TrimmedType DEF ShowBrowser
            <4> QED BY <4>1
        <3> QED BY <1>6, <2>2, <3>1 DEF SendReady, ShowBrowser, ShowFails
    <2> QED BY <1>6, <2>1, <2>2 DEF SendReady
<1>7. CASE SelectEnds
    BY <1>7 DEF SelectEnds
<1>8. CASE Fill
    BY <1>8 DEF Fill
<1>9. CASE DownRead
    BY <1>9 DEF DownRead
<1>10. CASE DownSend
    BY <1>10, TrimmedType DEF DownSend, ShowBrowser, ShowFails
<1>11. CASE UpRead
    BY <1>11 DEF UpRead
<1>12. CASE UpWrite
    BY <1>12 DEF UpWrite, TellGuacd, TellFails
<1>13. CASE BrowserSends \/ BrowserReads \/ GuacdSends \/ GuacdReads
    BY <1>13 DEF BrowserSends, BrowserReads, GuacdSends, GuacdReads
<1>14. CASE GuacdLeaves
    BY <1>14 DEF GuacdLeaves
<1>15. CASE \E how \in {"Closed", "Gone"} : BrowserLeaves(how)
    BY <1>15 DEF BrowserLeaves
<1>16. CASE Terminated \/ UNCHANGED vars
    BY <1>16 DEF Terminated, vars
<1> QED BY <1>1, <1>2, <1>3, <1>4, <1>5, <1>6, <1>7, <1>8, <1>9, <1>10, <1>11, <1>12, <1>13, <1>14,
           <1>15, <1>16 DEF Next, guac_proxy, Tasks, Peers

-----------------------------------------------------------------------------
(* Down: the lines.                                                          *)

\* Steps that leave guacd's stream, the line and what was shown alone.
LEMMA DownFrame ==
    ASSUME Types, DownInv, LinesShown,
           UNCHANGED <<sent, guacd, line, fromGuacd, shown>>,
           main' \in {"SendReady"} => main' = main,
           main' \in {"WriteSelect", "WriteConnect"} => main' = main,
           down' = "Send" => down = "Send",
           Reading' => Reading /\ LinesTaken' = LinesTaken
    PROVE  DownInv' /\ LinesShown'
<1>1. ASSUME NEW a, NEW p, Reading', ReadUpTo(a, p) PROVE ReadUpTo(a, p)'
    BY <1>1 DEF ReadUpTo
<1>2. Reading' => AtEnd' \/ \E a, p \in 0..Len(sent') : ReadUpTo(a, p)'
    BY <1>1 DEF DownInv, AtEnd
<1>3. DownInv'
    BY <1>2 DEF DownInv, LineRead, IsReady
<1>4. LinesShown'
    BY DEF LinesShown, IsLine, IsReady
<1> QED BY <1>3, <1>4

\* A line was taken; the next one begins where it ended.
LEMMA NextLine ==
    ASSUME Types, NEW a \in 0..Len(sent), NEW p \in 0..Len(sent), ReadUpTo(a, p), line # <<>>, LineRead,
           line' = <<>>, UNCHANGED <<sent, guacd, fromGuacd>>, LinesTaken' = LinesTaken + 1
    PROVE  AtEnd' \/ ReadUpTo(p, p)'
<1>1. CASE Last(line) = "NL"
    <2>1. /\ a \in Nat /\ p \in Nat /\ Len(line) \in Nat /\ Len(line) > 0 /\ Len(line) = p - a
          /\ line[Len(line)] = sent[a + Len(line)]
        BY DEF Types, ReadUpTo
    <2>2. sent[p] = "NL" /\ p = (p - 1) + 1 /\ p - 1 \in Nat
        BY <1>1, <2>1 DEF Last
    <2>3. \A j \in (a + 1)..(p - 1) : sent[j] \notin {"NL"}
        <3> SUFFICES ASSUME NEW j \in (a + 1)..(p - 1) PROVE sent[j] # "NL"
            OBVIOUS
        <3>1. (j - a) \in 1..(Len(line) - 1) /\ a + (j - a) = j
            BY <2>1
        <3>2. line[j - a] # "NL" /\ line[j - a] = sent[a + (j - a)]
            <4>1. /\ (j - a) \in 1..Len(line)
                  /\ \A i \in 1..(Len(line) - 1) : line[i] # "NL"
                  /\ \A i \in 1..Len(line) : line[i] = sent[a + i]
                BY <2>1, <3>1 DEF ReadUpTo
            <4> HIDE DEF ReadUpTo
            <4> QED BY <3>1, <4>1
        <3> QED BY <3>1, <3>2
    <2>4. CountIn(sent, {"NL"}, p - 1) = CountIn(sent, {"NL"}, a)
        BY <2>1, <2>2, <2>3, CountFlat
    <2>5. CountIn(sent, {"NL"}, p) = CountIn(sent, {"NL"}, p - 1) + 1
        BY <2>2, CountNext
    <2>6. CountIn(sent, Break, p) = LinesTaken'
        BY <2>4, <2>5 DEF ReadUpTo, Break
    <2> QED BY <2>1, <2>2, <2>6 DEF ReadUpTo
<1>2. CASE Last(line) # "NL"
    BY <1>2 DEF LineRead, AtEnd
<1> QED BY <1>1, <1>2

\* A line more is shown, and the next one begins.
LEMMA LineShown ==
    ASSUME Types, DownInv, LinesShown, guacd # "Absent",
           main = "SendReady" \/ (main \in {"Select", "Ended"} /\ down = "Send" /\ shown # <<>>),
           shown' = Append(shown, Trimmed(line)), line' = <<>>,
           down' = "Read", main' \in {"Select", "Ended"},
           UNCHANGED <<sent, guacd, fromGuacd>>
    PROVE  DownInv' /\ LinesShown'
<1>1. line # <<>> /\ LineRead /\ Reading
    BY DEF DownInv, Reading, Handshaking
<1>2. PICK a \in 0..Len(sent), p \in 0..Len(sent) : ReadUpTo(a, p)
    BY <1>1 DEF DownInv, AtEnd
<1>3. /\ IsLine(LinesTaken + 1, Trimmed(line)) /\ Trimmed(line) \in Seq(Item)
      /\ IsReady(line) => IsReady(Trimmed(line))
    BY <1>1, <1>2, LineOfStream
<1>4. LinesTaken = Len(shown) + 1 /\ LinesTaken' = Len(shown) + 2 /\ Len(shown) \in Nat
      /\ Len(shown') = Len(shown) + 1 /\ shown'[Len(shown) + 1] = Trimmed(line)
      /\ \A k \in 1..Len(shown) : shown'[k] = shown[k]
      /\ DOMAIN shown = 1..Len(shown) /\ DOMAIN shown' = 1..(Len(shown) + 1)
    BY <1>3 DEF LinesTaken, Types
<1>5. LinesShown'
    <2>1. ASSUME NEW k \in DOMAIN shown' PROVE IsLine(k + 1, shown[k])'
        <3>1. CASE k \in DOMAIN shown
            <4>1. IsLine(k + 1, shown[k])
                BY <3>1 DEF LinesShown
            <4>2. \A n, t : IsLine(n, t) => IsLine(n, t)'
                BY DEF IsLine
            <4> QED BY <1>4, <3>1, <4>1, <4>2
        <3>2. CASE k = Len(shown) + 1
            <4>1. IsLine(k + 1, Trimmed(line))
                BY <1>3, <1>4, <3>2
            <4>2. \A n, t : IsLine(n, t) => IsLine(n, t)'
                BY DEF IsLine
            <4> QED BY <1>4, <3>2, <4>1, <4>2
        <3> QED BY <1>4, <3>1, <3>2
    <2>2. IsReady(shown'[1])
        <3>1. CASE shown = <<>>
            <4>1. Len(shown) = 0
                BY <3>1
            <4> QED BY <1>3, <1>4, <3>1, <4>1 DEF DownInv
        <3>2. CASE shown # <<>>
            <4>1. 1 \in 1..Len(shown)
                BY <1>4, <3>2 DEF Types
            <4> QED BY <1>4, <3>2, <4>1 DEF LinesShown
        <3> QED BY <3>1, <3>2
    <2> QED BY <2>1, <2>2 DEF LinesShown, IsReady
<1>6. AtEnd' \/ ReadUpTo(p, p)'
    BY <1>1, <1>2, <1>4, NextLine
<1>7. p \in 0..Len(sent')
    OBVIOUS
<1> QED BY <1>5, <1>6, <1>7 DEF DownInv

\* The two texts of a refusal, one after the other.
LEMMA TwoTexts ==
    ASSUME NEW x, NEW y
    PROVE  /\ Append(<<>>, x) = <<x>> /\ Append(<<x>>, y) = <<x, y>>
           /\ IsPrefix(<<>>, <<x, y>>) /\ IsPrefix(<<x>>, <<x, y>>) /\ IsPrefix(<<x, y>>, <<x, y>>)
<1>1. <<>> \in Seq({x, y}) /\ <<x>> \in Seq({x, y}) /\ <<x, y>> \in Seq({x, y})
    OBVIOUS
<1>2. Append(<<>>, x) = <<x>>
    OBVIOUS
<1>3. Append(<<x>>, y) = <<x, y>>
    <2>1. /\ Append(<<x>>, y) \in Seq({x, y}) /\ Len(Append(<<x>>, y)) = 2
          /\ Append(<<x>>, y)[1] = x /\ Append(<<x>>, y)[2] = y
        BY <1>1
    <2>2. Len(<<x, y>>) = 2 /\ <<x, y>>[1] = x /\ <<x, y>>[2] = y
        OBVIOUS
    <2>3. \A i \in 1..2 : Append(<<x>>, y)[i] = <<x, y>>[i]
        <3> SUFFICES ASSUME NEW i \in 1..2 PROVE Append(<<x>>, y)[i] = <<x, y>>[i]
            OBVIOUS
        <3>1. i = 1 \/ i = 2
            OBVIOUS
        <3> QED BY <2>1, <2>2, <3>1
    <2> DEFINE s == Append(<<x>>, y)
               t == <<x, y>>
    <2>4. s \in Seq({x, y}) /\ t \in Seq({x, y}) /\ Len(s) = Len(t) /\ \A i \in 1..Len(s) : s[i] = t[i]
        BY <1>1, <2>1, <2>2, <2>3
    <2> HIDE DEF s, t
    <2>5. s = t
        BY <2>4, SeqEqual
    <2> QED BY <2>5 DEF s, t
<1>4. IsPrefix(<<x>>, <<x, y>>)
    <2>1. /\ SubSeq(<<x, y>>, 1, 1) \in Seq({x, y}) /\ Len(SubSeq(<<x, y>>, 1, 1)) = 1
          /\ SubSeq(<<x, y>>, 1, 1)[1] = x
        BY <1>1
    <2>2. /\ SubSeq(<<x>>, 1, 1) \in Seq({x, y}) /\ Len(SubSeq(<<x>>, 1, 1)) = 1
          /\ SubSeq(<<x>>, 1, 1)[1] = x
        BY <1>1
    <2>3. SubSeq(<<x>>, 1, 1) = SubSeq(<<x, y>>, 1, 1)
        BY <2>1, <2>2, SeqEqual
    <2> QED BY <2>3 DEF IsPrefix
<1> QED BY <1>2, <1>3, <1>4 DEF IsPrefix

\* The steps of the handler.
LEMMA DownHandler ==
    ASSUME Types, PhaseInv, DownInv, LinesShown, guac_proxy
    PROVE  DownInv' /\ LinesShown'
<1>1. CASE Connect
    <2>1. /\ main = "Connect" /\ UNCHANGED <<sent, line, fromGuacd, shown, down>>
          /\ (guacd' = "Open" /\ main' = "WriteSelect") \/ (guacd' = guacd /\ main' = "SendError")
          /\ guacd = "Absent" /\ shown = <<>> /\ sent = <<>> /\ line = <<>> /\ fromGuacd = <<>>
          /\ down = "None"
        BY <1>1 DEF Connect, PhaseInv, Connecting
    <2>2. LinesShown'
        BY <2>1 DEF LinesShown, IsPrefix
    <2>3. CASE main' = "WriteSelect"
        <3>1. CountIn(<<>>, Break, 0) = 0
            BY CountType
        <3>2. ReadUpTo(0, 0)'
            BY <2>1, <2>3, <3>1 DEF ReadUpTo, LinesTaken
        <3> QED BY <2>1, <2>2, <2>3, <3>2 DEF DownInv
    <2>4. CASE main' = "SendError"
        BY <2>1, <2>2, <2>4 DEF DownInv, Reading, Handshaking
    <2> QED BY <2>1, <2>3, <2>4
<1>2. CASE Refuse
    <2>1. /\ main \in {"SendError", "SendClose"} /\ main' \in {"SendClose", "Ended"}
          /\ UNCHANGED <<sent, line, guacd, fromGuacd, down>> /\ guacd = "Absent" /\ down = "None"
        BY <1>2 DEF Refuse, PhaseInv, Connecting
    <2>2. DownInv'
        BY <2>1 DEF DownInv, Reading, Handshaking
    <2>3. shown' \in {<<>>, <<ErrorText>>, <<ErrorText, CloseFrame>>}
        <3>1. shown \in {<<>>, <<ErrorText>>} /\ (browser = "Open" /\ main = "SendClose" => shown = <<ErrorText>>)
            BY <2>1 DEF PhaseInv
        <3>2. Append(<<>>, ErrorText) = <<ErrorText>> /\ Append(<<ErrorText>>, CloseFrame) = <<ErrorText, CloseFrame>>
            BY TwoTexts
        <3>3. CASE shown' = shown
            BY <3>1, <3>3
        <3>4. CASE main = "SendError" /\ ShowBrowser(ErrorText)
            <4>1. shown = <<>>
                BY <3>4 DEF PhaseInv
            <4> QED BY <3>2, <3>4, <4>1 DEF ShowBrowser
        <3>5. CASE main = "SendClose" /\ ShowBrowser(CloseFrame)
            BY <3>1, <3>2, <3>5 DEF ShowBrowser
        <3> QED BY <1>2, <3>3, <3>4, <3>5 DEF Refuse, ShowFails
    <2>4. IsPrefix(shown', <<ErrorText, CloseFrame>>)
        BY <2>3, TwoTexts
    <2> QED BY <2>1, <2>2, <2>4 DEF LinesShown
<1>3. CASE WriteInstruction
    <2>1. /\ UNCHANGED <<sent, guacd, line, fromGuacd, shown, down>>
          /\ \/ main = "WriteSelect" /\ main' \in {"ReadArgs", "Ended"}
             \/ main = "WriteConnect" /\ main' \in {"ReadReady", "Ended"}
        BY <1>3 DEF WriteInstruction
    <2>2. down' = "None"
        BY <2>1 DEF PhaseInv
    <2>3. Reading' => Reading /\ LinesTaken' = LinesTaken
        BY <2>1, <2>2 DEF Reading, Handshaking, LinesTaken
    <2> QED BY <2>1, <2>2, <2>3, DownFrame
<1>4. CASE ReadAnswer
    <2>1. /\ UNCHANGED <<sent, guacd, fromGuacd, shown, down>> /\ main \in {"ReadArgs", "ReadReady"}
          /\ down = "None" /\ shown = <<>> /\ guacd # "Absent" /\ Reading
        BY <1>4 DEF ReadAnswer, PhaseInv, Handshaking, Connecting, Reading
    <2>2. CASE main' = "Ended" /\ line' = line
        BY <2>1, <2>2, DownFrame DEF Reading, Handshaking
    <2>3. CASE main = "ReadArgs" /\ LineRead /\ main' = "WriteConnect" /\ line' = <<>>
        <3>1. LinesTaken = 0 /\ LinesTaken' = 0 + 1
            BY <2>1, <2>3 DEF LinesTaken
        <3>2. LinesShown'
            BY <2>1 DEF LinesShown
        <3>3. AtEnd' \/ \E a, p \in 0..Len(sent') : ReadUpTo(a, p)'
            <4>1. CASE line = <<>>
                BY <2>1, <2>3, <4>1 DEF LineRead, AtEnd
            <4>2. CASE line # <<>>
                <5>1. PICK a \in 0..Len(sent), p \in 0..Len(sent) : ReadUpTo(a, p)
                    BY <2>1, <4>2 DEF DownInv, AtEnd
                <5>2. AtEnd' \/ ReadUpTo(p, p)'
                    BY <2>1, <2>3, <3>1, <4>2, <5>1, NextLine
                <5> QED BY <2>1, <5>2
            <4> QED BY <4>1, <4>2
        <3> QED BY <2>1, <2>3, <3>2, <3>3 DEF DownInv
    <2>4. CASE main = "ReadReady" /\ LineRead /\ IsReady(line) /\ main' = "SendReady" /\ line' = line
        <3>1. LinesTaken' = LinesTaken
            BY <2>1, <2>4 DEF LinesTaken
        <3>2. line # <<>>
            BY <2>4 DEF IsReady
        <3>3. ASSUME NEW a, NEW p, ReadUpTo(a, p) PROVE ReadUpTo(a, p)'
            BY <2>1, <2>4, <3>1, <3>3 DEF ReadUpTo
        <3>4. AtEnd' \/ \E a, p \in 0..Len(sent') : ReadUpTo(a, p)'
            BY <2>1, <2>4, <3>3 DEF DownInv, AtEnd
        <3>5. LineRead' /\ IsReady(line)'
            BY <2>1, <2>4 DEF LineRead, IsReady
        <3>6. LinesShown'
            BY <2>1 DEF LinesShown
        <3> QED BY <2>4, <3>2, <3>4, <3>5, <3>6 DEF DownInv
    <2> QED BY <1>4, <2>2, <2>3, <2>4 DEF ReadAnswer
<1>5. CASE SendReady
    <2>1. /\ UNCHANGED <<sent, guacd, fromGuacd>> /\ main = "SendReady" /\ shown = <<>>
          /\ guacd # "Absent" /\ down = "None"
        BY <1>5 DEF SendReady, PhaseInv, Connecting, Handshaking
    <2>2. CASE ShowFails /\ main' = "Ended" /\ UNCHANGED <<down, up, line>>
        BY <2>1, <2>2, DownFrame DEF ShowFails, Reading, Handshaking
    <2>3. CASE ShowBrowser(Trimmed(line)) /\ main' = "Select" /\ down' = "Read" /\ line' = <<>>
        BY <2>1, <2>3, LineShown DEF ShowBrowser
    <2> QED BY <1>5, <2>2, <2>3 DEF SendReady
<1>6. CASE SelectEnds
    <2>1. UNCHANGED <<sent, guacd, line, fromGuacd, shown, down>> /\ main = "Select" /\ main' = "Ended"
        BY <1>6 DEF SelectEnds
    <2> QED BY <2>1, DownFrame DEF Reading, Handshaking, LinesTaken
<1> QED BY <1>1, <1>2, <1>3, <1>4, <1>5, <1>6 DEF guac_proxy

\* read_line takes an item: it was the next one of the stream, and the line is not over yet.
LEMMA DownFill ==
    ASSUME Types, PhaseInv, DownInv, LinesShown, Fill
    PROVE  DownInv' /\ LinesShown'
<1>1. /\ UNCHANGED <<main, down, up, guacd, sent, shown>> /\ fromGuacd # <<>> /\ ~LineRead
      /\ line' = Append(line, Head(fromGuacd)) /\ fromGuacd' = Tail(fromGuacd)
      /\ main \in {"ReadArgs", "ReadReady"} \/ down = "Read"
    BY DEF Fill
<1>2. LinesShown'
    BY <1>1 DEF LinesShown, IsLine
<1>3. Reading /\ main \notin {"SendReady", "WriteSelect", "WriteConnect"} /\ down # "Send"
    BY <1>1 DEF Reading, Handshaking, PhaseInv
<1>4. PICK a \in 0..Len(sent), p \in 0..Len(sent) : ReadUpTo(a, p)
    BY <1>1, <1>3 DEF DownInv, AtEnd
<1>5. /\ a \in Nat /\ p \in Nat /\ Len(sent) \in Nat /\ a <= p /\ Len(line) \in Nat /\ Len(line) = p - a
      /\ Len(fromGuacd) \in Nat /\ Len(fromGuacd) > 0
      /\ Head(fromGuacd) = fromGuacd[1] /\ Head(fromGuacd) \in Item
      /\ Len(fromGuacd') = Len(fromGuacd) - 1
      /\ \A j \in 1..Len(fromGuacd') : fromGuacd'[j] = fromGuacd[j + 1]
    BY <1>1, <1>4 DEF Types, ReadUpTo
<1>6. guacd \in {"Open", "Closed"} /\ Len(fromGuacd) = Len(sent) - p
    BY <1>1, <1>4 DEF ReadUpTo, Types, PhaseInv
<1>7. /\ Len(line') = Len(line) + 1
      /\ \A j \in 1..Len(line) : line'[j] = line[j]
      /\ line'[Len(line) + 1] = fromGuacd[1]
    <2>1. PICK x \in Item : line' = Append(line, x) /\ x = fromGuacd[1]
        BY <1>1, <1>5
    <2> QED BY <2>1 DEF Types
<1>8. \A j \in 1..Len(line) : line[j] # "NL"
    <2>1. Len(line) > 0 => line[Len(line)] # "NL"
        BY <1>1, <1>5 DEF LineRead, Last, Types
    <2>2. \A j \in 1..(Len(line) - 1) : line[j] # "NL"
        BY <1>4 DEF ReadUpTo
    <2> QED BY <1>5, <2>1, <2>2
<1>9. \A j \in 1..Len(line') : line'[j] = sent[a + j]
    <2> SUFFICES ASSUME NEW j \in 1..Len(line') PROVE line'[j] = sent[a + j]
        OBVIOUS
    <2>1. CASE j \in 1..Len(line)
        BY <1>4, <1>7, <2>1 DEF ReadUpTo
    <2>2. CASE j = Len(line) + 1
        <3>1. fromGuacd[1] = sent[p + 1] /\ a + j = p + 1
            BY <1>4, <1>5, <2>2 DEF ReadUpTo
        <3> QED BY <1>7, <2>2, <3>1
    <2> QED BY <1>5, <1>7, <2>1, <2>2
<1>10. \A j \in 1..Len(fromGuacd') : fromGuacd'[j] = sent[(p + 1) + j]
    <2> SUFFICES ASSUME NEW j \in 1..Len(fromGuacd') PROVE fromGuacd'[j] = sent[(p + 1) + j]
        OBVIOUS
    <2>1. j + 1 \in 1..Len(fromGuacd) /\ p + (j + 1) = (p + 1) + j
        BY <1>5
    <2>2. fromGuacd[j + 1] = sent[p + (j + 1)]
        BY <1>4, <2>1 DEF ReadUpTo
    <2> QED BY <1>5, <2>1, <2>2
<1>11. ReadUpTo(a, p + 1)'
    <2>1. /\ a <= p + 1 /\ p + 1 <= Len(sent) /\ Len(fromGuacd') = Len(sent) - (p + 1)
          /\ Len(line') = (p + 1) - a
        BY <1>5, <1>6, <1>7
    <2>2. \A j \in 1..(Len(line') - 1) : line'[j] # "NL"
        BY <1>5, <1>7, <1>8
    <2>3. (a = 0 \/ sent[a] = "NL") /\ CountIn(sent, Break, a) = LinesTaken
        BY <1>4 DEF ReadUpTo
    <2>4. LinesTaken' = LinesTaken
        BY <1>1 DEF LinesTaken
    <2> QED BY <1>1, <1>6, <1>9, <1>10, <2>1, <2>2, <2>3, <2>4 DEF ReadUpTo
<1>12. p + 1 \in 0..Len(sent)
    BY <1>5, <1>6
<1> QED BY <1>1, <1>2, <1>3, <1>11, <1>12 DEF DownInv

\* guacd_to_browser.
LEMMA DownTask ==
    ASSUME Types, PhaseInv, DownInv, LinesShown, DownRead \/ DownSend
    PROVE  DownInv' /\ LinesShown'
<1>1. CASE DownRead
    <2>1. UNCHANGED <<main, guacd, line, fromGuacd, sent, shown>> /\ main \in {"Select", "Ended"} /\ down = "Read"
        BY <1>1 DEF DownRead, PhaseInv
    <2>2. CASE down' = "Done"
        BY <2>1, <2>2, DownFrame DEF Reading, Handshaking
    <2>3. CASE LineRead /\ line # <<>> /\ down' = "Send"
        <3>1. LinesShown'
            BY <2>1 DEF LinesShown, IsLine
        <3>2. PICK a \in 0..Len(sent), p \in 0..Len(sent) : ReadUpTo(a, p)
            BY <2>1, <2>3 DEF DownInv, AtEnd, Reading
        <3>3. ReadUpTo(a, p)'
            BY <2>1, <3>2 DEF ReadUpTo, LinesTaken
        <3>4. LineRead'
            BY <2>1, <2>3 DEF LineRead
        <3> QED BY <2>1, <2>3, <3>1, <3>2, <3>3, <3>4 DEF DownInv
    <2> QED BY <1>1, <2>2, <2>3 DEF DownRead
<1>2. CASE DownSend
    <2>1. /\ UNCHANGED <<main, guacd, fromGuacd, sent>> /\ main \in {"Select", "Ended"} /\ down = "Send"
          /\ guacd # "Absent" /\ shown # <<>>
        BY <1>2 DEF DownSend, PhaseInv
    <2>2. CASE ShowFails /\ down' = "Done" /\ line' = line
        BY <2>1, <2>2, DownFrame DEF ShowFails, Reading, Handshaking
    <2>3. CASE ShowBrowser(Trimmed(line)) /\ down' = "Read" /\ line' = <<>>
        BY <2>1, <2>3, LineShown DEF ShowBrowser
    <2> QED BY <1>2, <2>2, <2>3 DEF DownSend
<1> QED BY <1>1, <1>2

\* guacd sends an item, or leaves.
LEMMA DownGuacd ==
    ASSUME Types, PhaseInv, DownInv, LinesShown, GuacdSends \/ GuacdLeaves
    PROVE  DownInv' /\ LinesShown'
<1>1. UNCHANGED <<main, down, line, shown>> /\ guacd = "Open" /\ guacd' # "Absent" /\ LinesTaken' = LinesTaken
    BY DEF GuacdSends, GuacdLeaves, LinesTaken
<1>2. sent' = sent \/ \E x \in Item : sent' = Append(sent, x)
    BY DEF GuacdSends, GuacdLeaves
<1>3. LinesShown'
    <2>1. ASSUME NEW k \in DOMAIN shown PROVE IsLine(k + 1, shown[k])'
        <3>1. IsLine(k + 1, shown[k]) /\ k + 1 \in Nat
            BY <1>1 DEF LinesShown, Types
        <3>2. \A t : IsLine(k + 1, t) => IsLine(k + 1, t)'
            BY <1>1, <1>2, <3>1, LineStays
        <3> QED BY <1>1, <3>1, <3>2
    <2> QED BY <1>1, <2>1 DEF LinesShown, IsReady
<1>4. LineRead /\ line # <<>> => LineRead'
    BY <1>1 DEF LineRead
<1>5. ASSUME NEW a \in 0..Len(sent), NEW p \in 0..Len(sent), ReadUpTo(a, p)
      PROVE  ReadUpTo(a, p)' /\ a \in 0..Len(sent') /\ p \in 0..Len(sent')
    <2>1. CASE GuacdLeaves
        BY <1>1, <1>5, <2>1 DEF GuacdLeaves, ReadUpTo
    <2>2. CASE GuacdSends
        <3>1. PICK x \in Item : sent' = Append(sent, x) /\ fromGuacd' = Append(fromGuacd, x) /\ guacd' = guacd
            BY <2>2 DEF GuacdSends
        <3>2. /\ Len(sent) \in Nat /\ Len(sent') = Len(sent) + 1 /\ sent'[Len(sent) + 1] = x
              /\ \A j \in 1..Len(sent) : sent'[j] = sent[j]
              /\ Len(fromGuacd) \in Nat /\ Len(fromGuacd') = Len(fromGuacd) + 1
              /\ fromGuacd'[Len(fromGuacd) + 1] = x
              /\ \A j \in 1..Len(fromGuacd) : fromGuacd'[j] = fromGuacd[j]
            BY <3>1 DEF Types
        <3>3. /\ a <= p /\ Len(fromGuacd) = Len(sent) - p /\ Len(line) = p - a
              /\ \A j \in 1..Len(fromGuacd) : fromGuacd[j] = sent[p + j]
              /\ \A j \in 1..Len(line) : line[j] = sent[a + j]
            BY <1>1, <1>5 DEF ReadUpTo
        <3>4. \A j \in 1..Len(fromGuacd') : fromGuacd'[j] = sent'[p + j]
            <4> SUFFICES ASSUME NEW j \in 1..Len(fromGuacd') PROVE fromGuacd'[j] = sent'[p + j]
                OBVIOUS
            <4>1. CASE j \in 1..Len(fromGuacd)
                <5>1. p + j \in 1..Len(sent)
                    BY <3>2, <3>3, <4>1
                <5> QED BY <3>2, <3>3, <4>1, <5>1
            <4>2. CASE j = Len(fromGuacd) + 1
                <5>1. p + j = Len(sent) + 1
                    BY <3>2, <3>3, <4>2
                <5> QED BY <3>2, <4>2, <5>1
            <4> QED BY <3>2, <4>1, <4>2
        <3>5. \A j \in 1..Len(line') : line'[j] = sent'[a + j]
            <4>1. \A j \in 1..Len(line) : a + j \in 1..Len(sent)
                BY <3>2, <3>3 DEF Types
            <4> QED BY <1>1, <3>2, <3>3, <4>1
        <3>6. a = 0 \/ sent'[a] = "NL"
            BY <1>5, <3>2 DEF ReadUpTo
        <3>7. CountIn(sent', Break, a) = CountIn(sent, Break, a)
            <4>1. \A j \in 1..a : sent'[j] = sent[j]
                BY <3>2
            <4> QED BY <4>1, CountSame
        <3>8. a \in 0..Len(sent') /\ p \in 0..Len(sent') /\ p <= Len(sent') /\ Len(fromGuacd') = Len(sent') - p
            BY <3>2, <3>3
        <3>9. \A j \in 1..(Len(line') - 1) : line'[j] # "NL"
            BY <1>1, <1>5 DEF ReadUpTo
        <3>10. CountIn(sent, Break, a) = LinesTaken
            BY <1>5 DEF ReadUpTo
        <3> QED BY <1>1, <3>1, <3>3, <3>4, <3>5, <3>6, <3>7, <3>8, <3>9, <3>10 DEF ReadUpTo
    <2> QED BY <2>1, <2>2
<1>6. Reading' => \E a, p \in 0..Len(sent') : ReadUpTo(a, p)'
    BY <1>1, <1>5 DEF DownInv, AtEnd, Reading
<1> QED BY <1>1, <1>3, <1>4, <1>6 DEF DownInv, IsReady

\* All steps.
LEMMA DownNext ==
    ASSUME Types, PhaseInv, DownInv, LinesShown, [Next]_vars
    PROVE  DownInv' /\ LinesShown'
<1>1. CASE \E t \in Target, cookie, enabled \in BOOLEAN : guac_ws_handler(t, cookie, enabled)
    <2>1. /\ UNCHANGED <<sent, guacd, line, fromGuacd, shown, down>>
          /\ main = "Idle" /\ main' \in {"Connect", "Ended"}
        BY <1>1 DEF guac_ws_handler
    <2>2. down' = "None"
        BY <2>1 DEF PhaseInv, Connecting
    <2> QED BY <2>1, <2>2, DownFrame DEF Reading, Handshaking
<1>2. CASE UpRead \/ UpWrite \/ BrowserSends \/ BrowserReads \/ GuacdReads
           \/ (\E how \in {"Closed", "Gone"} : BrowserLeaves(how)) \/ Terminated \/ UNCHANGED vars
    <2>1. UNCHANGED <<sent, guacd, line, fromGuacd, shown, down, main>>
        BY <1>2 DEF UpRead, UpWrite, BrowserSends, BrowserReads, GuacdReads, BrowserLeaves, Terminated, vars
    <2> QED BY <2>1, DownFrame DEF Reading, LinesTaken
<1> QED BY <1>1, <1>2, DownHandler, DownFill, DownTask, DownGuacd DEF Next, Tasks, Peers

-----------------------------------------------------------------------------
(* Up: the texts.                                                            *)

\* Steps that leave what the browser sent and guacd was written alone.
LEMMA UpFrame ==
    ASSUME UpInv, TextsTold, UNCHANGED <<typed, told, up, text, fromBrowser, browser, target>>,
           shown # <<>> => shown' # <<>>
    PROVE  UpInv' /\ TextsTold'
<1>1. ASSUME NEW r, HeardUpTo(r) PROVE HeardUpTo(r)'
    BY <1>1 DEF HeardUpTo
<1>2. UpInv'
    BY <1>1 DEF UpInv
<1>3. TextsTold'
    BY DEF TextsTold
<1> QED BY <1>2, <1>3

\* What is shown is never taken back.
LEMMA ShownStays ==
    ASSUME Types, [Next]_vars, shown # <<>>
    PROVE  shown' # <<>>
<1>1. \A t : Append(shown, t) # <<>>
    <2> SUFFICES ASSUME NEW t PROVE Append(shown, t) # <<>>
        OBVIOUS
    <2>1. shown \in Seq(Piece \cup {t})
        BY DEF Types
    <2>2. Len(Append(shown, t)) = Len(shown) + 1 /\ Len(shown) \in Nat
        BY <2>1
    <2> QED BY <2>2
<1>2. shown' = shown \/ \E t : shown' = Append(shown, t)
    BY DEF Next, vars, guac_ws_handler, guac_proxy, Connect, Refuse, WriteInstruction, ReadAnswer, SendReady,
           SelectEnds, Tasks, Fill, DownRead, DownSend, UpRead, UpWrite, Peers, BrowserSends, BrowserReads,
           GuacdSends, GuacdLeaves, GuacdReads, BrowserLeaves, Terminated, ShowBrowser, ShowFails
<1> QED BY <1>1, <1>2

\* The handler: instructions of the handshake, and the tasks are spawned with all that
\* the browser has sent still to be read.
LEMMA UpHandler ==
    ASSUME Types, PhaseInv, ToldInv, UpInv, TextsTold, guac_proxy, shown # <<>> => shown' # <<>>
    PROVE  UpInv' /\ TextsTold'
<1>1. CASE Connect \/ Refuse \/ ReadAnswer \/ SelectEnds
    <2>1. UNCHANGED <<typed, told, up, text, fromBrowser, browser, target>>
        BY <1>1 DEF Connect, Refuse, ReadAnswer, SelectEnds
    <2> QED BY <2>1, UpFrame
<1>2. CASE WriteInstruction
    <2>1. /\ UNCHANGED <<typed, up, text, fromBrowser, browser, target, shown>> /\ up = "None"
          /\ main \in {"WriteSelect", "WriteConnect"}
        BY <1>2 DEF WriteInstruction, PhaseInv
    <2>2. UpInv'
        <3>1. PICK r \in 0..Len(typed) : HeardUpTo(r)
            BY <2>1 DEF UpInv
        <3>2. HeardUpTo(r)'
            BY <2>1, <3>1 DEF HeardUpTo
        <3> QED BY <2>1, <3>2 DEF UpInv
    <2>3. CASE TellFails
        BY <2>1, <2>2, <2>3 DEF TellFails, TextsTold
    <2>4. CASE main = "WriteSelect" /\ TellGuacd(Select)
        <3>1. told = <<>>
            BY <2>4 DEF ToldInv
        <3>2. told' = <<Select>>
            BY <2>4, <3>1, TwoTexts DEF TellGuacd
        <3>3. Len(told') = 1 /\ told'[1] = Select
            BY <3>2
        <3> QED BY <2>2, <3>3 DEF TextsTold
    <2>5. CASE main = "WriteConnect" /\ TellGuacd(ConnectTo(target))
        <3>1. Len(told) = 1 /\ told # <<>>
            BY <2>5 DEF ToldInv
        <3>2. /\ told' = Append(told, ConnectTo(target)) /\ told \in Seq(Instruction)
              /\ ConnectTo(target) \in Instruction
            BY <2>5 DEF TellGuacd, Types, Instruction
        <3>3. Len(told') = 2 /\ told'[1] = told[1] /\ told'[2] = ConnectTo(target)
            <4>1. PICK x \in Instruction : told' = Append(told, x) /\ x = ConnectTo(target)
                BY <3>2
            <4>2. /\ Len(told') = Len(told) + 1 /\ told'[Len(told) + 1] = x
                  /\ \A k \in 1..Len(told) : told'[k] = told[k]
                BY <3>2, <4>1
            <4>4. 1 \in 1..Len(told)
                BY <3>1
            <4>3. Len(told) + 1 = 2
                BY <3>1
            <4> QED BY <4>1, <4>2, <4>3, <4>4
        <3>4. told[1] = Select
            BY <3>1 DEF TextsTold
        <3> QED BY <2>1, <2>2, <3>3, <3>4 DEF TextsTold
    <2> QED BY <1>2, <2>3, <2>4, <2>5 DEF WriteInstruction
<1>3. CASE SendReady
    <2>1. UNCHANGED <<typed, told, text, fromBrowser, browser, target>> /\ up = "None" /\ Len(told) = 2
        BY <1>3 DEF SendReady, PhaseInv, ToldInv
    <2>2. CASE up' = up
        BY <2>1, <2>2, UpFrame
    <2>3. CASE up' = "Read"
        <3>1. PICK r \in 0..Len(typed) : HeardUpTo(r)
            BY <2>1 DEF UpInv
        <3>2. r = 0 /\ CountIn(typed, Positive, 0) = 0
            BY <2>1, <3>1, CountType DEF HeardUpTo
        <3>3. HeardUpTo(r)'
            BY <2>1, <2>3, <3>1, <3>2 DEF HeardUpTo
        <3>4. UpInv'
            BY <2>1, <3>1, <3>3 DEF UpInv
        <3>5. TextsTold'
            BY <2>1 DEF TextsTold
        <3> QED BY <3>4, <3>5
    <2> QED BY <1>3, <2>2, <2>3 DEF SendReady
<1> QED BY <1>1, <1>2, <1>3 DEF guac_proxy

\* browser_to_guacd takes a message.
LEMMA UpReads ==
    ASSUME Types, UpInv, TextsTold, UpRead
    PROVE  UpInv' /\ TextsTold'
<1>1. UNCHANGED <<typed, told, browser, target, shown>> /\ up = "Read"
    BY DEF UpRead
<1>2. TextsTold'
    BY <1>1 DEF TextsTold
<1>3. PICK r \in 0..Len(typed) : HeardUpTo(r)
    BY <1>1 DEF UpInv
<1>4. CASE fromBrowser # <<>>
    <2>1. /\ Len(fromBrowser) \in Nat /\ Len(fromBrowser) > 0 /\ Head(fromBrowser) = fromBrowser[1]
          /\ fromBrowser' = Tail(fromBrowser) /\ Len(fromBrowser') = Len(fromBrowser) - 1
          /\ \A j \in 1..Len(fromBrowser') : fromBrowser'[j] = fromBrowser[j + 1]
          /\ r \in Nat /\ Len(typed) \in Nat
        <3>1. fromBrowser \in Seq(Nat) /\ fromBrowser # <<>> /\ typed \in Seq(Nat)
            BY <1>4 DEF Types
        <3>2. fromBrowser' = Tail(fromBrowser)
            BY <1>4 DEF UpRead
        <3> QED BY <3>1, <3>2
    <2>2. /\ browser # "Gone" /\ Len(fromBrowser) = Len(typed) - r /\ fromBrowser[1] = typed[r + 1]
          /\ Len(told) = CountIn(typed, Positive, r) + 2
        BY <1>1, <1>3, <1>4, <2>1 DEF HeardUpTo
    <2>3. r + 1 \in 0..Len(typed) /\ r + 1 \in 1..Len(typed) /\ typed[r + 1] \in Nat
        <3>1. r + 1 \in 1..Len(typed)
            BY <2>1, <2>2
        <3> QED BY <2>1, <3>1 DEF Types
    <2>4. \A j \in 1..Len(fromBrowser') : fromBrowser'[j] = typed[(r + 1) + j]
        <3> SUFFICES ASSUME NEW j \in 1..Len(fromBrowser') PROVE fromBrowser'[j] = typed[(r + 1) + j]
            OBVIOUS
        <3>1. j + 1 \in 1..Len(fromBrowser) /\ r + (j + 1) = (r + 1) + j
            BY <2>1
        <3>2. fromBrowser[j + 1] = typed[r + (j + 1)]
            BY <1>3, <3>1 DEF HeardUpTo
        <3> QED BY <2>1, <3>1, <3>2
    <2>5. Len(fromBrowser') = Len(typed) - (r + 1)
        BY <2>1, <2>2
    <2>6. CountIn(typed, Positive, r) \in Nat
        BY <2>1, CountType
    <2>7. CASE typed[r + 1] > 0
        <3>1. CountIn(typed, Positive, r + 1) = CountIn(typed, Positive, r) + 1
            BY <2>1, <2>3, <2>7, CountNext DEF Positive
        <3>2. up' = "Write" /\ text' = typed[r + 1]
            BY <1>4, <2>1, <2>2, <2>7 DEF UpRead
        <3>3. Len(told) = CountIn(typed, Positive, r + 1) + 1
            BY <2>2, <2>6, <3>1
        <3>4. HeardUpTo(r + 1)'
            BY <1>1, <2>1, <2>2, <2>4, <2>5, <2>7, <3>2, <3>3 DEF HeardUpTo
        <3> QED BY <1>1, <1>2, <2>3, <3>4 DEF UpInv
    <2>8. CASE typed[r + 1] = 0
        <3>1. CountIn(typed, Positive, r + 1) = CountIn(typed, Positive, r) + 0
            BY <2>1, <2>8, CountNext DEF Positive
        <3>2. up' = "Read"
            BY <1>1, <1>4, <2>1, <2>2, <2>8 DEF UpRead
        <3>3. CountIn(typed, Positive, r + 1) = CountIn(typed, Positive, r)
            BY <2>6, <3>1
        <3>4. HeardUpTo(r + 1)'
            BY <1>1, <2>2, <2>4, <2>5, <3>2, <3>3 DEF HeardUpTo
        <3> QED BY <1>1, <1>2, <2>3, <3>4 DEF UpInv
    <2> QED BY <2>3, <2>7, <2>8
<1>5. CASE fromBrowser = <<>>
    BY <1>2, <1>5 DEF UpRead, UpInv
<1> QED BY <1>4, <1>5

\* browser_to_guacd writes the text it has taken: the next one.
LEMMA UpWrites ==
    ASSUME Types, PhaseInv, ToldInv, UpInv, TextsTold, UpWrite
    PROVE  UpInv' /\ TextsTold'
<1>1. UNCHANGED <<typed, text, fromBrowser, browser, target, shown>> /\ up = "Write" /\ shown # <<>> /\ Len(told) >= 2
    BY DEF UpWrite, PhaseInv, ToldInv
<1>2. CASE TellFails /\ up' = "Done"
    BY <1>1, <1>2 DEF TellFails, UpInv, TextsTold
<1>3. CASE TellGuacd(Text(text)) /\ up' = "Read"
    <2>1. PICK r \in 0..Len(typed) : HeardUpTo(r)
        BY <1>1 DEF UpInv
    <2>2. /\ r \in Nat /\ r > 0 /\ text = typed[r] /\ text > 0 /\ Len(told) = CountIn(typed, Positive, r) + 1
          /\ r \in DOMAIN typed
        BY <1>1, <2>1 DEF HeardUpTo, Types
    <2>3. /\ Len(told) \in Nat /\ Len(told') = Len(told) + 1 /\ told'[Len(told) + 1] = Text(text)
          /\ \A k \in 1..Len(told) : told'[k] = told[k]
        <3>1. PICK x \in Instruction : told' = Append(told, x) /\ x = Text(text)
            BY <1>3 DEF TellGuacd, Instruction, Types
        <3> QED BY <3>1 DEF Types
    <2>4. CountIn(typed, Positive, r) \in Nat
        BY <2>2, CountType
    <2>5. UpInv'
        <3>1. Len(told') = CountIn(typed, Positive, r) + 2
            BY <2>2, <2>3, <2>4
        <3>2. HeardUpTo(r)'
            BY <1>1, <1>3, <2>1, <3>1 DEF HeardUpTo
        <3> QED BY <1>1, <3>2 DEF UpInv
    <2>6. TextsTold'
        <3>1. ASSUME NEW k \in 3..Len(told')
              PROVE  \E n \in DOMAIN typed : /\ typed[n] > 0 /\ told'[k] = Text(typed[n])
                                             /\ CountIn(typed, Nat \ {0}, n) = k - 2
            <4>1. CASE k \in 3..Len(told)
                BY <2>3, <4>1 DEF TextsTold
            <4>2. CASE k = Len(told) + 1
                <5>1. CountIn(typed, Nat \ {0}, r) = k - 2
                    BY <2>2, <2>4, <4>2 DEF Positive
                <5> QED BY <2>2, <2>3, <4>2, <5>1
            <4> QED BY <2>3, <4>1, <4>2
        <3>2. told # <<>> /\ told[1] = Select /\ told[2] = ConnectTo(target)
            BY <1>1 DEF TextsTold
        <3>3. told'[1] = Select /\ told'[2] = ConnectTo(target)
            BY <1>1, <2>3, <3>2
        <3> QED BY <1>1, <3>1, <3>3 DEF TextsTold
    <2> QED BY <2>5, <2>6
<1> QED BY <1>2, <1>3 DEF UpWrite

\* The browser sends a message, or leaves.
LEMMA UpBrowser ==
    ASSUME Types, UpInv, TextsTold, BrowserSends \/ \E how \in {"Closed", "Gone"} : BrowserLeaves(how)
    PROVE  UpInv' /\ TextsTold'
<1>1. CASE \E how \in {"Closed", "Gone"} : BrowserLeaves(how)
    <2>1. /\ UNCHANGED <<typed, told, up, text, target, shown>> /\ browser = "Open"
          /\ (browser' = "Closed" /\ fromBrowser' = fromBrowser) \/ (browser' = "Gone" /\ fromBrowser' = <<>>)
        BY <1>1 DEF BrowserLeaves
    <2>2. ASSUME NEW r, HeardUpTo(r) PROVE HeardUpTo(r)'
        BY <2>1, <2>2 DEF HeardUpTo
    <2> QED BY <2>1, <2>2 DEF UpInv, TextsTold
<1>2. CASE BrowserSends
    <2>1. UNCHANGED <<told, up, text, target, shown, browser>> /\ browser = "Open"
        BY <1>2 DEF BrowserSends
    <2>2. PICK m \in Nat : typed' = Append(typed, m) /\ fromBrowser' = Append(fromBrowser, m)
        BY <1>2 DEF BrowserSends, Types
    <2>3. /\ Len(typed) \in Nat /\ Len(typed') = Len(typed) + 1 /\ typed'[Len(typed) + 1] = m
          /\ \A j \in 1..Len(typed) : typed'[j] = typed[j]
          /\ Len(fromBrowser) \in Nat /\ Len(fromBrowser') = Len(fromBrowser) + 1
          /\ fromBrowser'[Len(fromBrowser) + 1] = m
          /\ \A j \in 1..Len(fromBrowser) : fromBrowser'[j] = fromBrowser[j]
        BY <2>2 DEF Types
    <2>4. ASSUME NEW n \in 0..Len(typed) PROVE CountIn(typed', Positive, n) = CountIn(typed, Positive, n)
        <3>1. \A j \in 1..n : typed'[j] = typed[j]
            BY <2>3
        <3> QED BY <3>1, CountSame
    <2>5. ASSUME NEW r \in 0..Len(typed), HeardUpTo(r) PROVE HeardUpTo(r)' /\ r \in 0..Len(typed')
        <3>1. Len(fromBrowser) = Len(typed) - r /\ \A j \in 1..Len(fromBrowser) : fromBrowser[j] = typed[r + j]
            BY <2>1, <2>5 DEF HeardUpTo
        <3>2. \A j \in 1..Len(fromBrowser') : fromBrowser'[j] = typed'[r + j]
            <4> SUFFICES ASSUME NEW j \in 1..Len(fromBrowser') PROVE fromBrowser'[j] = typed'[r + j]
                OBVIOUS
            <4>1. CASE j \in 1..Len(fromBrowser)
                <5>1. r + j \in 1..Len(typed)
                    BY <2>3, <3>1, <4>1
                <5> QED BY <2>3, <3>1, <4>1, <5>1
            <4>2. CASE j = Len(fromBrowser) + 1
                <5>1. r + j = Len(typed) + 1
                    BY <2>3, <3>1, <4>2
                <5> QED BY <2>3, <4>2, <5>1
            <4> QED BY <2>3, <4>1, <4>2
        <3>3. r > 0 => typed'[r] = typed[r]
            BY <2>3
        <3>4. Len(fromBrowser') = Len(typed') - r /\ r \in 0..Len(typed')
            BY <2>3, <3>1
        <3>5. CountIn(typed', Positive, r) = CountIn(typed, Positive, r)
            BY <2>4
        <3> QED BY <2>1, <2>5, <3>2, <3>3, <3>4, <3>5 DEF HeardUpTo
    <2>6. UpInv'
        BY <2>1, <2>5 DEF UpInv
    <2>7. TextsTold'
        <3>1. ASSUME NEW k \in 3..Len(told)
              PROVE  \E n \in DOMAIN typed' : /\ typed'[n] > 0 /\ told[k] = Text(typed'[n])
                                              /\ CountIn(typed', Nat \ {0}, n) = k - 2
            <4>1. PICK n \in DOMAIN typed : /\ typed[n] > 0 /\ told[k] = Text(typed[n])
                                            /\ CountIn(typed, Nat \ {0}, n) = k - 2
                BY DEF TextsTold
            <4>2. n \in 0..Len(typed) /\ n \in 1..Len(typed) /\ n \in DOMAIN typed'
                BY <2>2, <2>3 DEF Types
            <4>3. CountIn(typed', Nat \ {0}, n) = CountIn(typed, Nat \ {0}, n)
                BY <2>4, <4>2 DEF Positive
            <4> QED BY <2>3, <4>1, <4>2, <4>3
        <3> QED BY <2>1, <3>1 DEF TextsTold
    <2> QED BY <2>6, <2>7
<1> QED BY <1>1, <1>2

\* All steps.
LEMMA UpNext ==
    ASSUME Types, PhaseInv, ToldInv, UpInv, TextsTold, [Next]_vars
    PROVE  UpInv' /\ TextsTold'
<1>0. shown # <<>> => shown' # <<>>
    BY ShownStays
<1>1. CASE \E t \in Target, cookie, enabled \in BOOLEAN : guac_ws_handler(t, cookie, enabled)
    <2>1. /\ UNCHANGED <<typed, told, up, text, fromBrowser, shown>> /\ told = <<>> /\ up = "None"
          /\ browser = "Away" /\ browser' \in {"Open", "Gone"} /\ fromBrowser = <<>>
        BY <1>1 DEF guac_ws_handler, PhaseInv, Connecting
    <2>2. PICK r \in 0..Len(typed) : HeardUpTo(r)
        BY <2>1 DEF UpInv
    <2>3. CASE browser' = "Open"
        <3>1. HeardUpTo(r)'
            BY <2>1, <2>2, <2>3 DEF HeardUpTo
        <3> QED BY <2>1, <3>1 DEF UpInv, TextsTold
    <2>4. CASE browser' = "Gone"
        <3>1. HeardUpTo(r)'
            BY <2>1, <2>2, <2>4 DEF HeardUpTo
        <3> QED BY <2>1, <3>1 DEF UpInv, TextsTold
    <2> QED BY <2>1, <2>3, <2>4
<1>2. CASE Fill \/ DownRead \/ DownSend \/ BrowserReads \/ GuacdSends \/ GuacdLeaves \/ GuacdReads
           \/ Terminated \/ UNCHANGED vars
    <2>1. UNCHANGED <<typed, told, up, text, fromBrowser, browser, target>>
        BY <1>2 DEF Fill, DownRead, DownSend, BrowserReads, GuacdSends, GuacdLeaves, GuacdReads, Terminated, vars
    <2> QED BY <1>0, <2>1, UpFrame
<1> QED BY <1>0, <1>1, <1>2, UpHandler, UpReads, UpWrites, UpBrowser DEF Next, Tasks, Peers

-----------------------------------------------------------------------------
\* The invariant.
THEOREM ProxyInvariant == Spec => []IInv
<1>1. IInv /\ [Next]_vars => IInv'
    BY TypesNext, PhaseNext, DownNext, UpNext DEF IInv, RelayFaithful
<1> QED BY <1>1, ProxyInit, PTL DEF Spec

\* guac_proxy and its two tasks are faithful in both directions: for every stream of
\* guacd, cut into lines anywhere, and everything the browser sends, whoever leaves when,
\* the browser is shown the lines after the args line and guacd is written the browser's
\* texts after the handshake, each in order, none missing and none twice.
THEOREM RelaySafety == Spec => []RelayFaithful
<1>1. IInv => RelayFaithful
    BY DEF IInv
<1> QED BY <1>1, ProxyInvariant, PTL

===============================================================================

-------------------------------- MODULE Tunnel --------------------------------
(*****************************************************************************)
(* What a relayed session promises, whatever tasks, queues and sockets carry *)
(* it: nothing is relayed before the tunnel is opened; each direction is a   *)
(* FIFO stream in which one piece is under way at a time, so that whatever   *)
(* was taken from a sender is delivered before more is taken, or is the last *)
(* one; requests are answered in their order, each once; and when the        *)
(* session is over nothing moves.                                            *)
(*                                                                           *)
(* Pieces and requests are known by their place in what the client sent.     *)
(*****************************************************************************)
EXTENDS Integers, Sequences

VARIABLES phase,     \* "Closed", "Open" or "Over"
          given,     \* the pieces taken from the client, as pairs of place and data
          up,        \* the pieces the backend was given, in order
          taken,     \* bytes taken from the backend
          down,      \* bytes the client was given
          asked,     \* places of the requests taken
          answered   \* the answers the client was given, as pairs of the place on the
                     \* way down and the place of the request

vars == <<phase, given, up, taken, down, asked, answered>>

Elems(s) == {s[i] : i \in DOMAIN s}
Places == asked \cup {g[1] : g \in given}
Unanswered == asked \ {r[2] : r \in answered}

Init ==
    /\ phase = "Closed"
    /\ given = {} /\ up = << >> /\ taken = 0 /\ down = 0
    /\ asked = {} /\ answered = {}

\* The first piece opens the tunnel.
Open ==
    /\ phase = "Closed"
    /\ phase' = "Open"
    /\ \E g \in given' : given' = {g}
    /\ UNCHANGED <<up, taken, down, asked, answered>>

\* A piece comes after everything that came before, and when nothing is under way.
Give ==
    /\ phase = "Open"
    /\ given = Elems(up)
    /\ \E g \in given' : /\ given' = given \cup {g}
                         /\ \A p \in Places : p < g[1]
    /\ UNCHANGED <<phase, up, taken, down, asked, answered>>

Deliver ==
    /\ phase = "Open"
    /\ \E g \in given \ Elems(up) : up' = Append(up, g)
    /\ UNCHANGED <<phase, given, taken, down, asked, answered>>

Take ==
    /\ phase = "Open"
    /\ down = taken
    /\ taken' > taken
    /\ UNCHANGED <<phase, given, up, down, asked, answered>>

Show ==
    /\ phase = "Open"
    /\ down < taken /\ down' = taken
    /\ UNCHANGED <<phase, given, up, taken, asked, answered>>

Ask ==
    /\ phase = "Open"
    /\ \E n \in asked' : asked' = asked \cup {n} /\ \A p \in Places : p < n
    /\ UNCHANGED <<phase, given, up, taken, down, answered>>

\* The oldest request without an answer is answered, after all the answers before.
Answer ==
    /\ phase = "Open"
    /\ \E r \in answered' :
           /\ answered' = answered \cup {r}
           /\ r[2] \in Unanswered /\ \A n \in Unanswered : r[2] <= n
           /\ \A q \in answered : q[1] < r[1]
    /\ UNCHANGED <<phase, given, up, taken, down, asked>>

End ==
    /\ phase # "Over"
    /\ phase' = "Over"
    /\ UNCHANGED <<given, up, taken, down, asked, answered>>

Next == Open \/ Give \/ Deliver \/ Take \/ Show \/ Ask \/ Answer \/ End

Spec == Init /\ [][Next]_vars

===============================================================================

------------------------------ MODULE OutStreams ------------------------------
(*****************************************************************************)
(* What the RPC-over-HTTP transport promises, whatever carries the bodies:   *)
(* an OUT response waits under a cookie, where a later one of that cookie    *)
(* replaces it, until an IN request takes it for itself alone; it carries a  *)
(* greeting and then the answers to the calls of that IN request, one owed   *)
(* at a time and none passed over; the first call binds, and the grants come *)
(* in their order; and it is complete only when nobody can write to it and   *)
(* all that was written has been shown.                                      *)
(*                                                                           *)
(* Calls are known by their place in the body of the IN request.             *)
(*****************************************************************************)
EXTENDS Naturals, Sequences

CONSTANTS Out, In, Key   \* OUT requests, IN requests, cookies

VARIABLES state,    \* per OUT request: "idle", "open", "ended", "gone", "rejected"
          waiting,  \* the OUT requests that wait: a function on the cookies in use
          held,     \* per OUT request: what was written and not shown
          shown,    \* per OUT request: what its client was given
          peer,     \* per IN request: the OUT request it took; 0: none
          writing,  \* the IN requests that may still write
          level,    \* per IN request: 0, 1 paired, 2 bound, 3 tunnel, 4 authorised, 5 channel
          calls,    \* per IN request: places of the calls taken that an answer is owed for
          due       \* per IN request: the answer owed, if any

outVars == <<state, held, shown>>
inVars == <<peer, writing, level, calls, due>>
vars == <<outVars, waiting, inVars>>

Init ==
    /\ state = [o \in Out |-> "idle"] /\ waiting = [c \in {} |-> 0]
    /\ held = [o \in Out |-> << >>] /\ shown = [o \in Out |-> << >>]
    /\ peer = [i \in In |-> 0] /\ writing = {}
    /\ level = [i \in In |-> 0] /\ calls = [i \in In |-> {}] /\ due = [i \in In |-> {}]

-----------------------------------------------------------------------------
(* OUT requests.                                                             *)

Accept(o, c) ==
    /\ state[o] = "idle"
    /\ state' = [state EXCEPT ![o] = "open"]
    /\ waiting' = [k \in DOMAIN waiting \cup {c} |-> IF k = c THEN o ELSE waiting[k]]
    /\ UNCHANGED <<held, shown, inVars>>

Reject(o) ==
    /\ state[o] = "idle"
    /\ state' = [state EXCEPT ![o] = "rejected"]
    /\ UNCHANGED <<held, shown, waiting, inVars>>

Show(o) ==
    /\ state[o] = "open" /\ held[o] # << >>
    /\ shown' = [shown EXCEPT ![o] = Append(@, Head(held[o]))]
    /\ held' = [held EXCEPT ![o] = Tail(@)]
    /\ UNCHANGED <<state, waiting, inVars>>

Finish(o) ==
    /\ state[o] = "open" /\ held[o] = << >>
    /\ \A c \in DOMAIN waiting : waiting[c] # o
    /\ \A i \in writing : peer[i] # o
    /\ state' = [state EXCEPT ![o] = "ended"]
    /\ UNCHANGED <<held, shown, waiting, inVars>>

\* The client leaves, and what was not shown is lost; the IN request is not told.
Leave(o) ==
    /\ state[o] = "open"
    /\ state' = [state EXCEPT ![o] = "gone"]
    /\ held' = [held EXCEPT ![o] = << >>]
    /\ UNCHANGED <<shown, waiting, inVars>>

-----------------------------------------------------------------------------
(* IN requests.                                                              *)

Pair(i, c) ==
    /\ peer[i] = 0 /\ c \in DOMAIN waiting
    /\ peer' = [peer EXCEPT ![i] = waiting[c]]
    /\ waiting' = [k \in DOMAIN waiting \ {c} |-> waiting[k]]
    /\ writing' = writing \cup {i}
    /\ level' = [level EXCEPT ![i] = 1]
    /\ due' = [due EXCEPT ![i] = {[type |-> "ConnC2", call |-> waiting[c], stub |-> << >>]}]
    /\ UNCHANGED <<outVars, calls>>

\* The answers: to the only Bind, to a call that is granted, and to any other one.
Binds(i, x) == level[i] = 1 /\ level' = [level EXCEPT ![i] = 2] /\ x.type = "BindAck"
Grants(i, x) == /\ level[i] \in 2..4 /\ level' = [level EXCEPT ![i] = @ + 1]
                /\ x.type = "Response" /\ Len(x.stub) > 1
Replies(i, x) == level[i] >= 2 /\ level' = level /\ x.type = "Response" /\ x.stub = <<0>>

\* A call is taken when no answer is owed, and its own is owed from then on.
Call(i) ==
    /\ i \in writing /\ due[i] = {}
    /\ \E x \in due'[i] :
         /\ \A k \in calls[i] : k < x.call
         /\ calls' = [calls EXCEPT ![i] = @ \cup {x.call}]
         /\ due' = [due EXCEPT ![i] = {x}]
         /\ Binds(i, x) \/ Grants(i, x) \/ Replies(i, x)
    /\ UNCHANGED <<outVars, waiting, peer, writing>>

Write(i) ==
    /\ i \in writing /\ state[peer[i]] = "open"
    /\ \E x \in due[i] : held' = [held EXCEPT ![peer[i]] = Append(@, x)]
    /\ due' = [due EXCEPT ![i] = {}]
    /\ UNCHANGED <<state, shown, waiting, peer, writing, level, calls>>

\* The IN request is over; only an answer it owes is lost.
Stop(i) ==
    /\ i \in writing
    /\ writing' = writing \ {i}
    /\ due' = [due EXCEPT ![i] = {}]
    /\ UNCHANGED <<outVars, waiting, peer, level, calls>>

Next ==
    \/ \E o \in Out : (\E c \in Key : Accept(o, c)) \/ Reject(o) \/ Show(o) \/ Finish(o) \/ Leave(o)
    \/ \E i \in In : (\E c \in Key : Pair(i, c)) \/ Call(i) \/ Write(i) \/ Stop(i)

Spec == Init /\ [][Next]_vars

===============================================================================

-------------------------- MODULE VirtualConnection ---------------------------
(*****************************************************************************)
(* The RPC-over-HTTP virtual connection of crates/rdg-proto/src/rpch.rs: the *)
(* value of a VirtualConnection and the methods the handlers call on it.     *)
(* Of what CONN/A1 and CONN/B1 bring, the cookie that pairs the two channels *)
(* and the call id that CONN/C2 repeats are kept; a cookie is a number.      *)
(*****************************************************************************)
EXTENDS Naturals

VirtualConnectionState == {"WaitingOutChannel", "WaitingInChannel", "ConnectionEstablished",
                           "DataTransfer"}

\* None is 0.
VConn == [state : VirtualConnectionState, cookie : Nat, out_call_id : Nat]

\* VirtualConnection::new
NewVConn == [state |-> "WaitingOutChannel", cookie |-> 0, out_call_id |-> 0]

\* accept_out_channel of a CONN/A1.  It is only called on a new connection, where
\* its state check cannot fail.
accept_out_channel(v, cookie, call_id) ==
    [v EXCEPT !.state = "WaitingInChannel", !.cookie = cookie, !.out_call_id = call_id]

\* accept_in_channel of a CONN/B1: its two checks, and its effect.
CanAcceptIn(v, cookie) == v.state = "WaitingInChannel" /\ v.cookie = cookie
accept_in_channel(v) == [v EXCEPT !.state = "ConnectionEstablished"]

\* Mutant: a connection may be bound again.
CanEnterDataTransfer_Again(v) == v.state \in {"ConnectionEstablished", "DataTransfer"}

\* enter_data_transfer: its check, and its effect.
CanEnterDataTransfer(v) == v.state = "ConnectionEstablished"
enter_data_transfer(v) == [v EXCEPT !.state = "DataTransfer"]

===============================================================================

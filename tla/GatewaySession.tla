---------------------------- MODULE GatewaySession ----------------------------
(*****************************************************************************)
(* The TSG session state machine of crates/rdg-core/src/session.rs: the      *)
(* value of a GatewaySession and its method process_message, as operators.   *)
(* Both transports (WebSocket and RPC over HTTP) drive it.                   *)
(*                                                                           *)
(* A TSG message is a record: its type (the variant of TsgMessage), the part *)
(* of its content the code looks at or copies (data, a sequence of numbers), *)
(* and src, a history tag that names the client frame a reply answers (0     *)
(* when it answers none).                                                    *)
(*****************************************************************************)
EXTENDS Naturals, Sequences

Message(type, data, src) == [type |-> type, data |-> data, src |-> src]

\* Variants of TsgMessage a client may send.  "Response" stands for the five
\* server-to-client variants, "Unknown10" for type 0x10 and "Unknown" for every
\* other type parse_message has no parser for (0x03, 0x0B, 0x0C and up).
RequestType == {"HandshakeRequest", "TunnelCreate", "TunnelAuth", "ChannelCreate"}

TsgType == RequestType \cup
           {"Data", "Keepalive", "CloseChannel", "Response", "Unknown10", "Unknown"}

SessionState == {"AwaitingHandshake", "AwaitingTunnelCreate", "AwaitingTunnelAuth",
                 "AwaitingChannelCreate", "DataTransfer", "Closed"}

\* GatewaySession.  None is the empty sequence; target is target_host with
\* target_port.
Session == [state : SessionState, tunnel_id : Nat, channel_id : Nat,
            client_name : Seq(Nat), target : Seq(Nat),
            next_tunnel_id : Nat, next_channel_id : Nat]

\* GatewaySession::new
NewSession == [state |-> "AwaitingHandshake", tunnel_id |-> 0, channel_id |-> 0,
               client_name |-> << >>, target |-> << >>,
               next_tunnel_id |-> 1, next_channel_id |-> 1]

\* Mutant: a ChannelCreate is taken before the tunnel is authorised.
Awaits_EarlyChannel(s, type) ==
    \/ s.state = "AwaitingHandshake"     /\ type = "HandshakeRequest"
    \/ s.state = "AwaitingTunnelCreate"  /\ type = "TunnelCreate"
    \/ s.state = "AwaitingTunnelAuth"    /\ type \in {"TunnelAuth", "ChannelCreate"}
    \/ s.state = "AwaitingChannelCreate" /\ type = "ChannelCreate"

\* The arms of process_message that answer: the request each state waits for.
Awaits(s, type) ==
    \/ s.state = "AwaitingHandshake"     /\ type = "HandshakeRequest"
    \/ s.state = "AwaitingTunnelCreate"  /\ type = "TunnelCreate"
    \/ s.state = "AwaitingTunnelAuth"    /\ type = "TunnelAuth"
    \/ s.state = "AwaitingChannelCreate" /\ type = "ChannelCreate"

is_data_transfer(s) == s.state = "DataTransfer"

\* What process_message returns: Ok(Some(response)), Ok(None) or Err.
Outcome(s, m) == IF Awaits(s, m.type) THEN "Some"
                 ELSE IF is_data_transfer(s) /\ m.type = "Data" THEN "None"
                 ELSE "Err"

\* The session after an answered request; Ok(None) and Err leave it alone.
Advance(s, m) ==
    CASE m.type = "HandshakeRequest" -> [s EXCEPT !.state = "AwaitingTunnelCreate"]
      [] m.type = "TunnelCreate" ->
            [s EXCEPT !.state = "AwaitingTunnelAuth",
                      !.tunnel_id = s.next_tunnel_id,
                      !.next_tunnel_id = s.next_tunnel_id + 1]
      [] m.type = "TunnelAuth" -> [s EXCEPT !.state = "AwaitingChannelCreate",
                                            !.client_name = m.data]
      [] m.type = "ChannelCreate" ->
            [s EXCEPT !.state = "DataTransfer",
                      !.target = m.data,
                      !.channel_id = s.next_channel_id,
                      !.next_channel_id = s.next_channel_id + 1]

\* The response of an answered request, with the id it carries.  The handshake
\* response repeats the client's version numbers.
Response(s, m) ==
    CASE m.type = "HandshakeRequest" -> Message("HandshakeResponse", m.data, 0)
      [] m.type = "TunnelCreate"     -> Message("TunnelResponse", <<s.next_tunnel_id>>, 0)
      [] m.type = "TunnelAuth"       -> Message("TunnelAuthResponse", << >>, 0)
      [] m.type = "ChannelCreate"    -> Message("ChannelResponse", <<s.next_channel_id>>, 0)

===============================================================================

----------------------------- MODULE MCWsSession -----------------------------
(*****************************************************************************)
(* Small instances of WsSession: the frames the client may send.             *)
(*****************************************************************************)
EXTENDS WsSession

Request(type, data) == Message(type, data, 0)

Handshake == {Request("HandshakeRequest", <<1, 0>>), Request("TunnelCreate", << >>),
              Request("TunnelAuth", <<5>>), Request("ChannelCreate", <<3389>>)}

\* One Data with its cbDataLength and one too short to hold it.
LongData == Request("Data", <<1, 0, 9>>)
ShortData == Request("Data", <<7>>)

\* Every type a client can send.
AllFrames == Handshake \cup {LongData, ShortData} \cup
    {Request(t, << >>) : t \in {"Keepalive", "CloseChannel", "Unknown", "Malformed",
                                "Other"}} \cup {Request("Unknown10", <<4>>)}

\* The frames of a relay with control traffic.
ControlFrames == Handshake \cup {LongData, Request("Keepalive", << >>),
                                 Request("CloseChannel", << >>), Request("Unknown10", <<4>>)}

===============================================================================

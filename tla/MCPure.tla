-------------------------------- MODULE MCPure --------------------------------
(* Pure with bytes of five bits and addresses of three and four bits.        *)
EXTENDS Pure

MCWidth == [v4 |-> 3, v6 |-> 4]
===============================================================================

---------------------------- MODULE MCRpchGateway -----------------------------
(*****************************************************************************)
(* Small instances of RpchGateway: the PDUs of the IN bodies.                *)
(*****************************************************************************)
EXTENDS RpchGateway

P(type, arg) == [type |-> type, arg |-> arg]

B1 == {P("ConnB1", c) : c \in Cookie}

\* All that an IN body may hold; opnum 9 stands for the opnums answered with S_OK alone.
AllPdus == B1 \cup {P("Request", n) : n \in {1, 2, 4, 9}} \cup
           {P(t, 0) : t \in {"Bind", "OtherBind", "Ignored", "Malformed"}}

===============================================================================

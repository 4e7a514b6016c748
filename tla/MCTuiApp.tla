------------------------------- MODULE MCTuiApp -------------------------------
(*****************************************************************************)
(* A small instance of TuiApp: two rules to begin with, of which one may be  *)
(* deleted elsewhere while the terminal still shows it.                      *)
(*****************************************************************************)
EXTENDS TuiApp

\* Priorities 5, 3 and one that does not parse; any host; a port or none.
TypedTexts == <<{"5", "x"}, {"*"}, {"3"}>>
Numbers == [t \in {"5", "3"} |-> IF t = "5" THEN 5 ELSE 3]

InitialUsers == <<[name |-> "u", enabled |-> TRUE]>>

InitialGroups == <<"g">>

InitialRules ==
    {[id |-> 1, priority |-> 3, target_host |-> "", target_port |-> 3389, action |-> "deny"],
     [id |-> 2, priority |-> 3, target_host |-> "", target_port |-> -1, action |-> "allow"]}

===============================================================================

--------------------------- MODULE MCAuthentication ---------------------------
(*****************************************************************************)
(* A small instance of Authentication: two connections from one host, so that *)
(* addresses differ in their port only and come back; one account, its name   *)
(* typed in three ways, and a name without an account.  The last letter of    *)
(* the account's name is not an ASCII one (z stands for its lower case, Z for *)
(* its upper case).                                                           *)
(*****************************************************************************)
EXTENDS Authentication, TLC

Symmetry == Permutations(Conn)

Addresses == {<<"nat", 1>>, <<"nat", 2>>}
AsciiFold == [n \in {"az", "Az", "AZ", "BOB"} |-> CASE n \in {"az", "Az"} -> "Az" [] OTHER -> n]
UpperCase == [n \in {"az", "Az", "AZ", "BOB"} |-> IF n = "BOB" THEN n ELSE "AZ"]
Passwords == [u \in {"az"} |-> "h1"]

===============================================================================

------------------------------ MODULE MCAccounts ------------------------------
(*****************************************************************************)
(* Small instances of Accounts: every request may be about every name, and   *)
(* all names are the same under NOCASE.                                      *)
(*****************************************************************************)
EXTENDS Accounts, TLC

SameLetters == [n \in Name |-> 1]

AllCreds == [username : Name, password : Password]

Symmetry == Permutations(Req) \cup Permutations(Name)

===============================================================================

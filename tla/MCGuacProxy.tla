------------------------------ MODULE MCGuacProxy -----------------------------
(*****************************************************************************)
(* A small instance of GuacProxy.                                            *)
(*****************************************************************************)
EXTENDS GuacProxy

===============================================================================

------------------------------- MODULE MCPortal -------------------------------
(*****************************************************************************)
(* A small instance of Portal.                                               *)
(*****************************************************************************)
EXTENDS Portal

===============================================================================

------------------------------- MODULE MCSession -------------------------------
(***************************************************************************)
(* Session for TLC: three credentials, so that one can be signed in with   *)
(* while a trade for an older one is out.                                  *)
(***************************************************************************)
EXTENDS Session

=============================================================================

------------------------------- MODULE MCHistory -------------------------------
(***************************************************************************)
(* History for TLC.  The accounts are as many as a history can be drawn    *)
(* under wrongly, the roots as many as flush.                              *)
(***************************************************************************)
EXTENDS History

=============================================================================

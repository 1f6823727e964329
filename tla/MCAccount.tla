------------------------------- MODULE MCAccount -------------------------------
(***************************************************************************)
(* Account for TLC: two accounts, this device's ids and another's.         *)
(***************************************************************************)
EXTENDS Account

=============================================================================

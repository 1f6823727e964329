-------------------------------- MODULE MCSync --------------------------------
(***************************************************************************)
(* Sync for TLC: three items in two packs, so that a batch can hold an     *)
(* answer to a pack that is gone beside one to a pack that is not.         *)
(***************************************************************************)
EXTENDS Sync, TLC

MCItems == 1..3
MCPackOf == (1 :> "old") @@ (2 :> "old") @@ (3 :> "new")

=============================================================================

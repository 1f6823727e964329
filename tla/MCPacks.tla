-------------------------------- MODULE MCPacks --------------------------------
(***************************************************************************)
(* Packs for TLC: two accounts on one device, two overlapping asks of the  *)
(* home and one fetch of the map.  Two ids are enough: one may be in play  *)
(* or on its way while the other is issued.                                *)
(***************************************************************************)
EXTENDS Packs

=============================================================================

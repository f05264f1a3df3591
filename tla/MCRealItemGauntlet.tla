------------------------- MODULE MCRealItemGauntlet -------------------------
(* RealItemGauntlet on small instances; the .cfg files give the constants. *)
EXTENDS RealItemGauntlet
=============================================================================

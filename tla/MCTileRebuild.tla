--------------------------- MODULE MCTileRebuild ---------------------------
(* Model values and symmetry for TileRebuild. *)
EXTENDS TileRebuild, TLC

Symmetry == Permutations(Requests)
=============================================================================

----------------------------- MODULE MCTileStore -----------------------------
(* TileStore on its own, for model checking. *)
EXTENDS TileStore
=============================================================================

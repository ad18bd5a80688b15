------------------------------ MODULE MCMapClient ------------------------------
(* MapClient for model checking. *)
EXTENDS MapClient
=============================================================================

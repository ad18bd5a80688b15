------------------------------ MODULE MCWayCrud ------------------------------
(* WayCrud for model checking. *)
EXTENDS WayCrud
=============================================================================

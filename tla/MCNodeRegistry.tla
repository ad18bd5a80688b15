---------------------------- MODULE MCNodeRegistry ----------------------------
(* A small network for NodeRegistry: a way ab with an OBJECTID and a way bc       *)
(* without one, with the coordinate b in common.                              *)
EXTENDS NodeRegistry, TLC

CONSTANTS a, b, c, ab, bc, oid

SmallCoords == {a, b, c}
SmallFeatures == {ab, bc}
SmallCoordsOf == (ab :> {a, b}) @@ (bc :> {b, c})
SmallOidOf == (ab :> oid) @@ (bc :> NoOid)
=============================================================================

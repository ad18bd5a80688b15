----------------------------- MODULE MCBootstrap -----------------------------
(* Two chunks over two areas: losing c1 loses an area, losing c2 none.      *)
EXTENDS Bootstrap, TLC

CONSTANTS c1, c2, a1, a2

MCSpans == (c1 :> {a1, a2}) @@ (c2 :> {a2})
=============================================================================

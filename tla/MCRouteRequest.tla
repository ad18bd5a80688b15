---------------------------- MODULE MCRouteRequest ----------------------------
(* RouteRequest for model checking: one response of each class, and requests    *)
(* that share both rows or one.                                              *)
EXTENDS RouteRequest, TLC

CONSTANTS a1, a2, g1, g2, u1

ResponseOfEachClass ==
    {[ok |-> TRUE, length |-> 1, time |-> 1],
     [ok |-> TRUE, length |-> 0, time |-> 1],
     [ok |-> FALSE, code |-> NoNumber, says |-> {"no suitable", "destination"}],
     [ok |-> FALSE, code |-> NoNumber, says |-> {}],
     Unreachable}

Between(o, d, u) == [origin |-> o, dest |-> d, user |-> u]
Itineraries == {(a1 :> Between(g1, g2, u1) @@ a2 :> Between(g1, g2, u1)),
                (a1 :> Between(g1, g1, u1) @@ a2 :> Between(g2, g1, NoUser))}
=============================================================================

------------------------------- MODULE MCGeohash -------------------------------
(* Geohash for model checking: all cells of one letter; of two and of three      *)
(* letters, those at the rims and about the middle of either axis.              *)
EXTENDS Geohash

Around(n) == {0, 1, n \div 2 - 1, n \div 2, n - 2, n - 1}
SomeRows == [p \in Precisions |-> IF p = 1 THEN 0..3 ELSE Around(Pow2[LatBits(p)])]
SomeColumns == [p \in Precisions |-> IF p = 1 THEN 0..7 ELSE Around(Pow2[LngBits(p)])]
=============================================================================

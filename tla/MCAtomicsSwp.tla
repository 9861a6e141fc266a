---------------------------- MODULE MCAtomicsSwp ----------------------------
(* Instances of AtomicsSwp: which contexts there are and what they issue. *)
EXTENDS AtomicsSwp

TwoLevels == 0..1
ThreeLevels == 0..2

Op(k, v, e) == [kind |-> k, val |-> v, expected |-> e]

Fetches == {Op("add", 1, 0), Op("sub", 1, 0)}
Exchanges == {Op("exchange", v, 0) : v \in 1..3} \union {Op("load", 0, 0), Op("store", 4, 0)}
Swaps == {Op("cas", v, e) : v \in 1..3, e \in 0..2}
AllOps == Fetches \union Exchanges \union Swaps
=============================================================================

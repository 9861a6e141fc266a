--------------------------- MODULE MCAtomicsLdrex ---------------------------
(* Three nesting levels issuing reference-count operations of unequal size. *)
EXTENDS AtomicsLdrex

McCtx == 0..2
McOps == {[kind |-> k, val |-> v, expected |-> 0] : k \in {"add", "sub"}, v \in 1..2}
=============================================================================

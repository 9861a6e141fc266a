---------------------------- MODULE MCRoutines ----------------------------
(* Registers of four bits, tails of up to five characters for two arguments, *)
(* five characters written, five bytes of memory, integers of three digits.  *)
EXTENDS Routines

McPower == [k \in 0..(2 * W) |-> 2^k]
McTails == UNION {[1..k -> Kinds] : k \in 0..(ArgBuf - 1)}
McTens == [k \in 0..BufSize |-> 10^k]
=============================================================================

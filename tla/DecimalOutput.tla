--------------------------- MODULE DecimalOutput ---------------------------
(***************************************************************************)
(* mod_write_int: the digits of an integer, from the last, into a buffer   *)
(* of just the longest number's size on the SVC stack.                     *)
(***************************************************************************)
EXTENDS Integers

CONSTANTS
  MaxInt,     \* the greatest integer
  BufSize,    \* bytes in buf: 12 for 32 bits
  Tens        \* the powers of ten up to BufSize

ASSUME DecimalAssumption ==
  /\ MaxInt \in Nat /\ BufSize \in Nat /\ BufSize > 2
  /\ Tens \in [0..BufSize -> Nat \ {0}]
  /\ Tens[0] = 1 /\ \A k \in 0..(BufSize - 1) : Tens[k + 1] = 10 * Tens[k]
  /\ MaxInt + 1 < Tens[BufSize - 2]

VARIABLES
  decPc,    \* "idle", "called", "digits", "signed" or "returned"
  v,        \* the integer
  u,        \* what is left of its magnitude
  i,        \* the index of the first character
  digits    \* the digits in buf, by index

decVars == <<decPc, v, u, i, digits>>

DecIdle == decPc = "idle" /\ v = 0 /\ u = 0 /\ i = 0 /\ digits = << >>

NulChar == -1
Minus == -2
Newline == -3

DecInit ==
  /\ decPc = "called" /\ v \in -(MaxInt + 1)..MaxInt
  /\ u = 0 /\ i = BufSize /\ digits = [k \in 0..(BufSize - 1) |-> 0]

\* Mistakes: a while for the do, and a newline squeezed into the buffer.
BeginWhile ==
  /\ decPc = "called" /\ decPc' = IF v = 0 THEN "signed" ELSE "digits"
  /\ u' = IF v < 0 THEN -v ELSE v
  /\ i' = i - 1 /\ digits' = [digits EXCEPT ![i'] = NulChar]
  /\ UNCHANGED v

BeginWithNewline ==
  /\ decPc = "called" /\ decPc' = "digits"
  /\ u' = IF v < 0 THEN -v ELSE v
  /\ i' = i - 2 /\ digits' = [digits EXCEPT ![i - 1] = NulChar, ![i'] = Newline]
  /\ UNCHANGED v

\* (unsigned)(-v) is the magnitude.  C leaves -v of the most negative integer
\* undefined; the subtraction from zero that is compiled wraps, and the
\* conversion makes that the magnitude, too.
Begin ==
  /\ decPc = "called" /\ decPc' = "digits"
  /\ u' = IF v < 0 THEN -v ELSE v
  /\ i' = i - 1 /\ digits' = [digits EXCEPT ![i'] = NulChar]
  /\ UNCHANGED v

\* do { } while (u): zero has a digit, too.
Digit ==
  /\ decPc = "digits"
  /\ i' = i - 1 /\ digits' = [digits EXCEPT ![i'] = u % 10]
  /\ u' = u \div 10
  /\ decPc' = IF u' = 0 THEN "signed" ELSE "digits"
  /\ UNCHANGED v

Sign ==
  /\ decPc = "signed" /\ decPc' = "returned"
  /\ i' = IF v < 0 THEN i - 1 ELSE i
  /\ digits' = IF v < 0 THEN [digits EXCEPT ![i'] = Minus] ELSE digits
  /\ UNCHANGED <<v, u>>

DecNext == Begin \/ Digit \/ Sign

-----------------------------------------------------------------------------
\* The number never runs out of the buffer's front, onto the SVC stack: the
\* longest one, with its sign and terminator, takes all of it.
InsideBuf ==
  decPc # "idle" =>
    /\ i \in 0..BufSize
    /\ decPc = "called" => i = BufSize
    /\ decPc = "digits" => i >= 2 /\ u \in Nat /\ u < Tens[i - 1]
    /\ decPc = "signed" => i >= 1

\* The characters handed to OS_Write0 are v's: a minus if it is negative, then
\* its digits, the most significant first and not zero, each the one its place
\* has in v and no place left out, then the terminator.
First == IF v < 0 THEN i + 1 ELSE i
Size == IF v < 0 THEN -v ELSE v
NumberWritten ==
  decPc = "returned" =>
    /\ digits[BufSize - 1] = NulChar
    /\ (v < 0) => digits[i] = Minus
    /\ First <= BufSize - 2
    /\ digits[First] = 0 => v = 0 /\ First = BufSize - 2
    /\ \A k \in First..(BufSize - 2) : digits[k] = (Size \div Tens[BufSize - 2 - k]) % 10
    /\ Size < Tens[BufSize - 1 - First]
=============================================================================

------------------------------ MODULE Division ------------------------------
(***************************************************************************)
(* One call of a division helper of rostrt/aeabi.s: the restoring loops,   *)
(* one action per turn, and the sign handling around them.                 *)
(*                                                                         *)
(* The width of a register is a parameter: uidiv_core works on one         *)
(* register, uldiv_core on a pair of them.  Values are unsigned, as the    *)
(* registers hold them; a signed value is negative when its top bit is set.*)
(***************************************************************************)
EXTENDS Integers

CONSTANTS
  W,          \* bits in a register
  Power,      \* Power[k] is 2^k, up to the width of a pair
  Helpers     \* the helpers called

WordHelpers == {"uidivmod", "idiv", "idivmod"}   \* uidiv is uidivmod
PairHelpers == {"uldivmod", "ldivmod"}
Signed == {"idiv", "idivmod", "ldivmod"}

ASSUME DivisionAssumption ==
  /\ W \in Nat \ {0}
  /\ Power \in [0..(2 * W) -> Nat \ {0}]
  /\ Power[0] = 1 /\ Power[1] = 2
  /\ \A j, k \in 0..(2 * W) : j + k <= 2 * W => Power[j + k] = Power[j] * Power[k]
  /\ Helpers \subseteq WordHelpers \cup PairHelpers

Width(h) == IF h \in PairHelpers THEN 2 * W ELSE W

VARIABLES
  divPc,      \* "idle", "called", "loop" or "returned"
  helper,     \* the helper called
  num, den,   \* its operands
  n, d,       \* the operand registers
  rem, quot,  \* the loop's registers
  left,       \* turns left
  qneg, rneg  \* the signs kept for after the loop

divVars == <<divPc, helper, num, den, n, d, rem, quot, left, qneg, rneg>>

Modulus == Power[Width(helper)]
Negative(v, width) == v >= Power[width - 1]

\* What a register keeps of a sum or difference: the carry is lost.
Wrapped(v) ==
  IF v >= Modulus THEN v - Modulus ELSE IF v < 0 THEN v + Modulus ELSE v

Lo(v) == v % Power[W]
Hi(v) == v \div Power[W]

\* rsb; for a pair rsb and rsc, which takes no borrow from the low word: the
\* rsb sets no flags and the tst before it leaves the carry set.
Negated(v) ==
  IF helper \in PairHelpers
    THEN ((Power[W] - Hi(v)) % Power[W]) * Power[W] + ((Power[W] - Lo(v)) % Power[W])
    ELSE Wrapped(-v)

DivIdle ==
  /\ divPc = "idle" /\ helper = "idiv"
  /\ num = 0 /\ den = 0 /\ n = 0 /\ d = 0 /\ rem = 0 /\ quot = 0 /\ left = 0
  /\ qneg = FALSE /\ rneg = FALSE

DivInit ==
  /\ divPc = "called"
  /\ helper \in Helpers
  /\ num \in 0..(Modulus - 1) /\ den \in 0..(Modulus - 1)
  /\ n = num /\ d = den
  /\ rem = 0 /\ quot = 0 /\ left = 0
  /\ qneg = FALSE /\ rneg = FALSE

\* The signs of quotient and remainder.  __aeabi_ldivmod takes them from the
\* low words.
Signs(a, b) ==
  IF helper = "ldivmod" THEN <<Negative(Lo(a), W) # Negative(Lo(b), W),
                               Negative(Lo(a), W)>>
  ELSE <<Negative(a, W) # Negative(b, W), Negative(a, W)>>

Magnitude(v) ==
  IF helper \in Signed /\ Negative(v, Width(helper)) THEN Negated(v) ELSE v

\* Up to the loop: signs aside, operands made positive, counters set.
Prepare ==
  /\ divPc = "called"
  /\ divPc' = "loop"
  /\ IF helper \in Signed THEN qneg' = Signs(num, den)[1] /\ rneg' = Signs(num, den)[2]
                          ELSE UNCHANGED <<qneg, rneg>>
  /\ n' = Magnitude(n) /\ d' = Magnitude(d)
  /\ left' = Width(helper)
  /\ UNCHANGED <<helper, num, den, rem, quot>>

\* cmp r2, r1 ; blo.  Mistake: bls.
AtLeastStrict(r) == r > d

\* The pair is compared by bhi 2f (skip), blo 3f (subtract), bhi 2f (skip).
AtLeast(r) ==
  IF helper \in WordHelpers THEN r >= d
  ELSE Hi(r) < Hi(d) \/ (Hi(r) = Hi(d) /\ Lo(r) <= Lo(d))

\* One turn: the top bit of n moves into the remainder.
Turn ==
  /\ divPc = "loop" /\ left > 0
  /\ LET bit == IF Negative(n, Width(helper)) THEN 1 ELSE 0
         r   == Wrapped(2 * rem + bit)
     IN  IF AtLeast(r) THEN rem' = Wrapped(r - d) /\ quot' = Wrapped(2 * quot) + 1
                       ELSE rem' = r /\ quot' = Wrapped(2 * quot)
  /\ n' = Wrapped(2 * n)
  /\ left' = left - 1
  /\ UNCHANGED <<divPc, helper, num, den, d, qneg, rneg>>

\* The signs put back.  __aeabi_idiv leaves the remainder as it is.
Answer ==
  /\ divPc = "loop" /\ left = 0
  /\ divPc' = "returned"
  /\ quot' = IF qneg THEN Negated(quot) ELSE quot
  /\ rem' = IF rneg /\ helper # "idiv" THEN Negated(rem) ELSE rem
  /\ UNCHANGED <<helper, num, den, n, d, left, qneg, rneg>>

DivNext == Prepare \/ Turn \/ Answer

DivSpec == DivInit /\ [][DivNext]_divVars

-----------------------------------------------------------------------------
\* Division truncates: the magnitudes divide as in school, the quotient is
\* negative when the operands' signs differ and the remainder has the sign of
\* the dividend (aeabi.s: "fix quotient sign", "remainder takes dividend's
\* sign").  The most negative number by minus one wraps.
QuotientAndRemainder ==
  divPc = "returned" /\ den # 0 =>
    LET negative(v) == helper \in Signed /\ Negative(v, Width(helper))
        size(v)     == IF negative(v) THEN Wrapped(-v) ELSE v
    IN  \E q, r \in 0..(Modulus - 1) :
          /\ size(num) = q * size(den) + r /\ r < size(den)
          /\ quot = IF negative(num) # negative(den) THEN Wrapped(-q) ELSE q
          /\ helper # "idiv" =>
               rem = IF negative(num) THEN Wrapped(-r) ELSE r

\* In the loop the bits taken so far are divided: the others still stand at
\* the top of n, and the remainder never needs more room than a register.
LoopInvariant ==
  /\ left \in 0..W /\ d = Magnitude(den)
  /\ rem \in Nat /\ quot \in Nat
  /\ den # 0 => rem < d
  /\ \E low \in 0..(Power[left] - 1) :
       /\ n = low * Power[W - left]
       /\ den # 0 => Magnitude(num) = (quot * d + rem) * Power[left] + low
  /\ qneg = (helper \in Signed /\ Negative(num, W) # Negative(den, W))
  /\ rneg = (helper \in Signed /\ Negative(num, W))

DivInv ==
  /\ divPc \in {"idle", "called", "loop", "returned"}
  /\ divPc # "idle" => helper \in WordHelpers
  /\ divPc = "idle" => helper = "idiv"
  /\ num \in 0..(Modulus - 1) /\ den \in 0..(Modulus - 1)
  /\ divPc = "called" => /\ n = num /\ d = den /\ rem = 0 /\ quot = 0
                         /\ qneg = FALSE /\ rneg = FALSE
  /\ divPc = "loop" => LoopInvariant
  /\ QuotientAndRemainder
=============================================================================

--------------------------- MODULE RoutinesProofs ---------------------------
(* The routines at any size: what holds in every call of each of them.       *)
EXTENDS Routines, TLAPS, FiniteSetTheorems, SequenceTheorems

-----------------------------------------------------------------------------
(***************************************************************************)
(* The restoring loop on one register divides, at any width: LoopInvariant *)
(* is kept by every turn, and the answer follows from it at the last.      *)
(***************************************************************************)
LEMMA AtLeastOneTimes ==
  ASSUME NEW a \in Nat, NEW b \in Nat, b >= 1 PROVE a <= a * b
  OBVIOUS

\* One bit moves from what is left of the dividend into the remainder.
LEMMA TurnOfDividend ==
  ASSUME NEW N \in Nat, NEW M \in Nat, N < M, NEW P \in Nat, P >= 1,
         NEW q \in Nat, NEW r \in Nat, NEW e \in Nat, e >= 1, NEW low \in Nat, low < 2 * P,
         N = (q * e + r) * (2 * P) + low,
         NEW bit \in Nat, bit = (IF low >= P THEN 1 ELSE 0)
  PROVE  /\ low - bit * P \in 0..(P - 1)
         /\ N = ((2 * q) * e + (2 * r + bit)) * P + (low - bit * P)
         /\ 2 * r + bit < M /\ 2 * q < M
  <1>1. low - bit * P \in 0..(P - 1)
    OBVIOUS
  <1>2. N = ((2 * q) * e + (2 * r + bit)) * P + (low - bit * P)
    OBVIOUS
  <1> DEFINE x == (2 * q) * e + (2 * r + bit)
  <1>3. x \in Nat /\ x * P <= N
    BY <1>1, <1>2
  <1>4. x <= x * P
    BY <1>3, AtLeastOneTimes
  <1>5. 2 * q <= (2 * q) * e
    BY AtLeastOneTimes
  <1>6. x <= N
    BY <1>3, <1>4
  <1>7. (2 * q) * e \in Nat
    OBVIOUS
  <1>8. QED
    BY <1>1, <1>2, <1>5, <1>6, <1>7
\* The word shifted left loses the bit that moved.
LEMMA TurnOfWord ==
  ASSUME NEW P \in Nat, P >= 1, NEW Q \in Nat, Q >= 1, NEW low \in Nat, low < 2 * P,
         NEW bit \in Nat, bit = (IF low >= P THEN 1 ELSE 0)
  PROVE  /\ low * Q >= P * Q <=> low >= P
         /\ low * Q < 2 * P * Q
         /\ 2 * (low * Q) - bit * (2 * P * Q) = (low - bit * P) * (2 * Q)
         /\ 2 * (low * Q) >= 2 * P * Q <=> low >= P
  <1>1. CASE low >= P
    <2>1. low - P \in Nat /\ (low - P) * Q \in Nat /\ (low - P) * Q = low * Q - P * Q
      BY <1>1
    <2>2. 2 * P - low \in Nat /\ 2 * P - low >= 1 /\ Q <= Q * (2 * P - low)
      BY AtLeastOneTimes
    <2>3. QED
      BY <1>1, <2>1, <2>2
  <1>2. CASE low < P
    <2>1. P - low \in Nat /\ P - low >= 1 /\ Q <= Q * (P - low)
      BY <1>2, AtLeastOneTimes
    <2>2. low * Q < P * Q
      BY <2>1
    <2>3. QED
      BY <1>2, <2>2
  <1>3. QED
    BY <1>1, <1>2

-----------------------------------------------------------------------------
WordOnly == Helpers \subseteq WordHelpers

LEMMA Registers ==
  /\ W \in Nat \ {0} /\ Power[W] \in Nat \ {0} /\ Power[W - 1] \in Nat \ {0}
  /\ Power[W] = 2 * Power[W - 1]
  /\ Power[0] = 1
  <1>1. 0 \in 0..(2 * W) /\ 1 \in 0..(2 * W) /\ W \in 0..(2 * W) /\ W - 1 \in 0..(2 * W)
    BY DivisionAssumption
  <1>2. \A k \in 0..(2 * W) : Power[k] \in Nat \ {0}
    BY DivisionAssumption
  <1>3. Power[1 + (W - 1)] = Power[1] * Power[W - 1]
    BY <1>1, DivisionAssumption
  <1>4. 1 + (W - 1) = W
    BY DivisionAssumption
  <1>5. Power[1] = 2 /\ Power[0] = 1
    BY DivisionAssumption
  <1>6. QED
    BY <1>1, <1>2, <1>3, <1>4, <1>5, DivisionAssumption

\* At a turn of the loop: the powers the dividend is split by.
LEMMA TurnPowers ==
  ASSUME NEW k \in 1..W
  PROVE  /\ Power[k - 1] \in Nat \ {0} /\ Power[W - k] \in Nat \ {0}
         /\ Power[k] = 2 * Power[k - 1]
         /\ Power[W - (k - 1)] = 2 * Power[W - k]
         /\ Power[W - 1] = Power[k - 1] * Power[W - k]
         /\ Power[W] = 2 * Power[k - 1] * Power[W - k]
  <1>1. /\ k - 1 \in 0..(2 * W) /\ W - k \in 0..(2 * W) /\ 1 \in 0..(2 * W)
        /\ 1 + (k - 1) = k /\ 1 + (W - k) = W - (k - 1) /\ (k - 1) + (W - k) = W - 1
        /\ 1 + (k - 1) <= 2 * W /\ 1 + (W - k) <= 2 * W /\ (k - 1) + (W - k) <= 2 * W
    BY DivisionAssumption
  <1>2. Power[1] = 2 /\ \A j \in 0..(2 * W) : Power[j] \in Nat \ {0}
    BY DivisionAssumption
  <1>3. Power[1 + (k - 1)] = Power[1] * Power[k - 1]
    BY <1>1, DivisionAssumption
  <1>4. Power[1 + (W - k)] = Power[1] * Power[W - k]
    BY <1>1, DivisionAssumption
  <1>5. Power[(k - 1) + (W - k)] = Power[k - 1] * Power[W - k]
    BY <1>1, DivisionAssumption
  <1>6. QED
    BY <1>1, <1>2, <1>3, <1>4, <1>5, Registers

LEMMA WordWidth == helper \in WordHelpers => Width(helper) = W /\ Modulus = Power[W]
  BY DEF WordHelpers, PairHelpers, Width, Modulus

LEMMA WordSigns ==
  ASSUME helper \in WordHelpers, NEW x
  PROVE  /\ Negated(x) = Wrapped(-x)
         /\ Magnitude(x) = IF helper \in Signed /\ Negative(x, W) THEN Wrapped(-x) ELSE x
  BY WordWidth DEF WordHelpers, PairHelpers, Negated, Magnitude

LEMMA Magnitudes ==
  ASSUME helper \in WordHelpers, NEW x \in 0..(Modulus - 1)
  PROVE  /\ Magnitude(x) \in 0..(Modulus - 1)
         /\ Magnitude(x) = 0 <=> x = 0
  BY WordWidth, WordSigns, Registers DEF Negative, Wrapped

LEMMA DivInvInit == WordOnly /\ (DivIdle \/ DivInit) => DivInv
  <1>1. ASSUME DivIdle PROVE DivInv
    BY <1>1, WordWidth, Registers
    DEF DivIdle, DivInv, QuotientAndRemainder, WordHelpers
  <1>2. ASSUME WordOnly, DivInit PROVE DivInv
    BY <1>2 DEF DivInit, DivInv, QuotientAndRemainder, WordOnly
  <1>3. QED
    BY <1>1, <1>2

LEMMA DivInvPrepare == ASSUME DivInv, Prepare PROVE DivInv'
  <1>1. /\ helper \in WordHelpers /\ helper' = helper /\ Width(helper) = W
        /\ Modulus = Power[W] /\ Modulus' = Modulus /\ num' = num /\ den' = den
        /\ num \in 0..(Modulus - 1) /\ den \in 0..(Modulus - 1)
        /\ n = num /\ d = den /\ rem = 0 /\ quot = 0 /\ qneg = FALSE /\ rneg = FALSE
    BY WordWidth DEF DivInv, Prepare, Modulus
  <1>2. /\ Magnitude(num)' = Magnitude(num) /\ Magnitude(den)' = Magnitude(den)
    BY <1>1 DEF Magnitude, Negated, Wrapped, Negative, Lo, Hi
  <1>3. helper # "ldivmod"
    BY <1>1 DEF WordHelpers
  <1>4. /\ qneg' = (helper \in Signed /\ Negative(num, W) # Negative(den, W))
        /\ rneg' = (helper \in Signed /\ Negative(num, W))
    <2>1. CASE helper \in Signed
      <3>1. Signs(num, den) = <<Negative(num, W) # Negative(den, W), Negative(num, W)>>
        BY <1>1, <1>3 DEF Signs
      <3>2. qneg' = Signs(num, den)[1] /\ rneg' = Signs(num, den)[2]
        BY <2>1 DEF Prepare
      <3>3. /\ Signs(num, den)[1] = (Negative(num, W) # Negative(den, W))
            /\ Signs(num, den)[2] = Negative(num, W)
        BY <3>1
      <3> DEFINE X == Negative(num, W) # Negative(den, W)
                 Y == Negative(num, W)
      <3>4. qneg' = X /\ rneg' = Y
        BY <3>2, <3>3
      <3>5. X \in BOOLEAN /\ Y \in BOOLEAN
        BY DEF Negative
      <3> HIDE DEF X, Y
      <3>6. X = (helper \in Signed /\ X) /\ Y = (helper \in Signed /\ Y)
        BY <2>1, <3>5, Zenon
      <3>7. QED
        BY <3>4, <3>6, Zenon DEF X, Y
    <2>2. CASE helper \notin Signed
      <3>1. qneg' = FALSE /\ rneg' = FALSE
        BY <1>1, <2>2 DEF Prepare
      <3>2. QED
        BY <2>2, <3>1, Zenon
    <2>3. QED
      BY <2>1, <2>2
  <1>5. W - W = 0 /\ W \in 0..W
    BY Registers
  <1>6. /\ Magnitude(num) \in 0..(Power[W] - 1) /\ Magnitude(den) \in 0..(Power[W] - 1)
        /\ den # 0 => Magnitude(den) > 0
    BY <1>1, Magnitudes
  <1>7. LoopInvariant'
    <2> DEFINE low == Magnitude(num)
    <2>1. /\ left' = W /\ d' = Magnitude(den) /\ n' = low /\ rem' = 0 /\ quot' = 0
      BY <1>1 DEF Prepare
    <2>2. low = low * Power[W - W] /\ (0 * d' + 0) * Power[W] + low = low
      BY <1>5, <1>6, <2>1, Registers
    <2>3. \E l \in 0..(Power[left'] - 1) :
            /\ n' = l * Power[W - left']
            /\ den' # 0 => Magnitude(num)' = (quot' * d' + rem') * Power[left'] + l
      BY <1>1, <1>2, <1>6, <2>1, <2>2
    <2>4. QED
      BY <1>1, <1>2, <1>4, <1>5, <1>6, <2>1, <2>3 DEF LoopInvariant, Negative
  <1>8. QED
    BY <1>1, <1>7 DEF DivInv, Prepare, QuotientAndRemainder, Modulus

LEMMA DivInvTurn == ASSUME DivInv, Turn PROVE DivInv'
  <1>1. /\ helper \in WordHelpers /\ helper' = helper /\ Width(helper) = W
        /\ Modulus = Power[W] /\ Modulus' = Modulus /\ num' = num /\ den' = den
        /\ num \in 0..(Modulus - 1) /\ den \in 0..(Modulus - 1)
        /\ divPc = "loop" /\ divPc' = "loop" /\ LoopInvariant
        /\ d' = d /\ qneg' = qneg /\ rneg' = rneg
    BY WordWidth DEF DivInv, Turn, Modulus
  <1>2. /\ Magnitude(num)' = Magnitude(num) /\ Magnitude(den)' = Magnitude(den)
    BY <1>1 DEF Magnitude, Negated, Wrapped, Negative, Lo, Hi
  <1>3. left \in 1..W /\ left' = left - 1 /\ left' \in 0..W
    BY <1>1, Registers DEF Turn, LoopInvariant
  <1> DEFINE P == Power[left - 1]
             Q == Power[W - left]
  <1>4. /\ P \in Nat \ {0} /\ Q \in Nat \ {0} /\ Power[left] = 2 * P
        /\ Power[W - left'] = 2 * Q /\ Power[W - 1] = P * Q /\ Modulus = 2 * P * Q
        /\ Power[left'] = P
    BY <1>1, <1>3, TurnPowers
  <1>5. PICK low \in 0..(2 * P - 1) :
          /\ n = low * Q
          /\ den # 0 => Magnitude(num) = (quot * d + rem) * (2 * P) + low
    BY <1>1, <1>3, <1>4 DEF LoopInvariant
  <1> DEFINE bit == IF low >= P THEN 1 ELSE 0
             rest == low - bit * P
  <1>6. /\ bit = IF Negative(n, W) THEN 1 ELSE 0
        /\ Wrapped(2 * n) = rest * (2 * Q)
        /\ rest \in 0..(P - 1)
    <2>1. /\ low * Q >= P * Q <=> low >= P
          /\ low * Q < 2 * P * Q
          /\ 2 * (low * Q) - bit * (2 * P * Q) = (low - bit * P) * (2 * Q)
          /\ 2 * (low * Q) >= 2 * P * Q <=> low >= P
      BY <1>4, <1>5, TurnOfWord
    <2>2. low * Q \in Nat /\ 2 * P * Q \in Nat
      BY <1>4, <1>5
    <2>3. QED
      BY <1>4, <1>5, <2>1, <2>2 DEF Negative, Wrapped
  <1> DEFINE r == Wrapped(2 * rem + bit)
  <1>7. /\ IF r >= d THEN rem' = Wrapped(r - d) /\ quot' = Wrapped(2 * quot) + 1
                     ELSE rem' = r /\ quot' = Wrapped(2 * quot)
        /\ n' = rest * (2 * Q)
    BY <1>1, <1>6 DEF Turn, AtLeast
  <1>8. /\ rem \in Nat /\ quot \in Nat /\ d \in 0..(Modulus - 1)
        /\ den # 0 => d >= 1 /\ rem < d
        /\ Magnitude(num) \in 0..(Modulus - 1)
        /\ d = Magnitude(den)
    BY <1>1, Magnitudes DEF LoopInvariant
  <1>9. /\ rem' \in Nat /\ quot' \in Nat
        /\ den # 0 => /\ rem' < d
                      /\ Magnitude(num) = (quot' * d + rem') * P + rest
    <2>1. \A x \in Nat : Wrapped(x) \in Nat
      BY <1>4, <1>8 DEF Wrapped
    <2>2. CASE den = 0
      <3>1. d = 0
        BY <1>1, <1>8, <2>2, Magnitudes
      <3>2. 2 * rem + bit \in Nat /\ 2 * quot \in Nat
        BY <1>8
      <3>3. r \in Nat /\ r - d = r
        BY <2>1, <3>1, <3>2
      <3>4. Wrapped(r - d) \in Nat /\ Wrapped(2 * quot) \in Nat
        BY <2>1, <3>2, <3>3
      <3>5. QED
        BY <1>7, <2>2, <3>3, <3>4
    <2>3. CASE den # 0
      <3>1. /\ Magnitude(num) = ((2 * quot) * d + (2 * rem + bit)) * P + rest
            /\ 2 * rem + bit < Modulus /\ 2 * quot < Modulus
        <4>1. Magnitude(num) \in Nat /\ Modulus \in Nat /\ Magnitude(num) < Modulus
          BY <1>1, <1>8, Registers
        <4>2. d \in Nat /\ d >= 1 /\ P \in Nat /\ P >= 1 /\ low \in Nat /\ low < 2 * P
          BY <1>4, <1>5, <1>8, <2>3
        <4>3. bit \in Nat /\ bit = IF low >= P THEN 1 ELSE 0
          OBVIOUS
        <4>4. Magnitude(num) = (quot * d + rem) * (2 * P) + low
          BY <1>5, <2>3
        <4>5. rem \in Nat /\ quot \in Nat
          BY <1>8
        <4> HIDE DEF P, Q, bit
        <4>6. /\ Magnitude(num) = ((2 * quot) * d + (2 * rem + bit)) * P + (low - bit * P)
              /\ 2 * rem + bit < Modulus /\ 2 * quot < Modulus
          BY <4>1, <4>2, <4>3, <4>4, <4>5, TurnOfDividend
        <4>7. QED
          BY <4>6
      <3>2. r = 2 * rem + bit /\ Wrapped(2 * quot) = 2 * quot
        <4>1. bit \in Nat /\ Modulus \in Nat /\ rem \in Nat /\ quot \in Nat
          BY <1>1, <1>8, Registers
        <4> HIDE DEF bit
        <4>2. QED
          BY <3>1, <4>1 DEF Wrapped
      <3>3. r <= 2 * d - 1 /\ r \in Nat
        BY <1>8, <2>3, <3>2
      <3>4. CASE r >= d
        <4>1. Wrapped(r - d) = r - d
          <5>1. r - d \in Nat /\ r - d < Modulus /\ Modulus \in Nat
            BY <1>1, <1>8, <3>3, <3>4, Registers
          <5> HIDE DEF r
          <5>2. QED
            BY <5>1 DEF Wrapped
        <4>2. rem' = r - d /\ quot' = 2 * quot + 1
          BY <1>7, <3>2, <3>4, <4>1
        <4> HIDE DEF bit, P, r, rest
        <4>3. (2 * quot) * d + r = (2 * quot + 1) * d + (r - d)
          BY <1>8, <3>3
        <4>4. QED
          BY <1>8, <3>1, <3>2, <3>3, <3>4, <4>2, <4>3
      <3>5. CASE r < d
        <4>1. ~(r >= d)
          BY <1>8, <3>3, <3>5
        <4>2. rem' = r /\ quot' = 2 * quot
          BY <1>7, <3>2, <4>1
        <4>3. QED
          BY <1>8, <3>1, <3>2, <3>3, <3>5, <4>2
      <3>6. QED
        BY <1>8, <3>3, <3>4, <3>5
    <2>4. QED
      BY <2>2, <2>3
  <1>10. LoopInvariant'
    <2>1. \E l \in 0..(Power[left'] - 1) :
            /\ n' = l * Power[W - left']
            /\ den' # 0 => Magnitude(num)' = (quot' * d' + rem') * Power[left'] + l
      BY <1>1, <1>2, <1>4, <1>6, <1>7, <1>9
    <2>2. /\ qneg' = (helper' \in Signed /\ Negative(num', W) # Negative(den', W))
          /\ rneg' = (helper' \in Signed /\ Negative(num', W))
      BY <1>1, Zenon DEF LoopInvariant, Negative
    <2>3. QED
      BY <1>1, <1>2, <1>3, <1>8, <1>9, <2>1, <2>2 DEF LoopInvariant, Negative
  <1>11. QED
    BY <1>1, <1>10 DEF DivInv, QuotientAndRemainder, Modulus

LEMMA DivInvAnswer == ASSUME DivInv, Answer PROVE DivInv'
  <1>1. /\ helper \in WordHelpers /\ helper' = helper /\ Width(helper) = W
        /\ Modulus = Power[W] /\ Modulus' = Modulus /\ num' = num /\ den' = den
        /\ num \in 0..(Modulus - 1) /\ den \in 0..(Modulus - 1)
        /\ divPc' = "returned" /\ LoopInvariant /\ left = 0
        /\ Width(helper') = W
    BY WordWidth DEF DivInv, Answer, Modulus
  <1>2. \A x : Magnitude(x)' = Magnitude(x)
    BY <1>1 DEF Magnitude, Negated, Wrapped, Negative, Lo, Hi
  <1>3. \A x : Negated(x)' = Negated(x)
    BY <1>1 DEF Negated, Wrapped, Lo, Hi
  <1>4. den # 0 => /\ Magnitude(num) = quot * Magnitude(den) + rem
                  /\ rem < Magnitude(den)
                  /\ rem \in 0..(Modulus - 1) /\ quot \in 0..(Modulus - 1)
    <2> SUFFICES ASSUME den # 0 PROVE
          /\ Magnitude(num) = quot * Magnitude(den) + rem
          /\ rem < Magnitude(den)
          /\ rem \in 0..(Modulus - 1) /\ quot \in 0..(Modulus - 1)
      OBVIOUS
    <2>1. /\ Magnitude(num) \in 0..(Modulus - 1) /\ Magnitude(den) \in 0..(Modulus - 1)
          /\ Magnitude(den) # 0 /\ Modulus \in Nat
      BY <1>1, Magnitudes, Registers
    <2>2. /\ quot \in Nat /\ rem \in Nat /\ rem < d /\ d = Magnitude(den)
          /\ \E low \in 0..(Power[0] - 1) :
               Magnitude(num) = (quot * d + rem) * Power[0] + low
      BY <1>1 DEF LoopInvariant
    <2>3. Magnitude(num) = quot * Magnitude(den) + rem
      BY <2>1, <2>2, Registers
    <2>4. quot <= quot * Magnitude(den) /\ quot * Magnitude(den) \in Nat
      BY <2>1, <2>2, AtLeastOneTimes
    <2>5. QED
      BY <2>1, <2>2, <2>3, <2>4
  <1>5. /\ qneg = (helper \in Signed /\ Negative(num, W) # Negative(den, W))
        /\ rneg = (helper \in Signed /\ Negative(num, W))
    BY <1>1, Zenon DEF LoopInvariant
  <1> DEFINE sn == helper \in Signed /\ Negative(num, W)
             sd == helper \in Signed /\ Negative(den, W)
  <1>6. qneg = (sn # sd) /\ rneg = sn
    <2>1. Negative(num, W) \in BOOLEAN /\ Negative(den, W) \in BOOLEAN
      BY DEF Negative
    <2>2. CASE helper \in Signed
      BY <1>5, <2>1, <2>2, Zenon
    <2>3. CASE helper \notin Signed
      BY <1>5, <2>1, <2>3, Zenon
    <2>4. QED
      BY <2>2, <2>3
  <1>7. QuotientAndRemainder'
    <2> SUFFICES ASSUME den # 0 PROVE QuotientAndRemainder'
      BY <1>1 DEF QuotientAndRemainder
    <2>1. /\ quot' = IF sn # sd THEN Negated(quot) ELSE quot
          /\ helper # "idiv" => rem' = IF sn THEN Negated(rem) ELSE rem
      BY <1>6 DEF Answer
    <2>2. /\ \A x : Negated(x) = Wrapped(-x) /\ (Wrapped(-x))' = Wrapped(-x)
          /\ \A x : Magnitude(x) = IF helper \in Signed /\ Negative(x, W)
                                     THEN Wrapped(-x) ELSE x
      BY <1>1, WordSigns DEF Wrapped
    <2>3. QED
      BY <1>1, <1>4, <2>1, <2>2 DEF QuotientAndRemainder, Negative
  <1>8. QED
    BY <1>1, <1>7 DEF DivInv, Modulus

LEMMA DivInvNext == DivInv /\ [DivNext]_divVars => DivInv'
  <1> SUFFICES ASSUME DivInv, [DivNext]_divVars PROVE DivInv'
    OBVIOUS
  <1>1. CASE UNCHANGED divVars
    BY <1>1 DEF divVars, DivInv, QuotientAndRemainder, LoopInvariant, Magnitude,
                Negated, Wrapped, Negative, Modulus, Width, Lo, Hi
  <1>2. QED
    BY <1>1, DivInvPrepare, DivInvTurn, DivInvAnswer DEF DivNext

-----------------------------------------------------------------------------
\* mod_write_int: an integer of k digits at most is below the k-th power.
DecInv ==
  /\ InsideBuf
  /\ decPc \in {"idle", "called", "digits", "signed", "returned"}
  /\ decPc = "called" => v \in -(MaxInt + 1)..MaxInt

LEMMA DecInvInit == DecIdle \/ DecInit => DecInv
  <1>1. DecIdle => DecInv
    BY DEF DecIdle, DecInv, InsideBuf
  <1>2. ASSUME DecInit PROVE DecInv
    <2>1. decPc = "called" /\ i = BufSize /\ v \in -(MaxInt + 1)..MaxInt
      BY <1>2 DEF DecInit
    <2>2. BufSize \in 0..BufSize
      BY DecimalAssumption
    <2>3. QED
      BY <2>1, <2>2 DEF DecInv, InsideBuf
  <1>3. QED
    BY <1>1, <1>2

LEMMA DecInvNext == DecInv /\ [DecNext]_decVars => DecInv'
  <1> SUFFICES ASSUME DecInv, [DecNext]_decVars PROVE DecInv'
    OBVIOUS
  <1>1. CASE Begin
    <2>1. u' \in Nat /\ u' <= MaxInt + 1 /\ i' = BufSize - 1
      <3>1. MaxInt \in Nat /\ BufSize \in Nat
        BY DecimalAssumption
      <3>2. /\ v \in -(MaxInt + 1)..MaxInt /\ i = BufSize
            /\ u' = (IF v < 0 THEN -v ELSE v) /\ i' = i - 1
        BY <1>1 DEF Begin, DecInv, InsideBuf
      <3>3. QED
        BY <3>1, <3>2
    <2>2. BufSize - 2 \in 0..BufSize /\ i' - 1 = BufSize - 2 /\ i' \in 0..BufSize /\ i' >= 2
      BY <2>1, DecimalAssumption
    <2>3. u' < Tens[i' - 1]
      BY <2>1, <2>2, DecimalAssumption
    <2>4. QED
      BY <1>1, <2>1, <2>2, <2>3 DEF Begin, DecInv, InsideBuf
  <1>2. CASE Digit
    <2>1. /\ i \in 2..BufSize /\ u \in Nat /\ u < Tens[i - 1]
          /\ i' = i - 1 /\ u' = u \div 10
      BY <1>2 DEF Digit, DecInv, InsideBuf
    <2>2. /\ i - 2 \in 0..(BufSize - 1) /\ i - 2 \in 0..BufSize
          /\ (i - 2) + 1 = i - 1 /\ i' - 1 = i - 2
      BY <2>1, DecimalAssumption
    <2>3. Tens[i - 1] = 10 * Tens[i - 2] /\ Tens[i - 2] \in Nat
      BY <2>2, DecimalAssumption
    <2>4. u' \in Nat /\ u' < Tens[i' - 1]
      BY <2>1, <2>2, <2>3
    <2>5. i = 2 => u' = 0
      BY <2>2, <2>4, DecimalAssumption
    <2>6. QED
      BY <1>2, <2>1, <2>4, <2>5, DecimalAssumption DEF Digit, DecInv, InsideBuf
  <1>3. CASE Sign
    <2>1. BufSize \in Nat /\ i \in 1..BufSize /\ (i' = i - 1 \/ i' = i)
      BY <1>3, DecimalAssumption DEF Sign, DecInv, InsideBuf
    <2>2. QED
      BY <1>3, <2>1 DEF Sign, DecInv, InsideBuf
  <1>4. CASE UNCHANGED decVars
    BY <1>4 DEF decVars, DecInv, InsideBuf
  <1>5. QED
    BY <1>1, <1>2, <1>3, <1>4 DEF DecNext

LEMMA DivSplit ==
  ASSUME NEW x \in Nat, NEW a \in Nat \ {0}
  PROVE  /\ x \div a \in Nat /\ x % a \in Nat /\ x % a < a
         /\ x = (x \div a) * a + (x % a)
  OBVIOUS
LEMMA DivUnique ==
  ASSUME NEW x \in Nat, NEW a \in Nat \ {0}, NEW q \in Nat, NEW r \in Nat, r < a, x = q * a + r
  PROVE  x \div a = q
  <1>1. \A y \in Nat : y # q => ~(y * a <= x /\ x < (y + 1) * a)
    OBVIOUS
  <1>2. x \div a \in Nat /\ (x \div a) * a <= x /\ x < (x \div a + 1) * a
    OBVIOUS
  <1>3. QED BY <1>1, <1>2
LEMMA DivTwice ==
  ASSUME NEW x \in Nat, NEW a \in Nat \ {0}
  PROVE  (x \div a) \div 10 = x \div (10 * a) 
  <1> DEFINE y == x \div a
             q == y \div 10
             r == (y % 10) * a + (x % a)
  <1>1. y \in Nat /\ x % a \in Nat /\ x % a < a /\ x = y * a + (x % a)
    BY DivSplit
  <1> HIDE DEF y
  <1>2. q \in Nat /\ y % 10 \in 0..9 /\ y = q * 10 + (y % 10)
    BY <1>1
  <1>3. y % 10 <= 9 /\ (y % 10) * a <= 9 * a /\ (y % 10) * a \in Nat
    BY <1>2
  <1> HIDE DEF q
  <1>4. r \in Nat /\ r < 10 * a
    BY <1>1, <1>2, <1>3
  <1>5. x = q * (10 * a) + r
    <2> DEFINE low == x % a
               digit == y % 10
    <2>1. low \in Nat /\ digit \in Nat /\ y = q * 10 + digit /\ x = y * a + low
      BY <1>1, <1>2
    <2> HIDE DEF low, digit
    <2>2. x = (q * 10 + digit) * a + low
      BY <2>1
    <2>3. (q * 10 + digit) * a + low = q * (10 * a) + (digit * a + low)
      BY <1>2, <2>1
    <2>4. QED
      BY <2>2, <2>3 DEF low, digit
  <1>6. 10 * a \in Nat \ {0}
    OBVIOUS
  <1> HIDE DEF r
  <1>7. QED
    BY <1>2, <1>4, <1>5, <1>6, DivUnique DEF q, y

-----------------------------------------------------------------------------
\* The digits so far are those of the last places of v; what is left of its
\* magnitude are the places before them.
NumberInv ==
  decPc \in {"called", "digits", "signed", "returned"} =>
    /\ v \in Int
    /\ digits \in [0..(BufSize - 1) -> Int]
    /\ decPc \in {"digits", "signed"} =>
         /\ i < BufSize /\ digits[BufSize - 1] = NulChar
         /\ u = Size \div Tens[BufSize - 1 - i]
         /\ \A k \in i..(BufSize - 2) : digits[k] = (Size \div Tens[BufSize - 2 - k]) % 10
    /\ decPc = "digits" => i = BufSize - 1 \/ u # 0
    /\ decPc = "signed" => /\ i <= BufSize - 2 /\ u = 0
                           /\ digits[i] = 0 => v = 0 /\ i = BufSize - 2
    /\ NumberWritten

LEMMA NumberInvInit == DecIdle \/ DecInit => NumberInv
  <1>1. DecIdle => NumberInv
    BY DEF DecIdle, NumberInv
  <1>2. ASSUME DecInit PROVE NumberInv
    <2>1. decPc = "called" /\ v \in Int /\ digits = [k \in 0..(BufSize - 1) |-> 0]
      BY <1>2, DecimalAssumption DEF DecInit
    <2>2. QED
      BY <2>1 DEF NumberInv, NumberWritten
  <1>3. QED
    BY <1>1, <1>2

LEMMA NumberInvNext == DecInv /\ NumberInv /\ [DecNext]_decVars => NumberInv'
  <1> SUFFICES ASSUME DecInv, NumberInv, [DecNext]_decVars PROVE NumberInv'
    OBVIOUS
  <1>0. BufSize \in Nat /\ BufSize > 2 /\ \A k \in 0..BufSize : Tens[k] \in Nat \ {0}
    BY DecimalAssumption
  <1>1. CASE Begin
    <2>1. /\ decPc = "called" /\ i = BufSize /\ v \in Int /\ v' = v /\ decPc' = "digits"
          /\ u' = Size /\ i' = BufSize - 1 /\ digits' = [digits EXCEPT ![i'] = NulChar]
          /\ digits \in [0..(BufSize - 1) -> Int] /\ BufSize - 1 \in 0..(BufSize - 1)
      BY <1>0, <1>1 DEF Begin, DecInv, InsideBuf, NumberInv, Size
    <2>2. Size \in Nat /\ Size' = Size
      BY <2>1 DEF Size
    <2>3. digits' \in [0..(BufSize - 1) -> Int] /\ digits'[BufSize - 1] = NulChar
      BY <2>1 DEF NulChar
    <2>4. u' = Size' \div Tens[BufSize - 1 - i']
      <3>1. BufSize - 1 - i' = 0 /\ Tens[0] = 1
        BY <1>0, <2>1, DecimalAssumption
      <3>2. Size \div 1 = Size
        BY <2>2
      <3>3. QED
        BY <2>1, <2>2, <3>1, <3>2
    <2>5. \A k \in i'..(BufSize - 2) : FALSE
      BY <1>0, <2>1
    <2>6. QED
      BY <1>0, <2>1, <2>3, <2>4, <2>5 DEF NumberInv, NumberWritten
  <1>2. CASE Digit
    <2> DEFINE t == Tens[BufSize - 1 - i]
    <2>1. /\ decPc = "digits" /\ i \in 2..(BufSize - 1) /\ u \in Nat /\ v \in Int
          /\ i' = i - 1 /\ u' = u \div 10 /\ digits' = [digits EXCEPT ![i'] = u % 10]
          /\ v' = v /\ decPc' = (IF u' = 0 THEN "signed" ELSE "digits")
          /\ digits \in [0..(BufSize - 1) -> Int] /\ i' \in 0..(BufSize - 2)
          /\ digits[BufSize - 1] = NulChar /\ u = Size \div t
          /\ i = BufSize - 1 \/ u # 0
      <3>1. /\ decPc = "digits" /\ v' = v /\ u' = u \div 10 /\ i' = i - 1
            /\ digits' = [digits EXCEPT ![i'] = u % 10]
            /\ decPc' = (IF u' = 0 THEN "signed" ELSE "digits")
        BY <1>2 DEF Digit
      <3>2. /\ v \in Int /\ i < BufSize /\ digits \in [0..(BufSize - 1) -> Int]
            /\ digits[BufSize - 1] = NulChar /\ u = Size \div t
            /\ i = BufSize - 1 \/ u # 0
        BY <3>1 DEF NumberInv
      <3>3. i \in 0..BufSize /\ i >= 2 /\ u \in Nat
        BY <3>1 DEF DecInv, InsideBuf
      <3> HIDE DEF t
      <3>4. i \in 2..(BufSize - 1) /\ i' \in 0..(BufSize - 2)
        BY <1>0, <3>1, <3>2, <3>3
      <3>5. QED
        BY <3>1, <3>2, <3>3, <3>4
    <2>2. Size \in Nat /\ Size' = Size
      BY <2>1 DEF Size
    <2>3. /\ BufSize - 1 - i \in 0..(BufSize - 1) /\ BufSize - 1 - i \in 0..BufSize
          /\ BufSize - 1 - i' = (BufSize - 1 - i) + 1 /\ BufSize - 2 - i' = BufSize - 1 - i
      BY <1>0, <2>1
    <2>4. t \in Nat \ {0} /\ Tens[BufSize - 1 - i'] = 10 * t
      BY <1>0, <2>3, DecimalAssumption
    <2>5. u' = Size' \div Tens[BufSize - 1 - i'] /\ u' \in Nat
      <3> HIDE DEF t
      <3>1. (Size \div t) \div 10 = Size \div (10 * t)
        BY <2>2, <2>4, DivTwice
      <3>2. QED
        BY <2>1, <2>2, <2>4, <3>1
    <2>6. /\ digits' \in [0..(BufSize - 1) -> Int] /\ digits'[BufSize - 1] = NulChar
          /\ digits'[i'] = u % 10 /\ u % 10 \in Int
      <3>1. u % 10 \in Int /\ i' # BufSize - 1 /\ i' \in 0..(BufSize - 1)
        BY <1>0, <2>1
      <3>2. QED
        BY <2>1, <3>1
    <2>7. ASSUME NEW k \in i'..(BufSize - 2)
          PROVE  digits'[k] = (Size' \div Tens[BufSize - 2 - k]) % 10
      <3>1. CASE k = i'
        BY <2>1, <2>2, <2>3, <2>6, <3>1
      <3>2. CASE k # i'
        <4>1. k \in i..(BufSize - 2) /\ k \in 0..(BufSize - 1)
          BY <1>0, <2>1, <3>2
        <4>2. digits'[k] = digits[k]
          BY <2>1, <3>2, <4>1
        <4>3. digits[k] = (Size \div Tens[BufSize - 2 - k]) % 10
          BY <2>1, <4>1 DEF NumberInv
        <4>4. QED
          BY <2>2, <4>2, <4>3
      <3>3. QED
        BY <3>1, <3>2
    <2>8. ASSUME u' = 0, digits'[i'] = 0 PROVE v' = 0 /\ i' = BufSize - 2
      <3>1. u = 0
        BY <2>1, <2>6, <2>8
      <3>2. i = BufSize - 1 /\ BufSize - 1 - i = 0
        BY <1>0, <2>1, <3>1
      <3>3. t = 1
        BY <3>2, DecimalAssumption
      <3>4. Size = 0
        BY <2>1, <2>2, <3>1, <3>3
      <3>5. QED
        BY <1>0, <2>1, <3>2, <3>4 DEF Size
    <2>9. decPc' \in {"digits", "signed"} /\ decPc' # "returned" /\ i' < BufSize
      BY <1>0, <2>1
    <2>10. NumberWritten'
      BY <2>9 DEF NumberWritten
    <2> HIDE DEF t
    <2>11. QED
      BY <2>1, <2>5, <2>6, <2>7, <2>8, <2>9, <2>10 DEF NumberInv
  <1>3. CASE Sign
    <2>1. /\ decPc = "signed" /\ decPc' = "returned" /\ v' = v /\ v \in Int
          /\ i \in 1..(BufSize - 2) /\ digits[BufSize - 1] = NulChar
          /\ 0 = Size \div Tens[BufSize - 1 - i]
          /\ digits[i] = 0 => v = 0 /\ i = BufSize - 2
          /\ digits \in [0..(BufSize - 1) -> Int]
          /\ i' = (IF v < 0 THEN i - 1 ELSE i)
          /\ digits' = (IF v < 0 THEN [digits EXCEPT ![i'] = Minus] ELSE digits)
      BY <1>0, <1>3 DEF Sign, DecInv, InsideBuf, NumberInv
    <2>2. Size \in Nat /\ Size' = Size /\ First' = i
      BY <2>1 DEF Size, First
    <2>3. BufSize - 1 - i \in 0..BufSize
      BY <1>0, <2>1
    <2>4. Size < Tens[BufSize - 1 - i]
      <3> DEFINE t == Tens[BufSize - 1 - i]
      <3>1. t \in Nat \ {0}
        BY <1>0, <2>3
      <3> HIDE DEF t
      <3>2. Size = 0 * t + (Size % t) /\ Size % t < t
        BY <2>1, <2>2, <3>1, DivSplit DEF t
      <3>3. QED
        BY <2>2, <3>1, <3>2 DEF t
    <2>5. /\ digits' \in [0..(BufSize - 1) -> Int]
          /\ \A k \in i..(BufSize - 1) : digits'[k] = digits[k]
          /\ v < 0 => digits'[i'] = Minus
      <3>1. v < 0 => i' \in 0..(BufSize - 1) /\ i' < i
        BY <1>0, <2>1
      <3>2. \A k \in i..(BufSize - 1) : k \in 0..(BufSize - 1)
        BY <1>0, <2>1
      <3>3. QED
        BY <2>1, <3>1, <3>2 DEF Minus
    <2>6. \A k \in i..(BufSize - 2) : digits[k] = (Size \div Tens[BufSize - 2 - k]) % 10
      BY <1>3 DEF Sign, NumberInv
    <2>7. /\ i \in i..(BufSize - 1) /\ BufSize - 1 \in i..(BufSize - 1)
          /\ \A k \in i..(BufSize - 2) : k \in i..(BufSize - 1)
      BY <1>0, <2>1
    <2>8. NumberWritten'
      BY <2>1, <2>2, <2>4, <2>5, <2>6, <2>7 DEF NumberWritten
    <2>9. QED
      BY <2>1, <2>5, <2>8 DEF NumberInv
  <1>4. CASE UNCHANGED decVars
    BY <1>4 DEF decVars, NumberInv, NumberWritten, First, Size
  <1>5. QED
    BY <1>1, <1>2, <1>3, <1>4 DEF DecNext

-----------------------------------------------------------------------------
\* rostrt_init: a character and each word's terminator take the place of a
\* character already passed; the last word's may take the place past the end.
Behind == IF AtEnd \/ Kind = "blank" THEN env ELSE env - 1
ArgvInv ==
  /\ argvPc \in {"idle", "skip", "word", "returned"}
  /\ tail \in Seq(Kinds) /\ Len(tail) < ArgBuf
  /\ env \in 1..(Len(tail) + 1)
  /\ out \in Seq(Nat) /\ argvec \in Seq(Nat)
  /\ Len(argvec) <= ArgMax
  /\ Len(out) <= IF argvPc = "word" THEN env - 1 ELSE Behind

LEMMA ArgvInvInit == ArgvIdle \/ ArgvInit => ArgvInv
  <1>1. ASSUME NEW t \in Seq(Kinds) PROVE 1 \in 1..(Len(t) + 1)
    OBVIOUS
  <1>2. << >> \in Seq(Kinds) /\ << >> \in Seq(Nat) /\ Len(<< >>) = 0
    OBVIOUS
  <1>3. ArgBuf \in Nat \ {0} /\ ArgMax \in Nat
    BY ArgvAssumption
  <1>4. ASSUME ArgvIdle PROVE ArgvInv
    BY <1>1, <1>2, <1>3, <1>4 DEF ArgvIdle, ArgvInv, Behind, AtEnd, Kind
  <1>5. ASSUME ArgvInit PROVE ArgvInv
    <2>1. tail \in Seq(Kinds) /\ Len(tail) < ArgBuf
      BY <1>5, ArgvAssumption DEF ArgvInit
    <2>2. QED
      BY <1>1, <1>2, <1>3, <1>5, <2>1 DEF ArgvInit, ArgvInv, Behind
  <1>6. QED
    BY <1>4, <1>5

\* What the invariant says of the lengths, and what is left to show of a step
\* that changes neither the tail nor the buffer's type.
LEMMA ArgvLengths == ArgvInv => /\ Len(tail) \in Nat /\ env \in Nat /\ Len(out) \in Nat
                                /\ Len(argvec) \in Nat
                                /\ 1 <= env /\ env <= Len(tail) + 1
                                /\ AtEnd <=> env = Len(tail) + 1
  BY DEF ArgvInv, AtEnd

LEMMA BehindNear == ArgvInv => Behind \in Int /\ env - 1 <= Behind /\ Behind <= env
  BY ArgvLengths DEF Behind

LEMMA ArgvInvNext == ArgvInv /\ [ArgvNext]_argvVars => ArgvInv'
  <1> SUFFICES ASSUME ArgvInv, [ArgvNext]_argvVars PROVE ArgvInv'
    OBVIOUS
  <1>0. /\ Len(tail) \in Nat /\ env \in Nat /\ Len(out) \in Nat /\ Len(argvec) \in Nat
        /\ 1 <= env /\ env <= Len(tail) + 1
        /\ AtEnd <=> env = Len(tail) + 1
    BY ArgvLengths
  <1>1. CASE SkipSpace
    <2>1. ~AtEnd /\ argvPc = "skip" /\ Len(out) <= env
      <3>1. ~AtEnd /\ argvPc = "skip"
        BY <1>1 DEF SkipSpace, Kind
      <3>2. QED
        BY <3>1, <1>0, BehindNear DEF ArgvInv
    <2>2. env' = env + 1 /\ tail' = tail /\ out' = out /\ argvec' = argvec /\ argvPc' = "skip"
      BY <1>1 DEF SkipSpace
    <2>3. env' \in 1..(Len(tail) + 1) /\ Len(out) <= env' - 1
      BY <1>0, <2>1, <2>2
    <2>4. Behind' = env' \/ Behind' = env' - 1
      BY DEF Behind
    <2>5. Len(out) <= Behind'
      BY <1>0, <2>2, <2>3, <2>4
    <2>6. QED
      BY <2>2, <2>3, <2>5 DEF ArgvInv
  <1>2. CASE Stop
    <2>1. UNCHANGED <<tail, env, out, argvec>> /\ argvPc = "skip" /\ argvPc' = "returned"
      BY <1>2 DEF Stop
    <2>2. Behind' = Behind
      BY <2>1 DEF Behind, Kind, AtEnd
    <2>3. QED
      BY <2>1, <2>2 DEF ArgvInv
  <1>3. CASE StartWord
    <2>1. argvPc = "skip" /\ ~AtEnd /\ Kind # "blank" /\ Len(argvec) < ArgMax
      <3>1. argvPc = "skip" /\ Kind \in {"quote", "letter"} /\ ~(Len(argvec) >= ArgMax)
        BY <1>3 DEF StartWord, Full
      <3>2. ArgMax \in Nat
        BY ArgvAssumption
      <3>3. Kind # "blank" /\ ~AtEnd
        BY <3>1 DEF Kind
      <3>4. QED
        BY <1>0, <3>1, <3>2, <3>3
    <2>2. Len(out) <= env - 1
      BY <2>1 DEF ArgvInv, Behind
    <2>3. /\ argvPc' = "word" /\ tail' = tail /\ out' = out
          /\ argvec' = Append(argvec, Len(out) + 1)
          /\ env' = env \/ env' = env + 1
      BY <1>3 DEF StartWord
    <2>4. env' \in 1..(Len(tail) + 1) /\ Len(out) <= env' - 1
      BY <1>0, <2>1, <2>2, <2>3
    <2>5. argvec' \in Seq(Nat) /\ Len(argvec') <= ArgMax
      <3>1. argvec \in Seq(Nat) /\ Len(out) + 1 \in Nat /\ ArgMax \in Nat
        BY <1>0, ArgvAssumption DEF ArgvInv
      <3>2. /\ Append(argvec, Len(out) + 1) \in Seq(Nat)
            /\ Len(Append(argvec, Len(out) + 1)) = Len(argvec) + 1
        BY <3>1
      <3>3. QED
        BY <1>0, <2>1, <2>3, <3>1, <3>2
    <2>6. QED
      BY <2>3, <2>4, <2>5 DEF ArgvInv
  <1>4. CASE CopyChar
    <2>1. argvPc = "word" /\ ~AtEnd
      BY <1>4 DEF CopyChar, InWord
    <2>2. /\ argvPc' = "word" /\ tail' = tail /\ argvec' = argvec
          /\ env' = env + 1 /\ out' = Append(out, env)
      BY <1>4, <2>1 DEF CopyChar
    <2>3. out' \in Seq(Nat) /\ Len(out') = Len(out) + 1
      BY <1>0, <2>2 DEF ArgvInv
    <2>4. Len(out) <= env - 1
      BY <2>1 DEF ArgvInv
    <2>5. env' \in 1..(Len(tail) + 1) /\ Len(out') <= env' - 1
      BY <1>0, <2>1, <2>2, <2>3, <2>4
    <2>6. QED
      BY <2>2, <2>3, <2>5 DEF ArgvInv
  <1>5. CASE EndWord
    <2>1. argvPc = "word" /\ Len(out) <= env - 1
      BY <1>5 DEF EndWord, ArgvInv
    <2>2. argvPc' = "skip" /\ tail' = tail /\ argvec' = argvec /\ out' = Append(out, Nul)
      BY <1>5 DEF EndWord
    <2>3. out' \in Seq(Nat) /\ Len(out') = Len(out) + 1
      BY <2>2 DEF ArgvInv, Nul
    <2>4. CASE InWord /\ Closing
      <3>1. env' = env + 1 /\ ~AtEnd
        BY <1>5, <2>4 DEF EndWord, InWord
      <3>2. env' \in 1..(Len(tail) + 1) /\ Len(out') <= env' - 1
        BY <1>0, <2>1, <2>3, <3>1
      <3>3. Behind' = env' \/ Behind' = env' - 1
        BY DEF Behind
      <3>4. Len(out') <= Behind'
        BY <1>0, <2>3, <3>2, <3>3
      <3>5. QED
        BY <2>2, <2>3, <3>2, <3>4 DEF ArgvInv
    <2>5. CASE ~(InWord /\ Closing)
      <3>1. env' = env /\ ~InWord
        BY <1>5, <2>5 DEF EndWord
      <3>2. AtEnd \/ Kind = "blank"
        BY <3>1 DEF InWord
      <3>3. Behind' = env
        BY <2>2, <3>1, <3>2 DEF Behind, Kind, AtEnd
      <3>4. Len(out') <= Behind'
        BY <1>0, <2>1, <2>3, <3>3
      <3>5. QED
        BY <2>2, <2>3, <3>1, <3>4 DEF ArgvInv
    <2>6. QED
      BY <2>4, <2>5
  <1>6. CASE UNCHANGED argvVars
    <2>1. UNCHANGED <<argvPc, tail, env, out, argvec>>
      BY <1>6 DEF argvVars
    <2>2. Behind' = Behind
      BY <2>1 DEF Behind, Kind, AtEnd
    <2>3. QED
      BY <2>1, <2>2 DEF ArgvInv
  <1>7. QED
    BY <1>1, <1>2, <1>3, <1>4, <1>5, <1>6 DEF ArgvNext

-----------------------------------------------------------------------------
\* rostrt_init: what argbuf holds of the tail up to env, and where the words
\* in it begin.  In a word the last character is the one before env, so that
\* the next one joins it.
Last == out[Len(out)]
Terminators == {k \in 1..Len(out) : out[k] = Nul}
BetweenWords == Len(out) = 0 \/ Last = Nul
Place ==
  /\ argvPc = "returned" => AtEnd \/ Full
  /\ argvPc = "word" /\ quoted => \E q \in 1..(env - 1) : tail[q] = "quote"
  /\ argvPc # "word" => BetweenWords
  /\ argvPc = "word" => BetweenWords \/ Last = env - 1
Ordered ==
  /\ \A k \in 1..Len(out) : out[k] = Nul \/ (out[k] \in 1..Len(tail) /\ out[k] < env)
  /\ \A k, j \in 1..Len(out) : k < j /\ Nul \notin {out[k], out[j]} => out[k] < out[j]
NoneLost == \A p \in 1..Len(tail) : p < env /\ tail[p] = "letter" => Written(p)
Joined ==
  \A k \in 1..(Len(out) - 1) :
    out[k] = Nul \/ out[k + 1] = Nul \/ out[k + 1] = out[k] + 1
Pair(p) == \E k \in 1..(Len(out) - 1) : out[k] = p /\ out[k + 1] = p + 1
LettersJoined ==
  \A p \in 1..(Len(tail) - 1) :
    tail[p] = "letter" /\ tail[p + 1] = "letter" /\ Written(p) =>
      Pair(p) \/ (argvPc = "word" /\ p = env - 1 /\ Len(out) > 0 /\ Last = p)
BlanksQuoted == \A p \in 1..Len(tail) : tail[p] = "blank" /\ Written(p) => Opens(p)
Starts ==
  \A k \in 1..Len(argvec) :
    /\ argvec[k] \in 1..(Len(out) + 1)
    /\ argvec[k] = 1 \/ out[argvec[k] - 1] = Nul
    /\ argvPc = "word" \/ argvec[k] <= Len(out)
Counted ==
  Len(argvec) = IF argvPc = "word" THEN Cardinality(Terminators) + 1
                                   ELSE Cardinality(Terminators)

WordInv ==
  /\ Place /\ Ordered /\ NoneLost /\ Joined /\ LettersJoined
  /\ BlanksQuoted /\ Starts /\ Counted

LEMMA WordInvInit == ArgvIdle \/ ArgvInit => WordInv
  <1> SUFFICES ASSUME ArgvIdle \/ ArgvInit PROVE WordInv
    OBVIOUS
  <1>1. out = << >> /\ argvec = << >> /\ env = 1 /\ argvPc \in {"idle", "skip"}
    BY DEF ArgvIdle, ArgvInit
  <1>2. Len(out) = 0 /\ Len(argvec) = 0
    BY <1>1
  <1>3. Terminators = {}
    BY <1>2 DEF Terminators
  <1>4. Counted
    BY <1>1, <1>2, <1>3, FS_EmptySet DEF Counted
  <1>5. tail = << >> \/ tail \in Seq(Kinds)
    BY ArgvAssumption DEF ArgvIdle, ArgvInit
  <1>6. Len(tail) \in Nat
    BY <1>5
  <1>7. NoneLost
    BY <1>1, <1>6 DEF NoneLost
  <1>8. QED
    BY <1>1, <1>2, <1>4, <1>7
    DEF WordInv, Place, BetweenWords, Ordered, Joined, LettersJoined, Pair, BlanksQuoted,
        Written, Starts

LEMMA WordsFollow == ArgvInv /\ WordInv => WordsKept
  <1> SUFFICES ASSUME ArgvInv, WordInv, argvPc = "returned" PROVE WordsKept
    BY DEF WordsKept
  <1>1. Len(tail) \in Nat /\ env \in Nat /\ (AtEnd <=> env = Len(tail) + 1)
        /\ DOMAIN argvec = 1..Len(argvec)
    BY ArgvLengths DEF ArgvInv
  <1>2. ASSUME ~Full PROVE \A p \in 1..Len(tail) : tail[p] = "letter" => Written(p)
    BY <1>1, <1>2 DEF WordInv, Place, NoneLost
  <1>3. \A k, j \in 1..Len(out) : k < j /\ Nul \notin {out[k], out[j]} => out[k] < out[j]
    BY DEF WordInv, Ordered
  <1>4. \A p \in 1..(Len(tail) - 1) :
          tail[p] = "letter" /\ tail[p + 1] = "letter" /\ Written(p) => Pair(p)
    BY DEF WordInv, LettersJoined
  <1>5. \A k \in DOMAIN argvec : /\ argvec[k] = 1 \/ out[argvec[k] - 1] = Nul
                                 /\ argvec[k] <= Len(out)
    BY <1>1 DEF WordInv, Starts
  <1>6. Len(argvec) = Cardinality(Terminators) /\ Len(argvec) \in Nat
    BY DEF WordInv, Counted, ArgvInv
  <1>7. QED
    BY <1>2, <1>3, <1>4, <1>5, <1>6
    DEF WordsKept, WordInv, Joined, BlanksQuoted, Terminators, Pair

\* A step that writes nothing, and passes nothing but blanks, ends of line and
\* quotes.
LEMMA NothingWritten ==
  ASSUME ArgvInv, WordInv, argvPc # "word", out' = out, tail' = tail,
         env' = env \/ (env' = env + 1 /\ env <= Len(tail) /\ tail[env] # "letter")
  PROVE  Ordered' /\ NoneLost' /\ Joined' /\ LettersJoined' /\ BlanksQuoted'
  <1>1. Len(tail) \in Nat /\ env \in Nat /\ Len(out) \in Nat
    BY ArgvLengths
  <1>2. \A p : Written(p)' = Written(p) /\ Opens(p)' = Opens(p) /\ Pair(p)' = Pair(p)
    BY DEF Written, Opens, Pair
  <1>3. Ordered'
    BY <1>1 DEF WordInv, Ordered
  <1>4. NoneLost'
    BY <1>1, <1>2 DEF WordInv, NoneLost
  <1>5. LettersJoined'
    BY <1>2 DEF WordInv, LettersJoined
  <1>6. QED
    BY <1>2, <1>3, <1>4, <1>5 DEF WordInv, Joined, BlanksQuoted

\* A step of a word appends a character or the terminator.
LEMMA Appended ==
  ASSUME ArgvInv, NEW x \in Nat, out' = Append(out, x)
  PROVE  /\ Len(out) \in Nat /\ Len(out') = Len(out) + 1 /\ Last' = x
         /\ \A k \in 1..Len(out) : out'[k] = out[k] /\ k \in 1..Len(out')
         /\ out'[Len(out) + 1] = x
         /\ \A k \in 1..Len(out') : k \in 1..Len(out) \/ k = Len(out) + 1
         /\ \A p : Written(p)' <=> Written(p) \/ p = x
         /\ \A p : Pair(p) => Pair(p)'
         /\ Terminators' = IF x = Nul THEN Terminators \cup {Len(out) + 1} ELSE Terminators
         /\ IsFiniteSet(Terminators) /\ Len(out) + 1 \notin Terminators
  <1>1. out \in Seq(Nat) /\ Len(out) \in Nat
    BY DEF ArgvInv
  <1>2. Len(out') = Len(out) + 1 /\ out'[Len(out) + 1] = x
        /\ \A k \in 1..Len(out) : out'[k] = out[k] /\ k \in 1..Len(out')
    BY <1>1
  <1>3. \A k \in 1..Len(out') : k \in 1..Len(out) \/ k = Len(out) + 1
    BY <1>1, <1>2
  <1>4. Len(out) + 1 \in 1..Len(out')
    BY <1>1, <1>2
  <1>5. \A p : Written(p)' <=> Written(p) \/ p = x
    BY <1>2, <1>3, <1>4 DEF Written
  <1>6. \A p : Pair(p) => Pair(p)'
    <2>1. \A k \in 1..(Len(out) - 1) : /\ k \in 1..Len(out) /\ k + 1 \in 1..Len(out)
                                      /\ k \in 1..(Len(out') - 1)
      BY <1>1, <1>2
    <2>2. QED
      BY <1>2, <2>1 DEF Pair
  <1>7. Terminators' = IF x = Nul THEN Terminators \cup {Len(out) + 1} ELSE Terminators
    BY <1>2, <1>3, <1>4 DEF Terminators
  <1>8. IsFiniteSet(Terminators)
    <2>1. IsFiniteSet(1..Len(out)) /\ Terminators \subseteq 1..Len(out)
      BY <1>1, FS_Interval, 1 \in Int, Len(out) \in Int DEF Terminators
    <2>2. QED
      BY <2>1, FS_Subset
  <1>9. Len(out) + 1 \notin Terminators
    BY <1>1 DEF Terminators
  <1>10. QED
    BY <1>1, <1>2, <1>3, <1>5, <1>6, <1>7, <1>8, <1>9 DEF Last

LEMMA WordInvNext == ArgvInv /\ WordInv /\ [ArgvNext]_argvVars => WordInv'
  <1> SUFFICES ASSUME ArgvInv, WordInv, [ArgvNext]_argvVars PROVE WordInv'
    OBVIOUS
  <1>0. /\ Len(tail) \in Nat /\ env \in Nat /\ Len(out) \in Nat /\ Len(argvec) \in Nat
        /\ 1 <= env /\ env <= Len(tail) + 1 /\ (AtEnd <=> env = Len(tail) + 1)
        /\ argvec \in Seq(Nat)
    BY ArgvLengths DEF ArgvInv
  <1>1. CASE SkipSpace
    <2>1. /\ argvPc = "skip" /\ argvPc' = "skip" /\ out' = out /\ tail' = tail
          /\ argvec' = argvec /\ env' = env + 1 /\ ~AtEnd
          /\ tail[env] \in {"blank", "newline"}
      BY <1>1 DEF SkipSpace, Kind
    <2>2. env <= Len(tail) /\ tail[env] # "letter"
      BY <1>0, <2>1
    <2>3. Ordered' /\ NoneLost' /\ Joined' /\ LettersJoined' /\ BlanksQuoted'
      BY <2>1, <2>2, NothingWritten
    <2>4. Place' /\ Starts' /\ Counted'
      BY <2>1 DEF WordInv, Place, BetweenWords, Last, Starts, Counted, Terminators
    <2>5. QED
      BY <2>3, <2>4 DEF WordInv
  <1>2. CASE Stop
    <2>1. /\ argvPc = "skip" /\ argvPc' = "returned" /\ out' = out /\ tail' = tail
          /\ argvec' = argvec /\ env' = env /\ (AtEnd \/ Full)
      BY <1>2 DEF Stop
    <2>2. Ordered' /\ NoneLost' /\ Joined' /\ LettersJoined' /\ BlanksQuoted'
      BY <2>1, NothingWritten
    <2>3. Place' /\ Starts' /\ Counted'
      BY <2>1 DEF WordInv, Place, BetweenWords, Last, Starts, Counted, Terminators, AtEnd, Full
    <2>4. QED
      BY <2>2, <2>3 DEF WordInv
  <1>3. CASE StartWord
    <2>1. /\ argvPc = "skip" /\ argvPc' = "word" /\ out' = out /\ tail' = tail /\ ~AtEnd
          /\ quoted' = (tail[env] = "quote")
          /\ env' = (IF tail[env] = "quote" THEN env + 1 ELSE env)
          /\ argvec' = Append(argvec, Len(out) + 1)
      BY <1>3 DEF StartWord, Kind
    <2>2. env <= Len(tail)
      BY <1>0, <2>1
    <2>3. Ordered' /\ NoneLost' /\ Joined' /\ LettersJoined' /\ BlanksQuoted'
      BY <2>1, <2>2, NothingWritten
    <2>4. Place'
      <3>1. BetweenWords'
        BY <2>1 DEF WordInv, Place, BetweenWords, Last
      <3>2. quoted' => env \in 1..(env' - 1) /\ tail'[env] = "quote"
        <4>1. CASE tail[env] = "quote"
          BY <1>0, <2>1, <4>1
        <4>2. CASE tail[env] # "quote"
          BY <2>1, <4>2
        <4>3. QED
          BY <4>1, <4>2
      <3>3. QED
        BY <2>1, <3>1, <3>2 DEF Place
    <2>5. Starts'
      <3>1. /\ Len(argvec') = Len(argvec) + 1 /\ argvec'[Len(argvec) + 1] = Len(out) + 1
            /\ \A k \in 1..Len(argvec) : argvec'[k] = argvec[k]
        BY <1>0, <2>1
      <3>2. \A k \in 1..Len(argvec') : k \in 1..Len(argvec) \/ k = Len(argvec) + 1
        BY <1>0, <3>1
      <3>3. Len(out) + 1 \in 1..(Len(out) + 1) /\ Len(out) + 1 - 1 = Len(out)
        BY <1>0
      <3>4. Len(out) + 1 = 1 \/ out[Len(out)] = Nul
        BY <1>0, <2>1 DEF WordInv, Place, BetweenWords, Last
      <3>5. QED
        BY <2>1, <3>1, <3>2, <3>3, <3>4 DEF WordInv, Starts
    <2>6. Counted'
      <3>1. Len(argvec') = Len(argvec) + 1
        BY <1>0, <2>1
      <3>2. QED
        BY <2>1, <3>1 DEF WordInv, Counted, Terminators
    <2>7. QED
      BY <2>3, <2>4, <2>5, <2>6 DEF WordInv
  <1>4. CASE CopyChar
    <2>1. /\ argvPc = "word" /\ argvPc' = "word" /\ out' = Append(out, env) /\ tail' = tail
          /\ argvec' = argvec /\ env' = env + 1 /\ quoted' = quoted /\ ~AtEnd
          /\ quoted \/ tail[env] # "blank"
      BY <1>4 DEF CopyChar, InWord, Kind
    <2>2. env \in 1..Len(tail) /\ env # Nul
      BY <1>0, <2>1 DEF Nul
    <2>3. /\ Len(out') = Len(out) + 1 /\ Last' = env
          /\ \A k \in 1..Len(out) : out'[k] = out[k] /\ k \in 1..Len(out')
          /\ out'[Len(out) + 1] = env
          /\ \A k \in 1..Len(out') : k \in 1..Len(out) \/ k = Len(out) + 1
          /\ \A p : Written(p)' <=> Written(p) \/ p = env
          /\ \A p : Pair(p) => Pair(p)'
          /\ Terminators' = Terminators
      BY <1>0, <2>1, <2>2, Appended
    <2>4. Place'
      <3>1. Last' = env' - 1
        BY <1>0, <2>1, <2>3
      <3>2. \A q \in 1..(env - 1) : q \in 1..(env' - 1)
        BY <1>0, <2>1
      <3>3. quoted => \E q \in 1..(env' - 1) : tail[q] = "quote"
        BY <2>1, <3>2 DEF WordInv, Place
      <3>4. QED
        BY <2>1, <3>1, <3>3 DEF Place
    <2>5. Ordered'
      <3>1. \A k \in 1..Len(out') : out'[k] = Nul \/ (out'[k] \in 1..Len(tail) /\ out'[k] < env')
        BY <1>0, <2>1, <2>2, <2>3 DEF WordInv, Ordered
      <3>2. ASSUME NEW k \in 1..Len(out'), NEW j \in 1..Len(out'), k < j,
                   Nul \notin {out'[k], out'[j]}
            PROVE  out'[k] < out'[j]
        <4>1. k \in 1..Len(out)
          BY <1>0, <2>3, <3>2
        <4>2. out'[k] = out[k] /\ out[k] < env
          BY <2>3, <3>2, <4>1 DEF WordInv, Ordered
        <4>3. CASE j \in 1..Len(out)
          BY <2>3, <3>2, <4>1, <4>3 DEF WordInv, Ordered
        <4>4. CASE j = Len(out) + 1
          BY <2>3, <4>2, <4>4
        <4>5. QED
          BY <2>3, <4>3, <4>4
      <3>3. QED
        BY <2>1, <3>1, <3>2 DEF Ordered
    <2>6. NoneLost'
      BY <1>0, <2>1, <2>3 DEF WordInv, NoneLost
    <2>7. Joined'
      <3> SUFFICES ASSUME NEW k \in 1..(Len(out') - 1)
                   PROVE  out'[k] = Nul \/ out'[k + 1] = Nul \/ out'[k + 1] = out'[k] + 1
        BY DEF Joined
      <3>1. k \in 1..Len(out) /\ out'[k] = out[k]
        BY <1>0, <2>3
      <3>2. CASE k = Len(out)
        <4>1. out[k] = Nul \/ out[k] = env - 1
          BY <1>0, <2>1, <3>1, <3>2 DEF WordInv, Place, BetweenWords, Last
        <4>2. QED
          BY <1>0, <2>3, <3>1, <3>2, <4>1
      <3>3. CASE k # Len(out)
        <4>1. k \in 1..(Len(out) - 1) /\ k + 1 \in 1..Len(out)
          BY <1>0, <3>1, <3>3
        <4>2. QED
          BY <2>3, <3>1, <4>1 DEF WordInv, Joined
      <3>4. QED
        BY <3>2, <3>3
    <2>8. LettersJoined'
      <3> SUFFICES ASSUME NEW p \in 1..(Len(tail) - 1),
                          tail[p] = "letter", tail[p + 1] = "letter", Written(p)'
                   PROVE  Pair(p)' \/ (p = env' - 1 /\ Len(out') > 0 /\ Last' = p)
        BY <2>1 DEF LettersJoined
      <3>1. CASE p = env
        BY <1>0, <2>1, <2>3, <3>1
      <3>2. CASE Pair(p)
        BY <2>3, <3>2
      <3>3. CASE p # env /\ ~Pair(p)
        <4>1. Written(p)
          BY <2>3, <3>3
        <4>2. p = env - 1 /\ Len(out) > 0 /\ Last = p
          BY <3>3, <4>1 DEF WordInv, LettersJoined
        <4>3. /\ Len(out) \in 1..(Len(out') - 1) /\ out'[Len(out)] = p
              /\ out'[Len(out) + 1] = p + 1
          BY <1>0, <2>3, <4>2 DEF Last
        <4>4. QED
          BY <4>3 DEF Pair
      <3>4. QED
        BY <3>1, <3>2, <3>3
    <2>9. BlanksQuoted'
      <3> SUFFICES ASSUME NEW p \in 1..Len(tail), tail[p] = "blank", Written(p)'
                   PROVE  Opens(p)
        BY <2>1 DEF BlanksQuoted, Opens
      <3>1. CASE p = env
        BY <2>1, <3>1 DEF WordInv, Place, Opens
      <3>2. CASE p # env
        BY <2>3, <3>2 DEF WordInv, BlanksQuoted
      <3>3. QED
        BY <3>1, <3>2
    <2>10. Starts'
      <3> SUFFICES ASSUME NEW k \in 1..Len(argvec)
                   PROVE  /\ argvec[k] \in 1..(Len(out') + 1)
                          /\ argvec[k] = 1 \/ out'[argvec[k] - 1] = Nul
        BY <2>1 DEF Starts
      <3>1. argvec[k] \in 1..(Len(out) + 1) /\ (argvec[k] = 1 \/ out[argvec[k] - 1] = Nul)
        BY DEF WordInv, Starts
      <3>2. argvec[k] # 1 => argvec[k] - 1 \in 1..Len(out)
        BY <1>0, <3>1
      <3>3. QED
        BY <1>0, <2>3, <3>1, <3>2
    <2>11. Counted'
      BY <2>1, <2>3 DEF WordInv, Counted
    <2>12. QED
      BY <2>4, <2>5, <2>6, <2>7, <2>8, <2>9, <2>10, <2>11 DEF WordInv
  <1>5. CASE EndWord
    <2>1. /\ argvPc = "word" /\ argvPc' = "skip" /\ out' = Append(out, Nul) /\ tail' = tail
          /\ argvec' = argvec
          /\ env' = env \/ (env' = env + 1 /\ ~AtEnd /\ tail[env] = "quote")
          /\ AtEnd \/ tail[env] # "letter"
      BY <1>5 DEF EndWord, InWord, Closing, Kind
    <2>2. /\ Len(out') = Len(out) + 1 /\ Last' = Nul
          /\ \A k \in 1..Len(out) : out'[k] = out[k] /\ k \in 1..Len(out')
          /\ out'[Len(out) + 1] = Nul
          /\ \A k \in 1..Len(out') : k \in 1..Len(out) \/ k = Len(out) + 1
          /\ \A p : Written(p)' <=> Written(p) \/ p = Nul
          /\ \A p : Pair(p) => Pair(p)'
          /\ Terminators' = Terminators \cup {Len(out) + 1}
          /\ IsFiniteSet(Terminators) /\ Len(out) + 1 \notin Terminators
      <3>1. Nul \in Nat
        BY DEF Nul
      <3>2. QED
        BY <2>1, <3>1, Appended
    <2>3. Place'
      BY <2>1, <2>2 DEF Place, BetweenWords
    <2>4. Ordered'
      <3>1. \A k \in 1..Len(out') : out'[k] = Nul \/ (out'[k] \in 1..Len(tail) /\ out'[k] < env')
        BY <1>0, <2>1, <2>2 DEF WordInv, Ordered
      <3>2. \A k, j \in 1..Len(out') : k < j /\ Nul \notin {out'[k], out'[j]} => out'[k] < out'[j]
        BY <2>2 DEF WordInv, Ordered
      <3>3. QED
        BY <2>1, <3>1, <3>2 DEF Ordered
    <2>5. NoneLost'
      BY <1>0, <2>1, <2>2 DEF WordInv, NoneLost
    <2>6. Joined'
      <3> SUFFICES ASSUME NEW k \in 1..(Len(out') - 1)
                   PROVE  out'[k] = Nul \/ out'[k + 1] = Nul \/ out'[k + 1] = out'[k] + 1
        BY DEF Joined
      <3>1. k \in 1..Len(out) /\ out'[k] = out[k]
        BY <1>0, <2>2
      <3>2. CASE k # Len(out)
        <4>1. k \in 1..(Len(out) - 1) /\ k + 1 \in 1..Len(out)
          BY <1>0, <3>1, <3>2
        <4>2. QED
          BY <2>2, <3>1, <4>1 DEF WordInv, Joined
      <3>3. QED
        BY <2>2, <3>2
    <2>7. LettersJoined'
      <3> SUFFICES ASSUME NEW p \in 1..(Len(tail) - 1),
                          tail[p] = "letter", tail[p + 1] = "letter", Written(p)'
                   PROVE  Pair(p)'
        BY <2>1 DEF LettersJoined
      <3>1. Written(p)
        BY <1>0, <2>2 DEF Nul
      <3>2. ~(p = env - 1)
        BY <1>0, <2>1
      <3>3. QED
        BY <2>2, <3>1, <3>2 DEF WordInv, LettersJoined
    <2>8. BlanksQuoted'
      <3>1. \A p \in 1..Len(tail) : p # Nul
        BY <1>0 DEF Nul
      <3>2. QED
        BY <2>1, <2>2, <3>1 DEF WordInv, BlanksQuoted, Opens
    <2>9. Starts'
      <3> SUFFICES ASSUME NEW k \in 1..Len(argvec)
                   PROVE  /\ argvec[k] \in 1..(Len(out') + 1)
                          /\ argvec[k] = 1 \/ out'[argvec[k] - 1] = Nul
                          /\ argvec[k] <= Len(out')
        BY <2>1 DEF Starts
      <3>1. argvec[k] \in 1..(Len(out) + 1) /\ (argvec[k] = 1 \/ out[argvec[k] - 1] = Nul)
        BY DEF WordInv, Starts
      <3>2. argvec[k] # 1 => argvec[k] - 1 \in 1..Len(out)
        BY <1>0, <3>1
      <3>3. QED
        BY <1>0, <2>2, <3>1, <3>2
    <2>10. Counted'
      <3>1. Cardinality(Terminators') = Cardinality(Terminators) + 1
        BY <2>2, FS_AddElement
      <3>2. Counted
        BY DEF WordInv
      <3>3. QED
        BY <2>1, <3>1, <3>2 DEF Counted
    <2>11. QED
      BY <2>3, <2>4, <2>5, <2>6, <2>7, <2>8, <2>9, <2>10 DEF WordInv
  <1>6. CASE UNCHANGED argvVars
    <2>1. UNCHANGED <<argvPc, tail, env, quoted, out, argvec>>
      BY <1>6 DEF argvVars
    <2>2. Place' /\ Ordered' /\ NoneLost' /\ Joined'
      BY <2>1 DEF WordInv, Place, BetweenWords, Last, AtEnd, Full, Ordered, NoneLost, Written,
                  Joined
    <2>3. LettersJoined' /\ BlanksQuoted'
      BY <2>1 DEF WordInv, LettersJoined, Pair, Written, Last, BlanksQuoted, Opens
    <2>4. Starts' /\ Counted'
      BY <2>1 DEF WordInv, Starts, Counted, Terminators
    <2>5. QED
      BY <2>2, <2>3, <2>4 DEF WordInv
  <1>7. QED
    BY <1>1, <1>2, <1>3, <1>4, <1>5, <1>6 DEF ArgvNext

-----------------------------------------------------------------------------
\* write(): how a character moves the cursor, on either kind of terminal.
LEMMA CharMovesColumn ==
  ASSUME NEW s \in Seq(Chars), NEW c \in Chars, NEW returns, "x" \notin returns
  PROVE  /\ Column(s, returns) \in Nat
         /\ c \in returns => Column(Append(s, c), returns) = 0
         /\ c = "x" => Column(Append(s, c), returns) = Column(s, returns) + 1
         /\ c \notin returns /\ c # "x" => Column(Append(s, c), returns) = Column(s, returns)
  <1> DEFINE len == Len(s)
             t == Append(s, c)
             S == {k \in 1..len : s[k] = "x" /\ \A j \in k..len : s[j] \notin returns}
             T == {k \in 1..Len(t) : t[k] = "x" /\ \A j \in k..Len(t) : t[j] \notin returns}
  <1>1. len \in Nat /\ Len(t) = len + 1 /\ t[len + 1] = c /\ \A k \in 1..len : t[k] = s[k]
    OBVIOUS
  <1>2. Column(s, returns) = Cardinality(S) /\ Column(t, returns) = Cardinality(T)
    BY DEF Column
  <1> HIDE DEF len, t
  <1>3. IsFiniteSet(S) /\ Cardinality(S) \in Nat
    <2>1. IsFiniteSet(1..len)
      BY <1>1, FS_Interval, 1 \in Int, len \in Int
    <2>2. S \subseteq 1..len
      OBVIOUS
    <2>3. QED
      BY <2>1, <2>2, FS_Subset, FS_CardinalityType
  <1>4. ASSUME c \in returns PROVE T = {}
    BY <1>1, <1>4
  <1>5. ASSUME c \notin returns PROVE \A k \in 1..len : k \in T <=> k \in S
    <2> SUFFICES ASSUME NEW k \in 1..len PROVE k \in T <=> k \in S
      OBVIOUS
    <2>1. \A j \in k..Len(t) : j \in k..len \/ j = len + 1
      BY <1>1
    <2>2. \A j \in k..len : j \in k..Len(t) /\ j \in 1..len
      BY <1>1
    <2>3. QED
      BY <1>1, <1>5, <2>1, <2>2
  <1>6. len + 1 \in T <=> c = "x"
    <2>1. \A j \in (len + 1)..Len(t) : j = len + 1
      BY <1>1
    <2>2. len + 1 \in 1..Len(t)
      BY <1>1
    <2>3. QED
      BY <1>1, <2>1, <2>2
  <1>7. T \subseteq 1..(len + 1) /\ S \subseteq 1..len /\ len + 1 \notin S
    BY <1>1
  <1>8. \A k \in 1..(len + 1) : k \in 1..len \/ k = len + 1
    BY <1>1
  <1> HIDE DEF S, T
  <1>9. ASSUME c = "x" PROVE Cardinality(T) = Cardinality(S) + 1
    <2>1. T = S \cup {len + 1}
      BY <1>5, <1>6, <1>7, <1>8, <1>9
    <2>2. QED
      BY <1>3, <1>7, <2>1, FS_AddElement
  <1>10. ASSUME c \notin returns, c # "x" PROVE T = S
    BY <1>5, <1>6, <1>7, <1>8, <1>10
  <1>11. QED
    BY <1>2, <1>3, <1>4, <1>9, <1>10, FS_EmptySet DEF t

LEMMA CharMovesRow ==
  ASSUME NEW s \in Seq(Chars), NEW c \in Chars
  PROVE  /\ Row(s) \in Nat
         /\ Row(Append(s, c)) = IF c = LF THEN Row(s) + 1 ELSE Row(s)
  <1> DEFINE len == Len(s)
             t == Append(s, c)
             S == {k \in 1..len : s[k] = LF}
             T == {k \in 1..Len(t) : t[k] = LF}
  <1>1. len \in Nat /\ Len(t) = len + 1 /\ t[len + 1] = c /\ \A k \in 1..len : t[k] = s[k]
    OBVIOUS
  <1>2. Row(s) = Cardinality(S) /\ Row(t) = Cardinality(T)
    BY DEF Row
  <1> HIDE DEF len, t
  <1>3. IsFiniteSet(S) /\ Cardinality(S) \in Nat
    <2>1. IsFiniteSet(1..len)
      BY <1>1, FS_Interval, 1 \in Int, len \in Int
    <2>2. S \subseteq 1..len
      OBVIOUS
    <2>3. QED
      BY <2>1, <2>2, FS_Subset, FS_CardinalityType
  <1>4. T = IF c = LF THEN S \cup {len + 1} ELSE S
    <2>1. \A k \in 1..(len + 1) : k \in 1..len \/ k = len + 1
      BY <1>1
    <2>2. \A k \in 1..len : k \in 1..(len + 1)
      BY <1>1
    <2>3. len + 1 \in 1..(len + 1)
      BY <1>1
    <2>4. QED
      BY <1>1, <2>1, <2>2, <2>3
  <1>5. len + 1 \notin S
    BY <1>1
  <1> HIDE DEF S, T
  <1>6. QED
    BY <1>2, <1>3, <1>4, <1>5, FS_AddElement DEF t

\* The same for the two terminals the console is compared with.
LEMMA Terminals ==
  ASSUME NEW s \in Seq(Chars), NEW c \in Chars, NEW returns \in {{CR}, {CR, LF}}
  PROVE  /\ c \in returns => Column(Append(s, c), returns) = 0
         /\ c = "x" => Column(Append(s, c), returns) = Column(s, returns) + 1
         /\ c = LF /\ returns = {CR} => Column(Append(s, c), returns) = Column(s, returns)
         /\ c = LF => Row(Append(s, c)) = Row(s) + 1
         /\ c # LF => Row(Append(s, c)) = Row(s)
  <1>1. "x" \notin returns /\ LF # "x" /\ LF \notin {CR}
    BY DEF CR, LF
  <1>2. QED
    BY <1>1, CharMovesColumn, CharMovesRow

-----------------------------------------------------------------------------
\* Where a CR is the last character asked for, both cursors are in the first
\* column; a LF that follows a CR of the same buffer follows one of the text.
ConsInv ==
  /\ consPc \in {"idle", "program", "writing"}
  /\ buf \in Seq(Chars) /\ text \in Seq(Chars) /\ sent \in Seq(Chars)
  /\ at \in 0..Len(buf)
  /\ at > 0 => Len(text) > 0 /\ text[Len(text)] = buf[at]
  /\ Len(text) > 0 /\ text[Len(text)] = CR => Column(text, {CR, LF}) = 0
  /\ CursorAsPosix

LEMMA ConsInvInit == ConsIdle \/ ConsInit => ConsInv
  <1>1. << >> \in Seq(Chars) /\ Len(<< >>) = 0
    OBVIOUS
  <1>2. /\ Row(<< >>) = 0
        /\ \A returns : Column(<< >>, returns) = 0
    BY <1>1, FS_EmptySet DEF Row, Column
  <1> SUFFICES ASSUME ConsIdle \/ ConsInit PROVE ConsInv
    OBVIOUS
  <1>3. buf = << >> /\ at = 0 /\ text = << >> /\ sent = << >> /\ consPc \in {"idle", "program"}
    BY DEF ConsIdle, ConsInit
  <1>4. CursorAsPosix
    BY <1>2, <1>3 DEF CursorAsPosix
  <1>5. QED
    BY <1>1, <1>3, <1>4 DEF ConsInv

LEMMA ConsInvNext == ConsInv /\ [ConsNext]_consVars => ConsInv'
  <1> SUFFICES ASSUME ConsInv, [ConsNext]_consVars PROVE ConsInv'
    OBVIOUS
  <1>1. CASE UNCHANGED consVars
    BY <1>1 DEF consVars, ConsInv, CursorAsPosix, Column, Row
  <1>2. CASE WriteCall
    <2>1. buf' \in Seq(Chars) /\ at' = 0 /\ consPc' = "writing" /\ text' = text /\ sent' = sent
      <3>1. PICK k \in 1..(TextMax - Len(text)) : buf' \in [1..k -> Chars]
        BY <1>2 DEF WriteCall
      <3>2. k \in Nat
        OBVIOUS
      <3>3. QED
        BY <1>2, <3>1, <3>2 DEF WriteCall
    <2>2. QED
      BY <2>1 DEF ConsInv, CursorAsPosix, Column, Row
  <1>3. CASE WriteChar
    <2> DEFINE c == buf[at + 1]
    <2>1. /\ at + 1 \in 1..Len(buf) /\ c \in Chars /\ at' = at + 1 /\ at' \in 0..Len(buf)
          /\ consPc' = consPc /\ buf' = buf /\ text' = Append(text, c)
          /\ sent' = sent \o (IF NeedsReturn(at + 1) THEN <<CR, c>> ELSE <<c>>)
      BY <1>3 DEF WriteChar, ConsInv
    <2>2. sent' = IF NeedsReturn(at + 1) THEN Append(Append(sent, CR), c) ELSE Append(sent, c)
      <3>1. sent \in Seq(Chars) /\ CR \in Chars /\ c \in Chars
        BY <2>1 DEF ConsInv, Chars
      <3>2. sent \o <<c>> = Append(sent, c)
        BY <3>1, AppendIsConcat
      <3>3. sent \o <<CR>> = Append(sent, CR) /\ Append(sent, CR) \in Seq(Chars)
        BY <3>1, AppendIsConcat
      <3>4. Append(sent, CR) \o <<c>> = Append(Append(sent, CR), c)
        BY <3>1, <3>3, AppendIsConcat
      <3>5. <<CR>> \in Seq(Chars) /\ <<c>> \in Seq(Chars) /\ <<CR>> \o <<c>> = <<CR, c>>
        <4> HIDE DEF c
        <4>1. <<CR>> \in Seq(Chars) /\ <<c>> \in Seq(Chars)
          BY <3>1
        <4>2. <<CR>> \o <<c>> = Append(<<CR>>, c)
          BY <3>1, <4>1, AppendIsConcat
        <4>3. Append(<<CR>>, c) = <<CR, c>>
          <5>1. <<CR, c>> \in Seq(Chars) /\ Len(<<CR, c>>) = 2
            BY <3>1
          <5>2. Append(<<CR>>, c) \in Seq(Chars) /\ Len(Append(<<CR>>, c)) = 2
            BY <3>1, <4>1
          <5>3. \A k \in 1..2 : Append(<<CR>>, c)[k] = <<CR, c>>[k]
            BY <3>1, <4>1
          <5>4. QED
            BY <5>1, <5>2, <5>3, SeqEqual
        <4>4. QED
          BY <4>1, <4>2, <4>3
      <3>6. sent \o <<CR, c>> = (sent \o <<CR>>) \o <<c>>
        BY <3>1, <3>5, ConcatAssociative
      <3>7. QED
        BY <2>1, <3>2, <3>3, <3>4, <3>6
    <2>3. /\ CR \in Chars /\ CR # LF /\ CR # "x" /\ LF # "x" /\ c \in {CR, LF, "x"}
          /\ "x" \notin {CR} /\ "x" \notin {CR, LF}
      BY <2>1 DEF Chars, CR, LF
    <2>4. Append(sent, CR) \in Seq(Chars) /\ text \in Seq(Chars) /\ sent \in Seq(Chars)
      BY <2>3 DEF ConsInv
    <2> HIDE DEF c
    <2>5. /\ text' \in Seq(Chars) /\ sent' \in Seq(Chars)
          /\ Len(text') > 0 /\ text'[Len(text')] = c
      BY <2>1, <2>2, <2>4
    <2> DEFINE returned == Append(sent, CR)
    <2>6. /\ returned \in Seq(Chars) /\ Column(returned, {CR}) = 0 /\ Row(returned) = Row(sent)
      BY <2>3, <2>4, Terminals
    <2>7. /\ c \in Chars
          /\ c \in {CR, LF} => Column(text', {CR, LF}) = 0
          /\ c = "x" => Column(text', {CR, LF}) = Column(text, {CR, LF}) + 1
          /\ Row(text') = IF c = LF THEN Row(text) + 1 ELSE Row(text)
      <3>1. text' = Append(text, c) /\ c \in Chars
        BY <2>1
      <3>2. QED
        BY <2>4, <3>1, Terminals
    <2> HIDE DEF returned
    <2>8. CASE NeedsReturn(at + 1)
      <3>1. c = LF
        BY <2>8 DEF NeedsReturn, c
      <3>2. sent' = Append(returned, c)
        BY <2>2, <2>8 DEF returned
      <3>3. Column(sent', {CR}) = Column(returned, {CR}) /\ Row(sent') = Row(returned) + 1
        BY <2>6, <2>7, <3>1, <3>2, Terminals
      <3>4. Column(sent', {CR}) = Column(text', {CR, LF}) /\ Row(sent') = Row(text')
        BY <2>6, <2>7, <3>1, <3>3 DEF ConsInv, CursorAsPosix
      <3>5. QED
        BY <2>1, <2>3, <2>5, <2>7, <3>1, <3>4 DEF ConsInv, CursorAsPosix, c
    <2>9. CASE ~NeedsReturn(at + 1)
      <3>1. sent' = Append(sent, c)
        BY <2>2, <2>9
      <3>2. c = LF => at > 0 /\ buf[at] = CR
        BY <2>1, <2>9 DEF NeedsReturn, ConsInv, c
      <3>3. c = LF => Column(sent, {CR}) = 0
        BY <3>2 DEF ConsInv, CursorAsPosix
      <3>4. /\ c = CR => Column(sent', {CR}) = 0
            /\ c = "x" => Column(sent', {CR}) = Column(sent, {CR}) + 1
            /\ c = LF => Column(sent', {CR}) = Column(sent, {CR})
            /\ Row(sent') = IF c = LF THEN Row(sent) + 1 ELSE Row(sent)
        BY <2>4, <2>7, <3>1, Terminals
      <3>5. Column(sent', {CR}) = Column(text', {CR, LF}) /\ Row(sent') = Row(text')
        BY <2>3, <2>7, <3>3, <3>4 DEF ConsInv, CursorAsPosix
      <3>6. QED
        BY <2>1, <2>3, <2>5, <2>7, <3>5 DEF ConsInv, CursorAsPosix, c
    <2>10. QED
      BY <2>8, <2>9
  <1>4. CASE WriteReturns
    BY <1>4 DEF WriteReturns, ConsInv, CursorAsPosix, Column, Row
  <1>5. QED
    BY <1>1, <1>2, <1>3, <1>4 DEF ConsNext

-----------------------------------------------------------------------------
\* memcpy, memmove, memset: what has been passed holds what it should and the
\* rest of the memory what it held.  The direction sees to it that the next
\* byte to be read is among the rest.
Copied(a) == -(p2 + a - dst)
Parameters ==
  /\ dst \in Bytes /\ p2 \in Int /\ p3 \in Int /\ Length \in Nat /\ Room(dst, Length)
  /\ memOp \in Moves => p2 \in Bytes /\ Room(p2, p3)
  /\ memOp = "memcpy" => Apart(dst, p2, p3)

\* The memory when the bytes from..to-1 are done.
Right(a) == IF memOp \in Moves THEN Copied(a) ELSE Value
Filled(from, to) == [a \in Bytes |-> IF a < from \/ a >= to THEN -a ELSE Right(a)]
Done(from, to) == bytes = Filled(from, to)

MemInv ==
  /\ memPc \in {"idle", "called", "up", "down", "fill", "returned"}
  /\ memOp \in Moves \cup Fills
  /\ memPc # "idle" => Parameters /\ cursor \in 0..Length
  /\ memPc = "called" => cursor = 0 /\ Done(dst, dst)
  /\ memPc = "up" => memOp \in Moves /\ Direction = "up" /\ Done(dst, dst + cursor)
  /\ memPc = "down" =>
       memOp = "memmove" /\ Direction = "down" /\ Done(dst + cursor, dst + Length)
  /\ memPc = "fill" => memOp \in Fills /\ Done(dst, dst + cursor)
  /\ memPc = "returned" => Done(dst, dst + Length)

LEMMA OneByteUp ==
  ASSUME NEW from \in Int, NEW to \in Bytes, from <= to, Done(from, to)
  PROVE  [bytes EXCEPT ![to] = Right(to)] = Filled(from, to + 1)
  <1>1. \A a \in Bytes : /\ a \in Int /\ to \in Int
                         /\ a < from \/ a >= to + 1 <=> (a < from \/ a >= to) /\ a # to
    BY DEF Bytes
  <1>2. bytes = [a \in Bytes |-> IF a < from \/ a >= to THEN -a ELSE Right(a)]
    BY DEF Done, Filled, Right
  <1>3. [bytes EXCEPT ![to] = Right(to)] =
           [a \in Bytes |-> IF a < from \/ a >= to + 1 THEN -a ELSE Right(a)]
    BY <1>1, <1>2
  <1>4. QED
    BY <1>3 DEF Filled

LEMMA OneByteDown ==
  ASSUME NEW from \in Bytes, NEW to \in Int, from < to, Done(from + 1, to)
  PROVE  [bytes EXCEPT ![from] = Right(from)] = Filled(from, to)
  <1>1. \A a \in Bytes : /\ a \in Int /\ from \in Int
                         /\ a < from \/ a >= to <=> (a < from + 1 \/ a >= to) /\ a # from
    BY DEF Bytes
  <1>2. bytes = [a \in Bytes |-> IF a < from + 1 \/ a >= to THEN -a ELSE Right(a)]
    BY DEF Done, Filled, Right
  <1>3. [bytes EXCEPT ![from] = Right(from)] =
           [a \in Bytes |-> IF a < from \/ a >= to THEN -a ELSE Right(a)]
    BY <1>1, <1>2
  <1>4. QED
    BY <1>3 DEF Filled

LEMMA MemInvInit == MemIdle \/ MemInit => MemInv
  <1>1. ASSUME MemIdle PROVE MemInv
    BY <1>1 DEF MemIdle, MemInv, Moves
  <1>2. ASSUME MemInit PROVE MemInv
    <2>1. MemEnd \in Nat \ {0}
      BY MemoryAssumption
    <2>2. memOp \in Moves \cup Fills /\ memPc = "called" /\ cursor = 0
      BY <1>2 DEF MemInit, Moves, Fills
    <2>3. Parameters /\ 0 \in 0..Length
      BY <1>2, <2>1 DEF MemInit, Moves, Fills, Parameters, Length, Bytes, Room
    <2>4. Done(dst, dst)
      <3>1. \A a \in Bytes : a < dst \/ a >= dst
        BY <1>2 DEF MemInit, Bytes
      <3>2. QED
        BY <1>2, <3>1 DEF MemInit, Done, Filled, Right
    <2>5. QED
      BY <2>2, <2>3, <2>4 DEF MemInv
  <1>3. QED
    BY <1>1, <1>2

LEMMA MemInvNext == MemInv /\ [MemNext]_memVars => MemInv'
  <1> SUFFICES ASSUME MemInv, [MemNext]_memVars PROVE MemInv'
    OBVIOUS
  <1>1. CASE UNCHANGED memVars
    BY <1>1 DEF memVars, MemInv, Parameters, Length, Done, Filled, Right, Copied, Value, Direction, Room
  <1>2. ASSUME MemNext PROVE UNCHANGED <<memOp, dst, p2, p3>> /\ memPc # "idle"
    BY <1>2 DEF MemNext, EnterHelper, MoveUp, MoveDown, Fill, HelperReturns
  <1>3. ASSUME MemNext
        PROVE  /\ Parameters /\ Parameters' /\ Length' = Length /\ Direction' = Direction
               /\ Value' = Value /\ \A a : Copied(a)' = Copied(a)
    BY <1>2, <1>3 DEF MemInv, Parameters, Length, Direction, Value, Copied, Room
  <1>4. ASSUME MemNext PROVE dst \in Int /\ p2 \in Int /\ p3 \in Int /\ Length \in Nat /\ cursor \in 0..Length
    BY <1>2, <1>4 DEF MemInv, Parameters, Bytes
  <1>5. CASE EnterHelper
    <2>1. MemNext /\ cursor = 0 /\ Done(dst, dst) /\ bytes' = bytes /\ memPc = "called"
      BY <1>5 DEF MemNext, EnterHelper, MemInv
    <2>2. ASSUME memOp = "memmove", dst = p2 \/ p3 = 0
          PROVE  Done(dst, dst + Length)'
      <3>1. Length = p3
        BY <2>2 DEF Length
      <3>2. \A a \in Bytes : a < dst \/ a >= dst + p3 \/ Copied(a) = -a
        BY <1>4, <2>1, <2>2 DEF Bytes, Copied
      <3>3. \A a \in Bytes : a < dst \/ a >= dst
        BY <1>4, <2>1 DEF Bytes
      <3>4. QED
        BY <1>2, <1>3, <2>1, <2>2, <3>1, <3>2, <3>3 DEF Done, Filled, Right, Moves
    <2>3. Done(dst, dst + 0)' /\ Done(dst + Length, dst + Length)'
      <3>1. \A a \in Bytes : /\ a < dst \/ a >= dst
                             /\ a < dst \/ a >= dst + 0
                             /\ a < dst + Length \/ a >= dst + Length
        BY <1>4, <2>1 DEF Bytes
      <3>2. QED
        BY <1>2, <1>3, <2>1, <3>1 DEF Done, Filled, Right
    <2>4. QED
      BY <1>2, <1>3, <1>4, <1>5, <2>1, <2>2, <2>3
      DEF EnterHelper, MemInv, Direction, Length, Moves, Fills
  <1>6. CASE MoveUp
    <2>1. MemNext /\ memPc = "up" /\ memPc' = "up" /\ memOp \in Moves /\ Direction = "up"
          /\ Done(dst, dst + cursor) /\ cursor < p3 /\ cursor' = cursor + 1
          /\ bytes' = [bytes EXCEPT ![dst + cursor] = bytes[p2 + cursor]]
      BY <1>6 DEF MemNext, MoveUp, MemInv
    <2>2. Length = p3
      BY <2>1 DEF Length, Moves
    <2>3. p2 + cursor \in Bytes /\ dst + cursor \in Bytes /\ cursor \in 0..p3
      BY <1>3, <1>4, <2>1, <2>2, MemoryAssumption DEF Parameters, Bytes, Room
    <2>4. p2 + cursor < dst \/ p2 + cursor >= dst + cursor
      BY <1>3, <1>4, <2>1, <2>3 DEF Parameters, Direction, Apart
    <2>5. bytes[p2 + cursor] = Copied(dst + cursor)
      BY <1>4, <2>1, <2>3, <2>4 DEF Done, Filled, Right, Copied
    <2>6. Done(dst, dst + cursor)'
      <3> DEFINE to == dst + cursor
      <3>1. to \in Bytes /\ dst \in Int /\ dst <= to /\ dst + cursor' = to + 1
            /\ bytes[p2 + cursor] = Right(to)
        BY <1>4, <2>1, <2>3, <2>5 DEF Right
      <3>2. bytes' = [bytes EXCEPT ![to] = Right(to)] /\ Done(dst, to)
        BY <2>1, <3>1
      <3> HIDE DEF to
      <3>3. bytes' = Filled(dst, to + 1)
        BY <3>1, <3>2, OneByteUp
      <3>4. QED
        BY <1>2, <1>3, <2>1, <3>1, <3>3 DEF Done, Filled, Right
    <2>7. QED
      BY <1>2, <1>3, <1>4, <2>1, <2>2, <2>3, <2>6 DEF MemInv, Done, Filled, Right
  <1>7. CASE MoveDown
    <2>1. MemNext /\ memPc = "down" /\ memPc' = "down" /\ memOp = "memmove" /\ Direction = "down"
          /\ Done(dst + cursor, dst + Length) /\ cursor > 0 /\ cursor' = cursor - 1
          /\ bytes' = [bytes EXCEPT ![dst + cursor - 1] = bytes[p2 + cursor - 1]]
      BY <1>7 DEF MemNext, MoveDown, MemInv
    <2>2. Length = p3 /\ memOp \in Moves /\ dst >= p2
      BY <1>4, <2>1 DEF Length, Moves, Direction
    <2>3. p2 + cursor - 1 \in Bytes /\ dst + cursor - 1 \in Bytes /\ cursor \in 1..p3
      BY <1>3, <1>4, <2>1, <2>2, MemoryAssumption DEF Parameters, Bytes, Room
    <2>4. p2 + cursor - 1 < dst + cursor
      BY <1>4, <2>1, <2>2, <2>3
    <2>5. bytes[p2 + cursor - 1] = Copied(dst + cursor - 1)
      BY <1>4, <2>1, <2>3, <2>4 DEF Done, Filled, Right, Copied
    <2>6. Done(dst + cursor, dst + Length)'
      <3> DEFINE from == dst + cursor - 1
                 to == dst + Length
      <3>1. from \in Bytes /\ to \in Int /\ from < to /\ dst + cursor' = from
            /\ bytes[p2 + cursor - 1] = Right(from) /\ dst + cursor = from + 1
        BY <1>4, <2>1, <2>2, <2>3, <2>5 DEF Right
      <3>2. bytes' = [bytes EXCEPT ![from] = Right(from)] /\ Done(from + 1, to)
        BY <2>1, <3>1
      <3>3. to = dst' + Length'
        BY <1>2, <1>3, <2>1
      <3> HIDE DEF from, to
      <3>4. bytes' = Filled(from, to)
        BY <3>1, <3>2, OneByteDown
      <3>5. QED
        BY <1>2, <1>3, <2>1, <3>1, <3>3, <3>4 DEF Done, Filled, Right
    <2>7. QED
      BY <1>2, <1>3, <1>4, <2>1, <2>2, <2>3, <2>6 DEF MemInv, Done, Filled, Right
  <1>8. CASE Fill
    <2>1. MemNext /\ memPc = "fill" /\ memPc' = "fill" /\ memOp \in Fills
          /\ Done(dst, dst + cursor) /\ cursor < Length /\ cursor' = cursor + 1
          /\ bytes' = [bytes EXCEPT ![dst + cursor] = Value]
      BY <1>8 DEF MemNext, Fill, MemInv
    <2>2. memOp \notin Moves
      BY <2>1 DEF Fills, Moves
    <2>3. dst + cursor \in Bytes /\ cursor + 1 \in 0..Length
      BY <1>3, <1>4, <2>1, MemoryAssumption DEF Parameters, Bytes, Room
    <2>4. Done(dst, dst + cursor)'
      <3> DEFINE to == dst + cursor
      <3>1. to \in Bytes /\ dst \in Int /\ dst <= to /\ dst + cursor' = to + 1
            /\ Value = Right(to)
        BY <1>4, <2>1, <2>2, <2>3 DEF Right
      <3>2. bytes' = [bytes EXCEPT ![to] = Right(to)] /\ Done(dst, to)
        BY <2>1, <3>1
      <3> HIDE DEF to
      <3>3. bytes' = Filled(dst, to + 1)
        BY <3>1, <3>2, OneByteUp
      <3>4. QED
        BY <1>2, <1>3, <2>1, <3>1, <3>3 DEF Done, Filled, Right
    <2>5. QED
      BY <1>2, <1>3, <1>4, <2>1, <2>3, <2>4 DEF MemInv, Done, Filled, Right
  <1>9. CASE HelperReturns
    <2>1. /\ MemNext /\ memPc' = "returned" /\ bytes' = bytes /\ cursor' = cursor
          /\ memPc \in {"up", "down", "fill"}
      BY <1>9 DEF MemNext, HelperReturns
    <2>2. CASE memPc = "up"
      <3>1. Done(dst, dst + Length)
        BY <1>9, <2>2 DEF HelperReturns, MemInv, Length, Moves
      <3>2. QED
        BY <1>2, <1>3, <1>4, <2>1, <3>1 DEF MemInv, Done, Filled, Right
    <2>3. CASE memPc = "down"
      <3>1. cursor = 0 /\ Done(dst + cursor, dst + Length)
        BY <1>9, <2>3 DEF HelperReturns, MemInv
      <3>2. Done(dst, dst + Length)
        BY <1>4, <2>1, <3>1
      <3>3. QED
        BY <1>2, <1>3, <1>4, <2>1, <3>2 DEF MemInv, Done, Filled, Right
    <2>4. CASE memPc = "fill"
      <3>1. Done(dst, dst + Length)
        BY <1>9, <2>4 DEF HelperReturns, MemInv
      <3>2. QED
        BY <1>2, <1>3, <1>4, <2>1, <3>1 DEF MemInv, Done, Filled, Right
    <2>5. QED
      BY <2>1, <2>2, <2>3, <2>4
  <1>10. QED
    BY <1>1, <1>5, <1>6, <1>7, <1>8, <1>9 DEF MemNext

LEMMA MovedRange == MemInv => RangeMoved
  <1> SUFFICES ASSUME MemInv, memPc = "returned", NEW a \in Bytes
               PROVE  LET len == IF memOp = "aeabi_memset" THEN p2 ELSE p3
                      IN  bytes[a] = IF a \notin dst..(dst + len - 1) THEN -a
                                     ELSE CASE memOp \in Moves -> -(p2 + a - dst)
                                            [] memOp = "memset" -> p2
                                            [] memOp = "aeabi_memset" -> p3
    BY DEF RangeMoved
  <1>1. Parameters /\ Done(dst, dst + Length) /\ memOp \in Moves \cup Fills
    BY DEF MemInv
  <1>2. a \in dst..(dst + Length - 1) <=> ~(a < dst \/ a >= dst + Length)
    BY <1>1 DEF Parameters, Bytes
  <1>3. QED
    BY <1>1, <1>2 DEF Done, Filled, Right, Copied, Length, Value, Moves, Fills

-----------------------------------------------------------------------------
\* Whatever the integer, its digits, its sign and the terminator stay inside
\* the buffer on the SVC stack.
THEOREM NumbersFitBuf == Spec => []InsideBuf
  <1>1. Init => DecInv
    BY DecInvInit DEF Init
  <1>2. DecInv /\ [Next]_routineVars => DecInv'
    BY DecInvNext DEF Next, routineVars, Divide, Argv, Console, Memory, Decimal
  <1>3. DecInv => InsideBuf
    BY DEF DecInv
  <1>4. QED
    BY <1>1, <1>2, <1>3, PTL DEF Spec

\* Whatever the tail, if it is shorter than argbuf, its words and their
\* terminators stay inside argbuf and the arguments inside argvec.
THEOREM TailsFitArgBuf == Spec => []InsideArgBuf
  <1>1. Init => ArgvInv
    BY ArgvInvInit DEF Init
  <1>2. ArgvInv /\ [Next]_routineVars => ArgvInv'
    BY ArgvInvNext DEF Next, routineVars, Divide, Argv, Console, Memory, Decimal
  <1>3. ArgvInv => InsideArgBuf
    BY ArgvAssumption DEF ArgvInv, InsideArgBuf, Behind
  <1>4. QED
    BY <1>1, <1>2, <1>3, PTL DEF Spec

\* The division of words, signed and unsigned, is right for registers of any
\* width.  Of pairs of registers it is not: WordOnly excludes them.
THEOREM WordsDivide == ASSUME WordOnly PROVE Spec => []QuotientAndRemainder
  <1>1. Init => DivInv
    BY DivInvInit DEF Init
  <1>2. DivInv /\ [Next]_routineVars => DivInv'
    BY DivInvNext DEF Next, routineVars, Divide, Argv, Console, Memory, Decimal
  <1>3. DivInv => QuotientAndRemainder
    BY DEF DivInv
  <1>4. QED
    BY <1>1, <1>2, <1>3, PTL DEF Spec

\* What OS_Write0 is handed is the integer: every digit the one of its place,
\* none left out, no zero before it, and the most negative integer, too.
THEOREM NumbersWrittenRight == Spec => []NumberWritten
  <1>1. Init => DecInv /\ NumberInv
    BY DecInvInit, NumberInvInit DEF Init
  <1>2. DecInv /\ NumberInv /\ [Next]_routineVars => DecInv' /\ NumberInv'
    BY DecInvNext, NumberInvNext DEF Next, routineVars, Divide, Argv, Console, Memory, Decimal
  <1>3. NumberInv => NumberWritten
    BY DEF NumberInv, NumberWritten
  <1>4. QED
    BY <1>1, <1>2, <1>3, PTL DEF Spec

\* Whatever the tail, main gets its words: every letter once and in order
\* unless the table is full, neighbours together, blanks only from quotes.
THEOREM TailsKeepWords == Spec => []WordsKept
  <1>1. Init => ArgvInv /\ WordInv
    BY ArgvInvInit, WordInvInit DEF Init
  <1>2. ArgvInv /\ WordInv /\ [Next]_routineVars => ArgvInv' /\ WordInv'
    BY ArgvInvNext, WordInvNext DEF Next, routineVars, Divide, Argv, Console, Memory, Decimal
  <1>3. ArgvInv /\ WordInv => WordsKept
    BY WordsFollow
  <1>4. QED
    BY <1>1, <1>2, <1>3, PTL DEF Spec

\* Whatever the program writes and however it splits it over calls, the cursor
\* follows the one of a POSIX terminal.
THEOREM ConsoleFollowsPosix == Spec => []CursorAsPosix
  <1>1. Init => ConsInv
    BY ConsInvInit DEF Init
  <1>2. ConsInv /\ [Next]_routineVars => ConsInv'
    BY ConsInvNext DEF Next, routineVars, Divide, Argv, Console, Memory, Decimal
  <1>3. ConsInv => CursorAsPosix
    BY DEF ConsInv
  <1>4. QED
    BY <1>1, <1>2, <1>3, PTL DEF Spec

\* Memory of any size: memcpy of ranges apart, memmove of any two and memset
\* leave the range with what it should have and the rest as it was.
THEOREM RangesMove == Spec => []RangeMoved
  <1>1. Init => MemInv
    BY MemInvInit DEF Init
  <1>2. MemInv /\ [Next]_routineVars => MemInv'
    BY MemInvNext DEF Next, routineVars, Divide, Argv, Console, Memory, Decimal
  <1>3. MemInv => RangeMoved
    BY MovedRange
  <1>4. QED
    BY <1>1, <1>2, <1>3, PTL DEF Spec
=============================================================================

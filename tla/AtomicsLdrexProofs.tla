------------------------ MODULE AtomicsLdrexProofs ------------------------
(***************************************************************************)
(* The load-exclusive loop implements the atomic word for any number of    *)
(* contexts, any operations and any number of interrupts.                  *)
(***************************************************************************)
EXTENDS AtomicsLdrex, TLAPS

\* A word stays a word under addition and subtraction.
LEMMA AfterWord ==
  ASSUME NEW op \in Ops, NEW w \in 0..(Modulus - 1)
  PROVE  After(op, w) \in 0..(Modulus - 1)
  <1>1. op.val \in Int /\ w \in Int /\ Modulus \in Nat \ {0}
    BY AtomicAssumption
  <1>2. \A n \in Int : n % Modulus \in 0..(Modulus - 1)
    BY <1>1
  <1>3. CASE op.kind = "add"
    BY <1>1, <1>2, <1>3 DEF After
  <1>4. CASE op.kind = "sub"
    BY <1>1, <1>2, <1>4 DEF After
  <1>5. QED
    BY <1>3, <1>4, LdrexAssumption

LEMMA CallFacts ==
  ASSUME ATypeOK, NEW c \in Ctx
  PROVE  /\ call[c] = Idle \/ call[c].op \in Ops
         /\ call[c] = Idle => call[c].state = "idle"
         /\ call[c].state \in {"idle", "called", "done"}
  BY DEF ATypeOK, Calls, Idle, Called, Done

LEMMA DoneIsCall ==
  ASSUME NEW op \in Ops, NEW old \in 0..(Modulus - 1), NEW ok \in BOOLEAN
  PROVE  Done(op, old, ok) \in Calls
  <1>1. Done(op, old, ok)
          \in {Done(p, w, b) : p \in Ops, w \in 0..(Modulus - 1), b \in BOOLEAN}
    OBVIOUS
  <1>2. QED
    BY <1>1 DEF Calls

LEMMA MonitorInit == Init => MonitorInv
  BY AtomicAssumption DEF Init, AInit, MonitorInv, ATypeOK, Calls, None

LEMMA MonitorNext == MonitorInv /\ [Next]_vars => MonitorInv'
  <1> SUFFICES ASSUME MonitorInv, [Next]_vars PROVE MonitorInv'
    OBVIOUS
  <1>0. ATypeOK
    BY DEF MonitorInv
  <1>1. ASSUME NEW c \in Ctx, Enter(c)
        PROVE  MonitorInv'
    <2>1. PICK op \in Ops : Invoke(c, op)
      BY <1>1 DEF Enter
    <2>2. ATypeOK'
      <3>1. word' \in 0..(Modulus - 1) /\ issued' \in Nat
        BY <2>1, <1>0 DEF ATypeOK, Invoke
      <3>2. Called(op) \in Calls
        BY DEF Calls
      <3>3. call' = [call EXCEPT ![c] = Called(op)]
        BY <2>1 DEF Invoke
      <3>4. QED
        BY <1>0, <3>1, <3>2, <3>3 DEF ATypeOK
    <2>3. call[c].state = "idle"
      BY <2>1, <1>0, CallFacts DEF Invoke
    <2>4. QED
      BY <1>1, <2>1, <2>2, <2>3 DEF MonitorInv, Enter, Invoke, ATypeOK
  <1>2. ASSUME NEW c \in Ctx, LoadExclusive(c)
        PROVE  MonitorInv'
    BY <1>2 DEF MonitorInv, ATypeOK, LoadExclusive, None
  <1>3. ASSUME NEW c \in Ctx, StoreExclusive(c)
        PROVE  MonitorInv'
    <2>1. call[c].op \in Ops /\ r2[c] \in 0..(Modulus - 1)
      BY <1>0, <1>3, CallFacts DEF StoreExclusive, MonitorInv, Idle
    <2>2. After(call[c].op, r2[c]) \in 0..(Modulus - 1)
      BY <2>1, AfterWord
    <2>3. Done(call[c].op, r2[c], TRUE) \in Calls
      BY <2>1, DoneIsCall
    <2>4. ATypeOK'
      BY <1>0, <1>3, <2>1, <2>2, <2>3 DEF ATypeOK, StoreExclusive
    <2>5. QED
      BY <1>3, <2>4 DEF MonitorInv, StoreExclusive
  <1>4. ASSUME NEW c \in Ctx, Leave(c)
        PROVE  MonitorInv'
    <2>1. ATypeOK'
      <3>1. Idle \in Calls
        BY DEF Calls
      <3>2. QED
        BY <1>0, <1>4, <3>1 DEF ATypeOK, Leave, Return
    <2>2. QED
      BY <1>4, <2>1 DEF MonitorInv, Leave, Return
  <1>5. CASE UNCHANGED vars
    BY <1>5 DEF vars, MonitorInv, ATypeOK
  <1>6. QED
    BY <1>1, <1>2, <1>3, <1>4, <1>5 DEF Next, Step

THEOREM MonitorAlways == Spec => []MonitorInv
  BY MonitorInit, MonitorNext, PTL DEF Spec

\* Each step of the loop is a step of the atomic word or leaves it alone: the
\* successful store-exclusive is the instant at which the operation acts.
LEMMA StepRefines ==
  ASSUME MonitorInv, [Next]_vars
  PROVE  [ANext]_avars
  <1>1. ASSUME NEW c \in Ctx, Enter(c)
        PROVE  ANext
    BY <1>1 DEF Enter, ANext
  <1>2. ASSUME NEW c \in Ctx, LoadExclusive(c)
        PROVE  UNCHANGED avars
    BY <1>2 DEF LoadExclusive, avars
  <1>3. ASSUME NEW c \in Ctx, StoreExclusive(c)
        PROVE  [ANext]_avars
    <2>1. CASE monitor = c
      <3>1. /\ r2[c] = word
            /\ word' = After(call[c].op, word)
            /\ call' = [call EXCEPT ![c] = Done(call[c].op, word, TRUE)]
            /\ call[c].state = "called" /\ issued' = issued
        <4>1. monitor # None
          BY <2>1, LdrexAssumption DEF None
        <4>2. QED
          BY <1>3, <2>1, <4>1 DEF StoreExclusive, MonitorInv
      <3>2. call[c].op \in Ops
        BY <3>1, CallFacts DEF MonitorInv, Idle
      <3>3. Succeeds(call[c].op, word) = TRUE
        BY <3>2, LdrexAssumption DEF Succeeds
      <3>4. TakeEffect(c)
        BY <3>1, <3>3 DEF TakeEffect
      <3>5. QED
        BY <3>4 DEF ANext
    <2>2. CASE monitor # c
      BY <1>3, <2>2 DEF StoreExclusive, avars
    <2>3. QED
      BY <2>1, <2>2
  <1>4. ASSUME NEW c \in Ctx, Leave(c)
        PROVE  ANext
    BY <1>4 DEF Leave, ANext
  <1>5. CASE UNCHANGED vars
    BY <1>5 DEF vars, avars
  <1>6. QED
    BY <1>1, <1>2, <1>3, <1>4, <1>5 DEF Next, Step

\* rostrt/atomics_ldrex.s implements the builtins' atomic word.
THEOREM LdrexIsAtomic == Spec => ImplementsAtomicWord
  <1>1. Init => AInit
    BY DEF Init
  <1>2. MonitorInv /\ [Next]_vars => [ANext]_avars
    BY StepRefines
  <1>3. QED
    BY <1>1, <1>2, MonitorAlways, PTL DEF Spec, ImplementsAtomicWord
=============================================================================

-------------------------- MODULE AtomicsSwpProofs --------------------------
(***************************************************************************)
(* What the SWP loops do implement, for any number of contexts, operations *)
(* and interrupts: the atomic word, up to the first write issued over a    *)
(* loop that has not finished.                                             *)
(***************************************************************************)
EXTENDS AtomicsSwp, TLAPS

\* Until then a loop that has loaded the word still has its present value, as
\* all that runs above it are loads.
LoopsAhead ==
  /\ \A c, d \in Ctx : c < d /\ Looping(c) /\ Active(d) => call[d].op.kind = "load"
  /\ \A c \in Ctx : Looping(c) /\ pc[c] = "swp" =>
       /\ seen[c] = word
       /\ call[c].op.kind = "cas" => word = call[c].op.expected

SwpInv ==
  /\ ATypeOK
  /\ pc \in [Ctx -> {"ldr", "swp"}]
  /\ seen \in [Ctx -> 0..(Modulus - 1)]
  /\ disturbed \in BOOLEAN
  /\ disturbed \/ LoopsAhead

-----------------------------------------------------------------------------
Kinds == {"add", "sub", "load", "store", "exchange", "cas"}

LEMMA OpTypes ==
  ASSUME NEW op \in Ops
  PROVE  op.kind \in Kinds /\ op.val \in 0..(Modulus - 1) /\ op.expected \in 0..(Modulus - 1)
  BY AtomicAssumption DEF Kinds

\* Whatever an operation makes of a word is a word.
LEMMA AfterWord ==
  ASSUME NEW op \in Ops, NEW w \in 0..(Modulus - 1)
  PROVE  After(op, w) \in 0..(Modulus - 1)
  <1>1. op.val \in Int /\ w \in Int /\ Modulus \in Nat \ {0} /\ op.val \in 0..(Modulus - 1)
    BY OpTypes, AtomicAssumption
  <1>2. \A n \in Int : n % Modulus \in 0..(Modulus - 1)
    BY <1>1
  <1>3. CASE op.kind = "add"
    BY <1>1, <1>2, <1>3 DEF After
  <1>4. CASE op.kind = "sub"
    BY <1>1, <1>2, <1>4 DEF After
  <1>5. CASE op.kind \in {"load", "store", "exchange", "cas"}
    BY <1>1, <1>5 DEF After
  <1>6. QED
    BY <1>3, <1>4, <1>5, OpTypes DEF Kinds

LEMMA CallShapes ==
  ASSUME NEW op, NEW old, NEW ok
  PROVE  /\ Called(op).state = "called" /\ Called(op).op = op
         /\ Done(op, old, ok).state = "done" /\ Done(op, old, ok).op = op
         /\ Idle.state = "idle" /\ Called(op) # Idle /\ Done(op, old, ok) # Idle
  BY DEF Called, Done, Idle

LEMMA CallTypes ==
  ASSUME ATypeOK, NEW c \in Ctx
  PROVE  /\ call[c] # Idle => call[c].op \in Ops
         /\ call[c].state = "called" => call[c] # Idle
         /\ call[c] # Idle => call[c].state \in {"called", "done"}
  BY CallShapes DEF ATypeOK, Calls, Idle, Called, Done

LEMMA CallsInclude ==
  ASSUME NEW op \in Ops, NEW old \in 0..(Modulus - 1), NEW ok \in BOOLEAN
  PROVE  Called(op) \in Calls /\ Done(op, old, ok) \in Calls /\ Idle \in Calls
  <1>1. /\ Called(op) \in {Called(p) : p \in Ops}
        /\ Done(op, old, ok)
             \in {Done(p, w, b) : p \in Ops, w \in 0..(Modulus - 1), b \in BOOLEAN}
    OBVIOUS
  <1>2. QED
    BY <1>1 DEF Calls

-----------------------------------------------------------------------------
LEMMA SwpInit == Init => SwpInv
  <1> SUFFICES ASSUME Init PROVE SwpInv
    OBVIOUS
  <1>1. \A c \in Ctx : call[c] = Idle /\ ~Looping(c) /\ ~Active(c)
    BY DEF Init, AInit, Looping, Active, Idle
  <1>2. ATypeOK
    BY AtomicAssumption DEF Init, AInit, ATypeOK, Calls
  <1>3. LoopsAhead
    BY <1>1 DEF LoopsAhead
  <1>4. 0 \in 0..(Modulus - 1)
    BY AtomicAssumption
  <1>5. QED
    BY <1>2, <1>3, <1>4 DEF Init, SwpInv

\* A context that is entered runs above all that are active: if it writes, it
\* disturbs the loops among them.
LEMMA SwpEnter == ASSUME SwpInv, NEW c \in Ctx, Enter(c) PROVE SwpInv'
  <1>1. PICK op \in Ops : /\ Invoke(c, op)
                          /\ disturbed' = (disturbed \/ (op.kind # "load" /\ \E d \in Ctx : Looping(d)))
    BY DEF Enter
  <1>2. /\ call[c] = Idle /\ call' = [call EXCEPT ![c] = Called(op)] /\ issued' \in Nat
        /\ word' = word /\ seen' = seen /\ pc' = [pc EXCEPT ![c] = "ldr"]
        /\ \A d \in Ctx : d > c => ~Active(d)
    BY <1>1 DEF Enter, Invoke, SwpInv, ATypeOK
  <1>3. ATypeOK' /\ pc' \in [Ctx -> {"ldr", "swp"}] /\ disturbed' \in BOOLEAN
    <2>1. Called(op) \in Calls
      BY DEF Calls
    <2>2. QED
      BY <1>1, <1>2, <2>1 DEF SwpInv, ATypeOK
  <1>4. ASSUME ~disturbed' PROVE LoopsAhead'
    <2>1. ~disturbed /\ LoopsAhead /\ (op.kind = "load" \/ \A d \in Ctx : ~Looping(d))
      BY <1>1, <1>4 DEF SwpInv
    <2>2. /\ call'[c] = Called(op) /\ call'[c].op = op /\ pc'[c] = "ldr"
          /\ \A d \in Ctx : d # c => call'[d] = call[d] /\ pc'[d] = pc[d]
      BY <1>2, CallShapes DEF SwpInv, ATypeOK
    <2>3. /\ Looping(c)' => op.kind \in {"add", "sub", "cas"}
          /\ \A d \in Ctx : d # c => (Looping(d)' <=> Looping(d)) /\ (Active(d)' <=> Active(d))
      BY <2>2 DEF Looping, Active
    <2>4. ASSUME NEW a \in Ctx, NEW b \in Ctx, a < b, Looping(a)', Active(b)'
          PROVE  call'[b].op.kind = "load"
      <3>1. a \in Nat /\ b \in Nat /\ a # b
        BY <2>4, SwpAssumption
      <3>2. CASE a = c
        BY <1>2, <2>3, <2>4, <3>1, <3>2
      <3>3. CASE b = c
        BY <2>1, <2>2, <2>3, <2>4, <3>1, <3>3
      <3>4. CASE a # c /\ b # c
        BY <2>1, <2>2, <2>3, <2>4, <3>4 DEF LoopsAhead
      <3>5. QED
        BY <3>2, <3>3, <3>4
    <2>5. ASSUME NEW a \in Ctx, Looping(a)', pc'[a] = "swp"
          PROVE  /\ seen'[a] = word'
                 /\ call'[a].op.kind = "cas" => word' = call'[a].op.expected
      BY <1>2, <2>1, <2>2, <2>3, <2>5 DEF LoopsAhead
    <2>6. QED
      BY <2>4, <2>5 DEF LoopsAhead
  <1>5. QED
    BY <1>2, <1>3, <1>4 DEF SwpInv

\* A step of a running context that leaves the word as it is, or changes it
\* while nobody below loops, and goes no further up than a swap of the
\* present value.
LEMMA LoopsKept ==
  ASSUME SwpInv, ~disturbed, NEW c \in Ctx, Running(c),
         \A d \in Ctx : d # c => call'[d] = call[d] /\ pc'[d] = pc[d] /\ seen'[d] = seen[d],
         call'[c].op = call[c].op \/ ~Active(c)',
         Looping(c)' => Looping(c),
         Looping(c)' /\ pc'[c] = "swp" =>
           /\ seen'[c] = word'
           /\ call'[c].op.kind = "cas" => word' = call'[c].op.expected,
         word' = word \/ call[c].op.kind # "load"
  PROVE  LoopsAhead'
  <1>1. LoopsAhead
    BY DEF SwpInv
  <1>2. \A d \in Ctx : d # c => (Looping(d)' <=> Looping(d)) /\ (Active(d)' <=> Active(d))
    BY DEF Looping, Active
  <1>3. ASSUME NEW a \in Ctx, NEW b \in Ctx, a < b, Looping(a)', Active(b)'
        PROVE  call'[b].op.kind = "load"
    <2>1. Looping(a) /\ Active(b)
      BY <1>2, <1>3 DEF Running
    <2>2. QED
      BY <1>1, <1>3, <2>1 DEF LoopsAhead
  <1>4. ASSUME NEW a \in Ctx, a # c, Looping(a) PROVE word' = word
    <2>1. a \in Nat /\ c \in Nat
      BY SwpAssumption
    <2>2. Active(a)
      BY <1>4, CallTypes DEF SwpInv, Active, Looping
    <2>3. a < c
      BY <1>4, <2>1, <2>2 DEF Running
    <2>4. QED
      BY <1>1, <1>4, <2>3 DEF LoopsAhead, Running
  <1>5. ASSUME NEW a \in Ctx, Looping(a)', pc'[a] = "swp"
        PROVE  /\ seen'[a] = word'
               /\ call'[a].op.kind = "cas" => word' = call'[a].op.expected
    BY <1>1, <1>2, <1>4, <1>5 DEF LoopsAhead
  <1>6. QED
    BY <1>3, <1>5 DEF LoopsAhead

LEMMA SwpStep == ASSUME SwpInv, NEW c \in Ctx, Step(c) PROVE SwpInv'
  <1>1. /\ Running(c) /\ disturbed' = disturbed /\ issued' = issued
        /\ call[c] # Idle /\ call[c].op \in Ops
        /\ \A d \in Ctx : d # c => call'[d] = call[d] /\ pc'[d] = pc[d] /\ seen'[d] = seen[d]
    BY CallTypes
    DEF Step, Load, Mismatch, Swap, Single, Leave, At, Return, Finish, Running, Active, SwpInv,
        ATypeOK
  <1>2. word \in 0..(Modulus - 1) /\ seen[c] \in 0..(Modulus - 1)
    BY DEF SwpInv, ATypeOK
  <1>3. \A w \in 0..(Modulus - 1) :
          After(call[c].op, w) \in 0..(Modulus - 1)
    BY <1>1, AfterWord
  <1>4. \A ok \in BOOLEAN : Done(call[c].op, word, ok) \in Calls /\ Idle \in Calls
    BY <1>1, <1>2, CallsInclude
  <1>5. CASE Load(c)
    <2>1. /\ word' = word /\ call' = call /\ seen' = [seen EXCEPT ![c] = word]
          /\ pc' = [pc EXCEPT ![c] = "swp"]
          /\ call[c].op.kind = "cas" => word = call[c].op.expected
      BY <1>5 DEF Load
    <2>2. ~disturbed => LoopsAhead'
      BY <1>1, <2>1, LoopsKept DEF SwpInv, Looping
    <2>3. QED
      BY <1>1, <1>2, <2>1, <2>2 DEF SwpInv, ATypeOK
  <1>6. CASE Mismatch(c)
    <2>1. /\ word' = word /\ call' = [call EXCEPT ![c] = Done(call[c].op, word, FALSE)]
          /\ seen' = seen /\ pc' = pc
      BY <1>6 DEF Mismatch, Finish
    <2>2. call'[c] = Done(call[c].op, word, FALSE)
      BY <2>1 DEF SwpInv, ATypeOK
    <2>3. call'[c].op = call[c].op /\ ~Looping(c)'
      BY <2>2 DEF Looping, Done
    <2>4. ~disturbed => LoopsAhead'
      BY <1>1, <2>1, <2>3, LoopsKept
    <2>5. QED
      BY <1>1, <1>4, <2>1, <2>4 DEF SwpInv, ATypeOK
  <1>7. CASE Swap(c) \/ Single(c)
    <2>1. CASE call' = [call EXCEPT ![c] = Done(call[c].op, word, TRUE)] /\ pc' = pc
      <3>1. call'[c] = Done(call[c].op, word, TRUE)
        BY <2>1 DEF SwpInv, ATypeOK
      <3>2. call'[c].op = call[c].op /\ ~Looping(c)'
        BY <3>1 DEF Looping, Done
      <3>3. /\ seen' = seen /\ word' \in 0..(Modulus - 1)
            /\ word' = word \/ call[c].op.kind # "load"
        <4>1. CASE Swap(c)
          BY <1>2, <1>3, <4>1 DEF Swap, At
        <4>2. CASE Single(c)
          <5>1. call[c].op.kind = "load" => After(call[c].op, word) = word
            BY DEF After
          <5>2. QED
            BY <1>2, <1>3, <4>2, <5>1 DEF Single
        <4>3. QED
          BY <1>7, <4>1, <4>2
      <3>4. ~disturbed => LoopsAhead'
        BY <1>1, <2>1, <3>2, <3>3, LoopsKept
      <3>5. QED
        BY <1>1, <1>4, <2>1, <3>3, <3>4 DEF SwpInv, ATypeOK
    <2>2. CASE call' = call /\ pc' = [pc EXCEPT ![c] = "ldr"] /\ Swap(c)
      <3>1. /\ seen' = seen /\ word' \in 0..(Modulus - 1) /\ call[c].op.kind # "load"
            /\ pc'[c] = "ldr"
        BY <1>2, <1>3, <2>2 DEF Swap, At, SwpInv
      <3>2. ~disturbed => LoopsAhead'
        BY <1>1, <2>2, <3>1, LoopsKept DEF Looping
      <3>3. QED
        BY <1>1, <2>2, <3>1, <3>2 DEF SwpInv, ATypeOK
    <2>3. QED
      BY <1>7, <2>1, <2>2 DEF Swap, Single, Finish
  <1>8. CASE Leave(c)
    <2>1. /\ word' = word /\ call' = [call EXCEPT ![c] = Idle]
          /\ seen' = seen /\ pc' = pc
      BY <1>8 DEF Leave, Return
    <2>2. call'[c] = Idle
      BY <2>1 DEF SwpInv, ATypeOK
    <2>3. ~Active(c)' /\ ~Looping(c)'
      BY <2>2, CallShapes DEF Active, Looping
    <2>4. ~disturbed => LoopsAhead'
      BY <1>1, <2>1, <2>3, LoopsKept
    <2>5. QED
      BY <1>1, <1>4, <2>1, <2>4 DEF SwpInv, ATypeOK
  <1>9. QED
    BY <1>5, <1>6, <1>7, <1>8 DEF Step

LEMMA SwpNext == SwpInv /\ [Next]_vars => SwpInv'
  <1> SUFFICES ASSUME SwpInv, [Next]_vars PROVE SwpInv'
    OBVIOUS
  <1>1. CASE UNCHANGED vars
    BY <1>1 DEF vars, SwpInv, ATypeOK, LoopsAhead, Looping, Active
  <1>2. QED
    BY <1>1, SwpEnter, SwpStep DEF Next

\* From loading the word to swapping it no write comes between, unless one was
\* issued over a loop (atomics_swp.s, every retry loop).
THEOREM LoopsUndisturbed == Spec => []SwpInv
  BY SwpInit, SwpNext, PTL DEF Spec

-----------------------------------------------------------------------------
\* Undisturbed, each step is a step of the atomic word or leaves it alone.
LEMMA StepRefines ==
  ASSUME SwpInv, ~disturbed, [Next]_vars
  PROVE  [ANext]_avars
  <1>1. ASSUME NEW c \in Ctx, Enter(c) PROVE ANext
    BY <1>1 DEF Enter, ANext
  <1>2. ASSUME NEW c \in Ctx, Load(c) PROVE UNCHANGED avars
    BY <1>2 DEF Load, avars
  <1>3. ASSUME NEW c \in Ctx, Mismatch(c) PROVE ANext
    <2>1. call[c].state = "called" /\ call[c].op.kind = "cas" /\ word # call[c].op.expected
      BY <1>3 DEF Mismatch, At
    <2>2. After(call[c].op, word) = word /\ Succeeds(call[c].op, word) = FALSE
      BY <2>1 DEF After, Succeeds
    <2>3. TakeEffect(c)
      BY <1>3, <2>1, <2>2 DEF Mismatch, Finish, TakeEffect
    <2>4. QED
      BY <2>3 DEF ANext
  <1>4. ASSUME NEW c \in Ctx, Swap(c) PROVE ANext
    <2>1. /\ call[c].state = "called" /\ Looping(c) /\ pc[c] = "swp"
          /\ call[c].op.kind \in {"add", "sub", "cas"}
      BY <1>4 DEF Swap, At, Looping
    <2>2. seen[c] = word /\ (call[c].op.kind = "cas" => word = call[c].op.expected)
      BY <2>1 DEF SwpInv, LoopsAhead
    <2>3. Succeeds(call[c].op, word) = TRUE
      BY <2>2 DEF Succeeds
    <2>4. TakeEffect(c)
      BY <1>4, <2>1, <2>2, <2>3 DEF Swap, Finish, TakeEffect
    <2>5. QED
      BY <2>4 DEF ANext
  <1>5. ASSUME NEW c \in Ctx, Single(c) PROVE ANext
    <2>1. call[c].state = "called" /\ call[c].op.kind # "cas"
      BY <1>5 DEF Single, At
    <2>2. Succeeds(call[c].op, word) = TRUE
      BY <2>1 DEF Succeeds
    <2>3. TakeEffect(c)
      BY <1>5, <2>1, <2>2 DEF Single, Finish, TakeEffect
    <2>4. QED
      BY <2>3 DEF ANext
  <1>6. ASSUME NEW c \in Ctx, Leave(c) PROVE ANext
    BY <1>6 DEF Leave, ANext
  <1>7. CASE UNCHANGED vars
    BY <1>7 DEF vars, avars
  <1>8. QED
    BY <1>1, <1>2, <1>3, <1>4, <1>5, <1>6, <1>7 DEF Next, Step

\* rostrt/atomics_swp.s implements the builtins' atomic word until a write is
\* issued over an unfinished retry loop.
THEOREM SwpIsAtomicUndisturbed == Spec => AtomicUnlessDisturbed
  <1>1. Init => AInit
    BY DEF Init
  <1>2. SwpInv /\ [Next]_vars => [~disturbed => ANext]_avars
    BY StepRefines
  <1>3. QED
    BY <1>1, <1>2, LoopsUndisturbed, PTL DEF Spec, AtomicUnlessDisturbed
=============================================================================

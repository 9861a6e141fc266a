----------------------------- MODULE AtomicsSwp -----------------------------
(***************************************************************************)
(* rostrt/atomics_swp.s: the __atomic_*_4 entry points for StrongARM, whose*)
(* only atomic instruction is SWP.  One core, as in AtomicsLdrex: the      *)
(* contexts are the foreground and the interrupt levels above it, and any  *)
(* instruction boundary may be interrupted.                                *)
(***************************************************************************)
EXTENDS AtomicWord

VARIABLES
  pc,       \* pc[c]: the instruction c is about to execute
  seen,     \* seen[c]: what its LDR loaded (r0 in fetch_*, r5 in compare_exchange)
  disturbed \* history: a context has issued a write over an unfinished retry loop

vars == <<word, call, issued, pc, seen, disturbed>>

ASSUME SwpAssumption == Ctx \subseteq Nat

Active(c) == call[c] # Idle
Running(c) == Active(c) /\ \A d \in Ctx : d > c => ~Active(d)

\* A call that has not finished and is at the given instruction.
At(c, kinds, label) ==
  /\ Running(c) /\ call[c].state = "called"
  /\ call[c].op.kind \in kinds /\ pc[c] = label

Finish(c, old, ok) == call' = [call EXCEPT ![c] = Done(@.op, old, ok)]

Init ==
  /\ AInit
  /\ pc = [c \in Ctx |-> "ldr"]
  /\ seen = [c \in Ctx |-> 0]
  /\ disturbed = FALSE

\* The operations that are a retry loop.
Looping(c) == call[c].state = "called" /\ call[c].op.kind \in {"add", "sub", "cas"}

Enter(c) ==
  /\ \A d \in Ctx : d > c => ~Active(d)
  /\ \E op \in Ops :
       /\ Invoke(c, op)
       /\ disturbed' = (disturbed \/ (op.kind # "load" /\ \E d \in Ctx : Looping(d)))
  /\ pc' = [pc EXCEPT ![c] = "ldr"]
  /\ UNCHANGED seen

\* 1: ldr r0, [r4] in fetch_add and fetch_sub; ldr r5, [r0] in compare_exchange
\* when the value is the expected one.
Load(c) ==
  /\ At(c, {"add", "sub", "cas"}, "ldr")
  /\ call[c].op.kind = "cas" => word = call[c].op.expected
  /\ seen' = [seen EXCEPT ![c] = word]
  /\ pc' = [pc EXCEPT ![c] = "swp"]
  /\ UNCHANGED <<word, call, issued, disturbed>>

\* Mistakes: the swap's branch inverted, and an exchange made of a load and a
\* store.
SwapLoopsOnSuccess(c) ==
  /\ At(c, {"add", "sub", "cas"}, "swp")
  /\ word' = After(call[c].op, seen[c])
  /\ IF word # seen[c]
       THEN Finish(c, word, TRUE) /\ UNCHANGED pc
       ELSE pc' = [pc EXCEPT ![c] = "ldr"] /\ UNCHANGED call
  /\ UNCHANGED <<issued, seen, disturbed>>

SingleInTwo(c) ==
  \/ /\ At(c, {"load", "store", "exchange"}, "ldr")
     /\ seen' = [seen EXCEPT ![c] = word]
     /\ pc' = [pc EXCEPT ![c] = "swp"]
     /\ UNCHANGED <<word, call, issued, disturbed>>
  \/ /\ At(c, {"load", "store", "exchange"}, "swp")
     /\ word' = After(call[c].op, word)
     /\ Finish(c, seen[c], TRUE)
     /\ UNCHANGED <<issued, pc, seen, disturbed>>

\* compare_exchange reads something else: hand the value back and fail.
Mismatch(c) ==
  /\ At(c, {"cas"}, "ldr")
  /\ word # call[c].op.expected
  /\ Finish(c, word, FALSE)
  /\ UNCHANGED <<word, issued, pc, seen, disturbed>>

\* swp r12, r3, [r4] ; cmp r12, r0 ; bne 1b, and its like in compare_exchange:
\* the new value is stored whether or not the word had changed meanwhile.
Swap(c) ==
  /\ At(c, {"add", "sub", "cas"}, "swp")
  /\ word' = After(call[c].op, seen[c])
  /\ IF word = seen[c]
       THEN Finish(c, word, TRUE) /\ UNCHANGED pc
       ELSE pc' = [pc EXCEPT ![c] = "ldr"] /\ UNCHANGED call
  /\ UNCHANGED <<issued, seen, disturbed>>

\* load, store and exchange are one instruction each.
Single(c) ==
  /\ At(c, {"load", "store", "exchange"}, "ldr")
  /\ word' = After(call[c].op, word)
  /\ Finish(c, word, TRUE)
  /\ UNCHANGED <<issued, pc, seen, disturbed>>

Leave(c) ==
  /\ Running(c)
  /\ Return(c)
  /\ UNCHANGED <<pc, seen, disturbed>>

Step(c) == Load(c) \/ Mismatch(c) \/ Swap(c) \/ Single(c) \/ Leave(c)

Next == \E c \in Ctx : Enter(c) \/ Step(c)

Spec == Init /\ [][Next]_vars /\ \A c \in Ctx : WF_vars(Step(c))

-----------------------------------------------------------------------------
\* atomics_swp.s:1 calls these "32-bit atomic fetch_sub for ARMv4/StrongARM
\* using SWP", and line 19 says of a swap that found another value "lost the
\* race: retry with actual".  Interrupted or not, each operation acts on the
\* word at one instant and returns the value it had then.
ImplementsAtomicWord == AInit /\ [][ANext]_avars

\* As long as whoever interrupts a retry loop only loads, each operation does
\* act at one instant: load, store and exchange at any nesting, and the loops
\* with all their exits, failing compare_exchanges included.
AtomicUnlessDisturbed == AInit /\ [][~disturbed => ANext]_avars

\* However often a retry loop is interrupted, the interrupted operation gets
\* its answer once the interrupts stop coming.
EveryCallReturns ==
  \A c \in Ctx : (call[c].state = "called") ~> (call[c] = Idle)
=============================================================================

---------------------------- MODULE AtomicsLdrex ----------------------------
(***************************************************************************)
(* rostrt/atomics_ldrex.s: fetch_add and fetch_sub for ARMv7 and later, as *)
(* the load-exclusive / store-exclusive loop they are.  RISC OS runs on    *)
(* one core, so the contexts are the foreground and the interrupt levels   *)
(* above it: a context runs until it finishes or a higher one interrupts   *)
(* it.  The exclusive monitor is the core's (external): a load-exclusive   *)
(* claims it, a store-exclusive or an exception return releases it.        *)
(***************************************************************************)
EXTENDS AtomicWord

VARIABLES
  pc,       \* pc[c]: the instruction c is about to execute
  r2,       \* r2[c]: the value c loaded
  monitor   \* the context the exclusive monitor is held for, or None

vars == <<word, call, issued, pc, r2, monitor>>

None == -1

ASSUME LdrexAssumption ==
  /\ Ctx \subseteq Nat
  /\ \A op \in Ops : op.kind \in {"add", "sub"}

Active(c) == call[c] # Idle

\* The context that has the core: nothing that interrupted it is unfinished.
Running(c) == Active(c) /\ \A d \in Ctx : d > c => ~Active(d)

Init ==
  /\ AInit
  /\ pc = [c \in Ctx |-> "ldrex"]
  /\ r2 = [c \in Ctx |-> 0]
  /\ monitor = None

\* A context calls fetch_add or fetch_sub: the foreground when nothing runs,
\* an interrupt handler over whatever it interrupted.
Enter(c) ==
  /\ \A d \in Ctx : d > c => ~Active(d)
  /\ \E op \in Ops : Invoke(c, op)
  /\ pc' = [pc EXCEPT ![c] = "ldrex"]
  /\ UNCHANGED <<r2, monitor>>

\* 1: ldrex r2, [r0]
LoadExclusive(c) ==
  /\ Running(c) /\ call[c].state = "called" /\ pc[c] = "ldrex"
  /\ r2' = [r2 EXCEPT ![c] = word]
  /\ monitor' = c
  /\ pc' = [pc EXCEPT ![c] = "strex"]
  /\ UNCHANGED <<word, call, issued>>

\* Mistakes: a plain store; a monitor that outlives the store; the loop's
\* branch inverted.
StoreRegardless(c) ==
  /\ Running(c) /\ call[c].state = "called" /\ pc[c] = "strex"
  /\ word' = After(call[c].op, r2[c])
  /\ call' = [call EXCEPT ![c] = Done(call[c].op, r2[c], TRUE)]
  /\ monitor' = None
  /\ UNCHANGED <<issued, r2, pc>>

StoreKeepsMonitor(c) ==
  /\ Running(c) /\ call[c].state = "called" /\ pc[c] = "strex"
  /\ \/ /\ monitor = c
        /\ word' = After(call[c].op, r2[c])
        /\ call' = [call EXCEPT ![c] = Done(call[c].op, r2[c], TRUE)]
        /\ UNCHANGED pc
     \/ /\ monitor # c
        /\ pc' = [pc EXCEPT ![c] = "ldrex"]
        /\ UNCHANGED <<word, call>>
  /\ UNCHANGED <<issued, r2, monitor>>

StoreLoopsOnSuccess(c) ==
  /\ Running(c) /\ call[c].state = "called" /\ pc[c] = "strex"
  /\ IF monitor = c
       THEN /\ word' = After(call[c].op, r2[c])
            /\ pc' = [pc EXCEPT ![c] = "ldrex"]
            /\ UNCHANGED call
       ELSE /\ call' = [call EXCEPT ![c] = Done(call[c].op, r2[c], TRUE)]
            /\ UNCHANGED <<word, pc>>
  /\ monitor' = None
  /\ UNCHANGED <<issued, r2>>

\* strex r12, r3, [r0] ; cmp r12, #0 ; bne 1b
StoreExclusive(c) ==
  /\ Running(c) /\ call[c].state = "called" /\ pc[c] = "strex"
  /\ \/ /\ monitor = c
        /\ word' = After(call[c].op, r2[c])
        /\ call' = [call EXCEPT ![c] = Done(call[c].op, r2[c], TRUE)]
        /\ UNCHANGED pc
     \/ /\ monitor # c
        /\ pc' = [pc EXCEPT ![c] = "ldrex"]
        /\ UNCHANGED <<word, call>>
  /\ monitor' = None
  /\ UNCHANGED <<issued, r2>>

\* bx lr; for an interrupt handler, also the return from the exception.
Leave(c) ==
  /\ Running(c)
  /\ Return(c)
  /\ monitor' = None
  /\ UNCHANGED <<pc, r2>>

Step(c) == LoadExclusive(c) \/ StoreExclusive(c) \/ Leave(c)

Next == \E c \in Ctx : Enter(c) \/ Step(c)

Spec == Init /\ [][Next]_vars /\ \A c \in Ctx : WF_vars(Step(c))

-----------------------------------------------------------------------------
\* The builtin's ABI: interrupted anywhere, fetch_add and fetch_sub act on the
\* word at one instant and return the value it had then.
ImplementsAtomicWord == AInit /\ [][ANext]_avars

\* A monitor still held means that nobody has stored since the load.
MonitorInv ==
  /\ ATypeOK
  /\ pc \in [Ctx -> {"ldrex", "strex"}]
  /\ r2 \in [Ctx -> 0..(Modulus - 1)]
  /\ monitor # None =>
       /\ monitor \in Ctx
       /\ pc[monitor] = "strex" /\ call[monitor].state = "called"
       /\ r2[monitor] = word

\* With finitely many interrupts the retry loop ends: a context that called
\* gets its answer, even when every attempt so far was interrupted.
EveryCallReturns ==
  \A c \in Ctx : (call[c].state = "called") ~> (call[c] = Idle)
=============================================================================

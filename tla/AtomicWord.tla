----------------------------- MODULE AtomicWord -----------------------------
(***************************************************************************)
(* What the __atomic_*_4 entry points of rostrt promise the compiler: a    *)
(* word on which each operation takes effect at one instant between its    *)
(* call and its return.  The callers are the contexts that can interrupt   *)
(* one another; which of them runs when is not this module's business.     *)
(***************************************************************************)
EXTENDS Integers

CONSTANTS
  Ctx,      \* the contexts that call the operations
  Ops,      \* the operations they may issue: records [kind, val, expected]
  Modulus,  \* words are taken modulo this (2^32 in the code)
  MaxOps    \* a bound on the operations issued in one behaviour

ASSUME AtomicAssumption ==
  /\ Modulus \in Nat \ {0}
  /\ MaxOps \in Nat
  /\ Ops \subseteq [kind : {"add", "sub", "load", "store", "exchange", "cas"},
                    val : 0..(Modulus - 1), expected : 0..(Modulus - 1)]

VARIABLES
  word,    \* the shared word
  call,    \* call[c]: Idle, or the operation c is in the middle of
  issued   \* how many operations have been issued

avars == <<word, call, issued>>

Idle == [state |-> "idle"]
Called(op) == [state |-> "called", op |-> op]
Done(op, old, ok) == [state |-> "done", op |-> op, old |-> old, ok |-> ok]

\* The word after op takes effect on w.
After(op, w) ==
  CASE op.kind = "add"                       -> (w + op.val) % Modulus
    [] op.kind = "sub"                       -> (w - op.val) % Modulus
    [] op.kind = "load"                      -> w
    [] op.kind \in {"store", "exchange"}     -> op.val
    [] op.kind = "cas"                       -> IF w = op.expected THEN op.val ELSE w

\* Only a compare-exchange can fail.
Succeeds(op, w) == op.kind = "cas" => w = op.expected

AInit ==
  /\ word = 0
  /\ call = [c \in Ctx |-> Idle]
  /\ issued = 0

Invoke(c, op) ==
  /\ call[c] = Idle /\ issued < MaxOps
  /\ call' = [call EXCEPT ![c] = Called(op)]
  /\ issued' = issued + 1
  /\ UNCHANGED word

TakeEffect(c) ==
  /\ call[c].state = "called"
  /\ word' = After(call[c].op, word)
  /\ call' = [call EXCEPT ![c] = Done(call[c].op, word, Succeeds(call[c].op, word))]
  /\ UNCHANGED issued

Return(c) ==
  /\ call[c].state = "done"
  /\ call' = [call EXCEPT ![c] = Idle]
  /\ UNCHANGED <<word, issued>>

ANext ==
  \E c \in Ctx : (\E op \in Ops : Invoke(c, op)) \/ TakeEffect(c) \/ Return(c)

Calls ==
  {Idle} \union {Called(op) : op \in Ops}
    \union {Done(op, old, ok) :
              op \in Ops, old \in 0..(Modulus - 1), ok \in BOOLEAN}

ATypeOK ==
  /\ word \in 0..(Modulus - 1)
  /\ issued \in Nat
  /\ call \in [Ctx -> Calls]

ASpec == AInit /\ [][ANext]_avars
=============================================================================

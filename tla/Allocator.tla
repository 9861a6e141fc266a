----------------------------- MODULE Allocator -----------------------------
(***************************************************************************)
(* What the runtime's allocators promise Mojo code, with no heap or arena  *)
(* in sight: a block handed out overlaps nothing that is still held, stays *)
(* where it is until it is given back, and a global has one block for the  *)
(* life of the program.                                                    *)
(***************************************************************************)
EXTENDS Integers

CONSTANT Hashes

VARIABLES
  held,   \* the blocks the program holds: records [lo, size]
  home    \* home[h]: where global h lives, or Nowhere

avars == <<held, home>>

Nowhere == -1

Apart(b, c) == b.lo + b.size <= c.lo \/ c.lo + c.size <= b.lo

AInit == held = {} /\ home = [h \in Hashes |-> Nowhere]

\* The block given out is the one held afterwards and not before.
Hand(b) ==
  /\ b \notin held
  /\ \A c \in held : Apart(b, c)
  /\ held' = held \union {b}

Give == (\E b \in held' : Hand(b)) /\ UNCHANGED home

TakeBack == (\E b \in held : held' = held \ {b}) /\ UNCHANGED home

Settle(h) ==
  /\ home[h] = Nowhere
  /\ \E b \in held' : Hand(b) /\ home' = [home EXCEPT ![h] = b.lo]

ANext == Give \/ TakeBack \/ \E h \in Hashes : Settle(h)

ASpec == AInit /\ [][ANext]_avars
=============================================================================

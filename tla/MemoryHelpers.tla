--------------------------- MODULE MemoryHelpers ---------------------------
(***************************************************************************)
(* One call of memcpy, memmove, memset or of the AEABI name of memset, a   *)
(* byte at a time.  Byte a of the memory holds -a before the call, so that *)
(* every byte shows where it came from and a fill's value is none of them. *)
(***************************************************************************)
EXTENDS Integers

CONSTANTS MemEnd      \* bytes of memory, from address 1

ASSUME MemoryAssumption == MemEnd \in Nat \ {0}

Bytes == 1..MemEnd
Moves == {"memcpy", "memmove"}
Fills == {"memset", "aeabi_memset"}

VARIABLES
  memPc,        \* "idle", "called", "up", "down", "fill" or "returned"
  memOp,        \* the helper called
  dst, p2, p3,  \* its parameters
  cursor,       \* the loop's i
  bytes         \* the memory

memVars == <<memPc, memOp, dst, p2, p3, cursor, bytes>>

\* __aeabi_memset(dest, n, c), where memset is (dest, c, n).
Length == IF memOp = "aeabi_memset" THEN p2 ELSE p3
Value == IF memOp = "aeabi_memset" THEN p3 ELSE p2

MemIdle ==
  /\ memPc = "idle" /\ memOp = "memcpy"
  /\ dst = 1 /\ p2 = 1 /\ p3 = 0 /\ cursor = 0 /\ bytes = [a \in Bytes |-> -a]

\* Callers name ranges in memory, and for memcpy ranges that are apart.
Room(a, n) == a + n <= MemEnd + 1
Apart(a, b, n) == a + n <= b \/ b + n <= a
MemInit ==
  /\ memPc = "called" /\ cursor = 0 /\ bytes = [a \in Bytes |-> -a]
  /\ dst \in Bytes
  /\ \/ /\ memOp \in Moves
        /\ p2 \in Bytes /\ p3 \in 0..MemEnd /\ Room(dst, p3) /\ Room(p2, p3)
        /\ memOp = "memcpy" => Apart(dst, p2, p3)
     \/ /\ memOp = "memset" /\ p2 \in 0..1 /\ p3 \in 0..MemEnd /\ Room(dst, p3)
     \/ /\ memOp = "aeabi_memset" /\ p2 \in 0..MemEnd /\ p3 \in 0..1 /\ Room(dst, p2)

\* Mistake: always upwards.
DirectionUp == "up"

\* d < s copies upwards, otherwise downwards; memcpy upwards always.
Direction == IF memOp = "memcpy" \/ dst < p2 THEN "up" ELSE "down"

EnterHelper ==
  /\ memPc = "called"
  /\ IF memOp = "memmove" /\ (dst = p2 \/ p3 = 0)
       THEN memPc' = "returned" /\ cursor' = 0
       ELSE /\ memPc' = IF memOp \in Fills THEN "fill" ELSE Direction
            /\ cursor' = IF memPc' = "down" THEN p3 ELSE 0
  /\ UNCHANGED <<memOp, dst, p2, p3, bytes>>

MoveUp ==
  /\ memPc = "up" /\ cursor < p3
  /\ bytes' = [bytes EXCEPT ![dst + cursor] = bytes[p2 + cursor]]
  /\ cursor' = cursor + 1
  /\ UNCHANGED <<memPc, memOp, dst, p2, p3>>

MoveDown ==
  /\ memPc = "down" /\ cursor > 0
  /\ bytes' = [bytes EXCEPT ![dst + cursor - 1] = bytes[p2 + cursor - 1]]
  /\ cursor' = cursor - 1
  /\ UNCHANGED <<memPc, memOp, dst, p2, p3>>

Fill ==
  /\ memPc = "fill" /\ cursor < Length
  /\ bytes' = [bytes EXCEPT ![dst + cursor] = Value]
  /\ cursor' = cursor + 1
  /\ UNCHANGED <<memPc, memOp, dst, p2, p3>>

HelperReturns ==
  /\ \/ memPc = "up" /\ cursor = p3
     \/ memPc = "down" /\ cursor = 0
     \/ memPc = "fill" /\ cursor = Length
  /\ memPc' = "returned"
  /\ UNCHANGED <<memOp, dst, p2, p3, cursor, bytes>>

MemNext == EnterHelper \/ MoveUp \/ MoveDown \/ Fill \/ HelperReturns

-----------------------------------------------------------------------------
\* The destination holds what the source held before the call, however the
\* two overlap, or the fill's value, under either order of parameters; not a
\* byte beside it has changed.
RangeMoved ==
  memPc = "returned" =>
    \A a \in Bytes :
      LET n == IF memOp = "aeabi_memset" THEN p2 ELSE p3
      IN  bytes[a] = IF a \notin dst..(dst + n - 1) THEN -a
                     ELSE CASE memOp \in Moves -> -(p2 + a - dst)
                            [] memOp = "memset" -> p2
                            [] memOp = "aeabi_memset" -> p3
=============================================================================

----------------------------- MODULE StaticInit -----------------------------
(***************************************************************************)
(* The two loops with which __mod_init fills a module's static area: copy  *)
(* the initialised part out of the image, then zero the rest, the second   *)
(* loop starting where the pointer of the first one stopped                *)
(* (tools/gen_module.py, the RWPI part of the initialisation veneer).      *)
(* ModuleVeneers takes the loops' effect as one step (MemAfterInit); this  *)
(* module is where that is shown.                                          *)
(*                                                                         *)
(* Addresses are relative: r0 counts from the initial contents in the      *)
(* image, r2 and the zeroing bound from the static base.                   *)
(***************************************************************************)
EXTENDS Integers

CONSTANTS
  Sizes,     \* the pairs <<bytes to copy, static-data size>> to consider
  Limit,     \* bytes of memory from the static base within reach
  Source(_), \* the initial contents, by byte offset
  Junk       \* what the claimed block holds

Words == {o \in 0..(Limit - 1) : o % 4 = 0}

\* The linker rounds the initialised part to sixteen and the whole to four.
ASSUME SizesAssumption ==
  /\ Limit \in Nat
  /\ Sizes \subseteq Nat \X Nat
  /\ \A s \in Sizes : /\ s[1] % 4 = 0 /\ s[2] % 4 = 0
                      /\ s[1] <= s[2] /\ s[2] <= Limit

VARIABLES
  rw, sb,      \* __mod_params[1] and [2]
  r0, r1, r2,  \* source, bytes left, destination
  area,        \* the words from the static base up
  pc

vars == <<rw, sb, r0, r1, r2, area, pc>>

Init ==
  /\ \E s \in Sizes : rw = s[1] /\ sb = s[2]
  /\ r0 = 0 /\ r1 = rw /\ r2 = 0
  /\ area = [o \in Words |-> Junk]
  /\ pc = "copy"

\* 1: subs r1, r1, #4 ; blo 2f ; ldr r12, [r0], #4 ; str r12, [r2], #4 ; b 1b
CopyWord ==
  /\ pc = "copy" /\ r1 >= 4
  /\ r1' = r1 - 4
  /\ area' = [area EXCEPT ![r2] = Source(r0)]
  /\ r0' = r0 + 4 /\ r2' = r2 + 4
  /\ UNCHANGED <<rw, sb, pc>>

\* Mistake: only what the copy left over is counted, from the base.
CopyDoneRemainder ==
  /\ pc = "copy" /\ r1 < 4
  /\ r1' = sb - rw
  /\ pc' = "zero"
  /\ UNCHANGED <<rw, sb, r0, r2, area>>

\* 2: ldr r1, [r4, #8] ; add r1, r9, r1
CopyDone ==
  /\ pc = "copy" /\ r1 < 4
  /\ r1' = sb
  /\ pc' = "zero"
  /\ UNCHANGED <<rw, sb, r0, r2, area>>

\* Mistakes: strls for strlo, and a store that does not move the pointer on.
ZeroWordInclusive ==
  /\ pc = "zero" /\ r2 <= r1
  /\ area' = [area EXCEPT ![r2] = 0]
  /\ r2' = r2 + 4
  /\ UNCHANGED <<rw, sb, r0, r1, pc>>

ZeroWordInPlace ==
  /\ pc = "zero" /\ r2 < r1
  /\ area' = [area EXCEPT ![r2] = 0]
  /\ UNCHANGED <<rw, sb, r0, r1, r2, pc>>

\* 3: cmp r2, r1 ; strlo r12, [r2], #4 ; blo 3b
ZeroWord ==
  /\ pc = "zero" /\ r2 < r1
  /\ area' = [area EXCEPT ![r2] = 0]
  /\ r2' = r2 + 4
  /\ UNCHANGED <<rw, sb, r0, r1, pc>>

ZeroDone ==
  /\ pc = "zero" /\ r2 >= r1
  /\ pc' = "done"
  /\ UNCHANGED <<rw, sb, r0, r1, r2, area>>

\* The C initialisation runs next; nothing here is touched again.
Finished == pc = "done" /\ UNCHANGED vars

Next == CopyWord \/ CopyDone \/ ZeroWord \/ ZeroDone \/ Finished

Spec == Init /\ [][Next]_vars /\ WF_vars(Next)

-----------------------------------------------------------------------------
\* When the loops end the static area is exactly the initial contents
\* followed by zeros, and not a word past it has been touched: the workspace
\* that follows it, or another owner's block.
AreaFilled ==
  pc = "done" =>
    \A o \in Words :
      area[o] = IF o < rw THEN Source(o) ELSE IF o < sb THEN 0 ELSE Junk

\* The loop invariant: what each pointer has passed is in its final state.
LoopInv ==
  /\ <<rw, sb>> \in Sizes
  /\ pc \in {"copy", "zero", "done"}
  /\ r2 \in Nat /\ r2 % 4 = 0 /\ r2 <= sb
  /\ area \in [Words -> {area[o] : o \in Words}]
  /\ pc = "copy" => r0 = r2 /\ r2 <= rw /\ r1 = rw - r2
  /\ pc \in {"zero", "done"} => rw <= r2 /\ r1 = sb
  /\ pc = "done" => r2 >= sb
  /\ \A o \in Words :
       area[o] = IF o >= r2 THEN Junk ELSE IF o < rw THEN Source(o) ELSE 0
=============================================================================

-------------------------- MODULE ModuleInstances --------------------------
(***************************************************************************)
(* What the module veneers promise, with no memory, heap or register in    *)
(* sight: every module instance owns a static area that starts from the    *)
(* image's initial contents and zeros, lives from its initialisation to    *)
(* the kill it agrees to, and is written by nothing but the C code of that *)
(* module while it is the one executing.                                   *)
(***************************************************************************)
EXTENDS Integers, Sequences

CONSTANTS Mods, Sb, Rw, Image, NewWord, MaxDepth

VARIABLES
  statics,  \* statics[m]: the words of m's static area, Absent when it has none
  chain,    \* the linked modules
  calls     \* the entries being executed, innermost last

avars == <<statics, chain, calls>>

Absent == [present |-> FALSE]

Offsets(n) == {o \in 0..(n - 1) : o % 4 = 0}

\* The area a fresh instance of m starts from.
Fresh(m) ==
  [present |-> TRUE,
   words |-> [o \in Offsets(Sb[m]) |-> IF o < Rw[m] THEN Image[m][o] ELSE 0]]

Current == calls[Len(calls)]
Unwound == SubSeq(calls, 1, Len(calls) - 1)
Busy(m) == \E i \in 1..Len(calls) : calls[i].mod = m
Leaving(e) == calls # << >> /\ Current.entry = e

AInit ==
  /\ statics = [m \in Mods |-> Absent]
  /\ chain = {}
  /\ calls = << >>

Call(m, e) ==
  /\ Len(calls) < MaxDepth
  /\ calls' = Append(calls, [mod |-> m, entry |-> e])

Load(m) ==
  /\ m \notin chain /\ ~Busy(m)
  /\ Call(m, "init")
  /\ statics' = [statics EXCEPT ![m] = Fresh(m)]
  /\ UNCHANGED chain

Visit(m, e) ==
  /\ m \in chain
  /\ e = "final" => ~Busy(m)
  /\ Call(m, e)
  /\ UNCHANGED <<statics, chain>>

\* An initialisation that succeeds joins the chain, a kill that is refused
\* stays in it; the static area goes with the other two outcomes.
Keep ==
  /\ calls # << >>
  /\ chain' = chain \union {Current.mod}
  /\ calls' = Unwound
  /\ UNCHANGED statics

Drop ==
  /\ Leaving("init") \/ Leaving("final")
  /\ chain' = chain \ {Current.mod}
  /\ calls' = Unwound
  /\ statics' = [statics EXCEPT ![Current.mod] = Absent]

Write ==
  /\ calls # << >>
  /\ \E o \in Offsets(Sb[Current.mod]) :
       statics' = [statics EXCEPT ![Current.mod].words[o] = NewWord]
  /\ UNCHANGED <<chain, calls>>

ANext ==
  \/ \E m \in Mods : Load(m) \/ \E e \in {"final", "command", "swi"} : Visit(m, e)
  \/ Keep \/ Drop \/ Write

ASpec == AInit /\ [][ANext]_avars
=============================================================================

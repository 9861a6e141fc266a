--------------------------- MODULE ModuleVeneers ---------------------------
(***************************************************************************)
(* The entry veneers tools/gen_module.py generates for RISC OS modules,    *)
(* several modules at a time, down to the words they keep in the RMA.      *)
(*                                                                         *)
(* A module's C code finds its writable statics through the static base,   *)
(* r9.  Initialisation claims an RMA block, lays the static area out in    *)
(* it and hangs the base off the module's private word; every later entry  *)
(* loads r9 from there and must hand the caller's r9 back.  The C code of  *)
(* one module may call commands and SWIs of another, or load and kill it,  *)
(* so entries nest, and every one of them reuses the one r9.               *)
(*                                                                         *)
(* The kernel's module chain, OS_Module's heap and the C functions behind  *)
(* the veneers are external: the kernel enters only modules whose          *)
(* initialisation succeeded and never finalises one that is executing; the *)
(* heap hands out any free word-aligned range; the C code writes any of    *)
(* its own words and returns success or an error.                          *)
(***************************************************************************)
EXTENDS Integers, Sequences, StaticArea

CONSTANTS
  Mods,        \* the modules that may be loaded
  Rwpi,        \* those generated with --rwpi
  Sb,          \* Sb[m]: static-data size, the linker's __mod_params[2]
  Rw,          \* Rw[m]: bytes of initial contents to copy, __mod_params[1]
  Ws,          \* Ws[m]: --workspace
  Image,       \* Image[m][o]: the word of initial contents at byte offset o
  RmaLo, RmaHi,\* the RMA: blocks are claimed in RmaLo..RmaHi-1
  Junk,        \* what memory holds that nobody has written
  Touched,     \* byte offsets the C code writes (a bound on C code)
  NewWord,     \* the word it writes there
  MaxDepth,    \* how deep entries nest (the SVC stack is finite)
  BadSwis      \* do modules issue SWI numbers past the last one implemented?

HasArea(m) == m \in Rwpi \/ Ws[m] > 0

\* The memory within reach of a veneer: the RMA and the words just after it.
Addr == {a \in RmaLo..(RmaHi + 32) : a % 4 = 0}

WordOffsets(n) == {o \in 0..(n - 1) : o % 4 = 0}

\* The last of these is the linker's: writable data in a module without the
\* veneer's parameter block is refused.
ASSUME SizeAssumption ==
  /\ Rwpi \subseteq Mods
  /\ Sb \in [Mods -> Nat] /\ Rw \in [Mods -> Nat] /\ Ws \in [Mods -> Nat]
  /\ \A m \in Mods : /\ Sb[m] % 4 = 0 /\ Rw[m] % 4 = 0 /\ Ws[m] % 4 = 0
                     /\ Rw[m] <= Sb[m]
  /\ \A m \in Mods : Image[m] \in [WordOffsets(Rw[m]) -> Nat]
  /\ \A m \in Mods : ~HasArea(m) => Sb[m] = 0

ASSUME MemoryAssumption ==
  /\ RmaLo \in Nat /\ RmaHi \in Nat /\ RmaLo > 0 /\ RmaLo % 4 = 0
  /\ Junk \in Nat /\ NewWord \in Nat /\ MaxDepth \in Nat
  /\ Touched \subseteq Nat
  /\ BadSwis \in BOOLEAN

VARIABLES
  heap,    \* OS_Module's claimed blocks: records [lo, size]
  mem,     \* mem[a]: the word at address a
  priv,    \* priv[m]: the private word, zero until initialisation sets it
  linked,  \* the modules in the kernel's chain
  stack,   \* the veneers being executed, innermost last
  r9       \* the register

vars == <<heap, mem, priv, linked, stack, r9>>

Entries == {"init", "final", "command", "swi"}

\* What a veneer keeps while its C function runs: the r9 it pushed and the
\* workspace argument it passed.
Frame == [mod : Mods, entry : Entries, r9 : Nat, ws : Nat]

Block == [lo : Nat, size : Nat]

-----------------------------------------------------------------------------
Top == stack[Len(stack)]
Popped == SubSeq(stack, 1, Len(stack) - 1)
Executing(m) == \E i \in 1..Len(stack) : stack[i].mod = m

Claim(m) == ClaimSize(m \in Rwpi, Sb[m], Ws[m])

\* OS_Module 6 places a block in any free, word-aligned range of the RMA.
Fits(lo, size) ==
  /\ lo \in Addr
  /\ lo + size <= RmaHi
  /\ \A b \in heap : lo + size <= b.lo \/ b.lo + b.size <= lo

\* OS_Module 7 gives back the block that starts at lo; an address that starts
\* no block is an error, which the veneers do not look at.
AfterFree(lo) == {b \in heap : b.lo # lo}

Inside(a, b) == b.lo <= a /\ a < b.lo + b.size

MemAfterFree(lo) ==
  [a \in Addr |-> IF \E b \in heap : b.lo = lo /\ Inside(a, b)
                    THEN Junk ELSE mem[a]]

\* Mistake: the static area is copied but the rest of it never zeroed.
MemAfterInitNotZeroed(m, lo, base) ==
  [a \in Addr |->
     CASE a = BlockSlot(base)     -> lo
       [] a = WorkspaceSlot(base) -> WorkspaceOf(base, Sb[m])
       [] m \in Rwpi /\ a \in base..(base + Rw[m] - 1) -> Image[m][a - base]
       [] OTHER -> mem[a]]

\* Memory once initialisation has filled the area whose base is given: the
\* header words, then under RWPI the initial contents and zeros.
MemAfterInit(m, lo, base) ==
  [a \in Addr |->
     CASE a = BlockSlot(base)     -> lo
       [] a = WorkspaceSlot(base) -> WorkspaceOf(base, Sb[m])
       [] m \in Rwpi /\ a \in base..(base + Rw[m] - 1) -> Image[m][a - base]
       [] m \in Rwpi /\ a \in (base + Rw[m])..(base + Sb[m] - 1) -> 0
       [] OTHER -> mem[a]]

-----------------------------------------------------------------------------
Init ==
  /\ heap = {}
  /\ mem = [a \in Addr |-> Junk]
  /\ priv = [m \in Mods |-> 0]
  /\ linked = {}
  /\ stack = << >>
  /\ r9 = Junk

CanCall == Len(stack) < MaxDepth

\* The kernel loads a module (*RMLoad, or the second half of *RMTidy).
CanLoad(m) == CanCall /\ m \notin linked /\ ~Executing(m)

\* __mod_init of a module with an area: claim, lay out, enter the C side.
InitClaim(m) ==
  /\ CanLoad(m) /\ HasArea(m)
  /\ \E lo \in Addr :
       LET base == StaticBaseOf(lo) IN
       /\ Fits(lo, Claim(m))
       /\ heap' = heap \union {[lo |-> lo, size |-> Claim(m)]}
       /\ mem' = MemAfterInit(m, lo, base)
       /\ priv' = [priv EXCEPT ![m] = base]
       /\ r9' = base
       /\ stack' = Append(stack, [mod |-> m, entry |-> "init", r9 |-> r9,
                                  ws |-> WorkspaceOf(base, Sb[m])])
  /\ UNCHANGED linked

\* The claim is refused: the veneer returns the OS's error at once.
InitClaimFails(m) ==
  /\ CanLoad(m) /\ HasArea(m)
  /\ UNCHANGED vars

\* __mod_init of a module without an area passes zero and leaves r9 alone.
InitPlain(m) ==
  /\ CanLoad(m) /\ ~HasArea(m)
  /\ stack' = Append(stack, [mod |-> m, entry |-> "init", r9 |-> r9, ws |-> 0])
  /\ UNCHANGED <<heap, mem, priv, linked, r9>>

\* Mistake: a veneer that does not stack r9 hands its own base back.
ReturnBaseKept ==
  /\ stack' = Popped
  /\ UNCHANGED r9

\* Unwinding a veneer pops the caller's r9.
Return ==
  /\ stack' = Popped
  /\ r9' = Top.r9

\* Mistake: the freed pointer stays in the private word.
ReleaseNotCleared(m) ==
  IF HasArea(m)
    THEN LET lo == mem[BlockSlot(priv[m])] IN
         /\ heap' = AfterFree(lo)
         /\ mem' = MemAfterFree(lo)
         /\ UNCHANGED priv
    ELSE UNCHANGED <<heap, mem, priv>>

\* Give the area of m back and clear its private word.
Release(m) ==
  IF HasArea(m)
    THEN LET lo == mem[BlockSlot(priv[m])] IN
         /\ heap' = AfterFree(lo)
         /\ mem' = MemAfterFree(lo)
         /\ priv' = [priv EXCEPT ![m] = 0]
    ELSE UNCHANGED <<heap, mem, priv>>

Returning(e) == stack # << >> /\ Top.entry = e

\* The C initialisation succeeded: V clear, the kernel links the module.
InitSucceeds ==
  /\ Returning("init")
  /\ linked' = linked \union {Top.mod}
  /\ Return
  /\ UNCHANGED <<heap, mem, priv>>

\* Mistake: the area of a module that refused to start is not given back.
InitRefusesKeepingArea ==
  /\ Returning("init")
  /\ Return
  /\ UNCHANGED <<heap, mem, priv, linked>>

\* The C initialisation failed: the area goes back before the error does.
InitRefuses ==
  /\ Returning("init")
  /\ Release(Top.mod)
  /\ Return
  /\ UNCHANGED linked

\* Every later entry fetches the base from the private word and the workspace
\* from below the base.
Enter(m, e) ==
  /\ CanCall
  /\ m \in linked
  /\ r9' = IF HasArea(m) THEN priv[m] ELSE r9
  /\ stack' = Append(stack,
                [mod |-> m, entry |-> e, r9 |-> r9,
                 ws |-> IF HasArea(m) THEN mem[WorkspaceSlot(priv[m])] ELSE 0])
  /\ UNCHANGED <<heap, mem, priv, linked>>

\* __mod_final, entered by *RMKill or the first half of *RMTidy.
Final(m) == ~Executing(m) /\ Enter(m, "final")

\* The C side agreed to go: the kernel unlinks the module.
FinalAgrees ==
  /\ Returning("final")
  /\ Release(Top.mod)
  /\ linked' = linked \ {Top.mod}
  /\ Return

\* The C side refused: the module stays, area and all.
FinalRefuses ==
  /\ Returning("final")
  /\ Return
  /\ UNCHANGED <<heap, mem, priv, linked>>

Command(m) == Enter(m, "command")

CommandReturns ==
  /\ Returning("command")
  /\ Return
  /\ UNCHANGED <<heap, mem, priv, linked>>

\* __mod_swi with a number the branch table has an entry for.
Swi(m) == Enter(m, "swi")

SwiReturns ==
  /\ Returning("swi")
  /\ Return
  /\ UNCHANGED <<heap, mem, priv, linked>>

\* __mod_swi with a number past the table: r9 has been loaded, and the saved
\* registers are dropped unread.
SwiUnknown(m) ==
  /\ CanCall
  /\ m \in linked
  /\ BadSwis \/ stack = << >>
  /\ r9' = IF HasArea(m) THEN priv[m] ELSE r9
  /\ UNCHANGED <<heap, mem, priv, linked, stack>>

\* C code runs on top of the stack and writes a word of its statics, at an
\* offset from r9, or of the workspace it was passed.
StaticWrite ==
  /\ stack # << >> /\ HasArea(Top.mod)
  /\ \E o \in Touched \intersect WordOffsets(Sb[Top.mod]) :
       mem' = [mem EXCEPT ![r9 + o] = NewWord]
  /\ UNCHANGED <<heap, priv, linked, stack, r9>>

WorkspaceWrite ==
  /\ stack # << >> /\ HasArea(Top.mod)
  /\ \E o \in Touched \intersect WordOffsets(Ws[Top.mod]) :
       mem' = [mem EXCEPT ![Top.ws + o] = NewWord]
  /\ UNCHANGED <<heap, priv, linked, stack, r9>>

Next ==
  \/ \E m \in Mods :
       \/ InitClaim(m) \/ InitClaimFails(m) \/ InitPlain(m)
       \/ Final(m) \/ Command(m) \/ Swi(m) \/ SwiUnknown(m)
  \/ InitSucceeds \/ InitRefuses
  \/ FinalAgrees \/ FinalRefuses
  \/ CommandReturns \/ SwiReturns
  \/ StaticWrite \/ WorkspaceWrite

Spec == Init /\ [][Next]_vars

-----------------------------------------------------------------------------
TypeOK ==
  /\ heap \subseteq Block
  /\ mem \in [Addr -> Nat]
  /\ priv \in [Mods -> Nat]
  /\ linked \subseteq Mods
  /\ stack \in Seq(Frame)
  /\ r9 \in Nat

\* gen_module.py: --rwpi "establish[es] the static base (r9) on every entry".
\* Whatever calls and returns came before, the C code that is running finds
\* its own module's base in r9 -- also after a call it made has returned.
\* The private word it came from is set: no entry dereferences zero.
StaticBase ==
  stack # << >> /\ HasArea(Top.mod) => priv[Top.mod] # 0 /\ r9 = priv[Top.mod]

\* The area of a module that holds one -- headers, statics and workspace --
\* lies inside a block the RMA still counts as claimed.
AreaInsideBlock ==
  \A m \in Mods : priv[m] # 0 =>
    \E b \in heap :
      /\ b.lo <= AreaFirst(priv[m])
      /\ AreaEnd(priv[m], Sb[m], Ws[m]) <= b.lo + b.size

\* The header words below the base survive everything the C code of any
\* module writes: finalisation will free the block initialisation claimed,
\* and every entry will be handed the module's own workspace.
HeadersIntact ==
  \A m \in Mods : priv[m] # 0 =>
    /\ mem[WorkspaceSlot(priv[m])] = WorkspaceOf(priv[m], Sb[m])
    /\ \E b \in heap : /\ b.lo = mem[BlockSlot(priv[m])]
                       /\ b.size = Claim(m)
                       /\ Inside(priv[m] - 8, b)

\* Refused initialisations, refused and agreed kills, reloads: the RMA keeps
\* exactly the blocks that some module's private word leads to, and only a
\* linked or executing module has one.
NoLeak ==
  /\ \A b \in heap : \E m \in Mods :
       priv[m] # 0 /\ mem[BlockSlot(priv[m])] = b.lo
  /\ \A m \in Mods : priv[m] # 0 => m \in linked \/ Executing(m)

\* Whatever is entered, refused, killed or loaded again, a step that keeps
\* the area of a module leaves its words alone unless that module is the one
\* running; and a step that sets or clears no private word -- anything but a
\* load and a release -- changes at most statics and workspace of the module
\* that is running: no header word, nothing past an area, no free memory.
OwnWordsOnly ==
  [][/\ \A m \in Mods : priv[m] # 0 /\ priv'[m] = priv[m] =>
          \/ stack # << >> /\ Top.mod = m
          \/ \A a \in Addr :
               AreaFirst(priv[m]) <= a /\ a < AreaEnd(priv[m], Sb[m], Ws[m])
                 => mem'[a] = mem[a]
     /\ UNCHANGED priv => \A a \in Addr : mem'[a] # mem[a] =>
          /\ stack # << >> /\ priv[Top.mod] # 0
          /\ priv[Top.mod] <= a
          /\ a < AreaEnd(priv[Top.mod], Sb[Top.mod], Ws[Top.mod])]_vars

-----------------------------------------------------------------------------
(***************************************************************************)
(* The inductive invariant.  StaticBase follows from the chain of saved    *)
(* registers: each frame holds the base of the frame it interrupted.       *)
(***************************************************************************)
BlockOf(m) == mem[BlockSlot(priv[m])]

\* Claimed blocks are in the RMA and apart from each other.
HeapInv ==
  /\ \A k \in heap : k.lo \in Addr /\ k.lo + k.size <= RmaHi /\ k.size >= 23
  /\ \A k, l \in heap : k = l \/ k.lo + k.size <= l.lo \/ l.lo + l.size <= k.lo
  /\ \A k \in heap : \E m \in Mods : priv[m] # 0 /\ BlockOf(m) = k.lo

\* A private word leads to the base inside the block its header word names.
AreaInv(m) ==
  /\ BlockOf(m) \in Addr
  /\ [lo |-> BlockOf(m), size |-> Claim(m)] \in heap
  /\ priv[m] = StaticBaseOf(BlockOf(m))
  /\ mem[WorkspaceSlot(priv[m])] = WorkspaceOf(priv[m], Sb[m])

AreasInv ==
  /\ \A m \in Mods : priv[m] # 0 => AreaInv(m)
  /\ \A m, n \in Mods : priv[m] # 0 /\ priv[m] = priv[n] => m = n

\* Exactly the modules with an area that are linked or executing hold one.
PrivInv ==
  \A m \in Mods : priv[m] # 0 <=> HasArea(m) /\ (m \in linked \/ Executing(m))

\* The r9 in force while frame i is the innermost one.
BaseAt(i) ==
  IF HasArea(stack[i].mod) THEN priv[stack[i].mod] ELSE stack[i].r9

SavedBases ==
  /\ \A i \in 1..(Len(stack) - 1) : stack[i + 1].r9 = BaseAt(i)
  /\ stack # << >> => r9 = BaseAt(Len(stack))

FrameInv ==
  \A i \in 1..Len(stack) :
    /\ stack[i].entry = "init" <=> stack[i].mod \notin linked
    /\ HasArea(stack[i].mod) =>
         stack[i].ws = WorkspaceOf(priv[stack[i].mod], Sb[stack[i].mod])

\* A module being initialised is entered by nobody else, and one being
\* finalised was not executing.
EntryOrder ==
  \A i, j \in 1..Len(stack) :
    i < j /\ stack[i].mod = stack[j].mod =>
      stack[i].entry # "init" /\ stack[j].entry \notin {"init", "final"}

IInv ==
  /\ TypeOK
  /\ HeapInv
  /\ AreasInv
  /\ PrivInv
  /\ SavedBases
  /\ FrameInv
  /\ EntryOrder

-----------------------------------------------------------------------------
\* The abstract specification, with each static area read out of memory
\* through the private word.
StaticsOf(m) ==
  IF m \in linked \/ Executing(m)
    THEN [present |-> TRUE,
          words |-> [o \in WordOffsets(Sb[m]) |-> mem[priv[m] + o]]]
    ELSE [present |-> FALSE]

Statics == [m \in Mods |-> StaticsOf(m)]
Calls == [i \in 1..Len(stack) |-> [mod |-> stack[i].mod, entry |-> stack[i].entry]]

Abstract == INSTANCE ModuleInstances WITH
  statics <- Statics, chain <- linked, calls <- Calls

\* The veneers keep the promise: every step is a step of the abstract
\* specification or leaves the instances as they were.
ImplementsInstances == Abstract!ASpec
=============================================================================

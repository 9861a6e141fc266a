------------------------ MODULE ModuleVeneersProofs ------------------------
(***************************************************************************)
(* What holds of the module veneers for any number of modules of any size, *)
(* any RMA and any depth of nesting, provided every module with an area    *)
(* was generated with --rwpi and no module calls a SWI its target does not *)
(* implement (Careful).  MCModuleVeneers_badswi and _workspace_only show   *)
(* what happens without either proviso.                                    *)
(***************************************************************************)
EXTENDS ModuleVeneers, SequenceTheorems, TLAPS

Careful ==
  /\ \A m \in Mods : HasArea(m) => m \in Rwpi
  /\ BadSwis = FALSE

-----------------------------------------------------------------------------
(* The static area inside its block. *)

\* Wherever in the RMA the block lies, the base is aligned to sixteen and
\* leaves room for the two header words, but wastes at most twenty bytes.
LEMMA BaseInBlock ==
  ASSUME NEW lo \in Nat, lo % 4 = 0
  PROVE  /\ StaticBaseOf(lo) \in Nat
         /\ StaticBaseOf(lo) % 16 = 0
         /\ StaticBaseOf(lo) % 4 = 0
         /\ lo + 8 <= StaticBaseOf(lo)
         /\ StaticBaseOf(lo) <= lo + 20
  BY SMT DEF StaticBaseOf

\* For every module generated with --rwpi, the headers, statics and workspace
\* fit in what was claimed, wherever the RMA placed it (gen_module.py claims
\* "two words below the base, plus room to align it to 16").
THEOREM AreaFits ==
  ASSUME NEW lo \in Nat, lo % 4 = 0, NEW sb \in Nat, NEW ws \in Nat
  PROVE  /\ lo <= AreaFirst(StaticBaseOf(lo))
         /\ AreaEnd(StaticBaseOf(lo), sb, ws) <= lo + ClaimSize(TRUE, sb, ws)
  BY BaseInBlock DEF AreaFirst, AreaEnd, WorkspaceSlot, WorkspaceOf, ClaimSize

-----------------------------------------------------------------------------
(* The stack of entries. *)

LEMMA Pushed ==
  ASSUME NEW f \in Frame, stack \in Seq(Frame), stack' = Append(stack, f)
  PROVE  /\ stack' \in Seq(Frame)
         /\ Len(stack') = Len(stack) + 1
         /\ Len(stack) \in Nat
         /\ \A i \in 1..Len(stack) : stack'[i] = stack[i]
         /\ stack'[Len(stack) + 1] = f
         /\ stack' # << >>
  BY AppendProperties

LEMMA PoppedFacts ==
  ASSUME stack \in Seq(Frame), stack # << >>, stack' = Popped
  PROVE  /\ stack' \in Seq(Frame)
         /\ Len(stack) \in Nat \ {0}
         /\ Len(stack') = Len(stack) - 1
         /\ \A i \in 1..(Len(stack) - 1) : stack'[i] = stack[i]
         /\ Top \in Frame
  <1>1. Len(stack) \in Nat \ {0}
    BY EmptySeq
  <1>2. \A i \in 1..Len(stack) : stack[i] \in Frame
    BY ElementOfSeq
  <1>3. Top \in Frame
    BY <1>1, <1>2 DEF Top
  <1>4. \A i \in 1..(Len(stack) - 1) : stack[i] \in Frame
    BY <1>1, <1>2
  <1>5. /\ stack' \in Seq(Frame)
        /\ Len(stack') = IF 1 <= Len(stack) - 1 THEN Len(stack) - 1 - 1 + 1 ELSE 0
        /\ \A i \in 1..(Len(stack) - 1 - 1 + 1) : stack'[i] = stack[1 + i - 1]
    BY <1>1, <1>4, SubSeqProperties DEF Popped
  <1>6. \A i \in 1..(Len(stack) - 1) : i \in 1..(Len(stack) - 1 - 1 + 1) /\ 1 + i - 1 = i
    BY <1>1
  <1>7. \A i \in 1..(Len(stack) - 1) : stack'[i] = stack[i]
    BY <1>5, <1>6
  <1>8. Len(stack') = Len(stack) - 1
    <2>1. \A k \in Nat \ {0} : (IF 1 <= k - 1 THEN k - 1 - 1 + 1 ELSE 0) = k - 1
      OBVIOUS
    <2>2. QED
      BY <1>1, <1>5, <2>1, Zenon
  <1>9. QED
    BY <1>1, <1>3, <1>5, <1>7, <1>8

\* Every frame of the stack names a module and carries words.
LEMMA FrameTypes ==
  ASSUME TypeOK
  PROVE  /\ Len(stack) \in Nat
         /\ stack # << >> => Len(stack) \in 1..Len(stack)
         /\ \A i \in 1..Len(stack) :
              /\ stack[i] \in Frame
              /\ stack[i].mod \in Mods
              /\ stack[i].r9 \in Nat
              /\ stack[i].ws \in Nat
  <1>1. stack \in Seq(Frame)
    BY DEF TypeOK
  <1>2. \A i \in 1..Len(stack) : stack[i] \in Frame
    BY <1>1, ElementOfSeq
  <1>3. Len(stack) \in Nat /\ (stack # << >> => Len(stack) # 0)
    BY <1>1, EmptySeq
  <1>4. QED
    BY <1>2, <1>3 DEF Frame

\* Entering a veneer keeps the chain of saved bases and the frames' order,
\* whatever it does to memory, as long as it keeps the private words of the
\* modules already executing.
LEMMA EnterKeeps ==
  ASSUME TypeOK, SavedBases, FrameInv, EntryOrder,
         NEW f \in Frame, stack' = Append(stack, f), linked' = linked,
         f.r9 = r9,
         r9' = IF HasArea(f.mod) THEN priv'[f.mod] ELSE r9,
         \A i \in 1..Len(stack) : priv'[stack[i].mod] = priv[stack[i].mod],
         HasArea(f.mod) => f.ws = WorkspaceOf(priv'[f.mod], Sb[f.mod]),
         f.entry = "init" <=> f.mod \notin linked,
         f.entry \in {"init", "final"} => ~Executing(f.mod)
  PROVE  /\ SavedBases' /\ FrameInv' /\ EntryOrder'
         /\ stack' \in Seq(Frame)
         /\ \A m \in Mods : Executing(m)' <=> Executing(m) \/ m = f.mod
  <1> DEFINE n == Len(stack)
  <1>1. /\ stack' \in Seq(Frame)
        /\ Len(stack') = n + 1
        /\ n \in Nat
        /\ \A i \in 1..n : stack'[i] = stack[i]
        /\ stack'[n + 1] = f
    BY Pushed DEF TypeOK
  <1>2. \A i \in 1..n : BaseAt(i)' = BaseAt(i)
    BY <1>1 DEF BaseAt
  <1>3. r9' = BaseAt(Len(stack))'
    <2>1. (stack[Len(stack)])' = f
      BY <1>1
    <2>2. BaseAt(Len(stack))' = IF HasArea(f.mod) THEN priv'[f.mod] ELSE f.r9
      BY <2>1, Zenon DEF BaseAt
    <2>3. QED
      BY <2>2, Zenon
  <1>4. ASSUME NEW i \in 1..n
        PROVE  stack'[i + 1].r9 = BaseAt(i)'
    <2>1. CASE i = n
      <3>1. stack # << >>
        BY <2>1, <1>1, EmptySeq DEF TypeOK
      <3>2. QED
        BY <2>1, <3>1, <1>1, <1>2 DEF SavedBases
    <2>2. CASE i # n
      BY <2>2, <1>1, <1>2 DEF SavedBases
    <2>3. QED
      BY <2>1, <2>2
  <1>5. SavedBases'
    <2>1. Len(stack') - 1 = n
      BY <1>1
    <2>2. \A i \in 1..(Len(stack') - 1) : stack'[i + 1].r9 = BaseAt(i)'
      BY <2>1, <1>4
    <2>3. QED
      BY <2>2, <1>3, Zenon DEF SavedBases
  <1>6. FrameInv'
    BY <1>1 DEF FrameInv
  <1>7. EntryOrder'
    <2>1. ASSUME NEW i \in 1..(n + 1), NEW j \in 1..(n + 1),
                 i < j, stack'[i].mod = stack'[j].mod
          PROVE  stack'[i].entry # "init" /\ stack'[j].entry \notin {"init", "final"}
      <3>1. i \in 1..n /\ stack'[i] = stack[i]
        BY <2>1, <1>1
      <3>2. CASE j \in 1..n
        BY <3>1, <3>2, <2>1, <1>1 DEF EntryOrder
      <3>3. CASE j = n + 1
        <4>1. Executing(f.mod) /\ stack[i].mod = f.mod
          BY <3>1, <3>3, <2>1, <1>1 DEF Executing
        <4>2. f.entry \notin {"init", "final"} /\ f.mod \in linked
          BY <4>1
        <4>3. stack[i].entry # "init"
          BY <4>1, <4>2, <3>1 DEF FrameInv
        <4>4. QED
          BY <4>2, <4>3, <3>1, <3>3, <1>1
      <3>4. QED
        BY <3>2, <3>3, <1>1
    <2>2. QED
      BY <2>1, <1>1 DEF EntryOrder
  <1>8. \A m \in Mods : Executing(m)' <=> Executing(m) \/ m = f.mod
    BY <1>1 DEF Executing
  <1>9. QED
    BY <1>1, <1>5, <1>6, <1>7, <1>8

\* So does returning from one, as long as the private words and the kernel's
\* links of the modules still executing are kept.
LEMMA ReturnKeeps ==
  ASSUME TypeOK, SavedBases, FrameInv, EntryOrder,
         stack # << >>, Return,
         \A i \in 1..(Len(stack) - 1) :
           /\ priv'[stack[i].mod] = priv[stack[i].mod]
           /\ stack[i].mod \in linked' <=> stack[i].mod \in linked
  PROVE  /\ SavedBases' /\ FrameInv' /\ EntryOrder'
         /\ stack' \in Seq(Frame)
         /\ r9' \in Nat
         /\ \A m \in Mods : Executing(m) <=> Executing(m)' \/ m = Top.mod
  <1> DEFINE n == Len(stack)
  <1>1. /\ stack' \in Seq(Frame)
        /\ n \in Nat \ {0}
        /\ Len(stack') = n - 1
        /\ \A i \in 1..(n - 1) : stack'[i] = stack[i]
        /\ Top \in Frame
    BY PoppedFacts DEF TypeOK, Return
  <1>2. r9' = Top.r9 /\ Top = stack[n]
    BY DEF Return, Top
  <1>3. \A i \in 1..(n - 1) : BaseAt(i)' = BaseAt(i)
    BY <1>1 DEF BaseAt
  <1>4. ASSUME NEW i \in 1..(n - 1), i + 1 = n
        PROVE  r9' = BaseAt(i)'
    <2>1. stack[i + 1].r9 = BaseAt(i)
      BY DEF SavedBases
    <2>2. QED
      BY <2>1, <1>2, <1>3, <1>4
  <1>5. stack' # << >> => r9' = BaseAt(Len(stack))'
    <2> SUFFICES ASSUME stack' # << >> PROVE r9' = BaseAt(Len(stack))'
      OBVIOUS
    <2>1. Len(stack') \in 1..(n - 1) /\ Len(stack') + 1 = n
      BY <1>1, EmptySeq
    <2>2. \A i \in 1..(n - 1) : i + 1 = n => r9' = BaseAt(i)'
      BY <1>4
    <2>3. QED
      BY <2>1, <2>2
  <1>6. SavedBases'
    <2>1. ASSUME NEW i \in 1..(n - 1 - 1)
          PROVE  stack'[i + 1].r9 = BaseAt(i)'
      <3>1. i \in 1..(n - 1) /\ i + 1 \in 1..(n - 1)
        BY <1>1
      <3>2. stack[i + 1].r9 = BaseAt(i)
        BY <3>1 DEF SavedBases
      <3>3. QED
        BY <3>1, <3>2, <1>1, <1>3
    <2>2. \A i \in 1..(Len(stack') - 1) : stack'[i + 1].r9 = BaseAt(i)'
      BY <2>1, <1>1
    <2>3. QED
      BY <2>2, <1>5, Zenon DEF SavedBases
  <1>7. FrameInv'
    BY <1>1 DEF FrameInv
  <1>8. EntryOrder'
    BY <1>1 DEF EntryOrder
  <1>9. r9' \in Nat
    BY <1>1, <1>2 DEF Frame
  <1>10. \A m \in Mods : Executing(m) <=> Executing(m)' \/ m = Top.mod
    BY <1>1, <1>2 DEF Executing
  <1>11. QED
    BY <1>1, <1>6, <1>7, <1>8, <1>9, <1>10

-----------------------------------------------------------------------------
(* The static areas in memory. *)

MemoryInv == TypeOK /\ HeapInv /\ AreasInv /\ PrivInv

\* Where the area of a module that holds one is.
LEMMA AreaPlace ==
  ASSUME Careful, MemoryInv, NEW m \in Mods, priv[m] # 0
  PROVE  /\ HasArea(m)
         /\ Sb[m] \in Nat /\ Ws[m] \in Nat
         /\ Claim(m) = Sb[m] + 23 + Ws[m]
         /\ BlockOf(m) \in Nat /\ RmaLo <= BlockOf(m)
         /\ BlockOf(m) + Claim(m) <= RmaHi
         /\ [lo |-> BlockOf(m), size |-> Claim(m)] \in heap
         /\ priv[m] \in Nat /\ priv[m] % 4 = 0
         /\ BlockOf(m) + 8 <= priv[m] /\ priv[m] <= BlockOf(m) + 20
         /\ BlockSlot(priv[m]) \in Addr /\ WorkspaceSlot(priv[m]) \in Addr
  <1>1. HasArea(m) /\ m \in Rwpi
    BY DEF MemoryInv, PrivInv, Careful
  <1>2. /\ Sb[m] \in Nat /\ Ws[m] \in Nat
        /\ Claim(m) = Sb[m] + 23 + Ws[m]
    BY <1>1, SizeAssumption DEF Claim, ClaimSize
  <1>3. AreaInv(m)
    BY DEF MemoryInv, AreasInv
  <1>4. /\ BlockOf(m) \in Nat /\ BlockOf(m) % 4 = 0 /\ RmaLo <= BlockOf(m)
    BY <1>3, MemoryAssumption DEF AreaInv, Addr
  <1>5. /\ [lo |-> BlockOf(m), size |-> Claim(m)] \in heap
        /\ BlockOf(m) + Claim(m) <= RmaHi
    BY <1>3 DEF AreaInv, MemoryInv, HeapInv
  <1>6. /\ priv[m] \in Nat /\ priv[m] % 4 = 0
        /\ BlockOf(m) + 8 <= priv[m] /\ priv[m] <= BlockOf(m) + 20
    BY <1>3, <1>4, BaseInBlock DEF AreaInv
  <1>7. BlockSlot(priv[m]) \in Addr /\ WorkspaceSlot(priv[m]) \in Addr
    BY <1>2, <1>4, <1>5, <1>6, MemoryAssumption DEF BlockSlot, WorkspaceSlot, Addr
  <1>8. QED
    BY <1>1, <1>2, <1>4, <1>5, <1>6, <1>7

\* Two modules never share a block.
LEMMA AreasApart ==
  ASSUME Careful, MemoryInv,
         NEW m \in Mods, priv[m] # 0, NEW n \in Mods, priv[n] # 0, m # n
  PROVE  \/ BlockOf(m) + Claim(m) <= BlockOf(n)
         \/ BlockOf(n) + Claim(n) <= BlockOf(m)
  <1> DEFINE k == [lo |-> BlockOf(m), size |-> Claim(m)]
             l == [lo |-> BlockOf(n), size |-> Claim(n)]
  <1>1. k \in heap /\ l \in heap
    BY AreaPlace
  <1>2. k # l
    <2>1. priv[m] # priv[n]
      BY DEF MemoryInv, AreasInv
    <2>2. /\ priv[m] = StaticBaseOf(BlockOf(m))
          /\ priv[n] = StaticBaseOf(BlockOf(n))
      BY DEF MemoryInv, AreasInv, AreaInv
    <2>3. BlockOf(m) # BlockOf(n)
      BY <2>1, <2>2
    <2>4. QED
      BY <2>3
  <1>3. \/ k.lo + k.size <= l.lo
        \/ l.lo + l.size <= k.lo
    BY <1>1, <1>2 DEF MemoryInv, HeapInv
  <1>4. QED
    BY <1>3

\* A step that keeps a module's block, private word and header words keeps
\* its area.
LEMMA AreaKept ==
  ASSUME NEW m \in Mods, AreaInv(m), priv'[m] = priv[m],
         mem'[BlockSlot(priv[m])] = mem[BlockSlot(priv[m])],
         mem'[WorkspaceSlot(priv[m])] = mem[WorkspaceSlot(priv[m])],
         [lo |-> BlockOf(m), size |-> Claim(m)] \in heap'
  PROVE  AreaInv(m)' /\ BlockOf(m)' = BlockOf(m)
  BY DEF AreaInv, BlockOf

\* What initialisation does to memory: it changes nothing outside the area.
LEMMA InitMemory ==
  ASSUME MemoryInv, Careful, NEW m \in Mods, HasArea(m), NEW lo \in Addr,
         Fits(lo, Claim(m)),
         mem' = MemAfterInit(m, lo, StaticBaseOf(lo))
  PROVE  LET base == StaticBaseOf(lo) IN
         /\ mem' \in [Addr -> Nat]
         /\ \A a \in Addr : a < lo \/ lo + Claim(m) <= a => mem'[a] = mem[a]
         /\ mem'[BlockSlot(base)] = lo
         /\ mem'[WorkspaceSlot(base)] = WorkspaceOf(base, Sb[m])
  <1> DEFINE base == StaticBaseOf(lo)
  <1>1. lo \in Nat /\ lo % 4 = 0 /\ RmaLo <= lo
    BY MemoryAssumption DEF Addr
  <1>2. /\ base \in Nat /\ base % 4 = 0 /\ lo + 8 <= base /\ base <= lo + 20
    BY <1>1, BaseInBlock
  <1>3. /\ Sb[m] \in Nat /\ Rw[m] \in Nat /\ Ws[m] \in Nat /\ Rw[m] <= Sb[m]
        /\ Claim(m) = Sb[m] + 23 + Ws[m]
    BY SizeAssumption DEF Claim, ClaimSize, Careful
  <1>4. lo + Claim(m) <= RmaHi
    BY DEF Fits
  <1>5. BlockSlot(base) \in Addr /\ WorkspaceSlot(base) \in Addr
    BY <1>1, <1>2, <1>3, <1>4, MemoryAssumption DEF BlockSlot, WorkspaceSlot, Addr
  <1>6. ASSUME NEW a \in Addr
        PROVE  mem'[a] \in Nat
    <2>1. a \in Nat /\ a % 4 = 0
      BY MemoryAssumption DEF Addr
    <2>2. mem[a] \in Nat
      BY DEF MemoryInv, TypeOK
    <2>3. a \in base..(base + Rw[m] - 1) => Image[m][a - base] \in Nat
      <3>1. a \in base..(base + Rw[m] - 1) => a - base \in WordOffsets(Rw[m])
        BY <2>1, <1>2, <1>3 DEF WordOffsets
      <3>2. QED
        BY <3>1, SizeAssumption
    <2>4. WorkspaceOf(base, Sb[m]) \in Nat
      BY <1>2, <1>3 DEF WorkspaceOf
    <2>5. QED
      BY <2>2, <2>3, <2>4, <1>1 DEF MemAfterInit
  <1>7. mem' \in [Addr -> Nat]
    BY <1>6 DEF MemAfterInit
  <1>8. ASSUME NEW a \in Addr, a < lo \/ lo + Claim(m) <= a
        PROVE  mem'[a] = mem[a]
    <2>1. a \in Nat
      BY MemoryAssumption DEF Addr
    <2>2. a < base - 8 \/ a > base + Sb[m]
      BY <1>8, <2>1, <1>1, <1>2, <1>3
    <2>3. /\ a # BlockSlot(base) /\ a # WorkspaceSlot(base)
          /\ a \notin base..(base + Rw[m] - 1)
          /\ a \notin (base + Rw[m])..(base + Sb[m] - 1)
      BY <2>2, <2>1, <1>2, <1>3 DEF BlockSlot, WorkspaceSlot
    <2>4. QED
      BY <2>3 DEF MemAfterInit
  <1>9. /\ WorkspaceSlot(base) # BlockSlot(base)
        /\ \A a \in {BlockSlot(base), WorkspaceSlot(base)} :
             /\ a \notin base..(base + Rw[m] - 1)
             /\ a \notin (base + Rw[m])..(base + Sb[m] - 1)
    BY <1>2, <1>3 DEF BlockSlot, WorkspaceSlot
  <1>10. mem'[BlockSlot(base)] = lo
    BY <1>5, <1>9 DEF MemAfterInit
  <1>11. mem'[WorkspaceSlot(base)] = WorkspaceOf(base, Sb[m])
    BY <1>5, <1>9 DEF MemAfterInit
  <1>12. QED
    BY <1>7, <1>8, <1>10, <1>11

-----------------------------------------------------------------------------
(* Initialisation, release and the C code's writes keep the areas apart. *)

LEMMA ClaimKeepsAreas ==
  ASSUME MemoryInv, Careful, NEW m \in Mods, HasArea(m), priv[m] = 0,
         NEW lo \in Addr, Fits(lo, Claim(m)),
         heap' = heap \union {[lo |-> lo, size |-> Claim(m)]},
         mem' = MemAfterInit(m, lo, StaticBaseOf(lo)),
         priv' = [priv EXCEPT ![m] = StaticBaseOf(lo)]
  PROVE  /\ HeapInv' /\ AreasInv'
         /\ heap' \subseteq Block /\ mem' \in [Addr -> Nat]
         /\ priv' \in [Mods -> Nat]
         /\ StaticBaseOf(lo) \in Nat \ {0}
         /\ WorkspaceOf(StaticBaseOf(lo), Sb[m]) \in Nat
  <1> DEFINE base == StaticBaseOf(lo)
             new == [lo |-> lo, size |-> Claim(m)]
  <1>1. lo \in Nat /\ lo % 4 = 0
    BY MemoryAssumption DEF Addr
  <1>2. /\ base \in Nat /\ lo + 8 <= base /\ base <= lo + 20
    BY <1>1, BaseInBlock
  <1>3. /\ Sb[m] \in Nat /\ Claim(m) \in Nat /\ Claim(m) >= 23
        /\ lo + Claim(m) <= RmaHi
    BY SizeAssumption DEF Claim, ClaimSize, Careful, Fits
  <1>4. /\ mem' \in [Addr -> Nat]
        /\ \A a \in Addr : a < lo \/ lo + Claim(m) <= a => mem'[a] = mem[a]
        /\ mem'[BlockSlot(base)] = lo
        /\ mem'[WorkspaceSlot(base)] = WorkspaceOf(base, Sb[m])
    BY InitMemory
  <1>5. priv'[m] = base /\ \A n \in Mods : n # m => priv'[n] = priv[n]
    BY DEF MemoryInv, TypeOK
  <1>6. AreaInv(m)' /\ BlockOf(m)' = lo
    BY <1>4, <1>5 DEF AreaInv, BlockOf
  <1>7. ASSUME NEW n \in Mods, priv[n] # 0
        PROVE  AreaInv(n)' /\ BlockOf(n)' = BlockOf(n) /\ n # m /\ priv'[n] # base
    <2>1. n # m
      BY <1>7
    <2> DEFINE k == [lo |-> BlockOf(n), size |-> Claim(n)]
    <2>2. /\ k \in heap /\ BlockOf(n) \in Nat /\ Claim(n) \in Nat /\ Claim(n) >= 23
          /\ BlockOf(n) + 8 <= priv[n] /\ priv[n] <= BlockOf(n) + 20
          /\ priv[n] \in Nat
          /\ BlockSlot(priv[n]) \in Addr /\ WorkspaceSlot(priv[n]) \in Addr
      BY <1>7, AreaPlace
    <2>3. lo + Claim(m) <= BlockOf(n) \/ BlockOf(n) + Claim(n) <= lo
      BY <2>2 DEF Fits
    <2>4. priv[n] # base
      BY <1>1, <1>2, <1>3, <2>2, <2>3
    <2>5. /\ mem'[BlockSlot(priv[n])] = mem[BlockSlot(priv[n])]
          /\ mem'[WorkspaceSlot(priv[n])] = mem[WorkspaceSlot(priv[n])]
      <3>1. \A a \in {BlockSlot(priv[n]), WorkspaceSlot(priv[n])} :
              a < lo \/ lo + Claim(m) <= a
        BY <1>1, <1>3, <2>2, <2>3 DEF BlockSlot, WorkspaceSlot
      <3>2. QED
        BY <3>1, <2>2, <1>4
    <2>6. AreaInv(n)
      BY <1>7 DEF MemoryInv, AreasInv
    <2>7. QED
      BY <2>1, <2>2, <2>4, <2>5, <2>6, <1>5, AreaKept
  <1>8. AreasInv'
    <2>1. \A n \in Mods : priv'[n] # 0 => AreaInv(n)'
      BY <1>5, <1>6, <1>7
    <2>2. ASSUME NEW i \in Mods, NEW j \in Mods, priv'[i] # 0, priv'[i] = priv'[j]
          PROVE  i = j
      BY <2>2, <1>5, <1>7 DEF MemoryInv, AreasInv
    <2>3. QED
      BY <2>1, <2>2 DEF AreasInv
  <1>9. HeapInv'
    <2>1. \A k \in heap' : k.lo \in Addr /\ k.lo + k.size <= RmaHi /\ k.size >= 23
      BY <1>3 DEF MemoryInv, HeapInv
    <2>2. \A k \in heap : lo + Claim(m) <= k.lo \/ k.lo + k.size <= lo
      BY DEF Fits
    <2>3. \A k, l \in heap' : k = l \/ k.lo + k.size <= l.lo \/ l.lo + l.size <= k.lo
      BY <2>2 DEF MemoryInv, HeapInv
    <2>4. ASSUME NEW k \in heap'
          PROVE  \E n \in Mods : priv'[n] # 0 /\ BlockOf(n)' = k.lo
      <3>1. CASE k = new
        BY <3>1, <1>1, <1>2, <1>5, <1>6
      <3>2. CASE k \in heap
        <4>1. PICK n \in Mods : priv[n] # 0 /\ BlockOf(n) = k.lo
          BY <3>2 DEF MemoryInv, HeapInv
        <4>2. priv'[n] # 0 /\ BlockOf(n)' = k.lo
          BY <4>1, <1>5, <1>7
        <4>3. QED
          BY <4>2
      <3>3. QED
        BY <3>1, <3>2
    <2>5. QED
      BY <2>1, <2>3, <2>4 DEF HeapInv
  <1>10. heap' \subseteq Block
    BY <1>1, <1>3 DEF MemoryInv, TypeOK, Block
  <1>11. QED
    BY <1>1, <1>2, <1>3, <1>4, <1>8, <1>9, <1>10 DEF MemoryInv, TypeOK, WorkspaceOf

LEMMA ReleaseKeepsAreas ==
  ASSUME MemoryInv, Careful, NEW m \in Mods, Executing(m), Release(m)
  PROVE  /\ HeapInv' /\ AreasInv'
         /\ heap' \subseteq Block /\ mem' \in [Addr -> Nat]
         /\ priv' \in [Mods -> Nat]
         /\ priv'[m] = 0
         /\ \A n \in Mods : n # m => priv'[n] = priv[n]
  <1>1. CASE ~HasArea(m)
    <2>1. UNCHANGED <<heap, mem, priv>> /\ priv[m] = 0
      BY <1>1 DEF Release, MemoryInv, PrivInv
    <2>2. HeapInv' /\ AreasInv'
      BY <2>1 DEF MemoryInv, HeapInv, AreasInv, AreaInv, BlockOf
    <2>3. QED
      BY <2>1, <2>2 DEF MemoryInv, TypeOK
  <1>2. CASE HasArea(m)
    <2> DEFINE lo == BlockOf(m)
    <2>1. priv[m] # 0
      BY <1>2 DEF MemoryInv, PrivInv
    <2>2. /\ heap' = AfterFree(lo)
          /\ mem' = MemAfterFree(lo)
          /\ priv' = [priv EXCEPT ![m] = 0]
      BY <1>2 DEF Release, BlockOf
    <2>3. /\ priv' \in [Mods -> Nat] /\ priv'[m] = 0
          /\ \A n \in Mods : n # m => priv'[n] = priv[n]
      BY <2>2 DEF MemoryInv, TypeOK
    <2>4. heap' = {k \in heap : k.lo # lo}
      BY <2>2 DEF AfterFree
    <2>5. mem' \in [Addr -> Nat]
      BY <2>2, MemoryAssumption DEF MemAfterFree, MemoryInv, TypeOK
    <2>6. /\ lo \in Nat /\ Claim(m) \in Nat /\ Claim(m) >= 23
          /\ [lo |-> lo, size |-> Claim(m)] \in heap
      BY <2>1, AreaPlace
    <2>7. \A k \in heap : k.lo = lo => k.size = Claim(m)
      <3>1. \A k, l \in heap : k = l \/ k.lo + k.size <= l.lo \/ l.lo + l.size <= k.lo
        BY DEF MemoryInv, HeapInv
      <3>2. \A k \in heap : k.lo \in Nat /\ k.size \in Nat /\ k.size >= 23
        BY DEF MemoryInv, HeapInv, TypeOK, Block
      <3>3. QED
        BY <2>6, <3>1, <3>2
    <2>8. ASSUME NEW n \in Mods, priv[n] # 0, n # m
          PROVE  AreaInv(n)' /\ BlockOf(n)' = BlockOf(n)
      <3>1. /\ [lo |-> BlockOf(n), size |-> Claim(n)] \in heap
            /\ BlockOf(n) \in Nat /\ Claim(n) \in Nat /\ Claim(n) >= 23
            /\ BlockOf(n) + 8 <= priv[n] /\ priv[n] <= BlockOf(n) + 20
            /\ priv[n] \in Nat
            /\ BlockSlot(priv[n]) \in Addr /\ WorkspaceSlot(priv[n]) \in Addr
        BY <2>8, AreaPlace
      <3>2. lo + Claim(m) <= BlockOf(n) \/ BlockOf(n) + Claim(n) <= lo
        BY <2>1, <2>8, AreasApart
      <3>3. [lo |-> BlockOf(n), size |-> Claim(n)] \in heap'
        BY <2>4, <2>6, <3>1, <3>2
      <3>4. \A a \in {BlockSlot(priv[n]), WorkspaceSlot(priv[n])} :
              a < lo \/ lo + Claim(m) <= a
        BY <2>6, <3>1, <3>2 DEF BlockSlot, WorkspaceSlot
      <3>5. \A a \in {BlockSlot(priv[n]), WorkspaceSlot(priv[n])} :
              ~ \E k \in heap : k.lo = lo /\ Inside(a, k)
        BY <2>6, <2>7, <3>1, <3>4 DEF Inside, BlockSlot, WorkspaceSlot
      <3>6. /\ mem'[BlockSlot(priv[n])] = mem[BlockSlot(priv[n])]
            /\ mem'[WorkspaceSlot(priv[n])] = mem[WorkspaceSlot(priv[n])]
        BY <2>2, <3>1, <3>5 DEF MemAfterFree
      <3>7. AreaInv(n)
        BY <2>8 DEF MemoryInv, AreasInv
      <3>8. QED
        BY <2>3, <2>8, <3>3, <3>6, <3>7, AreaKept
    <2>9. AreasInv'
      <3>1. \A n \in Mods : priv'[n] # 0 => AreaInv(n)'
        BY <2>3, <2>8
      <3>2. ASSUME NEW i \in Mods, NEW j \in Mods, priv'[i] # 0, priv'[i] = priv'[j]
            PROVE  i = j
        BY <3>2, <2>3 DEF MemoryInv, AreasInv
      <3>3. QED
        BY <3>1, <3>2 DEF AreasInv
    <2>10. HeapInv'
      <3>1. \A k \in heap' : k.lo \in Addr /\ k.lo + k.size <= RmaHi /\ k.size >= 23
        BY <2>4 DEF MemoryInv, HeapInv
      <3>2. \A k, l \in heap' : k = l \/ k.lo + k.size <= l.lo \/ l.lo + l.size <= k.lo
        BY <2>4 DEF MemoryInv, HeapInv
      <3>3. ASSUME NEW k \in heap'
            PROVE  \E n \in Mods : priv'[n] # 0 /\ BlockOf(n)' = k.lo
        <4>1. PICK n \in Mods : priv[n] # 0 /\ BlockOf(n) = k.lo
          BY <2>4 DEF MemoryInv, HeapInv
        <4>2. n # m
          BY <2>4, <4>1
        <4>3. priv'[n] # 0 /\ BlockOf(n)' = k.lo
          BY <4>1, <4>2, <2>3, <2>8
        <4>4. QED
          BY <4>3
      <3>4. QED
        BY <3>1, <3>2, <3>3 DEF HeapInv
    <2>11. heap' \subseteq Block
      BY <2>4 DEF MemoryInv, TypeOK
    <2>12. QED
      BY <2>3, <2>5, <2>9, <2>10, <2>11
  <1>3. QED
    BY <1>1, <1>2

\* The C code of m writes a word between its base and the end of its area.
LEMMA WriteKeepsAreas ==
  ASSUME MemoryInv, Careful, NEW m \in Mods, priv[m] # 0,
         NEW x \in Nat, priv[m] <= x, x < AreaEnd(priv[m], Sb[m], Ws[m]),
         mem' = [mem EXCEPT ![x] = NewWord],
         UNCHANGED <<heap, priv>>
  PROVE  HeapInv' /\ AreasInv' /\ mem' \in [Addr -> Nat]
  <1>1. mem' \in [Addr -> Nat]
    BY MemoryAssumption DEF MemoryInv, TypeOK
  <1>2. \A a \in Addr : a # x => mem'[a] = mem[a]
    BY DEF MemoryInv, TypeOK
  <1>3. ASSUME NEW n \in Mods, priv[n] # 0
        PROVE  AreaInv(n)' /\ BlockOf(n)' = BlockOf(n)
    <2>1. /\ [lo |-> BlockOf(n), size |-> Claim(n)] \in heap
          /\ BlockOf(n) \in Nat /\ Claim(n) \in Nat /\ Claim(n) >= 23
          /\ BlockOf(n) + 8 <= priv[n] /\ priv[n] <= BlockOf(n) + 20
          /\ priv[n] \in Nat
          /\ BlockSlot(priv[n]) \in Addr /\ WorkspaceSlot(priv[n]) \in Addr
      BY <1>3, AreaPlace
    <2>2. x # BlockSlot(priv[n]) /\ x # WorkspaceSlot(priv[n])
      <3>1. CASE n = m
        BY <3>1, <2>1 DEF BlockSlot, WorkspaceSlot
      <3>2. CASE n # m
        <4>1. /\ BlockOf(m) + 8 <= priv[m] /\ priv[m] <= BlockOf(m) + 20
              /\ Claim(m) = Sb[m] + 23 + Ws[m] /\ Sb[m] \in Nat /\ Ws[m] \in Nat
              /\ BlockOf(m) \in Nat /\ priv[m] \in Nat
          BY AreaPlace
        <4>2. BlockOf(m) <= x /\ x < BlockOf(m) + Claim(m)
          BY <4>1 DEF AreaEnd, WorkspaceOf
        <4>3. \/ BlockOf(m) + Claim(m) <= BlockOf(n)
              \/ BlockOf(n) + Claim(n) <= BlockOf(m)
          BY <1>3, <3>2, AreasApart
        <4>4. QED
          BY <2>1, <4>1, <4>2, <4>3 DEF BlockSlot, WorkspaceSlot
      <3>3. QED
        BY <3>1, <3>2
    <2>3. AreaInv(n)
      BY <1>3 DEF MemoryInv, AreasInv
    <2>4. QED
      BY <1>2, <2>1, <2>2, <2>3, AreaKept
  <1>4. AreasInv'
    BY <1>3 DEF MemoryInv, AreasInv
  <1>5. HeapInv'
    <2>1. \A k \in heap : \E n \in Mods : priv'[n] # 0 /\ BlockOf(n)' = k.lo
      BY <1>3 DEF MemoryInv, HeapInv
    <2>2. QED
      BY <2>1 DEF MemoryInv, HeapInv
  <1>6. QED
    BY <1>1, <1>4, <1>5

-----------------------------------------------------------------------------
(* The inductive invariant. *)

LEMMA InitIInv == Init => IInv
  <1> SUFFICES ASSUME Init PROVE IInv
    OBVIOUS
  <1> USE DEF Init
  <1>1. stack \in Seq(Frame) /\ Len(stack) = 0
    BY EmptySeq
  <1>2. TypeOK
    BY <1>1, MemoryAssumption DEF TypeOK
  <1>3. HeapInv
    BY DEF HeapInv
  <1>4. AreasInv
    BY DEF AreasInv
  <1>5. PrivInv
    BY <1>1 DEF PrivInv, Executing
  <1>6. SavedBases
    BY <1>1 DEF SavedBases
  <1>7. FrameInv /\ EntryOrder
    BY <1>1 DEF FrameInv, EntryOrder
  <1>8. QED
    BY <1>2, <1>3, <1>4, <1>5, <1>6, <1>7 DEF IInv

\* Entering a later entry leaves memory alone.
LEMMA EnterIInv ==
  ASSUME Careful, IInv, NEW m \in Mods, NEW e \in {"final", "command", "swi"},
         e = "final" => ~Executing(m), Enter(m, e)
  PROVE  IInv'
  <1> DEFINE w == IF HasArea(m) THEN mem[WorkspaceSlot(priv[m])] ELSE 0
             f == [mod |-> m, entry |-> e, r9 |-> r9, ws |-> w]
  <1>1. /\ UNCHANGED <<heap, mem, priv, linked>>
        /\ m \in linked
        /\ r9' = IF HasArea(m) THEN priv[m] ELSE r9
        /\ stack' = Append(stack, f)
    BY DEF Enter
  <1>2. HasArea(m) => /\ priv[m] # 0
                      /\ w = WorkspaceOf(priv[m], Sb[m])
                      /\ w \in Nat
    <2> SUFFICES ASSUME HasArea(m)
                 PROVE  priv[m] # 0 /\ w = WorkspaceOf(priv[m], Sb[m]) /\ w \in Nat
      OBVIOUS
    <2>1. priv[m] # 0
      BY <1>1 DEF IInv, PrivInv
    <2>2. w = WorkspaceOf(priv[m], Sb[m])
      BY <2>1 DEF IInv, AreasInv, AreaInv
    <2>3. Sb[m] \in Nat /\ priv[m] \in Nat
      BY SizeAssumption DEF IInv, TypeOK
    <2>4. QED
      BY <2>1, <2>2, <2>3 DEF WorkspaceOf
  <1>3. w \in Nat
    BY <1>2
  <1>4. f \in Frame
    BY <1>3 DEF Frame, Entries, IInv, TypeOK
  <1>5. f.mod = m /\ f.entry = e /\ f.r9 = r9 /\ f.ws = w
    OBVIOUS
  <1>6. /\ SavedBases' /\ FrameInv' /\ EntryOrder'
        /\ stack' \in Seq(Frame)
        /\ \A n \in Mods : Executing(n)' <=> Executing(n) \/ n = m
    <2>1. e # "init"
      OBVIOUS
    <2>2. QED
      BY <1>1, <1>2, <1>4, <1>5, <2>1, EnterKeeps DEF IInv
  <1>7. TypeOK'
    BY <1>1, <1>6 DEF IInv, TypeOK
  <1>8. HeapInv' /\ AreasInv'
    BY <1>1 DEF IInv, HeapInv, AreasInv, AreaInv, BlockOf
  <1>9. PrivInv'
    BY <1>1, <1>6 DEF IInv, PrivInv
  <1>10. QED
    BY <1>6, <1>7, <1>8, <1>9 DEF IInv

\* Returning without giving anything back.
LEMMA ReturnIInv ==
  ASSUME Careful, IInv, stack # << >>, Return, UNCHANGED <<heap, mem, priv>>,
         linked' = linked \union {Top.mod}
  PROVE  IInv'
  <1>1. Len(stack) \in 1..Len(stack) /\ Top = stack[Len(stack)] /\ Top.mod \in Mods
    BY FrameTypes DEF IInv, Top
  <1>2. \A i \in 1..(Len(stack) - 1) :
          stack[i].mod \in linked' <=> stack[i].mod \in linked
    <2> SUFFICES ASSUME NEW i \in 1..(Len(stack) - 1), stack[i].mod = Top.mod
                 PROVE  stack[i].mod \in linked
      OBVIOUS
    <2>1. /\ i \in 1..Len(stack) /\ i < Len(stack)
      BY <1>1
    <2>2. stack[i].entry # "init"
      BY <1>1, <2>1 DEF IInv, EntryOrder
    <2>3. QED
      BY <2>1, <2>2 DEF IInv, FrameInv
  <1>3. /\ SavedBases' /\ FrameInv' /\ EntryOrder'
        /\ stack' \in Seq(Frame)
        /\ r9' \in Nat
        /\ \A m \in Mods : Executing(m) <=> Executing(m)' \/ m = Top.mod
    BY <1>2, ReturnKeeps DEF IInv
  <1>4. TypeOK'
    BY <1>1, <1>3 DEF IInv, TypeOK
  <1>5. HeapInv' /\ AreasInv'
    BY DEF IInv, HeapInv, AreasInv, AreaInv, BlockOf
  <1>6. PrivInv'
    BY <1>1, <1>3 DEF IInv, PrivInv
  <1>7. QED
    BY <1>3, <1>4, <1>5, <1>6 DEF IInv

\* Returning after giving the area back: a refused initialisation and an
\* agreed kill both leave the module unlinked and idle.
LEMMA ReleaseIInv ==
  ASSUME Careful, IInv, stack # << >>, Top.entry \in {"init", "final"},
         NEW t \in Mods, t = Top.mod,
         Return, Release(t), linked' = linked \ {t}
  PROVE  IInv'
  <1>1. /\ Len(stack) \in 1..Len(stack) /\ Len(stack) \in Nat
        /\ Top = stack[Len(stack)] /\ Top.mod \in Mods
    BY FrameTypes DEF IInv, Top
  <1>2. Executing(t)
    BY <1>1 DEF Executing
  <1>3. /\ HeapInv' /\ AreasInv'
        /\ heap' \subseteq Block /\ mem' \in [Addr -> Nat]
        /\ priv' \in [Mods -> Nat]
        /\ priv'[t] = 0
        /\ \A n \in Mods : n # t => priv'[n] = priv[n]
    BY <1>1, <1>2, ReleaseKeepsAreas DEF IInv, MemoryInv
  <1>4. ASSUME NEW i \in 1..(Len(stack) - 1)
        PROVE  stack[i].mod # t /\ stack[i].mod \in Mods
    <2>1. i \in 1..Len(stack) /\ i < Len(stack)
      BY <1>1
    <2>2. QED
      BY <1>1, <2>1, FrameTypes DEF IInv, EntryOrder
  <1>5. \A i \in 1..(Len(stack) - 1) :
          /\ priv'[stack[i].mod] = priv[stack[i].mod]
          /\ stack[i].mod \in linked' <=> stack[i].mod \in linked
    BY <1>3, <1>4
  <1>6. /\ SavedBases' /\ FrameInv' /\ EntryOrder'
        /\ stack' \in Seq(Frame)
        /\ r9' \in Nat
        /\ \A m \in Mods : Executing(m) <=> Executing(m)' \/ m = Top.mod
    BY <1>5, ReturnKeeps DEF IInv
  <1>7. ~Executing(t)'
    <2>1. /\ Len(stack') = Len(stack) - 1
          /\ \A i \in 1..(Len(stack) - 1) : stack'[i] = stack[i]
      BY PoppedFacts DEF IInv, TypeOK, Return
    <2>2. QED
      BY <2>1, <1>4 DEF Executing
  <1>8. TypeOK'
    BY <1>3, <1>6 DEF IInv, TypeOK
  <1>9. PrivInv'
    BY <1>1, <1>3, <1>6, <1>7 DEF IInv, PrivInv
  <1>10. QED
    BY <1>3, <1>6, <1>8, <1>9 DEF IInv

\* Initialisation of a module with an area.
LEMMA ClaimIInv ==
  ASSUME Careful, IInv, NEW m \in Mods, InitClaim(m)
  PROVE  IInv'
  <1>1. PICK lo \in Addr :
          /\ Fits(lo, Claim(m))
          /\ heap' = heap \union {[lo |-> lo, size |-> Claim(m)]}
          /\ mem' = MemAfterInit(m, lo, StaticBaseOf(lo))
          /\ priv' = [priv EXCEPT ![m] = StaticBaseOf(lo)]
          /\ r9' = StaticBaseOf(lo)
          /\ stack' = Append(stack, [mod |-> m, entry |-> "init", r9 |-> r9,
                                ws |-> WorkspaceOf(StaticBaseOf(lo), Sb[m])])
    BY Zenon DEF InitClaim
  <1> DEFINE base == StaticBaseOf(lo)
             f == [mod |-> m, entry |-> "init", r9 |-> r9,
                   ws |-> WorkspaceOf(base, Sb[m])]
  <1>2. HasArea(m) /\ m \notin linked /\ ~Executing(m) /\ linked' = linked
    BY DEF InitClaim, CanLoad
  <1>3. priv[m] = 0
    BY <1>2 DEF IInv, PrivInv
  <1>4. MemoryInv
    BY DEF IInv, MemoryInv
  <1>5. /\ HeapInv' /\ AreasInv'
        /\ heap' \subseteq Block /\ mem' \in [Addr -> Nat]
        /\ priv' \in [Mods -> Nat]
        /\ base \in Nat \ {0}
        /\ WorkspaceOf(base, Sb[m]) \in Nat
    BY <1>1, <1>2, <1>3, <1>4, ClaimKeepsAreas
  <1>6. f \in Frame
    BY <1>5 DEF Frame, Entries, IInv, TypeOK
  <1>7. /\ f.mod = m /\ f.entry = "init" /\ f.r9 = r9
        /\ f.ws = WorkspaceOf(base, Sb[m])
    OBVIOUS
  <1>8. priv'[m] = base /\ \A n \in Mods : n # m => priv'[n] = priv[n]
    BY <1>1 DEF IInv, TypeOK
  <1>9. \A i \in 1..Len(stack) : priv'[stack[i].mod] = priv[stack[i].mod]
    BY <1>2, <1>8, FrameTypes DEF IInv, Executing
  <1>10. /\ SavedBases' /\ FrameInv' /\ EntryOrder'
         /\ stack' \in Seq(Frame)
         /\ \A n \in Mods : Executing(n)' <=> Executing(n) \/ n = m
    BY <1>1, <1>2, <1>6, <1>7, <1>8, <1>9, EnterKeeps DEF IInv
  <1>11. TypeOK'
    BY <1>1, <1>2, <1>5, <1>10 DEF IInv, TypeOK
  <1>12. PrivInv'
    BY <1>2, <1>5, <1>8, <1>10 DEF IInv, PrivInv
  <1>13. QED
    BY <1>5, <1>10, <1>11, <1>12 DEF IInv

LEMMA PlainIInv ==
  ASSUME Careful, IInv, NEW m \in Mods, InitPlain(m)
  PROVE  IInv'
  <1> DEFINE f == [mod |-> m, entry |-> "init", r9 |-> r9, ws |-> 0]
  <1>1. /\ ~HasArea(m) /\ m \notin linked /\ ~Executing(m)
        /\ UNCHANGED <<heap, mem, priv, linked, r9>>
        /\ stack' = Append(stack, f)
    BY DEF InitPlain, CanLoad
  <1>2. f \in Frame /\ f.mod = m /\ f.entry = "init" /\ f.r9 = r9
    BY DEF Frame, Entries, IInv, TypeOK
  <1>3. /\ SavedBases' /\ FrameInv' /\ EntryOrder'
        /\ stack' \in Seq(Frame)
        /\ \A n \in Mods : Executing(n)' <=> Executing(n) \/ n = m
    BY <1>1, <1>2, EnterKeeps DEF IInv
  <1>4. TypeOK'
    BY <1>1, <1>3 DEF IInv, TypeOK
  <1>5. HeapInv' /\ AreasInv'
    BY <1>1 DEF IInv, HeapInv, AreasInv, AreaInv, BlockOf
  <1>6. PrivInv'
    BY <1>1, <1>3 DEF IInv, PrivInv
  <1>7. QED
    BY <1>3, <1>4, <1>5, <1>6 DEF IInv

\* The C code of the innermost frame writes through r9 or its workspace
\* argument: both lead into its own area.
LEMMA WriteIInv ==
  ASSUME Careful, IInv, StaticWrite \/ WorkspaceWrite
  PROVE  IInv'
  <1> DEFINE t == Top.mod
             i == Len(stack)
  <1>1. stack # << >> /\ HasArea(t)
        /\ UNCHANGED <<heap, priv, linked, stack, r9>>
    BY DEF StaticWrite, WorkspaceWrite, HasArea
  <1>2. i \in 1..i /\ Top = stack[i] /\ t \in Mods
    BY <1>1, FrameTypes DEF IInv, Top
  <1>3. priv[t] # 0 /\ priv[t] \in Nat
    BY <1>1, <1>2 DEF IInv, PrivInv, Executing, TypeOK
  <1>4. r9 = priv[t] /\ Top.ws = WorkspaceOf(priv[t], Sb[t])
    BY <1>1, <1>2 DEF IInv, SavedBases, BaseAt, FrameInv
  <1>5. Sb[t] \in Nat /\ Ws[t] \in Nat
    BY <1>2, SizeAssumption
  <1>6. \E x \in Nat : /\ priv[t] <= x
                       /\ x < AreaEnd(priv[t], Sb[t], Ws[t])
                       /\ mem' = [mem EXCEPT ![x] = NewWord]
    <2>1. CASE StaticWrite
      <3>1. PICK o \in WordOffsets(Sb[t]) : mem' = [mem EXCEPT ![r9 + o] = NewWord]
        BY <2>1 DEF StaticWrite
      <3>2. /\ priv[t] + o \in Nat /\ priv[t] <= priv[t] + o
            /\ priv[t] + o < AreaEnd(priv[t], Sb[t], Ws[t])
        BY <1>3, <1>5 DEF WordOffsets, AreaEnd, WorkspaceOf
      <3>3. QED
        BY <3>1, <3>2, <1>4
    <2>2. CASE WorkspaceWrite
      <3>1. PICK o \in WordOffsets(Ws[t]) :
              mem' = [mem EXCEPT ![Top.ws + o] = NewWord]
        BY <2>2 DEF WorkspaceWrite
      <3>2. /\ Top.ws + o \in Nat /\ priv[t] <= Top.ws + o
            /\ Top.ws + o < AreaEnd(priv[t], Sb[t], Ws[t])
        BY <1>3, <1>4, <1>5 DEF WordOffsets, AreaEnd, WorkspaceOf
      <3>3. QED
        BY <3>1, <3>2
    <2>3. QED
      BY <2>1, <2>2
  <1>7. HeapInv' /\ AreasInv' /\ mem' \in [Addr -> Nat]
    BY <1>1, <1>2, <1>3, <1>6, WriteKeepsAreas DEF IInv, MemoryInv
  <1>8. TypeOK'
    BY <1>1, <1>7 DEF IInv, TypeOK
  <1>9. PrivInv' /\ FrameInv' /\ EntryOrder'
    BY <1>1 DEF IInv, PrivInv, FrameInv, EntryOrder, Executing
  <1>10. SavedBases'
    BY <1>1 DEF IInv, SavedBases, BaseAt
  <1>11. QED
    BY <1>7, <1>8, <1>9, <1>10 DEF IInv

LEMMA NextIInv ==
  ASSUME Careful, IInv, [Next]_vars
  PROVE  IInv'
  <1>0. ASSUME stack # << >>
        PROVE  /\ Top.mod \in Mods
               /\ Top.entry = "init" <=> Top.mod \notin linked
    BY <1>0, FrameTypes DEF IInv, FrameInv, Top
  <1>1. CASE UNCHANGED vars
    BY <1>1 DEF vars, IInv, TypeOK, HeapInv, AreasInv, AreaInv, BlockOf, PrivInv,
                Executing, SavedBases, BaseAt, FrameInv, EntryOrder
  <1>2. ASSUME NEW m \in Mods, InitClaim(m)
        PROVE  IInv'
    BY <1>2, ClaimIInv
  <1>3. ASSUME NEW m \in Mods, InitClaimFails(m)
        PROVE  IInv'
    BY <1>1, <1>3 DEF InitClaimFails
  <1>4. ASSUME NEW m \in Mods, InitPlain(m)
        PROVE  IInv'
    BY <1>4, PlainIInv
  <1>5. ASSUME NEW m \in Mods, Final(m) \/ Command(m) \/ Swi(m)
        PROVE  IInv'
    BY <1>5, EnterIInv DEF Final, Command, Swi
  <1>6. ASSUME NEW m \in Mods, SwiUnknown(m)
        PROVE  IInv'
    <2>1. /\ stack = << >> /\ UNCHANGED <<heap, mem, priv, linked, stack>>
          /\ r9' \in Nat
      BY <1>6 DEF SwiUnknown, Careful, IInv, TypeOK
    <2>2. Len(stack) = 0
      BY <2>1
    <2>3. SavedBases'
      BY <2>1, <2>2 DEF SavedBases
    <2>4. TypeOK'
      BY <2>1 DEF IInv, TypeOK
    <2>5. QED
      BY <2>1, <2>3, <2>4 DEF IInv, HeapInv, AreasInv, AreaInv, BlockOf, PrivInv,
                              Executing, FrameInv, EntryOrder
  <1>7. CASE InitSucceeds
    BY <1>7, ReturnIInv DEF InitSucceeds, Returning
  <1>8. CASE FinalRefuses \/ CommandReturns \/ SwiReturns
    <2>1. /\ stack # << >> /\ Return /\ UNCHANGED <<heap, mem, priv, linked>>
          /\ Top.entry # "init"
      BY <1>8 DEF FinalRefuses, CommandReturns, SwiReturns, Returning
    <2>2. linked' = linked \union {Top.mod}
      BY <2>1, <1>0
    <2>3. QED
      BY <2>1, <2>2, ReturnIInv
  <1>9. CASE InitRefuses
    <2>1. stack # << >> /\ Top.entry = "init" /\ Release(Top.mod) /\ Return
          /\ linked' = linked
      BY <1>9 DEF InitRefuses, Returning
    <2>2. linked' = linked \ {Top.mod} /\ Top.mod \in Mods
      BY <2>1, <1>0
    <2>3. QED
      BY <2>1, <2>2, ReleaseIInv
  <1>10. CASE FinalAgrees
    BY <1>0, <1>10, ReleaseIInv DEF FinalAgrees, Returning
  <1>11. CASE StaticWrite \/ WorkspaceWrite
    BY <1>11, WriteIInv
  <1>12. QED
    BY <1>1, <1>2, <1>3, <1>4, <1>5, <1>6, <1>7, <1>8, <1>9, <1>10, <1>11
       DEF Next

-----------------------------------------------------------------------------
(* The theorems. *)

\* IInv holds throughout, for every set of modules, sizes, RMA and nesting.
THEOREM Invariance == ASSUME Careful PROVE Spec => []IInv
  <1>1. Init => IInv
    BY InitIInv
  <1>2. IInv /\ [Next]_vars => IInv'
    BY NextIInv
  <1>3. QED
    BY <1>1, <1>2, PTL DEF Spec

\* The C code that is running always finds its own static base in r9,
\* whatever entries, nested calls and returns came before.
THEOREM StaticBaseAlways == ASSUME Careful PROVE Spec => []StaticBase
  <1>1. IInv => StaticBase
    BY FrameTypes DEF IInv, SavedBases, BaseAt, PrivInv, Executing, StaticBase, Top
  <1>2. QED
    BY <1>1, Invariance, PTL

\* Every area lies inside a block that is still claimed: no module's code is
\* run over memory that has been given back.
THEOREM AreasClaimed == ASSUME Careful PROVE Spec => []AreaInsideBlock
  <1>1. IInv => AreaInsideBlock
    <2> SUFFICES ASSUME IInv, NEW m \in Mods, priv[m] # 0
                 PROVE  \E k \in heap :
                          /\ k.lo <= AreaFirst(priv[m])
                          /\ AreaEnd(priv[m], Sb[m], Ws[m]) <= k.lo + k.size
      BY DEF AreaInsideBlock
    <2>1. /\ [lo |-> BlockOf(m), size |-> Claim(m)] \in heap
          /\ BlockOf(m) \in Nat /\ priv[m] \in Nat /\ Sb[m] \in Nat /\ Ws[m] \in Nat
          /\ Claim(m) = Sb[m] + 23 + Ws[m]
          /\ BlockOf(m) + 8 <= priv[m] /\ priv[m] <= BlockOf(m) + 20
      BY AreaPlace DEF IInv, MemoryInv
    <2> DEFINE k == [lo |-> BlockOf(m), size |-> Claim(m)]
    <2>2. /\ k.lo <= AreaFirst(priv[m])
          /\ AreaEnd(priv[m], Sb[m], Ws[m]) <= k.lo + k.size
      BY <2>1 DEF AreaFirst, AreaEnd, WorkspaceSlot, WorkspaceOf
    <2>3. QED
      BY <2>1, <2>2
  <1>2. QED
    BY <1>1, Invariance, PTL

\* The RMA keeps exactly the blocks that private words lead to, through
\* refused initialisations, refused and agreed kills and reloads.
THEOREM NoBlockLeaks == ASSUME Careful PROVE Spec => []NoLeak
  <1>1. IInv => NoLeak
    BY DEF IInv, HeapInv, PrivInv, NoLeak, BlockOf
  <1>2. QED
    BY <1>1, Invariance, PTL

\* No module's writes reach another's header words: finalisation frees the
\* block that initialisation claimed.
THEOREM HeadersKept == ASSUME Careful PROVE Spec => []HeadersIntact
  <1>1. IInv => HeadersIntact
    <2> SUFFICES ASSUME IInv, NEW m \in Mods, priv[m] # 0
                 PROVE  /\ mem[WorkspaceSlot(priv[m])] = WorkspaceOf(priv[m], Sb[m])
                        /\ \E k \in heap : /\ k.lo = mem[BlockSlot(priv[m])]
                                           /\ k.size = Claim(m)
                                           /\ Inside(priv[m] - 8, k)
      BY DEF HeadersIntact
    <2>1. /\ [lo |-> BlockOf(m), size |-> Claim(m)] \in heap
          /\ BlockOf(m) \in Nat /\ priv[m] \in Nat /\ Sb[m] \in Nat /\ Ws[m] \in Nat
          /\ Claim(m) = Sb[m] + 23 + Ws[m]
          /\ BlockOf(m) + 8 <= priv[m] /\ priv[m] <= BlockOf(m) + 20
      BY AreaPlace DEF IInv, MemoryInv
    <2> DEFINE k == [lo |-> BlockOf(m), size |-> Claim(m)]
    <2>2. k.lo = mem[BlockSlot(priv[m])] /\ k.size = Claim(m) /\ Inside(priv[m] - 8, k)
      BY <2>1 DEF BlockOf, Inside
    <2>3. mem[WorkspaceSlot(priv[m])] = WorkspaceOf(priv[m], Sb[m])
      BY DEF IInv, AreasInv, AreaInv
    <2>4. QED
      BY <2>1, <2>2, <2>3
  <1>2. QED
    BY <1>1, Invariance, PTL

-----------------------------------------------------------------------------
(* Who changes which word of a module's area. *)

AreaWords(m) ==
  {a \in Addr : AreaFirst(priv[m]) <= a /\ a < AreaEnd(priv[m], Sb[m], Ws[m])}

LEMMA WordsInBlock ==
  ASSUME Careful, MemoryInv, NEW m \in Mods, priv[m] # 0, NEW a \in AreaWords(m)
  PROVE  a \in Addr /\ a \in Nat /\ BlockOf(m) <= a /\ a < BlockOf(m) + Claim(m)
  <1>1. a \in Nat /\ a \in Addr
    BY MemoryAssumption DEF AreaWords, Addr
  <1>2. /\ BlockOf(m) \in Nat /\ priv[m] \in Nat /\ Sb[m] \in Nat /\ Ws[m] \in Nat
        /\ Claim(m) = Sb[m] + 23 + Ws[m]
        /\ BlockOf(m) + 8 <= priv[m] /\ priv[m] <= BlockOf(m) + 20
    BY AreaPlace
  <1>3. priv[m] - 8 <= a /\ a < priv[m] + Sb[m] + Ws[m]
    BY DEF AreaWords, AreaFirst, AreaEnd, WorkspaceSlot, WorkspaceOf
  <1>4. QED
    BY <1>1, <1>2, <1>3

LEMMA StaticWord ==
  ASSUME Careful, MemoryInv, NEW m \in Mods, priv[m] # 0, NEW o \in WordOffsets(Sb[m])
  PROVE  o \in Nat /\ o < Sb[m] /\ priv[m] + o \in AreaWords(m)
  <1>1. /\ BlockOf(m) \in Nat /\ priv[m] \in Nat /\ Sb[m] \in Nat /\ Ws[m] \in Nat
        /\ Claim(m) = Sb[m] + 23 + Ws[m] /\ RmaLo <= BlockOf(m)
        /\ BlockOf(m) + Claim(m) <= RmaHi /\ priv[m] % 4 = 0
        /\ BlockOf(m) + 8 <= priv[m] /\ priv[m] <= BlockOf(m) + 20
    BY AreaPlace
  <1>2. o \in Nat /\ o < Sb[m] /\ o % 4 = 0
    BY <1>1 DEF WordOffsets
  <1>3. priv[m] + o \in Addr
    BY <1>1, <1>2, MemoryAssumption DEF Addr
  <1>4. QED
    BY <1>1, <1>2, <1>3 DEF AreaWords, AreaFirst, AreaEnd, WorkspaceSlot, WorkspaceOf

\* The RMA places a new block apart from every area.
LEMMA ClaimSparesOthers ==
  ASSUME Careful, MemoryInv, NEW m \in Mods, HasArea(m), NEW lo \in Addr,
         Fits(lo, Claim(m)), mem' = MemAfterInit(m, lo, StaticBaseOf(lo)),
         NEW n \in Mods, priv[n] # 0, NEW a \in AreaWords(n)
  PROVE  mem'[a] = mem[a]
  <1>1. a \in Addr /\ a \in Nat /\ BlockOf(n) <= a /\ a < BlockOf(n) + Claim(n)
    BY WordsInBlock
  <1>2. [lo |-> BlockOf(n), size |-> Claim(n)] \in heap /\ BlockOf(n) \in Nat /\ Claim(n) \in Nat
    <2>1. Claim(n) = Sb[n] + 23 + Ws[n] /\ Sb[n] \in Nat /\ Ws[n] \in Nat
      BY AreaPlace
    <2>2. QED
      BY <2>1, AreaPlace
  <1>3. lo + Claim(m) <= BlockOf(n) \/ BlockOf(n) + Claim(n) <= lo
    BY <1>2 DEF Fits
  <1>4. lo \in Nat /\ Claim(m) \in Nat
    BY SizeAssumption, MemoryAssumption DEF Addr, Claim, ClaimSize, Careful
  <1>5. a < lo \/ lo + Claim(m) <= a
    BY <1>1, <1>2, <1>3, <1>4
  <1>6. QED
    BY <1>1, <1>5, InitMemory

\* What the RMA gets back is the block of the module that leaves.
LEMMA ReleaseSparesOthers ==
  ASSUME Careful, MemoryInv, NEW m \in Mods, Executing(m), Release(m),
         NEW n \in Mods, n # m, priv[n] # 0, NEW a \in AreaWords(n)
  PROVE  mem'[a] = mem[a]
  <1>1. CASE ~HasArea(m)
    BY <1>1 DEF Release
  <1>2. CASE HasArea(m)
    <2>1. priv[m] # 0
      BY <1>2 DEF MemoryInv, PrivInv
    <2>2. mem' = MemAfterFree(BlockOf(m))
      BY <1>2 DEF Release, BlockOf
    <2>3. a \in Addr /\ a \in Nat /\ BlockOf(n) <= a /\ a < BlockOf(n) + Claim(n)
      BY WordsInBlock
    <2>4. /\ Claim(m) = Sb[m] + 23 + Ws[m] /\ Claim(n) = Sb[n] + 23 + Ws[n]
          /\ Sb[m] \in Nat /\ Ws[m] \in Nat /\ Sb[n] \in Nat /\ Ws[n] \in Nat
          /\ BlockOf(m) \in Nat /\ BlockOf(n) \in Nat
          /\ [lo |-> BlockOf(m), size |-> Claim(m)] \in heap
          /\ [lo |-> BlockOf(n), size |-> Claim(n)] \in heap
      BY <2>1, AreaPlace
    <2>5. BlockOf(m) + Claim(m) <= BlockOf(n) \/ BlockOf(n) + Claim(n) <= BlockOf(m)
      BY <2>1, AreasApart
    <2>6. ASSUME NEW k \in heap, k.lo = BlockOf(m) PROVE ~Inside(a, k)
      <3>1. /\ k.lo + k.size <= BlockOf(n) \/ BlockOf(n) + Claim(n) <= k.lo
            /\ k.lo \in Nat /\ k.size \in Nat
        <4>1. k # [lo |-> BlockOf(n), size |-> Claim(n)]
          BY <2>4, <2>5, <2>6
        <4>2. k.lo \in Nat /\ k.size \in Nat
          BY DEF MemoryInv, TypeOK, Block
        <4>3. QED
          BY <2>4, <4>1, <4>2 DEF MemoryInv, HeapInv
      <3>2. QED
        BY <2>3, <2>4, <3>1 DEF Inside
    <2>7. QED
      BY <2>2, <2>3, <2>6 DEF MemAfterFree
  <1>3. QED
    BY <1>1, <1>2

\* The C code writes in its own area: at the static base or in the workspace.
LEMMA WriteInArea ==
  ASSUME Careful, IInv, StaticWrite \/ WorkspaceWrite
  PROVE  /\ stack # << >> /\ Top.mod \in Mods /\ HasArea(Top.mod)
         /\ Executing(Top.mod) /\ priv[Top.mod] # 0
         /\ UNCHANGED <<heap, priv, linked, stack, r9>>
         /\ StaticWrite => \E o \in WordOffsets(Sb[Top.mod]) :
              mem' = [mem EXCEPT ![priv[Top.mod] + o] = NewWord]
         /\ WorkspaceWrite => \E o \in WordOffsets(Ws[Top.mod]) :
              mem' = [mem EXCEPT ![priv[Top.mod] + Sb[Top.mod] + o] = NewWord]
  <1>1. stack # << >> /\ HasArea(Top.mod) /\ UNCHANGED <<heap, priv, linked, stack, r9>>
    BY DEF StaticWrite, WorkspaceWrite, HasArea
  <1>2. Len(stack) \in 1..Len(stack) /\ Top = stack[Len(stack)] /\ Top.mod \in Mods
    BY <1>1, FrameTypes DEF IInv, Top
  <1>3. Executing(Top.mod) /\ priv[Top.mod] # 0
    BY <1>1, <1>2 DEF IInv, PrivInv, Executing
  <1>4. r9 = priv[Top.mod] /\ Top.ws = priv[Top.mod] + Sb[Top.mod]
    BY <1>1, <1>2 DEF IInv, SavedBases, BaseAt, FrameInv, WorkspaceOf
  <1>5. QED
    BY <1>1, <1>2, <1>3, <1>4, Zenon DEF StaticWrite, WorkspaceWrite

LEMMA WriteOffset ==
  ASSUME Careful, IInv, StaticWrite \/ WorkspaceWrite
  PROVE  \E o \in Nat : /\ o < Sb[Top.mod] + Ws[Top.mod]
                       /\ mem' = [mem EXCEPT ![priv[Top.mod] + o] = NewWord]
  <1> DEFINE t == Top.mod
  <1>1. t \in Mods /\ priv[t] # 0 /\ MemoryInv
    BY WriteInArea DEF IInv, MemoryInv
  <1>2. Sb[t] \in Nat /\ Ws[t] \in Nat /\ priv[t] \in Nat
    BY <1>1, AreaPlace
  <1>3. \E o \in Nat : o < Sb[t] + Ws[t] /\ mem' = [mem EXCEPT ![priv[t] + o] = NewWord]
    <2>1. CASE StaticWrite
      <3>1. PICK o \in WordOffsets(Sb[t]) : mem' = [mem EXCEPT ![priv[t] + o] = NewWord]
        BY <2>1, WriteInArea
      <3>2. o \in Nat /\ o < Sb[t] + Ws[t]
        BY <1>2 DEF WordOffsets
      <3>3. QED
        BY <3>1, <3>2
    <2>2. CASE WorkspaceWrite
      <3>1. PICK o \in WordOffsets(Ws[t]) : mem' = [mem EXCEPT ![priv[t] + Sb[t] + o] = NewWord]
        BY <2>2, WriteInArea
      <3>2. Sb[t] + o \in Nat /\ Sb[t] + o < Sb[t] + Ws[t] /\ priv[t] + Sb[t] + o = priv[t] + (Sb[t] + o)
        BY <1>2 DEF WordOffsets
      <3>3. QED
        BY <3>1, <3>2
    <2>3. QED
      BY <2>1, <2>2
  <1>4. QED
    BY <1>3

LEMMA WriteSparesOthers ==
  ASSUME Careful, IInv, StaticWrite \/ WorkspaceWrite,
         NEW n \in Mods, n # Top.mod, priv[n] # 0, NEW a \in AreaWords(n)
  PROVE  mem'[a] = mem[a]
  <1> DEFINE t == Top.mod
  <1>1. t \in Mods /\ priv[t] # 0 /\ MemoryInv
    BY WriteInArea DEF IInv, MemoryInv
  <1>2. /\ Sb[t] \in Nat /\ Ws[t] \in Nat /\ Claim(t) = Sb[t] + 23 + Ws[t]
        /\ BlockOf(t) \in Nat /\ BlockOf(n) \in Nat /\ priv[t] \in Nat
        /\ BlockOf(t) + 8 <= priv[t] /\ priv[t] <= BlockOf(t) + 20
    BY <1>1, AreaPlace
  <1>3. \E o \in Nat : o < Sb[t] + Ws[t] /\ mem' = [mem EXCEPT ![priv[t] + o] = NewWord]
    BY WriteOffset
  <1>4. a \in Addr /\ a \in Nat /\ BlockOf(n) <= a /\ a < BlockOf(n) + Claim(n)
    BY <1>1, WordsInBlock
  <1>5. BlockOf(t) + Claim(t) <= BlockOf(n) \/ BlockOf(n) + Claim(n) <= BlockOf(t)
    BY <1>1, AreasApart
  <1>6. PICK o \in Nat : o < Sb[t] + Ws[t] /\ mem' = [mem EXCEPT ![priv[t] + o] = NewWord]
    BY <1>3
  <1>7. Claim(n) \in Nat
    <2>1. Claim(n) = Sb[n] + 23 + Ws[n] /\ Sb[n] \in Nat /\ Ws[n] \in Nat
      BY <1>1, AreaPlace
    <2>2. QED
      BY <2>1
  <1> HIDE DEF t
  <1>8. a # priv[t] + o
    BY <1>2, <1>4, <1>5, <1>6, <1>7
  <1>9. mem \in [Addr -> Nat]
    BY DEF IInv, TypeOK
  <1>10. QED
    BY <1>4, <1>6, <1>8, <1>9

\* Every step that keeps a module's area keeps its words, unless the module
\* itself is the one that runs.
LEMMA WordsKeptByStep ==
  ASSUME Careful, IInv, [Next]_vars, NEW m \in Mods, priv[m] # 0, priv'[m] = priv[m],
         stack = << >> \/ Top.mod # m, NEW a \in AreaWords(m)
  PROVE  mem'[a] = mem[a]
  <1>1. MemoryInv
    BY DEF IInv, MemoryInv
  <1>2. ASSUME NEW n \in Mods, InitClaim(n) PROVE mem'[a] = mem[a]
    <2>1. HasArea(n)
      BY <1>2 DEF InitClaim
    <2>2. PICK lo \in Addr : Fits(lo, Claim(n)) /\ mem' = MemAfterInit(n, lo, StaticBaseOf(lo))
      BY <1>2, Zenon DEF InitClaim
    <2>3. QED
      BY <1>1, <2>1, <2>2, ClaimSparesOthers
  <1>3. CASE InitRefuses \/ FinalAgrees
    <2>1. stack # << >> /\ Release(Top.mod)
      BY <1>3 DEF InitRefuses, FinalAgrees, Returning
    <2>2. Top.mod \in Mods /\ Executing(Top.mod)
      BY <2>1, FrameTypes DEF IInv, Top, Executing
    <2>3. QED
      BY <1>1, <2>1, <2>2, ReleaseSparesOthers
  <1>4. CASE StaticWrite \/ WorkspaceWrite
    <2>1. stack # << >>
      BY <1>4, WriteInArea
    <2>2. QED
      BY <1>4, <2>1, WriteSparesOthers
  <1>5. CASE mem' = mem
    BY <1>5
  <1>6. QED
    BY <1>2, <1>3, <1>4, <1>5
    DEF Next, vars, InitClaimFails, InitPlain, Final, Command, Swi, Enter, SwiUnknown,
        InitSucceeds, FinalRefuses, CommandReturns, SwiReturns

\* A step that loads and releases nothing writes in the area of the module
\* that is running, above its headers, or not at all.
LEMMA StillStepWrites ==
  ASSUME Careful, IInv, [Next]_vars, UNCHANGED priv, NEW a \in Addr, mem'[a] # mem[a]
  PROVE  /\ stack # << >> /\ priv[Top.mod] # 0
         /\ priv[Top.mod] <= a
         /\ a < AreaEnd(priv[Top.mod], Sb[Top.mod], Ws[Top.mod])
  <1>1. ASSUME NEW n \in Mods, InitClaim(n) PROVE FALSE
    <2>1. HasArea(n) /\ n \notin linked /\ ~Executing(n)
      BY <1>1 DEF InitClaim, CanLoad
    <2>2. PICK lo \in Addr : priv' = [priv EXCEPT ![n] = StaticBaseOf(lo)]
      BY <1>1, Zenon DEF InitClaim
    <2>3. priv[n] = 0 /\ priv'[n] = StaticBaseOf(lo)
      BY <2>1, <2>2 DEF IInv, TypeOK, PrivInv
    <2>4. lo \in Nat /\ 0 < lo
      BY MemoryAssumption DEF Addr
    <2>5. StaticBaseOf(lo) # 0
      BY <2>4 DEF StaticBaseOf
    <2>6. QED
      BY <2>3, <2>5
  <1>2. ~(InitRefuses \/ FinalAgrees)
    <2> SUFFICES ASSUME InitRefuses \/ FinalAgrees PROVE FALSE
      OBVIOUS
    <2>1. stack # << >> /\ Release(Top.mod)
      BY DEF InitRefuses, FinalAgrees, Returning
    <2>2. Top.mod \in Mods /\ Executing(Top.mod)
      BY <2>1, FrameTypes DEF IInv, Top, Executing
    <2>3. HasArea(Top.mod)
      BY <2>1 DEF Release
    <2>4. priv[Top.mod] # 0 /\ priv'[Top.mod] = 0
      BY <2>1, <2>2, <2>3 DEF Release, IInv, TypeOK, PrivInv
    <2>5. QED
      BY <2>4
  <1>3. StaticWrite \/ WorkspaceWrite
    BY <1>1, <1>2
    DEF Next, vars, InitClaimFails, InitPlain, Final, Command, Swi, Enter, SwiUnknown,
        InitSucceeds, FinalRefuses, CommandReturns, SwiReturns
  <1> DEFINE t == Top.mod
  <1>4. t \in Mods /\ stack # << >> /\ priv[t] # 0 /\ MemoryInv
    BY <1>3, WriteInArea DEF IInv, MemoryInv
  <1>5. Sb[t] \in Nat /\ Ws[t] \in Nat /\ priv[t] \in Nat
    BY <1>4, AreaPlace
  <1>6. PICK o \in Nat : o < Sb[t] + Ws[t] /\ mem' = [mem EXCEPT ![priv[t] + o] = NewWord]
    BY <1>3, WriteOffset
  <1>7. a = priv[t] + o
    BY <1>6 DEF IInv, TypeOK
  <1> HIDE DEF t
  <1>8. priv[t] <= a /\ a < AreaEnd(priv[t], Sb[t], Ws[t])
    BY <1>5, <1>6, <1>7 DEF AreaEnd, WorkspaceOf
  <1>9. QED
    BY <1>4, <1>8 DEF t

\* A module's words are safe from every other module, loading and releasing
\* included, and its headers and all memory outside areas also from its own
\* C code, for any modules, sizes and nesting.
THEOREM OnlyOwnWordsChange == ASSUME Careful PROVE Spec => OwnWordsOnly
  <1> DEFINE Spared ==
        \A m \in Mods : priv[m] # 0 /\ priv'[m] = priv[m] =>
          \/ stack # << >> /\ Top.mod = m
          \/ \A a \in Addr :
               AreaFirst(priv[m]) <= a /\ a < AreaEnd(priv[m], Sb[m], Ws[m])
                 => mem'[a] = mem[a]
             Still ==
        UNCHANGED priv => \A a \in Addr : mem'[a] # mem[a] =>
          /\ stack # << >> /\ priv[Top.mod] # 0
          /\ priv[Top.mod] <= a
          /\ a < AreaEnd(priv[Top.mod], Sb[Top.mod], Ws[Top.mod])
  <1>1. IInv /\ [Next]_vars => Spared
    BY WordsKeptByStep DEF AreaWords
  <1>2. IInv /\ [Next]_vars => Still
    BY StillStepWrites
  <1>3. IInv /\ [Next]_vars => [Spared /\ Still]_vars
    BY <1>1, <1>2
  <1>4. QED
    BY <1>3, Invariance, PTL DEF Spec, OwnWordsOnly

-----------------------------------------------------------------------------
(* The refinement: the calls and the static areas, without the memory. *)

Call(f) == [mod |-> f.mod, entry |-> f.entry]
CallSet == [mod : Mods, entry : Entries]
Present(m) == m \in linked \/ Executing(m)

LEMMA CallsOf ==
  ASSUME NEW s \in Seq(Frame), NEW calls, calls = [i \in 1..Len(s) |-> Call(s[i])]
  PROVE  /\ calls \in Seq(CallSet) /\ Len(calls) = Len(s) /\ Len(s) \in Nat
         /\ \A i \in 1..Len(s) : calls[i] = Call(s[i])
  <1>1. Len(s) \in Nat /\ \A i \in 1..Len(s) : s[i] \in Frame
    BY ElementOfSeq
  <1>2. \A i \in 1..Len(s) : calls[i] = Call(s[i]) /\ calls[i] \in CallSet
    BY <1>1 DEF Call, CallSet, Frame
  <1>3. calls \in Seq(CallSet) /\ Len(calls) = Len(s)
    <2>1. calls = [i \in 1..Len(s) |-> calls[i]]
      OBVIOUS
    <2>2. QED
      BY <1>1, <1>2, <2>1, IsASeq
  <1>4. QED
    BY <1>1, <1>2, <1>3

LEMMA CallsAre ==
  ASSUME TypeOK
  PROVE  /\ Calls \in Seq(CallSet) /\ Len(Calls) = Len(stack) /\ Len(stack) \in Nat
         /\ \A i \in 1..Len(stack) : Calls[i] = Call(stack[i])
         /\ Calls = << >> <=> stack = << >>
         /\ stack # << >> => /\ Abstract!Current = Call(Top) /\ Top.mod \in Mods
                              /\ Abstract!Current.mod = Top.mod
                              /\ Abstract!Current.entry = Top.entry
         /\ \A m : Abstract!Busy(m) <=> Executing(m)
  <1>1. stack \in Seq(Frame) /\ Calls = [i \in 1..Len(stack) |-> Call(stack[i])]
    BY DEF TypeOK, Calls, Call
  <1>2. \A i \in 1..Len(stack) : Calls[i] = Call(stack[i])
    BY <1>1, CallsOf
  <1>3. Calls \in Seq(CallSet) /\ Len(Calls) = Len(stack) /\ Len(stack) \in Nat
    BY <1>1, CallsOf
  <1>4. Calls = << >> <=> stack = << >>
    BY <1>1, <1>3, EmptySeq DEF TypeOK
  <1>5. ASSUME stack # << >>
        PROVE  /\ Abstract!Current = Call(Top) /\ Top.mod \in Mods
               /\ Abstract!Current.mod = Top.mod /\ Abstract!Current.entry = Top.entry
    <2>1. Len(stack) \in 1..Len(stack) /\ Top = stack[Len(stack)] /\ Top.mod \in Mods
      BY <1>5, FrameTypes DEF Top
    <2>2. Abstract!Current = Call(Top)
      BY <1>2, <1>3, <2>1 DEF Abstract!Current
    <2>3. QED
      BY <2>1, <2>2 DEF Call
  <1>6. \A m : Abstract!Busy(m) <=> Executing(m)
    <2>1. \A i \in 1..Len(stack) : Calls[i].mod = stack[i].mod
      <3>1. \A f : Call(f).mod = f.mod
        BY DEF Call
      <3>2. QED
        BY <1>2, <3>1
    <2>2. QED
      BY <1>3, <2>1, Zenon DEF Abstract!Busy, Executing
  <1>7. QED
    BY <1>1, <1>2, <1>3, <1>4, <1>5, <1>6

LEMMA CallMade ==
  ASSUME TypeOK, TypeOK', NEW f \in Frame, stack' = Append(stack, f), Len(stack) < MaxDepth
  PROVE  /\ Abstract!Call(f.mod, f.entry)
         /\ \A m : Executing(m)' <=> Executing(m) \/ m = f.mod
  <1>1. /\ Len(stack') = Len(stack) + 1 /\ Len(stack) \in Nat
        /\ \A i \in 1..Len(stack) : stack'[i] = stack[i]
        /\ stack'[Len(stack) + 1] = f
    BY Pushed DEF TypeOK
  <1>2. /\ Calls \in Seq(CallSet) /\ Len(Calls) = Len(stack)
        /\ \A i \in 1..Len(stack) : Calls[i] = Call(stack[i])
    BY CallsAre
  <1>3. /\ Calls' \in Seq(CallSet) /\ Len(Calls') = Len(stack')
        /\ \A i \in 1..Len(stack') : Calls'[i] = Call(stack'[i])
    <2>1. stack' \in Seq(Frame) /\ Calls' = [i \in 1..Len(stack') |-> Call(stack'[i])]
      BY DEF TypeOK, Calls, Call
    <2>2. QED
      BY <2>1, CallsOf
  <1>4. Call(f) \in CallSet
    BY DEF Call, CallSet, Frame
  <1> DEFINE longer == Append(Calls, Call(f))
  <1>5. /\ longer \in Seq(CallSet) /\ Len(longer) = Len(stack')
        /\ \A i \in 1..Len(stack) : longer[i] = Calls[i]
        /\ longer[Len(stack) + 1] = Call(f)
    BY <1>1, <1>2, <1>4, AppendProperties
  <1>6. \A i \in 1..Len(stack') : i \in 1..Len(stack) \/ i = Len(stack) + 1
    BY <1>1
  <1>7. \A i \in 1..Len(stack') : Calls'[i] = longer[i]
    BY <1>1, <1>2, <1>3, <1>5, <1>6
  <1>8. Calls' = longer
    BY <1>3, <1>5, <1>7, SeqEqual
  <1>9. Executing(f.mod)' /\ \A m : Executing(m) => Executing(m)'
    BY <1>1 DEF Executing
  <1>10. \A m : Executing(m)' => Executing(m) \/ m = f.mod
    BY <1>1, <1>6 DEF Executing
  <1>11. QED
    BY <1>2, <1>8, <1>9, <1>10 DEF Abstract!Call, Call

LEMMA CallReturned ==
  ASSUME TypeOK, TypeOK', stack # << >>, Return
  PROVE  /\ Calls # << >> /\ Calls' = Abstract!Unwound
         /\ \A m : Executing(m) <=> Executing(m)' \/ m = Top.mod
         /\ \A m : Executing(m)' <=> \E i \in 1..(Len(stack) - 1) : stack[i].mod = m
  <1>1. /\ Len(stack) \in Nat \ {0} /\ Len(stack') = Len(stack) - 1
        /\ \A i \in 1..(Len(stack) - 1) : stack'[i] = stack[i]
    BY PoppedFacts DEF TypeOK, Return
  <1>2. /\ Calls \in Seq(CallSet) /\ Len(Calls) = Len(stack) /\ Calls # << >>
        /\ \A i \in 1..Len(stack) : Calls[i] = Call(stack[i])
    BY CallsAre
  <1>3. /\ Calls' \in Seq(CallSet) /\ Len(Calls') = Len(stack')
        /\ \A i \in 1..Len(stack') : Calls'[i] = Call(stack'[i])
    <2>1. stack' \in Seq(Frame) /\ Calls' = [i \in 1..Len(stack') |-> Call(stack'[i])]
      BY DEF TypeOK, Calls, Call
    <2>2. QED
      BY <2>1, CallsOf
  <1> DEFINE shorter == SubSeq(Calls, 1, Len(Calls) - 1)
  <1>4. /\ shorter \in Seq(CallSet) /\ Len(shorter) = Len(stack) - 1
        /\ \A i \in 1..(Len(stack) - 1) : shorter[i] = Calls[i]
    BY <1>1, <1>2
  <1>5. \A i \in 1..(Len(stack) - 1) : Calls'[i] = shorter[i]
    <2> HIDE DEF shorter
    <2> SUFFICES ASSUME NEW i \in 1..(Len(stack) - 1) PROVE Calls'[i] = shorter[i]
      OBVIOUS
    <2>1. i \in 1..Len(stack) /\ i \in 1..Len(stack')
      BY <1>1
    <2>2. Calls'[i] = Call(stack'[i]) /\ Calls[i] = Call(stack[i])
      BY <1>2, <1>3, <2>1
    <2>3. shorter[i] = Calls[i] /\ stack'[i] = stack[i]
      BY <1>1, <1>4
    <2>4. QED
      BY <2>2, <2>3
  <1>6. Calls' = shorter
    BY <1>1, <1>3, <1>4, <1>5, SeqEqual
  <1>7. \A m : Executing(m)' <=> \E i \in 1..(Len(stack) - 1) : stack[i].mod = m
    BY <1>1 DEF Executing
  <1>8. \A i \in 1..Len(stack) : i \in 1..(Len(stack) - 1) \/ i = Len(stack)
    BY <1>1
  <1>9. \A m : Executing(m) <=> Executing(m)' \/ m = Top.mod
    BY <1>1, <1>7, <1>8 DEF Executing, Top
  <1>10. QED
    BY <1>2, <1>6, <1>7, <1>9 DEF Abstract!Unwound

\* A module that is present as before, with its area's words as before, has the
\* statics it had.
LEMMA StaticsKept ==
  ASSUME Careful, IInv, NEW m \in Mods, Present(m)' <=> Present(m),
         Present(m) /\ HasArea(m) =>
           priv'[m] = priv[m] /\ \A a \in AreaWords(m) : mem'[a] = mem[a]
  PROVE  StaticsOf(m)' = StaticsOf(m)
  <1>1. CASE ~Present(m)
    BY <1>1 DEF Present, StaticsOf
  <1>2. CASE Present(m)
    <2>1. \A o \in WordOffsets(Sb[m]) : mem'[priv'[m] + o] = mem[priv[m] + o]
      <3>1. CASE HasArea(m)
        <4>1. priv[m] # 0 /\ MemoryInv
          BY <1>2, <3>1 DEF Present, IInv, PrivInv, MemoryInv
        <4>2. \A o \in WordOffsets(Sb[m]) : priv[m] + o \in AreaWords(m)
          BY <4>1, StaticWord
        <4>3. QED
          BY <1>2, <3>1, <4>2
      <3>2. CASE ~HasArea(m)
        <4>1. WordOffsets(Sb[m]) = {}
          BY <3>2, SizeAssumption DEF WordOffsets
        <4>2. QED
          BY <4>1
      <3>3. QED
        BY <3>1, <3>2
    <2>2. [o \in WordOffsets(Sb[m]) |-> mem'[priv'[m] + o]] =
            [o \in WordOffsets(Sb[m]) |-> mem[priv[m] + o]]
      BY <2>1
    <2>3. /\ StaticsOf(m) = [present |-> TRUE,
                             words |-> [o \in WordOffsets(Sb[m]) |-> mem[priv[m] + o]]]
          /\ StaticsOf(m)' = [present |-> TRUE,
                              words |-> [o \in WordOffsets(Sb[m]) |-> mem'[priv'[m] + o]]]
      BY <1>2 DEF Present, StaticsOf
    <2>4. QED
      BY <2>2, <2>3
  <1>3. QED
    BY <1>1, <1>2

\* A fresh instance: what initialisation leaves in the area.
LEMMA FreshArea ==
  ASSUME Careful, MemoryInv, NEW m \in Mods, HasArea(m), NEW lo \in Addr,
         Fits(lo, Claim(m)), mem' = MemAfterInit(m, lo, StaticBaseOf(lo))
  PROVE  \A o \in WordOffsets(Sb[m]) :
           mem'[StaticBaseOf(lo) + o] = IF o < Rw[m] THEN Image[m][o] ELSE 0
  <1> DEFINE base == StaticBaseOf(lo)
  <1>1. lo \in Nat /\ lo % 4 = 0 /\ RmaLo <= lo
    BY MemoryAssumption DEF Addr
  <1>2. /\ base \in Nat /\ base % 4 = 0 /\ lo + 8 <= base /\ base <= lo + 20
    BY <1>1, BaseInBlock
  <1>3. /\ Sb[m] \in Nat /\ Rw[m] \in Nat /\ Ws[m] \in Nat /\ m \in Rwpi
        /\ Claim(m) = Sb[m] + 23 + Ws[m] /\ lo + Claim(m) <= RmaHi
    BY SizeAssumption DEF Claim, ClaimSize, Careful, Fits
  <1> HIDE DEF base
  <1> SUFFICES ASSUME NEW o \in WordOffsets(Sb[m])
               PROVE  mem'[base + o] = IF o < Rw[m] THEN Image[m][o] ELSE 0
    BY DEF base
  <1>4. o \in Nat /\ o < Sb[m] /\ o % 4 = 0
    BY <1>3 DEF WordOffsets
  <1>5. base + o \in Addr
    BY <1>1, <1>2, <1>3, <1>4, MemoryAssumption DEF Addr
  <1>6. base + o # BlockSlot(base) /\ base + o # WorkspaceSlot(base)
    BY <1>2, <1>4 DEF BlockSlot, WorkspaceSlot
  <1>7. /\ base + o \in base..(base + Rw[m] - 1) <=> o < Rw[m]
        /\ ~(o < Rw[m]) => base + o \in (base + Rw[m])..(base + Sb[m] - 1)
        /\ base + o - base = o
    BY <1>2, <1>3, <1>4
  <1>8. mem' = MemAfterInit(m, lo, base)
    BY DEF base
  <1>9. CASE o < Rw[m]
    <2> DEFINE a == base + o
    <2>1. /\ a \in Addr /\ a # BlockSlot(base) /\ a # WorkspaceSlot(base)
          /\ m \in Rwpi /\ a \in base..(base + Rw[m] - 1) /\ a - base = o
          /\ a \notin (base + Rw[m])..(base + Sb[m] - 1)
      <3>1. /\ a \in base..(base + Rw[m] - 1) /\ a - base = o
            /\ a \notin (base + Rw[m])..(base + Sb[m] - 1)
        BY <1>2, <1>3, <1>4, <1>9
      <3>2. QED
        BY <1>3, <1>5, <1>6, <3>1
    <2> HIDE DEF a
    <2>2. mem'[a] = Image[m][a - base]
      BY <1>8, <2>1 DEF MemAfterInit
    <2>3. QED
      BY <1>9, <2>1, <2>2 DEF a
  <1>10. CASE ~(o < Rw[m])
    <2>1. mem'[base + o] = 0
      BY <1>3, <1>5, <1>6, <1>7, <1>8, <1>10 DEF MemAfterInit
    <2>2. QED
      BY <1>10, <2>1
  <1>11. QED
    BY <1>9, <1>10

LEMMA SameOffsets == \A n : Abstract!Offsets(n) = WordOffsets(n)
  BY DEF Abstract!Offsets, WordOffsets

\* Loading: the new instance starts fresh, the others keep what they hold.
LEMMA LoadRefines ==
  ASSUME Careful, IInv, IInv', NEW m \in Mods, InitClaim(m) \/ InitPlain(m)
  PROVE  Abstract!Load(m)
  <1>1. /\ Len(stack) < MaxDepth /\ m \notin linked /\ ~Executing(m) /\ linked' = linked
        /\ TypeOK /\ TypeOK' /\ MemoryInv
    BY DEF InitClaim, InitPlain, CanLoad, CanCall, IInv, MemoryInv
  <1>2. \E w : stack' = Append(stack, [mod |-> m, entry |-> "init", r9 |-> r9, ws |-> w])
               /\ w \in Nat
    <2>1. CASE InitClaim(m)
      <3>1. PICK lo \in Addr :
              stack' = Append(stack, [mod |-> m, entry |-> "init", r9 |-> r9,
                                      ws |-> WorkspaceOf(StaticBaseOf(lo), Sb[m])])
        BY <2>1, Zenon DEF InitClaim
      <3>2. lo \in Nat /\ lo % 4 = 0
        BY MemoryAssumption DEF Addr
      <3>3. WorkspaceOf(StaticBaseOf(lo), Sb[m]) \in Nat
        <4>1. StaticBaseOf(lo) \in Nat
          BY <3>2, BaseInBlock
        <4>2. Sb[m] \in Nat
          BY SizeAssumption
        <4>3. QED
          BY <4>1, <4>2 DEF WorkspaceOf
      <3>4. QED
        BY <3>1, <3>3
    <2>2. CASE InitPlain(m)
      BY <2>2 DEF InitPlain
    <2>3. QED
      BY <2>1, <2>2
  <1>3. PICK w \in Nat :
          stack' = Append(stack, [mod |-> m, entry |-> "init", r9 |-> r9, ws |-> w])
    BY <1>2
  <1> DEFINE f == [mod |-> m, entry |-> "init", r9 |-> r9, ws |-> w]
  <1>4. f \in Frame /\ f.mod = m /\ f.entry = "init"
    BY <1>1 DEF Frame, Entries, TypeOK
  <1>5. /\ Abstract!Call(m, "init")
        /\ \A n : Executing(n)' <=> Executing(n) \/ n = m
    <2> HIDE DEF f
    <2>1. stack' = Append(stack, f)
      BY <1>3 DEF f
    <2>2. QED
      BY <1>1, <1>4, <2>1, CallMade
  <1>6. \A n : n # m => (Present(n)' <=> Present(n))
    BY <1>1, <1>5 DEF Present
  <1>7. ASSUME NEW n \in Mods, n # m
        PROVE  StaticsOf(n)' = StaticsOf(n)
    <2>1. ASSUME Present(n), HasArea(n)
          PROVE  priv'[n] = priv[n] /\ \A a \in AreaWords(n) : mem'[a] = mem[a]
      <3>1. priv[n] # 0
        BY <2>1 DEF Present, IInv, PrivInv
      <3>2. CASE InitPlain(m)
        BY <3>2 DEF InitPlain
      <3>3. CASE InitClaim(m)
        <4>1. HasArea(m)
          BY <3>3 DEF InitClaim
        <4>2. PICK lo \in Addr : /\ Fits(lo, Claim(m))
                                 /\ mem' = MemAfterInit(m, lo, StaticBaseOf(lo))
                                 /\ priv' = [priv EXCEPT ![m] = StaticBaseOf(lo)]
          BY <3>3, Zenon DEF InitClaim
        <4>3. priv'[n] = priv[n]
          BY <1>1, <1>7, <4>2 DEF TypeOK
        <4>4. \A a \in AreaWords(n) : mem'[a] = mem[a]
          BY <1>1, <3>1, <4>1, <4>2, ClaimSparesOthers
        <4>5. QED
          BY <4>3, <4>4
      <3>4. QED
        BY <3>2, <3>3
    <2>2. QED
      BY <1>6, <1>7, <2>1, StaticsKept
  <1>8. StaticsOf(m)' = Abstract!Fresh(m)
    <2>1. Present(m)'
      BY <1>5 DEF Present
    <2>2. \A o \in WordOffsets(Sb[m]) :
            mem'[priv'[m] + o] = IF o < Rw[m] THEN Image[m][o] ELSE 0
      <3>1. CASE InitClaim(m)
        <4>1. HasArea(m)
          BY <3>1 DEF InitClaim
        <4>2. PICK lo \in Addr : /\ Fits(lo, Claim(m))
                                 /\ mem' = MemAfterInit(m, lo, StaticBaseOf(lo))
                                 /\ priv' = [priv EXCEPT ![m] = StaticBaseOf(lo)]
          BY <3>1, Zenon DEF InitClaim
        <4>3. priv'[m] = StaticBaseOf(lo)
          BY <1>1, <4>2 DEF TypeOK
        <4>4. QED
          BY <1>1, <4>1, <4>2, <4>3, FreshArea
      <3>2. CASE InitPlain(m)
        <4>1. WordOffsets(Sb[m]) = {}
          BY <3>2, SizeAssumption DEF WordOffsets, InitPlain
        <4>2. QED
          BY <4>1
      <3>3. QED
        BY <3>1, <3>2
    <2>3. StaticsOf(m)' = [present |-> TRUE,
                           words |-> [o \in WordOffsets(Sb[m]) |-> mem'[priv'[m] + o]]]
      BY <2>1 DEF Present, StaticsOf
    <2>4. Abstract!Fresh(m) =
            [present |-> TRUE,
             words |-> [o \in WordOffsets(Sb[m]) |-> IF o < Rw[m] THEN Image[m][o] ELSE 0]]
      BY SameOffsets DEF Abstract!Fresh
    <2>5. [o \in WordOffsets(Sb[m]) |-> mem'[priv'[m] + o]] =
            [o \in WordOffsets(Sb[m]) |-> IF o < Rw[m] THEN Image[m][o] ELSE 0]
      BY <2>2
    <2>6. QED
      BY <2>3, <2>4, <2>5
  <1>9. Statics' = [Statics EXCEPT ![m] = Abstract!Fresh(m)]
    BY <1>7, <1>8 DEF Statics
  <1>10. m \notin linked /\ ~Abstract!Busy(m) /\ linked' = linked
    BY <1>1, CallsAre
  <1>11. QED
    BY <1>5, <1>9, <1>10 DEF Abstract!Load

\* Entering a linked module, whatever the entry, changes no instance.
LEMMA VisitRefines ==
  ASSUME Careful, IInv, IInv', NEW m \in Mods, NEW e \in {"final", "command", "swi"},
         e = "final" => ~Executing(m), Enter(m, e)
  PROVE  Abstract!Visit(m, e)
  <1> DEFINE w == IF HasArea(m) THEN mem[WorkspaceSlot(priv[m])] ELSE 0
             f == [mod |-> m, entry |-> e, r9 |-> r9, ws |-> w]
  <1>1. /\ Len(stack) < MaxDepth /\ m \in linked /\ UNCHANGED <<heap, mem, priv, linked>>
        /\ stack' = Append(stack, f) /\ TypeOK /\ TypeOK' /\ MemoryInv
    BY DEF Enter, CanCall, IInv, MemoryInv
  <1>2. w \in Nat
    <2>1. CASE HasArea(m)
      <3>1. priv[m] # 0
        BY <1>1, <2>1 DEF IInv, PrivInv
      <3>2. WorkspaceSlot(priv[m]) \in Addr
        BY <1>1, <3>1, AreaPlace
      <3>3. QED
        BY <1>1, <2>1, <3>2 DEF TypeOK
    <2>2. CASE ~HasArea(m)
      BY <2>2
    <2>3. QED
      BY <2>1, <2>2
  <1> HIDE DEF w
  <1>3. f \in Frame /\ f.mod = m /\ f.entry = e
    BY <1>1, <1>2 DEF Frame, Entries, TypeOK
  <1> HIDE DEF f
  <1>4. Abstract!Call(m, e) /\ \A n : Executing(n)' <=> Executing(n) \/ n = m
    BY <1>1, <1>3, CallMade
  <1>5. \A n \in Mods : StaticsOf(n)' = StaticsOf(n)
    <2>1. \A n : Present(n)' <=> Present(n)
      BY <1>1, <1>4 DEF Present
    <2>2. QED
      BY <1>1, <2>1, StaticsKept
  <1>6. Statics' = Statics
    BY <1>5 DEF Statics
  <1>7. e = "final" => ~Abstract!Busy(m)
    BY <1>1, CallsAre
  <1>8. QED
    BY <1>1, <1>4, <1>6, <1>7 DEF Abstract!Visit

\* An initialisation that succeeds, a kill that is refused and any other return
\* leave the instances as they are.
LEMMA KeepRefines ==
  ASSUME Careful, IInv, IInv', stack # << >>, Return, UNCHANGED <<heap, mem, priv>>,
         linked' = linked \union {Top.mod}
  PROVE  Abstract!Keep
  <1>1. TypeOK /\ TypeOK'
    BY DEF IInv
  <1>2. /\ Calls # << >> /\ Calls' = Abstract!Unwound
        /\ \A m : Executing(m) <=> Executing(m)' \/ m = Top.mod
    BY <1>1, CallReturned
  <1>3. \A n : Present(n)' <=> Present(n)
    BY <1>2 DEF Present
  <1>4. \A n \in Mods : StaticsOf(n)' = StaticsOf(n)
    BY <1>3, StaticsKept
  <1>5. Statics' = Statics
    BY <1>4 DEF Statics
  <1>6. Abstract!Current.mod = Top.mod
    BY <1>1, CallsAre
  <1>7. QED
    BY <1>2, <1>5, <1>6 DEF Abstract!Keep

\* With a refused initialisation or an agreed kill the instance goes.
LEMMA DropRefines ==
  ASSUME Careful, IInv, IInv', stack # << >>, Top.entry \in {"init", "final"},
         Return, Release(Top.mod), linked' = linked \ {Top.mod}
  PROVE  Abstract!Drop
  <1> SUFFICES ASSUME NEW t \in Mods, t = Top.mod PROVE Abstract!Drop
    BY FrameTypes DEF IInv, Top
  <1>1. TypeOK /\ TypeOK' /\ MemoryInv
    BY DEF IInv, MemoryInv
  <1>2. /\ Calls # << >> /\ Calls' = Abstract!Unwound
        /\ \A m : Executing(m) <=> Executing(m)' \/ m = t
        /\ \A m : Executing(m)' <=> \E i \in 1..(Len(stack) - 1) : stack[i].mod = m
    BY <1>1, CallReturned
  <1>3. /\ Len(stack) \in 1..Len(stack) /\ Len(stack) \in Nat /\ Top = stack[Len(stack)]
        /\ t \in Mods /\ Executing(t)
    BY FrameTypes DEF IInv, Top, Executing
  <1>4. ~Present(t)'
    <2>1. \A i \in 1..(Len(stack) - 1) : i \in 1..Len(stack) /\ i < Len(stack)
      BY <1>3
    <2>2. \A i \in 1..(Len(stack) - 1) : stack[i].mod # t
      BY <1>3, <2>1 DEF IInv, EntryOrder
    <2>3. QED
      BY <1>2, <2>2 DEF Present
  <1>5. StaticsOf(t)' = Abstract!Absent
    BY <1>4 DEF Present, StaticsOf, Abstract!Absent
  <1>6. ASSUME NEW n \in Mods, n # t PROVE StaticsOf(n)' = StaticsOf(n)
    <2>1. Present(n)' <=> Present(n)
      BY <1>2, <1>6 DEF Present
    <2>2. ASSUME Present(n), HasArea(n)
          PROVE  priv'[n] = priv[n] /\ \A a \in AreaWords(n) : mem'[a] = mem[a]
      <3>1. priv[n] # 0
        BY <2>2 DEF Present, IInv, PrivInv
      <3>2. priv'[n] = priv[n]
        BY <1>1, <1>3, <1>6, ReleaseKeepsAreas
      <3>3. QED
        BY <1>1, <1>3, <1>6, <3>1, <3>2, ReleaseSparesOthers
    <2>3. QED
      BY <2>1, <2>2, StaticsKept
  <1>7. Statics' = [Statics EXCEPT ![t] = Abstract!Absent]
    BY <1>5, <1>6 DEF Statics
  <1>8. /\ Abstract!Current.mod = t /\ Abstract!Current.entry = Top.entry
    BY <1>1, CallsAre
  <1>9. QED
    BY <1>2, <1>7, <1>8 DEF Abstract!Drop, Abstract!Leaving

LEMMA WordsReplaced ==
  ASSUME NEW v, NEW w
  PROVE  [[present |-> TRUE, words |-> v] EXCEPT !.words = w] = [present |-> TRUE, words |-> w]
  <1> DEFINE R == [present : BOOLEAN, words : {v, w}]
             r == [present |-> TRUE, words |-> v]
             s == [r EXCEPT !.words = w]
  <1>1. r \in R /\ [present |-> TRUE, words |-> w] \in R
    OBVIOUS
  <1> HIDE DEF r
  <1>2. s \in R /\ s.words = w /\ s.present = r.present
    BY <1>1
  <1>3. \A p, q \in R : p.words = q.words /\ p.present = q.present => p = q
    OBVIOUS
  <1>4. QED
    BY <1>1, <1>2, <1>3 DEF r

\* A write at the static base is a write of the instance's own word.
LEMMA WriteRefines ==
  ASSUME Careful, IInv, IInv', StaticWrite
  PROVE  Abstract!Write
  <1> SUFFICES ASSUME NEW t \in Mods, t = Top.mod PROVE Abstract!Write
    BY WriteInArea
  <1>1. TypeOK /\ TypeOK' /\ MemoryInv
    BY DEF IInv, MemoryInv
  <1>2. /\ stack # << >> /\ t \in Mods /\ HasArea(t) /\ Executing(t) /\ priv[t] # 0
        /\ UNCHANGED <<heap, priv, linked, stack, r9>>
    BY WriteInArea
  <1>3. PICK o \in WordOffsets(Sb[t]) : mem' = [mem EXCEPT ![priv[t] + o] = NewWord]
    BY WriteInArea
  <1>4. \A n : Present(n)' <=> Present(n)
    BY <1>2 DEF Present, Executing
  <1>5. ASSUME NEW n \in Mods, n # t PROVE StaticsOf(n)' = StaticsOf(n)
    <2>1. ASSUME Present(n), HasArea(n)
          PROVE  priv'[n] = priv[n] /\ \A a \in AreaWords(n) : mem'[a] = mem[a]
      <3>1. priv[n] # 0
        BY <2>1 DEF Present, IInv, PrivInv
      <3>2. QED
        BY <1>2, <1>5, <3>1, WriteSparesOthers
    <2>2. QED
      BY <1>4, <1>5, <2>1, StaticsKept
  <1> DEFINE words == [p \in WordOffsets(Sb[t]) |-> mem[priv[t] + p]]
  <1>6. StaticsOf(t) = [present |-> TRUE, words |-> words]
    BY <1>2 DEF StaticsOf
  <1>7. StaticsOf(t)' = [present |-> TRUE, words |-> [words EXCEPT ![o] = NewWord]]
    <2>1. StaticsOf(t)' = [present |-> TRUE,
                           words |-> [p \in WordOffsets(Sb[t]) |-> mem'[priv[t] + p]]]
      BY <1>2 DEF StaticsOf, Executing
    <2>2. ASSUME NEW p \in WordOffsets(Sb[t])
          PROVE  mem'[priv[t] + p] = IF p = o THEN NewWord ELSE mem[priv[t] + p]
      <3>1. /\ priv[t] + p \in AreaWords(t) /\ priv[t] + o \in AreaWords(t)
            /\ p \in Nat /\ o \in Nat /\ priv[t] \in Nat
        BY <1>1, <1>2, <1>3, <2>2, StaticWord DEF TypeOK
      <3>2. priv[t] + p \in Addr /\ priv[t] + o \in Addr
        BY <3>1 DEF AreaWords
      <3>3. priv[t] + p = priv[t] + o <=> p = o
        BY <3>1
      <3>4. QED
        BY <1>1, <1>3, <3>2, <3>3 DEF TypeOK
    <2>3. [p \in WordOffsets(Sb[t]) |-> mem'[priv[t] + p]] = [words EXCEPT ![o] = NewWord]
      BY <1>3, <2>2
    <2>4. QED
      BY <2>1, <2>3
  <1> HIDE DEF words
  <1>8. Statics' = [Statics EXCEPT ![t].words[o] = NewWord]
    <2>1. Statics[t] = [present |-> TRUE, words |-> words]
      BY <1>2, <1>6 DEF Statics
    <2>2. [Statics[t] EXCEPT !.words = [Statics[t].words EXCEPT ![o] = NewWord]]
            = [present |-> TRUE, words |-> [words EXCEPT ![o] = NewWord]]
      <3>1. Statics[t].words = words
        BY <2>1
      <3>2. QED
        BY <2>1, <3>1, WordsReplaced
    <2>3. Statics' = [Statics EXCEPT ![t] = StaticsOf(t)']
      BY <1>2, <1>5 DEF Statics
    <2>4. QED
      BY <1>7, <2>2, <2>3
  <1>9. o \in Abstract!Offsets(Sb[t])
    BY <1>3, SameOffsets
  <1>10. Calls' = Calls /\ Calls # << >> /\ Abstract!Current.mod = t
    BY <1>1, <1>2, CallsAre DEF Calls
  <1>11. QED
    BY <1>2, <1>8, <1>9, <1>10 DEF Abstract!Write

\* A write of the workspace, above the statics, is no change of an instance.
LEMMA WorkspaceStutters ==
  ASSUME Careful, IInv, WorkspaceWrite
  PROVE  UNCHANGED <<Statics, linked, Calls>>
  <1> SUFFICES ASSUME NEW t \in Mods, t = Top.mod PROVE UNCHANGED <<Statics, linked, Calls>>
    BY WriteInArea
  <1>1. TypeOK /\ MemoryInv
    BY DEF IInv, MemoryInv
  <1>2. /\ stack # << >> /\ t \in Mods /\ HasArea(t) /\ Executing(t) /\ priv[t] # 0
        /\ UNCHANGED <<heap, priv, linked, stack, r9>>
    BY WriteInArea
  <1>3. PICK o \in WordOffsets(Ws[t]) : mem' = [mem EXCEPT ![priv[t] + Sb[t] + o] = NewWord]
    BY WriteInArea
  <1>4. \A n : Present(n)' <=> Present(n)
    BY <1>2 DEF Present, Executing
  <1>5. ASSUME NEW n \in Mods, n # t PROVE StaticsOf(n)' = StaticsOf(n)
    <2>1. ASSUME Present(n), HasArea(n)
          PROVE  priv'[n] = priv[n] /\ \A a \in AreaWords(n) : mem'[a] = mem[a]
      <3>1. priv[n] # 0
        BY <2>1 DEF Present, IInv, PrivInv
      <3>2. QED
        BY <1>2, <1>5, <3>1, WriteSparesOthers
    <2>2. QED
      BY <1>4, <1>5, <2>1, StaticsKept
  <1>6. ASSUME NEW p \in WordOffsets(Sb[t]) PROVE mem'[priv[t] + p] = mem[priv[t] + p]
    <2>1. /\ priv[t] + p \in AreaWords(t) /\ p \in Nat /\ p < Sb[t] /\ priv[t] \in Nat
      BY <1>1, <1>2, <1>6, StaticWord DEF TypeOK
    <2>2. o \in Nat /\ Sb[t] \in Nat
      BY <1>2, <1>3, SizeAssumption DEF WordOffsets
    <2>3. priv[t] + p # priv[t] + Sb[t] + o
      BY <2>1, <2>2
    <2>4. priv[t] + p \in Addr
      BY <2>1 DEF AreaWords
    <2>5. QED
      BY <1>1, <1>3, <2>3, <2>4 DEF TypeOK
  <1>7. StaticsOf(t)' = StaticsOf(t)
    <2>1. StaticsOf(t) = [present |-> TRUE,
                          words |-> [p \in WordOffsets(Sb[t]) |-> mem[priv[t] + p]]]
      BY <1>2 DEF StaticsOf
    <2>2. StaticsOf(t)' = [present |-> TRUE,
                           words |-> [p \in WordOffsets(Sb[t]) |-> mem'[priv[t] + p]]]
      BY <1>2 DEF StaticsOf, Executing
    <2>3. [p \in WordOffsets(Sb[t]) |-> mem'[priv[t] + p]]
            = [p \in WordOffsets(Sb[t]) |-> mem[priv[t] + p]]
      BY <1>6
    <2>4. QED
      BY <2>1, <2>2, <2>3
  <1>8. Statics' = Statics
    BY <1>5, <1>7 DEF Statics
  <1>9. QED
    BY <1>2, <1>8 DEF Calls

LEMMA InitRefines == Init => Abstract!AInit
  <1> SUFFICES ASSUME Init PROVE Abstract!AInit
    OBVIOUS
  <1>1. Len(stack) = 0 /\ linked = {} /\ stack = << >>
    BY DEF Init
  <1>2. \A m \in Mods : StaticsOf(m) = Abstract!Absent
    BY <1>1 DEF StaticsOf, Executing, Abstract!Absent
  <1>3. Statics = [m \in Mods |-> Abstract!Absent]
    BY <1>2 DEF Statics
  <1>4. Calls = << >>
    <2>1. TypeOK
      BY InitIInv DEF IInv
    <2>2. QED
      BY <1>1, <2>1, CallsAre
  <1>5. QED
    BY <1>1, <1>3, <1>4 DEF Abstract!AInit

LEMMA StepRefines ==
  ASSUME Careful, IInv, IInv', [Next]_vars
  PROVE  Abstract!ANext \/ UNCHANGED <<Statics, linked, Calls>>
  <1>0. ASSUME stack # << >>
        PROVE  Top.mod \in Mods /\ (Top.entry = "init" <=> Top.mod \notin linked)
    BY <1>0, FrameTypes DEF IInv, FrameInv, Top
  <1>1. ASSUME UNCHANGED <<mem, priv, linked, stack>>
        PROVE  UNCHANGED <<Statics, linked, Calls>>
    <2>1. \A m \in Mods : StaticsOf(m)' = StaticsOf(m)
      BY <1>1 DEF StaticsOf, Executing
    <2>2. QED
      BY <1>1, <2>1 DEF Statics, Calls
  <1>2. ASSUME NEW m \in Mods, InitClaim(m) \/ InitPlain(m) PROVE Abstract!ANext
    BY <1>2, LoadRefines DEF Abstract!ANext
  <1>3. ASSUME NEW m \in Mods, InitClaimFails(m) \/ SwiUnknown(m)
        PROVE  UNCHANGED <<Statics, linked, Calls>>
    BY <1>1, <1>3 DEF InitClaimFails, SwiUnknown, vars
  <1>4. ASSUME NEW m \in Mods, Final(m) \/ Command(m) \/ Swi(m) PROVE Abstract!ANext
    <2>1. PICK e \in {"final", "command", "swi"} :
            (e = "final" => ~Executing(m)) /\ Enter(m, e)
      BY <1>4 DEF Final, Command, Swi
    <2>2. Abstract!Visit(m, e)
      BY <2>1, VisitRefines
    <2>3. QED
      BY <2>2 DEF Abstract!ANext
  <1>5. CASE InitSucceeds
    BY <1>5, KeepRefines DEF InitSucceeds, Returning, Abstract!ANext
  <1>6. CASE FinalRefuses \/ CommandReturns \/ SwiReturns
    <2>1. /\ stack # << >> /\ Return /\ UNCHANGED <<heap, mem, priv, linked>>
          /\ Top.entry # "init"
      BY <1>6 DEF FinalRefuses, CommandReturns, SwiReturns, Returning
    <2>2. linked' = linked \union {Top.mod}
      BY <1>0, <2>1
    <2>3. QED
      BY <2>1, <2>2, KeepRefines DEF Abstract!ANext
  <1>7. CASE InitRefuses
    <2>1. stack # << >> /\ Top.entry = "init" /\ Release(Top.mod) /\ Return /\ linked' = linked
      BY <1>7 DEF InitRefuses, Returning
    <2>2. linked' = linked \ {Top.mod}
      BY <1>0, <2>1
    <2>3. QED
      BY <2>1, <2>2, DropRefines DEF Abstract!ANext
  <1>8. CASE FinalAgrees
    BY <1>8, DropRefines DEF FinalAgrees, Returning, Abstract!ANext
  <1>9. CASE StaticWrite
    BY <1>9, WriteRefines DEF Abstract!ANext
  <1>10. CASE WorkspaceWrite
    BY <1>10, WorkspaceStutters
  <1>11. CASE UNCHANGED vars
    BY <1>1, <1>11 DEF vars
  <1>12. QED
    BY <1>2, <1>3, <1>4, <1>5, <1>6, <1>7, <1>8, <1>9, <1>10, <1>11 DEF Next

\* The veneers keep the promise of ModuleInstances: read through the private
\* words, every instance's statics start from the image, are changed by nothing
\* but the C code of their own module and go when the module goes.
THEOREM VeneersImplementInstances == ASSUME Careful PROVE Spec => ImplementsInstances
  <1>1. Init => Abstract!AInit
    BY InitRefines
  <1>2. IInv /\ IInv' /\ [Next]_vars => [Abstract!ANext]_(Abstract!avars)
    BY StepRefines DEF Abstract!avars
  <1>3. QED
    BY <1>1, <1>2, Invariance, PTL DEF Spec, ImplementsInstances, Abstract!ASpec
=============================================================================

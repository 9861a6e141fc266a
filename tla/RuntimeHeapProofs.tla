------------------------- MODULE RuntimeHeapProofs -------------------------
(***************************************************************************)
(* The allocators of rostrt/rostrt.c, for any image, slot, arena and table *)
(* size, any globals and any requests: IInv is inductive, blocks match     *)
(* what was claimed for them, a global has one block, and together the     *)
(* heap and the arena implement Allocator.                                 *)
(***************************************************************************)
EXTENDS RuntimeHeap, FiniteSetTheorems, TLAPS

Units == {4, 8, 16, 32, 64}
Aligns == {1, 2, 4, 8, 16, 32, 64}

\* Rounding up reaches the next multiple and no further.
LEMMA RoundUpFacts ==
  ASSUME NEW n \in Nat, NEW u \in Units
  PROVE  /\ RoundUp(n, u) \in Nat
         /\ n <= RoundUp(n, u) /\ RoundUp(n, u) < n + u
         /\ RoundUp(n, u) % u = 0
<1>1. CASE u = 4 BY <1>1 DEF RoundUp
<1>2. CASE u = 8 BY <1>2 DEF RoundUp
<1>3. CASE u = 16 BY <1>3 DEF RoundUp
<1>4. CASE u = 32 BY <1>4 DEF RoundUp
<1>5. CASE u = 64 BY <1>5 DEF RoundUp
<1> QED BY <1>1, <1>2, <1>3, <1>4, <1>5 DEF Units

\* What an aligned block needs lies within what is claimed for it.
LEMMA ClaimFacts ==
  ASSUME NEW a \in Aligns, NEW n \in Nat \ {0}, NEW raw \in Nat
  PROVE  /\ Claim(a, n) \in Nat \ {0}
         /\ AlignedIn(a, raw) \in Nat
         /\ AlignedIn(a, raw) % a = 0
         /\ raw + 4 <= AlignedIn(a, raw)
         /\ AlignedIn(a, raw) + n <= raw + Claim(a, n)
<1> DEFINE u == Alignment(a)
<1>1. u \in Units /\ (u = a \/ (u = 8 /\ a \in {1, 2, 4}))
  BY DEF Alignment, Aligns, Units
<1>2. /\ AlignedIn(a, raw) \in Nat /\ AlignedIn(a, raw) % u = 0
      /\ raw + 4 <= AlignedIn(a, raw) /\ AlignedIn(a, raw) < raw + 4 + u
  <2>1. raw + 4 \in Nat /\ u \in Units BY <1>1
  <2>2. AlignedIn(a, raw) = RoundUp(raw + 4, u) BY DEF AlignedIn
  <2> HIDE DEF u
  <2> QED BY <2>1, <2>2, RoundUpFacts
<1>3. Claim(a, n) \in Nat /\ n + u + 4 <= Claim(a, n)
  <2>1. n + u + 4 \in Nat BY <1>1 DEF Units
  <2> QED BY <2>1, RoundUpFacts DEF Claim, Units
<1>4. AlignedIn(a, raw) % a = 0
  <2>1. CASE u = a BY <2>1, <1>2
  <2>2. CASE u = 8 /\ a \in {1, 2, 4}
    <3> DEFINE p == AlignedIn(a, raw)
    <3>1. p \in Nat /\ p % 8 = 0 BY <1>2, <2>2
    <3> HIDE DEF p
    <3>2. p % 1 = 0 /\ p % 2 = 0 /\ p % 4 = 0 BY <3>1
    <3> QED BY <3>2, <2>2 DEF p
  <2> QED BY <1>1, <2>1, <2>2
<1>5. u \in Nat BY <1>1 DEF Units
<1> HIDE DEF u
<1> QED BY <1>2, <1>3, <1>4, <1>5

\* The arena's two ways of rounding both keep the cursor a multiple of eight.
LEMMA SizeFacts ==
  ASSUME NEW n \in Nat
  PROVE  /\ ArenaSize(n) \in Nat /\ n <= ArenaSize(n) /\ ArenaSize(n) % 8 = 0
         /\ GlobalSize(n) \in Nat /\ n <= GlobalSize(n) /\ GlobalSize(n) % 8 = 0
<1>1. /\ RoundUp(n, 16) \in Nat /\ n <= RoundUp(n, 16) /\ RoundUp(n, 16) % 16 = 0
      /\ RoundUp(n, 8) \in Nat /\ n <= RoundUp(n, 8) /\ RoundUp(n, 8) % 8 = 0
  BY RoundUpFacts DEF Units
<1>2. \A p \in Nat : p % 16 = 0 => p % 8 = 0
  OBVIOUS
<1> QED BY <1>1, <1>2 DEF ArenaSize, GlobalSize

LEMMA BaseInNat == Base \in Nat
<1>1. End \in Nat BY SlotAssumption
<1> QED BY <1>1, RoundUpFacts DEF Base, Units

-----------------------------------------------------------------------------
\* slot_init leaves the three areas in order and changes them once only.
LEMMA ReadySplits ==
  ASSUME IInv, Ready
  PROVE  /\ split' = SlotInit /\ split'.ready
         /\ split' \in [ready : {TRUE}, arena : Nat, heap : Nat, top : Nat]
         /\ split'.arena = Base /\ split'.heap = Base + ArenaBytes
         /\ split'.heap <= split'.top
         /\ split.ready => split' = split
         /\ SplitInv'
         /\ limit' = limit /\ stackTop' = stackTop
<1>1. /\ ArenaBytes \in Nat /\ StackBytes \in Nat /\ MinHeap \in Nat /\ Base \in Nat
      /\ limit \in Nat /\ stackTop \in Nat
  BY SlotAssumption, BaseInNat DEF IInv, TypeOK
<1>2. CASE split.ready
  <2>1. split' = split BY <1>2 DEF Ready, SlotInit
  <2>2. split \in [ready : {TRUE}, arena : Nat, heap : Nat, top : Nat]
    <3>1. split = NotSplit \/ split \in [ready : {TRUE}, arena : Nat, heap : Nat, top : Nat]
      BY DEF IInv, TypeOK
    <3>2. NotSplit.ready = FALSE BY DEF NotSplit
    <3> QED BY <1>2, <3>1, <3>2
  <2> QED BY <1>2, <2>1, <2>2 DEF Ready, IInv, SplitInv, Base
<1>3. CASE ~split.ready
  <2>1. split' = [ready |-> TRUE, arena |-> Base, heap |-> Base + ArenaBytes,
                  top |-> limit - StackBytes]
    BY <1>3 DEF Ready, SlotInit
  <2>2. limit > Base + StackBytes + ArenaBytes + MinHeap
    BY <1>1, <1>3 DEF Ready, SlotTooSmall
  <2> QED BY <1>1, <1>3, <2>1, <2>2 DEF Ready, IInv, SplitInv, Base, RoundUp
<1> QED BY <1>2, <1>3

\* Splitting the slot disturbs no block: before it there are none.
LEMMA HeapKept ==
  ASSUME IInv, Ready, UNCHANGED heapVars
  PROVE  HeapInv' /\ BlocksMatchClaims'
<1>1. claimed' = claimed /\ live' = live BY DEF heapVars
<1>2. BlocksMatchClaims' BY <1>1 DEF IInv, BlocksMatchClaims
<1>3. CASE split.ready
  <2>1. split' = split BY <1>3, ReadySplits
  <2> QED BY <1>1, <1>2, <2>1 DEF IInv, HeapInv, Apart
<1>4. CASE ~split.ready
  <2>1. claimed = {} BY <1>4 DEF IInv, SplitInv
  <2> QED BY <1>1, <1>2, <2>1 DEF HeapInv
<1> QED BY <1>3, <1>4

LEMMA ArenaKept ==
  ASSUME IInv, Ready, bumped' = bumped,
         used' \in Nat, used <= used', used' <= ArenaBytes, used' % 8 = 0
  PROVE  ArenaInv'
<1>1. CASE split.ready
  <2>1. split' = split BY <1>1, ReadySplits
  <2>2. used \in Nat /\ split.arena \in Nat /\ \A b \in bumped : b.lo \in Nat /\ b.size \in Nat
    <3>1. split'.arena = Base BY ReadySplits
    <3> QED BY <2>1, <3>1, BaseInNat DEF IInv, TypeOK
  <2>3. \A b \in bumped : split.arena <= b.lo /\ b.lo + b.size <= split.arena + used'
    BY <2>2 DEF IInv, ArenaInv
  <2> QED BY <2>1, <2>3 DEF IInv, ArenaInv, Apart
<1>2. CASE ~split.ready
  <2>1. bumped = {} BY <1>2 DEF IInv, SplitInv
  <2> QED BY <2>1 DEF ArenaInv
<1> QED BY <1>1, <1>2

\* The block taken from the arena lies above every block taken before.
LEMMA BumpStep ==
  ASSUME IInv, Ready, NEW sz \in Nat, NEW n \in Nat \ {0},
         n <= sz, sz % 8 = 0, Bump(sz, n)
  PROVE  LET b == [lo |-> SlotInit.arena + used, size |-> n]
         IN  /\ b \in [lo : Nat, size : Nat \ {0}]
             /\ b.lo = split'.arena + used
             /\ b \notin bumped /\ bumped' = bumped \union {b}
             /\ \A c \in bumped : Apart(b, c)
             /\ used' \in Nat /\ ArenaInv'
<1> DEFINE b == [lo |-> SlotInit.arena + used, size |-> n]
<1>1. split' = SlotInit /\ split'.arena \in Nat /\ (split.ready => split' = split)
  BY ReadySplits
<1>2. used \in Nat /\ used % 8 = 0 BY DEF IInv, TypeOK, ArenaInv
<1>3. ArenaBytes \in Nat BY SlotAssumption
<1>4. bumped \subseteq [lo : Nat, size : Nat \ {0}] BY DEF IInv, TypeOK
<1>5. b \in [lo : Nat, size : Nat \ {0}] /\ b.lo = split'.arena + used
  BY <1>1, <1>2
<1>6. /\ used' = used + sz /\ used' <= ArenaBytes /\ bumped' = bumped \union {b}
  BY DEF Bump
<1>7. used' \in Nat /\ used' % 8 = 0
  BY <1>2, <1>6
<1>8. \A c \in bumped : split'.arena <= c.lo /\ c.lo + c.size <= split'.arena + used
  <2>1. CASE split.ready BY <1>1, <2>1 DEF IInv, ArenaInv
  <2>2. CASE ~split.ready BY <2>2 DEF IInv, SplitInv
  <2> QED BY <2>1, <2>2
<1>9. \A c \in bumped : Apart(b, c) /\ Apart(c, b) /\ b # c
  <2> SUFFICES ASSUME NEW c \in bumped PROVE Apart(b, c) /\ Apart(c, b) /\ b # c
    OBVIOUS
  <2>1. c.lo \in Nat /\ c.size \in Nat \ {0} BY <1>4
  <2>2. c.lo + c.size <= b.lo BY <1>5, <1>8
  <2>3. c.lo # b.lo BY <1>5, <2>1, <2>2
  <2> QED BY <2>2, <2>3 DEF Apart
<1>10. \A c \in bumped' : split'.arena <= c.lo /\ c.lo + c.size <= split'.arena + used'
  <2> SUFFICES ASSUME NEW c \in bumped'
               PROVE  split'.arena <= c.lo /\ c.lo + c.size <= split'.arena + used'
    OBVIOUS
  <2>1. CASE c = b
    <3>1. b.size = n OBVIOUS
    <3> HIDE DEF b
    <3> QED BY <1>1, <1>2, <1>5, <1>6, <2>1, <3>1
  <2>2. CASE c \in bumped
    <3>1. c.lo \in Nat /\ c.size \in Nat BY <1>4, <2>2
    <3> HIDE DEF b
    <3> QED BY <1>1, <1>2, <1>6, <1>8, <2>2, <3>1
  <2> QED BY <1>6, <2>1, <2>2
<1>11. \A c, d \in bumped' : c # d => Apart(c, d)
  <2>1. \A c, d \in bumped : c # d => Apart(c, d) BY DEF IInv, ArenaInv
  <2> HIDE DEF b
  <2> QED BY <1>6, <1>9, <2>1
<1>12. ArenaInv'
  <2> HIDE DEF b
  <2> QED BY <1>6, <1>7, <1>10, <1>11 DEF ArenaInv, Apart
<1> HIDE DEF b
<1>13. /\ b \in [lo : Nat, size : Nat \ {0}] /\ b.lo = split'.arena + used
       /\ b \notin bumped /\ bumped' = bumped \union {b}
       /\ \A c \in bumped : Apart(b, c)
       /\ used' \in Nat /\ ArenaInv'
  BY <1>5, <1>6, <1>7, <1>9, <1>12
<1> QED BY <1>13 DEF b

\* The table's invariant survives any step that leaves the table alone and
\* takes no arena block away.
LEMMA TableKept ==
  ASSUME TableInv, UNCHANGED globals, bumped \subseteq bumped'
  PROVE  TableInv'
BY DEF TableInv, globals

-----------------------------------------------------------------------------
\* The operating parts of IInv' for a step that begins with slot_init.
LEMMA ReadyTypes ==
  ASSUME IInv, Ready
  PROVE  limit' \in Nat /\ stackTop' \in Nat
         /\ (split' = NotSplit \/ split' \in [ready : {TRUE}, arena : Nat, heap : Nat, top : Nat])
BY ReadySplits DEF IInv, TypeOK

LEMMA InitIInv == Init => IInv
<1> SUFFICES ASSUME Init PROVE IInv
  OBVIOUS
<1>1. limit \in Nat /\ stackTop = limit BY SlotAssumption DEF Init
<1>2. NotSplit.ready = FALSE BY DEF NotSplit
<1>3. TypeOK
  <2>1. << >> \in Seq(Entry) OBVIOUS
  <2>2. [h \in Hashes |-> {}] \in [Hashes -> SUBSET Nat] OBVIOUS
  <2> QED BY <1>1, <2>1, <2>2 DEF Init, TypeOK
<1>4. SplitInv BY <1>1, <1>2 DEF Init, SplitInv
<1>5. HeapInv /\ BlocksMatchClaims BY DEF Init, HeapInv, BlocksMatchClaims
<1>6. ArenaInv
  <2>1. ArenaBytes \in Nat BY SlotAssumption
  <2> QED BY <2>1 DEF Init, ArenaInv
<1>7. TableInv BY DEF Init, TableInv
<1> QED BY <1>3, <1>4, <1>5, <1>6, <1>7 DEF IInv

LEMMA AlignedAllocIInv ==
  ASSUME IInv, NEW r \in Requests, AlignedAlloc(r[1], r[2])
  PROVE  IInv'
<1> DEFINE a == r[1]
           n == r[2]
<1>1. a \in Aligns /\ n \in Nat \ {0} BY RequestAssumption DEF Aligns
<1>2. Ready BY DEF AlignedAlloc
<1>3. PICK raw \in Offers(Claim(a, n)) :
        /\ claimed' = claimed \union {[lo |-> raw, size |-> Claim(a, n)]}
        /\ live' = live \union
             {[lo |-> AlignedIn(a, raw), size |-> n, align |-> a, raw |-> raw]}
  BY DEF AlignedAlloc
<1> HIDE DEF a, n
<1> DEFINE k == [lo |-> raw, size |-> Claim(a, n)]
           b == [lo |-> AlignedIn(a, raw), size |-> n, align |-> a, raw |-> raw]
<1>4. UNCHANGED <<used, bumped, globals, exited>> BY DEF AlignedAlloc
<1>5. /\ split' = SlotInit /\ split'.heap \in Nat /\ split'.top \in Nat
      /\ (split.ready => split' = split) /\ SplitInv'
  BY <1>2, ReadySplits
<1>6. Claim(a, n) \in Nat \ {0}
  <2>1. 0 \in Nat OBVIOUS
  <2> QED BY <1>1, <2>1, ClaimFacts
<1>7. /\ raw \in Nat /\ split'.heap <= raw /\ raw + Claim(a, n) <= split'.top
      /\ FreeAt(raw, Claim(a, n))
  <2>1. raw \in split'.heap .. (split'.top - Claim(a, n)) /\ FreeAt(raw, Claim(a, n))
    BY <1>5 DEF Offers
  <2> QED BY <1>5, <1>6, <2>1
<1>8. /\ AlignedIn(a, raw) \in Nat /\ AlignedIn(a, raw) % a = 0
      /\ raw + 4 <= AlignedIn(a, raw) /\ AlignedIn(a, raw) + n <= raw + Claim(a, n)
  BY <1>1, <1>7, ClaimFacts
<1>9. /\ claimed \subseteq [lo : Nat, size : Nat \ {0}]
      /\ live \subseteq [lo : Nat, size : Nat \ {0}, align : {1, 2, 4, 8, 16, 32, 64}, raw : Nat]
  BY DEF IInv, TypeOK
<1>10. \A l \in claimed : Apart(k, l) /\ Apart(l, k) /\ l.lo # raw
  <2> SUFFICES ASSUME NEW l \in claimed
               PROVE  Apart(k, l) /\ Apart(l, k) /\ l.lo # raw
    OBVIOUS
  <2>1. Apart(k, l) BY <1>7 DEF FreeAt
  <2>2. l.lo \in Nat /\ l.size \in Nat \ {0} BY <1>9
  <2> QED BY <1>6, <1>7, <2>1, <2>2 DEF Apart
<1>11. TypeOK'
  <2>1. /\ k \in [lo : Nat, size : Nat \ {0}]
        /\ b \in [lo : Nat, size : Nat \ {0}, align : {1, 2, 4, 8, 16, 32, 64}, raw : Nat]
    BY <1>1, <1>6, <1>7, <1>8 DEF Aligns
  <2> HIDE DEF k, b
  <2>2. /\ claimed' \subseteq [lo : Nat, size : Nat \ {0}]
        /\ live' \subseteq [lo : Nat, size : Nat \ {0}, align : {1, 2, 4, 8, 16, 32, 64}, raw : Nat]
    <3>1. claimed' = claimed \union {k} /\ live' = live \union {b} BY <1>3 DEF k, b
    <3> QED BY <1>9, <2>1, <3>1
  <2> QED BY <1>2, <1>4, <2>2, ReadyTypes DEF IInv, TypeOK, globals
<1>12. HeapInv'
  <2>1. \A l \in claimed : split'.heap <= l.lo /\ l.lo + l.size <= split'.top
    <3>1. CASE split.ready BY <1>5, <3>1 DEF IInv, HeapInv
    <3>2. CASE ~split.ready BY <3>2 DEF IInv, SplitInv
    <3> QED BY <3>1, <3>2
  <2>2. k.lo = raw /\ k.size = Claim(a, n) OBVIOUS
  <2>3. claimed' = claimed \union {k} BY <1>3
  <2>4. \A l, m \in claimed : l # m => Apart(l, m) BY DEF IInv, HeapInv
  <2> HIDE DEF k
  <2>5. \A l \in claimed' : split'.heap <= l.lo /\ l.lo + l.size <= split'.top
    BY <1>7, <2>1, <2>2, <2>3
  <2>6. \A l, m \in claimed' : l # m => Apart(l, m)
    BY <1>10, <2>3, <2>4
  <2> QED BY <2>5, <2>6 DEF HeapInv, Apart
<1>13. BlocksMatchClaims'
  <2>1. /\ k.lo = raw /\ k.size = Claim(a, n)
        /\ b.lo = AlignedIn(a, raw) /\ b.size = n /\ b.align = a /\ b.raw = raw
    OBVIOUS
  <2>2. claimed' = claimed \union {k} /\ live' = live \union {b} BY <1>3
  <2> HIDE DEF k, b
  <2>3. \A c \in live : c.raw # raw
    BY <1>10 DEF IInv, BlocksMatchClaims
  <2>4. \A c \in live' : c.lo % c.align = 0
    BY <1>8, <2>1, <2>2 DEF IInv, BlocksMatchClaims
  <2>5. \A c \in live' : \E l \in claimed' :
          l.lo = c.raw /\ l.lo + 4 <= c.lo /\ c.lo + c.size <= l.lo + l.size
    <3>1. k.lo = b.raw /\ k.lo + 4 <= b.lo /\ b.lo + b.size <= k.lo + k.size
      BY <1>8, <2>1
    <3> QED BY <2>2, <3>1 DEF IInv, BlocksMatchClaims
  <2>6. \A c, d \in live' : c.raw = d.raw => c = d
    BY <2>1, <2>2, <2>3 DEF IInv, BlocksMatchClaims
  <2>7. \A l \in claimed' : \E c \in live' : c.raw = l.lo
    BY <2>1, <2>2 DEF IInv, BlocksMatchClaims
  <2> QED BY <2>4, <2>5, <2>6, <2>7 DEF BlocksMatchClaims
<1>14. ArenaInv'
  <2>1. bumped' = bumped /\ used' = used BY <1>4
  <2>2. used \in Nat /\ used <= ArenaBytes /\ used % 8 = 0 BY DEF IInv, TypeOK, ArenaInv
  <2> QED BY <1>2, <2>1, <2>2, ArenaKept
<1>15. TableInv' BY <1>4, TableKept DEF IInv
<1> QED BY <1>5, <1>11, <1>12, <1>13, <1>14, <1>15 DEF IInv

LEMMA AlignedFreeIInv ==
  ASSUME IInv, NEW b \in live, AlignedFree(b)
  PROVE  IInv'
<1>1. /\ claimed' = {k \in claimed : k.lo # b.raw} /\ live' = live \ {b}
      /\ UNCHANGED <<areas, used, bumped, globals, exited>>
  BY DEF AlignedFree
<1>2. TypeOK' BY <1>1 DEF IInv, TypeOK, areas, globals
<1>3. SplitInv' BY <1>1 DEF IInv, SplitInv, areas, globals
<1>4. HeapInv' BY <1>1 DEF IInv, HeapInv, Apart, areas
<1>5. BlocksMatchClaims' BY <1>1 DEF IInv, BlocksMatchClaims
<1>6. ArenaInv' BY <1>1 DEF IInv, ArenaInv, Apart, areas
<1>7. TableInv' BY <1>1, TableKept DEF IInv
<1> QED BY <1>2, <1>3, <1>4, <1>5, <1>6, <1>7 DEF IInv

\* A step that begins with slot_init and leaves heap and arena as they are
\* keeps all but the table's share of the invariant.
LEMMA ReadyFrame ==
  ASSUME IInv, Ready, UNCHANGED heapVars, bumped' = bumped,
         used' \in Nat, used <= used', used' <= ArenaBytes, used' % 8 = 0
  PROVE  SplitInv' /\ HeapInv' /\ BlocksMatchClaims' /\ ArenaInv'
BY ReadySplits, HeapKept, ArenaKept

LEMMA SizeInNat ==
  ASSUME NEW h \in Hashes
  PROVE  Size[h] \in Nat \ {0}
BY RequestAssumption

\* Every exit: nothing but the arena's cursor may have moved.
LEMMA ExitIInv ==
  ASSUME IInv, Ready, Exit,
         used' = used \/ \E h \in Hashes : /\ used' = used + GlobalSize(Size[h])
                                         /\ used' <= ArenaBytes
  PROVE  IInv'
<1>1. UNCHANGED <<heapVars, bumped, globals>> /\ exited' = TRUE BY DEF Exit
<1>2. used \in Nat /\ used <= ArenaBytes /\ used % 8 = 0 /\ ArenaBytes \in Nat
  BY SlotAssumption DEF IInv, TypeOK, ArenaInv
<1>3. used' \in Nat /\ used <= used' /\ used' <= ArenaBytes /\ used' % 8 = 0
  <2>1. CASE used' = used BY <1>2, <2>1
  <2>2. CASE \E h \in Hashes : used' = used + GlobalSize(Size[h]) /\ used' <= ArenaBytes
    <3>1. PICK h \in Hashes : used' = used + GlobalSize(Size[h]) /\ used' <= ArenaBytes
      BY <2>2
    <3> DEFINE sz == GlobalSize(Size[h])
    <3>2. sz \in Nat /\ sz % 8 = 0 BY SizeInNat, SizeFacts
    <3>3. used' = used + sz /\ used' <= ArenaBytes BY <3>1
    <3> HIDE DEF sz
    <3>4. (used + sz) % 8 = 0 /\ used + sz \in Nat /\ used <= used + sz BY <1>2, <3>2
    <3> QED BY <3>3, <3>4
  <2> QED BY <2>1, <2>2
<1>4. TypeOK' BY <1>1, <1>3, ReadyTypes DEF IInv, TypeOK, heapVars, globals
<1>5. TableInv' BY <1>1, TableKept DEF IInv
<1> QED BY <1>1, <1>3, <1>4, <1>5, ReadyFrame DEF IInv

LEMMA RostrtAllocIInv ==
  ASSUME IInv, NEW n \in ArenaRequests, RostrtAlloc(n)
  PROVE  IInv'
<1>1. n \in Nat \ {0} BY RequestAssumption
<1>2. Ready /\ Bump(ArenaSize(n), n) /\ UNCHANGED <<heapVars, globals, exited>>
  BY DEF RostrtAlloc
<1>3. ArenaSize(n) \in Nat /\ n <= ArenaSize(n) /\ ArenaSize(n) % 8 = 0 BY <1>1, SizeFacts
<1> DEFINE b == [lo |-> SlotInit.arena + used, size |-> n]
<1>4. /\ b \in [lo : Nat, size : Nat \ {0}] /\ bumped' = bumped \union {b}
      /\ used' \in Nat /\ ArenaInv'
  BY <1>1, <1>2, <1>3, BumpStep
<1> HIDE DEF b
<1>5. TypeOK' BY <1>2, <1>4, ReadyTypes DEF IInv, TypeOK, heapVars, globals
<1>6. TableInv' BY <1>2, <1>4, TableKept DEF IInv
<1> QED BY <1>2, <1>4, <1>5, <1>6, ReadySplits, HeapKept DEF IInv

\* The search finds the one entry of a global that has one.
LEMMA FirstFacts ==
  ASSUME IInv, NEW h \in Hashes, Matches(h) # {}
  PROVE  /\ First(h) \in DOMAIN known /\ known[First(h)].hash = h
         /\ Matches(h) = {First(h)}
         /\ known[First(h)] = [hash |-> h, at |-> known[First(h)].at]
         /\ known[First(h)].at \in Nat
<1>1. known \in Seq(Entry) BY DEF IInv, TypeOK
<1>2. DOMAIN known = 1..Len(known) /\ Len(known) \in Nat BY <1>1
<1>3. PICK i \in Matches(h) : TRUE OBVIOUS
<1>4. i \in 1..Len(known) /\ known[i].hash = h BY <1>3 DEF Matches
<1>5. \A j \in Matches(h) : j = i
  BY <1>2, <1>4 DEF Matches, IInv, TableInv
<1>6. \A j \in Matches(h) : i <= j BY <1>4, <1>5
<1>7. First(h) = i
  BY <1>3, <1>5, <1>6 DEF First, Min
<1>8. known[i] \in Entry BY <1>1, <1>4
<1> QED BY <1>2, <1>3, <1>4, <1>5, <1>7, <1>8 DEF Entry

LEMMA GetGlobalIInv ==
  ASSUME IInv, NEW h \in Hashes, GetGlobal(h)
  PROVE  IInv'
<1>1. /\ Ready /\ Matches(h) # {}
      /\ given' = [given EXCEPT ![h] = @ \union {known[First(h)].at}]
      /\ UNCHANGED <<heapVars, used, bumped, known, building, exited>>
  BY DEF GetGlobal
<1> DEFINE at == known[First(h)].at
<1>2. /\ First(h) \in DOMAIN known /\ known[First(h)] = [hash |-> h, at |-> at]
      /\ at \in Nat
  BY <1>1, FirstFacts
<1> HIDE DEF at
<1>3. given \in [Hashes -> SUBSET Nat] /\ used \in Nat /\ used <= ArenaBytes /\ used % 8 = 0
  BY DEF IInv, TypeOK, ArenaInv
<1>4. given' = [given EXCEPT ![h] = given[h] \union {at}] BY <1>1 DEF at
<1>5. given' \in [Hashes -> SUBSET Nat] BY <1>2, <1>3, <1>4
<1>6. TypeOK' BY <1>1, <1>5, ReadyTypes DEF IInv, TypeOK, heapVars
<1>7. TableInv'
  <2>1. ASSUME NEW g \in Hashes, NEW p \in given'[g]
        PROVE  \E i \in DOMAIN known : known[i] = [hash |-> g, at |-> p]
    <3>1. p \in given[g] \/ (g = h /\ p = at) BY <1>3, <1>4, <2>1
    <3>2. CASE p \in given[g] BY <3>2 DEF IInv, TableInv
    <3>3. CASE g = h /\ p = at BY <1>2, <3>3
    <3> QED BY <3>1, <3>2, <3>3
  <2>2. known' = known /\ building' = building /\ bumped' = bumped BY <1>1
  <2>3. \A g \in Hashes : \A p \in given'[g] :
          \E i \in DOMAIN known' : known'[i] = [hash |-> g, at |-> p]
    BY <2>1, <2>2
  <2>4. /\ \A i, j \in DOMAIN known' : known'[i].hash = known'[j].hash => i = j
        /\ \A i \in DOMAIN known' : \E b \in bumped' : b.lo = known'[i].at
        /\ \A i \in DOMAIN building' : \E j \in DOMAIN known' : known'[j] = building'[i]
    BY <2>2 DEF IInv, TableInv
  <2> QED BY <2>3, <2>4 DEF TableInv
<1> QED BY <1>1, <1>3, <1>6, <1>7, ReadyFrame DEF IInv

LEMMA ConstructedIInv ==
  ASSUME IInv, Constructed
  PROVE  IInv'
<1> DEFINE entry == building[Len(building)]
<1>1. /\ building # << >>
      /\ given' = [given EXCEPT ![entry.hash] = @ \union {entry.at}]
      /\ building' = SubSeq(building, 1, Len(building) - 1)
      /\ UNCHANGED <<areas, heapVars, used, bumped, known, exited>>
  BY DEF Constructed
<1>2. building \in Seq(Entry) /\ given \in [Hashes -> SUBSET Nat] BY DEF IInv, TypeOK
<1>3. Len(building) \in 1..Len(building) BY <1>1, <1>2
<1>4. entry \in Entry BY <1>2, <1>3
<1>5. PICK j \in DOMAIN known : known[j] = entry
  <2>1. Len(building) \in DOMAIN building BY <1>2, <1>3
  <2> QED BY <2>1 DEF IInv, TableInv
<1>6. /\ building' \in Seq(Entry)
      /\ \A i \in DOMAIN building' : i \in DOMAIN building /\ building'[i] = building[i]
  <2> HIDE DEF entry
  <2> QED BY <1>1, <1>2, <1>3
<1> HIDE DEF entry
<1>7. given' = [given EXCEPT ![entry.hash] = given[entry.hash] \union {entry.at}]
  BY <1>1
<1>8. entry.hash \in Hashes /\ entry.at \in Nat /\ entry = [hash |-> entry.hash, at |-> entry.at]
  BY <1>4 DEF Entry
<1>9. given' \in [Hashes -> SUBSET Nat] BY <1>2, <1>7, <1>8
<1>10. TypeOK' BY <1>1, <1>6, <1>9 DEF IInv, TypeOK, areas, heapVars
<1>11. TableInv'
  <2>1. ASSUME NEW g \in Hashes, NEW p \in given'[g]
        PROVE  \E i \in DOMAIN known : known[i] = [hash |-> g, at |-> p]
    <3>1. p \in given[g] \/ (g = entry.hash /\ p = entry.at) BY <1>2, <1>7, <1>8, <2>1
    <3>2. CASE p \in given[g] BY <3>2 DEF IInv, TableInv
    <3>3. CASE g = entry.hash /\ p = entry.at BY <1>5, <1>8, <3>3
    <3> QED BY <3>1, <3>2, <3>3
  <2>2. \A i \in DOMAIN building' : \E m \in DOMAIN known : known[m] = building'[i]
    BY <1>6 DEF IInv, TableInv
  <2>3. known' = known /\ bumped' = bumped BY <1>1
  <2>4. \A g \in Hashes : \A p \in given'[g] :
          \E i \in DOMAIN known' : known'[i] = [hash |-> g, at |-> p]
    BY <2>1, <2>3
  <2>5. /\ \A i, m \in DOMAIN known' : known'[i].hash = known'[m].hash => i = m
        /\ \A i \in DOMAIN known' : \E b \in bumped' : b.lo = known'[i].at
    BY <2>3 DEF IInv, TableInv
  <2>6. \A i \in DOMAIN building' : \E m \in DOMAIN known' : known'[m] = building'[i]
    BY <2>2, <2>3
  <2> QED BY <2>4, <2>5, <2>6 DEF TableInv
<1>12. SplitInv' BY <1>1 DEF IInv, SplitInv, areas, heapVars
<1>13. HeapInv' BY <1>1 DEF IInv, HeapInv, Apart, areas, heapVars
<1>14. BlocksMatchClaims' BY <1>1 DEF IInv, BlocksMatchClaims, heapVars
<1>15. ArenaInv' BY <1>1 DEF IInv, ArenaInv, Apart, areas
<1> QED BY <1>10, <1>11, <1>12, <1>13, <1>14, <1>15 DEF IInv

LEMMA CreateGlobalIInv ==
  ASSUME IInv, NEW h \in Hashes, CreateGlobal(h)
  PROVE  IInv'
<1> DEFINE b == [lo |-> SlotInit.arena + used, size |-> Size[h]]
           entry == [hash |-> h, at |-> SlotInit.arena + used]
<1>1. /\ Ready /\ Matches(h) = {} /\ Bump(GlobalSize(Size[h]), Size[h])
      /\ known' = Append(known, entry) /\ building' = Append(building, entry)
      /\ UNCHANGED <<heapVars, given, exited>>
  BY DEF CreateGlobal
<1>2. Size[h] \in Nat \ {0} BY SizeInNat
<1>3. /\ GlobalSize(Size[h]) \in Nat /\ Size[h] <= GlobalSize(Size[h])
      /\ GlobalSize(Size[h]) % 8 = 0
  BY <1>2, SizeFacts
<1>4. /\ b \in [lo : Nat, size : Nat \ {0}] /\ bumped' = bumped \union {b}
      /\ used' \in Nat /\ ArenaInv'
  BY <1>1, <1>2, <1>3, BumpStep
<1>5. b.lo = entry.at /\ entry.hash = h OBVIOUS
<1>6. entry \in Entry /\ entry = [hash |-> h, at |-> entry.at]
  <2>1. b.lo \in Nat BY <1>4
  <2> QED BY <1>5, <2>1 DEF Entry
<1> HIDE DEF b, entry
<1>7. known \in Seq(Entry) /\ building \in Seq(Entry) BY DEF IInv, TypeOK
<1>8. /\ known' \in Seq(Entry) /\ DOMAIN known' = DOMAIN known \union {Len(known) + 1}
      /\ Len(known) + 1 \notin DOMAIN known
      /\ known'[Len(known) + 1] = entry
      /\ \A i \in DOMAIN known : known'[i] = known[i]
  BY <1>1, <1>6, <1>7
<1>9. /\ building' \in Seq(Entry)
      /\ DOMAIN building' = DOMAIN building \union {Len(building) + 1}
      /\ building'[Len(building) + 1] = entry
      /\ \A i \in DOMAIN building : building'[i] = building[i]
  BY <1>1, <1>6, <1>7
<1>10. TypeOK' BY <1>1, <1>4, <1>8, <1>9, ReadyTypes DEF IInv, TypeOK, heapVars
<1>11. \A i \in DOMAIN known : known[i].hash # h
  BY <1>1, <1>7 DEF Matches
<1>12. TableInv'
  <2>1. \A i, j \in DOMAIN known' : known'[i].hash = known'[j].hash => i = j
    BY <1>5, <1>8, <1>11 DEF IInv, TableInv
  <2>2. \A i \in DOMAIN known' : \E c \in bumped' : c.lo = known'[i].at
    BY <1>4, <1>5, <1>8 DEF IInv, TableInv
  <2>3. \A i \in DOMAIN building' : \E j \in DOMAIN known' : known'[j] = building'[i]
    BY <1>8, <1>9 DEF IInv, TableInv
  <2>4. \A g \in Hashes : \A p \in given'[g] :
          \E i \in DOMAIN known' : known'[i] = [hash |-> g, at |-> p]
    <3>1. given' = given BY <1>1
    <3> QED BY <1>8, <3>1 DEF IInv, TableInv
  <2> QED BY <2>1, <2>2, <2>3, <2>4 DEF TableInv
<1> QED BY <1>1, <1>4, <1>10, <1>12, ReadySplits, HeapKept DEF IInv

LEMMA SlotSizeIInv ==
  ASSUME IInv, SlotSize
  PROVE  IInv'
<1>1. /\ split.ready \/ EarlyResize
      /\ limit' \in Limits
      /\ UNCHANGED <<stackTop, split, heapVars, used, bumped, globals, exited>>
  BY DEF SlotSize
<1>2. TypeOK' BY <1>1, SlotAssumption DEF IInv, TypeOK, heapVars, globals
<1>3. SplitInv' BY <1>1 DEF IInv, SplitInv, heapVars, globals
<1>4. HeapInv' BY <1>1 DEF IInv, HeapInv, Apart, heapVars
<1>5. BlocksMatchClaims' BY <1>1 DEF IInv, BlocksMatchClaims, heapVars
<1>6. ArenaInv' BY <1>1 DEF IInv, ArenaInv, Apart
<1>7. TableInv' BY <1>1, TableKept DEF IInv
<1> QED BY <1>2, <1>3, <1>4, <1>5, <1>6, <1>7 DEF IInv

\* RefuseSlot and stuttering: nothing moves but exited.
LEMMA StillIInv ==
  ASSUME IInv, UNCHANGED <<areas, heapVars, used, bumped, globals>>, exited' \in BOOLEAN
  PROVE  IInv'
<1>1. TypeOK' BY DEF IInv, TypeOK, areas, heapVars, globals
<1>2. SplitInv' BY DEF IInv, SplitInv, areas, heapVars, globals
<1>3. HeapInv' BY DEF IInv, HeapInv, Apart, areas, heapVars
<1>4. BlocksMatchClaims' BY DEF IInv, BlocksMatchClaims, heapVars
<1>5. ArenaInv' BY DEF IInv, ArenaInv, Apart, areas
<1>6. TableInv' BY TableKept DEF IInv
<1> QED BY <1>1, <1>2, <1>3, <1>4, <1>5, <1>6 DEF IInv

\* The allocators' invariant holds in every reachable state of rostrt.c's
\* slot, heap, arena and table of globals.
THEOREM Invariance == Spec => []IInv
<1>1. IInv /\ [Next]_vars => IInv'
  <2> SUFFICES ASSUME IInv, [Next]_vars PROVE IInv'
    OBVIOUS
  <2>1. CASE SlotSize BY <2>1, SlotSizeIInv
  <2>2. CASE RefuseSlot
    <3>1. UNCHANGED <<areas, heapVars, used, bumped, globals>> /\ exited' \in BOOLEAN
      BY <2>2 DEF RefuseSlot, Exit
    <3> QED BY <3>1, StillIInv
  <2>3. CASE OutOfHeap BY <2>3, ExitIInv DEF OutOfHeap
  <2>4. CASE ArenaExhausted BY <2>4, ExitIInv DEF ArenaExhausted
  <2>5. CASE Constructed BY <2>5, ConstructedIInv
  <2>6. ASSUME NEW r \in Requests, AlignedAlloc(r[1], r[2]) PROVE IInv'
    BY <2>6, AlignedAllocIInv
  <2>7. ASSUME NEW b \in live, AlignedFree(b) PROVE IInv'
    BY <2>7, AlignedFreeIInv
  <2>8. ASSUME NEW n \in ArenaRequests, RostrtAlloc(n) PROVE IInv'
    BY <2>8, RostrtAllocIInv
  <2>9. ASSUME NEW h \in Hashes, GetGlobal(h) PROVE IInv'
    BY <2>9, GetGlobalIInv
  <2>10. ASSUME NEW h \in Hashes, CreateGlobal(h) PROVE IInv'
    BY <2>10, CreateGlobalIInv
  <2>11. ASSUME NEW h \in Hashes, TooManyGlobals(h) PROVE IInv'
    <3>1. /\ Ready /\ Exit /\ used' = used + GlobalSize(Size[h])
          /\ used + GlobalSize(Size[h]) <= ArenaBytes
      BY <2>11 DEF TooManyGlobals
    <3> QED BY <3>1, ExitIInv
  <2>12. CASE UNCHANGED vars
    <3>1. UNCHANGED <<areas, heapVars, used, bumped, globals>> /\ exited' \in BOOLEAN
      BY <2>12 DEF vars, IInv, TypeOK
    <3> QED BY <3>1, StillIInv
  <2> QED BY <2>1, <2>2, <2>3, <2>4, <2>5, <2>6, <2>7, <2>8, <2>9, <2>10,
             <2>11, <2>12 DEF Next
<1> QED BY InitIInv, <1>1, PTL DEF Spec

\* rostrt.c:294 for every program: whoever asks for a global, its own
\* constructor included, is given one and the same block.
THEOREM GlobalsKeepTheirBlock == Spec => []OneBlockPerGlobal
<1>1. IInv => OneBlockPerGlobal
  <2> SUFFICES ASSUME IInv, NEW h \in Hashes PROVE Cardinality(given[h]) <= 1
    BY DEF OneBlockPerGlobal
  <2>1. \A p, q \in given[h] : p = q
    <3> SUFFICES ASSUME NEW p \in given[h], NEW q \in given[h] PROVE p = q
      OBVIOUS
    <3>1. PICK i \in DOMAIN known : known[i] = [hash |-> h, at |-> p]
      BY DEF IInv, TableInv
    <3>2. PICK j \in DOMAIN known : known[j] = [hash |-> h, at |-> q]
      BY DEF IInv, TableInv
    <3>3. i = j BY <3>1, <3>2 DEF IInv, TableInv
    <3> QED BY <3>1, <3>2, <3>3
  <2>2. CASE given[h] = {} BY <2>2, FS_EmptySet
  <2>3. CASE given[h] # {}
    <3>1. PICK p \in given[h] : given[h] = {p} BY <2>1, <2>3
    <3> QED BY <3>1, FS_Singleton
  <2> QED BY <2>2, <2>3
<1> QED BY Invariance, <1>1, PTL

\* AlignedFree gives back exactly what AlignedAlloc claimed, and every block
\* has the alignment and the room asked for.
THEOREM AllocationsMatchClaims == Spec => []BlocksMatchClaims
<1>1. IInv => BlocksMatchClaims BY DEF IInv
<1> QED BY Invariance, <1>1, PTL

\* A program that changes its slot only after its first allocation keeps heap
\* and stack apart.
THEOREM HeapClearOfStack ==
  ASSUME ~EarlyResize
  PROVE  Spec => []ClearOfStack
<1>1. IInv => ClearOfStack
  <2> SUFFICES ASSUME IInv, split.ready
               PROVE  split.top <= stackTop - StackBytes
    BY DEF ClearOfStack
  <2>1. split.top = stackTop - StackBytes BY DEF IInv, SplitInv
  <2>2. stackTop \in Nat /\ StackBytes \in Nat BY SlotAssumption DEF IInv, TypeOK
  <2> QED BY <2>1, <2>2
<1> QED BY Invariance, <1>1, PTL

-----------------------------------------------------------------------------
(* The refinement: heap and arena together are one allocator. *)

\* Aligned blocks lie in the heap, apart from each other and from the arena.
LiveApart ==
  /\ \A b \in live : b.lo \in Nat /\ b.size \in Nat \ {0}
  /\ \A c \in bumped : c.lo \in Nat /\ c.size \in Nat \ {0}
  /\ \A b, c \in live : b # c => Apart(b, c)
  /\ \A b \in live, c \in bumped : c.lo + c.size <= b.lo

LEMMA LiveFacts == IInv => LiveApart
<1> SUFFICES ASSUME IInv PROVE LiveApart
  OBVIOUS
<1>1. /\ claimed \subseteq [lo : Nat, size : Nat \ {0}]
      /\ live \subseteq [lo : Nat, size : Nat \ {0}, align : {1, 2, 4, 8, 16, 32, 64}, raw : Nat]
      /\ bumped \subseteq [lo : Nat, size : Nat \ {0}]
  BY DEF IInv, TypeOK
<1>2. \A b \in live : b.lo \in Nat /\ b.size \in Nat \ {0} /\ b.raw \in Nat BY <1>1
<1>3. \A k \in claimed : k.lo \in Nat /\ k.size \in Nat \ {0} BY <1>1
<1>4. \A b \in bumped : b.lo \in Nat /\ b.size \in Nat \ {0} BY <1>1
<1>5. ASSUME NEW b \in live
      PROVE  split.ready /\ split.heap \in Nat /\ split.arena \in Nat
             /\ split.heap = split.arena + ArenaBytes
  <2>1. split.ready BY <1>5 DEF IInv, SplitInv
  <2>2. split.arena = Base /\ split.heap = Base + ArenaBytes BY <2>1 DEF IInv, SplitInv
  <2> QED BY <2>1, <2>2, BaseInNat, SlotAssumption
<1>6. ASSUME NEW b \in live PROVE split.heap <= b.lo
  <2>1. PICK k \in claimed : k.lo = b.raw /\ k.lo + 4 <= b.lo
    BY DEF IInv, BlocksMatchClaims
  <2>2. split.heap <= k.lo BY DEF IInv, HeapInv
  <2> QED BY <1>2, <1>3, <1>5, <2>1, <2>2
<1>7. ASSUME NEW b \in live, NEW c \in live, b # c PROVE Apart(b, c)
  <2>1. PICK k \in claimed : k.lo = b.raw /\ k.lo + 4 <= b.lo /\ b.lo + b.size <= k.lo + k.size
    BY DEF IInv, BlocksMatchClaims
  <2>2. PICK l \in claimed : l.lo = c.raw /\ l.lo + 4 <= c.lo /\ c.lo + c.size <= l.lo + l.size
    BY DEF IInv, BlocksMatchClaims
  <2>3. k # l BY <1>7, <2>1, <2>2 DEF IInv, BlocksMatchClaims
  <2>4. Apart(k, l) BY <2>3 DEF IInv, HeapInv
  <2> QED BY <1>2, <1>3, <2>1, <2>2, <2>4 DEF Apart
<1>8. ASSUME NEW b \in live, NEW c \in bumped PROVE c.lo + c.size <= b.lo
  <2>1. c.lo + c.size <= split.arena + used /\ used <= ArenaBytes
    BY DEF IInv, ArenaInv
  <2>2. used \in Nat /\ ArenaBytes \in Nat BY SlotAssumption DEF IInv, TypeOK
  <2> QED BY <1>2, <1>4, <1>5, <1>6, <2>1, <2>2
<1> QED BY <1>2, <1>4, <1>7, <1>8 DEF LiveApart

LEMMA LiveFactsPrimed == IInv' => LiveApart'
BY LiveFacts, PTL

\* The part of an aligned block that the program sees.
Seen(b) == [lo |-> b.lo, size |-> b.size]

LEMMA HeldIs == /\ Held = {Seen(b) : b \in live} \union bumped
                /\ Held' = {Seen(b) : b \in live'} \union bumped'
BY DEF Held, Seen

LEMMA SameHome == ASSUME known' = known PROVE Home' = Home
<1>1. \A h \in Hashes : Matches(h)' = Matches(h) BY DEF Matches
<1>2. \A h \in Hashes : First(h)' = First(h) BY <1>1 DEF First
<1> QED BY <1>1, <1>2 DEF Home

\* Handing out a block that is apart from all the held ones is a Give.
LEMMA GiveStep ==
  ASSUME NEW x, x.lo \in Nat, x.size \in Nat \ {0},
         \A c \in Held : Apart(x, c), Held' = Held \union {x}
  PROVE  x \in Held' /\ Abstract!Hand(x)
<1>1. ~Apart(x, x) BY DEF Apart
<1>2. x \notin Held BY <1>1
<1>3. \A c \in Held : Abstract!Apart(x, c) BY DEF Apart, Abstract!Apart
<1> QED BY <1>2, <1>3 DEF Abstract!Hand

LEMMA AlignedAllocGives ==
  ASSUME IInv, IInv', NEW r \in Requests, AlignedAlloc(r[1], r[2])
  PROVE  Abstract!Give
<1>1. PICK b : live' = live \union {b} /\ b \notin live
  <2>1. PICK raw \in Offers(Claim(r[1], r[2])) :
          /\ claimed' = claimed \union {[lo |-> raw, size |-> Claim(r[1], r[2])]}
          /\ live' = live \union {[lo |-> AlignedIn(r[1], raw), size |-> r[2],
                                  align |-> r[1], raw |-> raw]}
    BY DEF AlignedAlloc
  <2> DEFINE b == [lo |-> AlignedIn(r[1], raw), size |-> r[2], align |-> r[1], raw |-> raw]
  <2>2. b \notin live
    <3> SUFFICES ASSUME b \in live PROVE FALSE
      OBVIOUS
    <3>1. b.raw = raw OBVIOUS
    <3> HIDE DEF b
    <3>2. PICK k \in claimed : k.lo = raw BY <3>1 DEF IInv, BlocksMatchClaims
    <3>3. Apart([lo |-> raw, size |-> Claim(r[1], r[2])], k) BY DEF Offers, FreeAt
    <3>4. k.size \in Nat \ {0} /\ k.lo \in Nat BY DEF IInv, TypeOK
    <3>5. Claim(r[1], r[2]) \in Nat \ {0}
      <4>1. r[1] \in Aligns /\ r[2] \in Nat \ {0} /\ 0 \in Nat
        BY RequestAssumption DEF Aligns
      <4> QED BY <4>1, ClaimFacts
    <3> QED BY <3>2, <3>3, <3>4, <3>5 DEF Apart
  <2> QED BY <2>1, <2>2
<1>2. bumped' = bumped /\ known' = known BY DEF AlignedAlloc, globals
<1>3. LiveApart /\ LiveApart' BY LiveFacts, LiveFactsPrimed
<1> DEFINE x == Seen(b)
<1>4. x.lo = b.lo /\ x.size = b.size BY DEF Seen
<1> HIDE DEF x
<1>5. x.lo \in Nat /\ x.size \in Nat \ {0} BY <1>1, <1>3, <1>4 DEF LiveApart
<1>6. \A c \in live : Apart(x, Seen(c))
  <2> SUFFICES ASSUME NEW c \in live PROVE Apart(x, Seen(c))
    OBVIOUS
  <2>1. b.lo + b.size <= c.lo \/ c.lo + c.size <= b.lo
    BY <1>1, <1>3 DEF LiveApart, Apart
  <2>2. Seen(c).lo = c.lo /\ Seen(c).size = c.size BY DEF Seen
  <2> QED BY <1>4, <2>1, <2>2 DEF Apart
<1>7. \A c \in bumped : Apart(x, c)
  BY <1>1, <1>2, <1>3, <1>4 DEF LiveApart, Apart
<1>8. \A c \in Held : Apart(x, c) BY <1>6, <1>7, HeldIs
<1>9. Held' = Held \union {x} BY <1>1, <1>2, HeldIs DEF x
<1>10. Home' = Home BY <1>2, SameHome
<1> QED BY <1>5, <1>8, <1>9, <1>10, GiveStep DEF Abstract!Give

LEMMA AlignedFreeTakesBack ==
  ASSUME IInv, NEW b \in live, AlignedFree(b)
  PROVE  Abstract!TakeBack
<1>1. live' = live \ {b} /\ bumped' = bumped /\ known' = known
  BY DEF AlignedFree, globals
<1>2. LiveApart BY LiveFacts
<1>3. \A c \in live : c # b => Seen(c) # Seen(b)
  <2> SUFFICES ASSUME NEW c \in live, c # b, Seen(c) = Seen(b) PROVE FALSE
    OBVIOUS
  <2>1. c.lo = b.lo /\ c.size = b.size BY DEF Seen
  <2> QED BY <1>2, <2>1 DEF LiveApart, Apart
<1>4. \A c \in bumped : c # Seen(b)
  <2> SUFFICES ASSUME NEW c \in bumped, c = Seen(b) PROVE FALSE
    OBVIOUS
  <2>1. c.lo = b.lo BY DEF Seen
  <2> QED BY <1>2, <2>1 DEF LiveApart
<1>5. Seen(b) \in Held BY HeldIs
<1>6. Held' = Held \ {Seen(b)} BY <1>1, <1>3, <1>4, HeldIs
<1>7. Home' = Home BY <1>1, SameHome
<1> QED BY <1>5, <1>6, <1>7 DEF Abstract!TakeBack

\* A block taken from the arena is apart from the heap's blocks as well.
LEMMA BumpHands ==
  ASSUME IInv, IInv', Ready, NEW sz \in Nat, NEW n \in Nat \ {0},
         n <= sz, sz % 8 = 0, Bump(sz, n), live' = live
  PROVE  \E x \in Held' : Abstract!Hand(x) /\ x.lo = SlotInit.arena + used
<1> DEFINE x == [lo |-> SlotInit.arena + used, size |-> n]
<1>1. /\ x \in [lo : Nat, size : Nat \ {0}]
      /\ bumped' = bumped \union {x} /\ \A c \in bumped : Apart(x, c)
  BY BumpStep
<1>2. x.lo = SlotInit.arena + used OBVIOUS
<1> HIDE DEF x
<1>3. LiveApart /\ LiveApart' BY LiveFacts, LiveFactsPrimed
<1>4. \A c \in live : Apart(x, Seen(c))
  <2> SUFFICES ASSUME NEW c \in live PROVE Apart(x, Seen(c))
    OBVIOUS
  <2>1. x.lo + x.size <= c.lo
    <3>1. x \in bumped' BY <1>1
    <3> QED BY <1>3, <3>1 DEF LiveApart
  <2>2. Seen(c).lo = c.lo /\ Seen(c).size = c.size BY DEF Seen
  <2> QED BY <2>1, <2>2 DEF Apart
<1>5. \A c \in Held : Apart(x, c) BY <1>1, <1>4, HeldIs
<1>6. Held' = Held \union {x} BY <1>1, HeldIs
<1>7. x.lo \in Nat /\ x.size \in Nat \ {0} BY <1>1
<1> QED BY <1>2, <1>5, <1>6, <1>7, GiveStep

LEMMA RostrtAllocGives ==
  ASSUME IInv, IInv', NEW n \in ArenaRequests, RostrtAlloc(n)
  PROVE  Abstract!Give
<1>1. n \in Nat \ {0} BY RequestAssumption
<1>2. ArenaSize(n) \in Nat /\ n <= ArenaSize(n) /\ ArenaSize(n) % 8 = 0
  BY <1>1, SizeFacts
<1>3. Ready /\ Bump(ArenaSize(n), n) /\ live' = live /\ known' = known
  BY DEF RostrtAlloc, heapVars, globals
<1>4. \E x \in Held' : Abstract!Hand(x) BY <1>1, <1>2, <1>3, BumpHands
<1>5. Home' = Home BY <1>3, SameHome
<1> QED BY <1>4, <1>5 DEF Abstract!Give

LEMMA CreateGlobalSettles ==
  ASSUME IInv, IInv', NEW h \in Hashes, CreateGlobal(h)
  PROVE  Abstract!Settle(h)
<1> DEFINE at == SlotInit.arena + used
<1>1. /\ Ready /\ Matches(h) = {} /\ Bump(GlobalSize(Size[h]), Size[h])
      /\ known' = Append(known, [hash |-> h, at |-> at]) /\ live' = live
  BY DEF CreateGlobal, heapVars
<1>2. Size[h] \in Nat \ {0} BY SizeInNat
<1>3. /\ GlobalSize(Size[h]) \in Nat /\ Size[h] <= GlobalSize(Size[h])
      /\ GlobalSize(Size[h]) % 8 = 0
  BY <1>2, SizeFacts
<1>4. PICK x \in Held' : Abstract!Hand(x) /\ x.lo = at BY <1>1, <1>2, <1>3, BumpHands
<1> HIDE DEF at
<1>5. known \in Seq(Entry) BY DEF IInv, TypeOK
<1> DEFINE last == Len(known) + 1
<1>6. /\ Len(known) \in Nat /\ Len(known') = last
      /\ known'[last] = [hash |-> h, at |-> at]
      /\ \A i \in 1..Len(known) : known'[i] = known[i]
  BY <1>1, <1>5
<1>7. \A i \in 1..Len(known) : known[i].hash # h BY <1>1 DEF Matches
<1>8. Matches(h)' = {last} BY <1>6, <1>7 DEF Matches
<1>9. \A g \in Hashes : g # h => Matches(g)' = Matches(g)
  BY <1>6 DEF Matches
<1>10. First(h)' = last
  <2>1. last \in Nat BY <1>6
  <2>2. Min({last}) = last BY <2>1 DEF Min
  <2> QED BY <1>8, <2>2 DEF First
<1>11. \A g \in Hashes : g # h => First(g)' = First(g) BY <1>9 DEF First
<1>12. \A g \in Hashes : g # h /\ Matches(g) # {} => known'[First(g)] = known[First(g)]
  <2> SUFFICES ASSUME NEW g \in Hashes, Matches(g) # {}
               PROVE  known'[First(g)] = known[First(g)]
    OBVIOUS
  <2>1. First(g) \in DOMAIN known BY FirstFacts
  <2>2. DOMAIN known = 1..Len(known) BY <1>5
  <2> QED BY <1>6, <2>1, <2>2
<1>13. Home' = [Home EXCEPT ![h] = at]
  <2>1. \A g \in Hashes : g # h =>
          (IF Matches(g)' = {} THEN -1 ELSE known'[First(g)'].at)
            = (IF Matches(g) = {} THEN -1 ELSE known[First(g)].at)
    BY <1>9, <1>11, <1>12
  <2>2. (IF Matches(h)' = {} THEN -1 ELSE known'[First(h)'].at) = at
    BY <1>6, <1>8, <1>10
  <2> QED BY <2>1, <2>2 DEF Home
<1>14. Home[h] = Abstract!Nowhere BY <1>1 DEF Home, Abstract!Nowhere
<1> QED BY <1>4, <1>13, <1>14 DEF Abstract!Settle

\* rostrt.c's allocators, heap and arena and table together, implement
\* Allocator: what is handed out overlaps nothing held, whichever allocator it
\* came from, and a global never moves.
THEOREM HeapAndArenaImplementAllocator == Spec => ImplementsAllocator
<1>1. Init => Abstract!AInit
  <2> SUFFICES ASSUME Init PROVE Abstract!AInit
    OBVIOUS
  <2>1. Held = {} BY DEF Init, Held
  <2>2. \A h \in Hashes : Matches(h) = {}
    <3>1. Len(known) = 0 BY DEF Init
    <3> QED BY <3>1 DEF Matches
  <2> QED BY <2>1, <2>2 DEF Abstract!AInit, Abstract!Nowhere, Home
<1>2. IInv /\ IInv' /\ [Next]_vars => [Abstract!ANext]_(Abstract!avars)
  <2> SUFFICES ASSUME IInv, IInv', [Next]_vars
               PROVE  Abstract!ANext \/ UNCHANGED <<Held, Home>>
    BY DEF Abstract!avars
  <2>1. ASSUME live' = live, bumped' = bumped, known' = known
        PROVE  UNCHANGED <<Held, Home>>
    <3>1. Home' = Home BY <2>1, SameHome
    <3> QED BY <2>1, <3>1, HeldIs
  <2>2. ASSUME NEW r \in Requests, AlignedAlloc(r[1], r[2]) PROVE Abstract!ANext
    BY <2>2, AlignedAllocGives DEF Abstract!ANext
  <2>3. ASSUME NEW b \in live, AlignedFree(b) PROVE Abstract!ANext
    BY <2>3, AlignedFreeTakesBack DEF Abstract!ANext
  <2>4. ASSUME NEW n \in ArenaRequests, RostrtAlloc(n) PROVE Abstract!ANext
    BY <2>4, RostrtAllocGives DEF Abstract!ANext
  <2>5. ASSUME NEW h \in Hashes, CreateGlobal(h) PROVE Abstract!ANext
    BY <2>5, CreateGlobalSettles DEF Abstract!ANext
  <2>6. CASE SlotSize BY <2>1, <2>6 DEF SlotSize, heapVars, globals
  <2>7. CASE RefuseSlot \/ OutOfHeap \/ ArenaExhausted
             \/ \E h \in Hashes : TooManyGlobals(h)
    BY <2>1, <2>7
       DEF RefuseSlot, OutOfHeap, ArenaExhausted, TooManyGlobals, Exit, heapVars, globals
  <2>8. CASE Constructed BY <2>1, <2>8 DEF Constructed, heapVars
  <2>9. ASSUME NEW h \in Hashes, GetGlobal(h) PROVE UNCHANGED <<Held, Home>>
    BY <2>1, <2>9 DEF GetGlobal, heapVars
  <2>10. CASE UNCHANGED vars BY <2>1, <2>10 DEF vars, heapVars, globals
  <2> QED BY <2>2, <2>3, <2>4, <2>5, <2>6, <2>7, <2>8, <2>9, <2>10 DEF Next
<1> QED BY <1>1, <1>2, Invariance, PTL DEF Spec, ImplementsAllocator, Abstract!ASpec

\* Blocks in use never overlap, whichever of the allocators handed them out:
\* Allocator promises it, so they keep it.
HeldApart == \A b, c \in Held : b # c => Apart(b, c)

THEOREM HeldBlocksApart == Spec => []HeldApart
<1>1. Abstract!AInit => HeldApart
  BY DEF Abstract!AInit, HeldApart
<1>2. HeldApart /\ [Abstract!ANext]_(Abstract!avars) => HeldApart'
  <2> SUFFICES ASSUME HeldApart, [Abstract!ANext]_(Abstract!avars) PROVE HeldApart'
    OBVIOUS
  <2>1. CASE UNCHANGED Abstract!avars
    BY <2>1 DEF Abstract!avars, HeldApart
  <2>2. ASSUME NEW b, Abstract!Hand(b) PROVE HeldApart'
    <3>1. Held' = Held \union {b} /\ \A c \in Held : Apart(b, c)
      BY <2>2 DEF Abstract!Hand, Abstract!Apart, Apart
    <3>2. \A c \in Held : Apart(c, b)
      BY <3>1 DEF Apart
    <3> QED BY <3>1, <3>2 DEF HeldApart
  <2>3. CASE Abstract!TakeBack
    BY <2>3 DEF Abstract!TakeBack, HeldApart
  <2>4. CASE Abstract!Give
    BY <2>2, <2>4 DEF Abstract!Give
  <2>5. ASSUME NEW h \in Hashes, Abstract!Settle(h) PROVE HeldApart'
    BY <2>2, <2>5 DEF Abstract!Settle
  <2> QED BY <2>1, <2>3, <2>4, <2>5 DEF Abstract!ANext
<1> QED
  BY <1>1, <1>2, HeapAndArenaImplementAllocator, PTL
     DEF ImplementsAllocator, Abstract!ASpec
=============================================================================

---------------------------- MODULE RuntimeHeap ----------------------------
(***************************************************************************)
(* Where a program's memory comes from (rostrt/rostrt.c): the application  *)
(* slot between the end of the image and the stack is split, at the first  *)
(* allocation, into a bump arena for globals and a heap that OS_Heap       *)
(* manages; over these lie the aligned allocator and the table of globals. *)
(* This is the application build; ROSTRT_STATIC_HEAP puts the same two     *)
(* areas into arrays.                                                      *)
(*                                                                         *)
(* OS_Heap and Wimp_SlotSize are external: OS_Heap gives out some free     *)
(* word-aligned range of its area, or a null pointer, and takes back what  *)
(* starts at the address it is given.                                      *)
(***************************************************************************)
EXTENDS Integers, Sequences, FiniteSets, FiniteSetsExt

CONSTANTS
  End,           \* _end: the first byte past the image
  StackBytes, ArenaBytes, MinHeap,   \* STACK_BYTES, ARENA_BYTES, 16384
  GlobalSlots,   \* GLOBAL_SLOTS
  Limits,        \* the tops the slot may have, at the start and later
  EarlyResize,   \* may the program change its slot before it allocates?
  Hashes,        \* the globals: Hashes names them, Size[h] is what h asks for
  Size,
  Requests,      \* the <<alignment, size>> pairs asked of AlignedAlloc
  ArenaRequests, \* the sizes asked of rostrt_alloc
  MaxLive,       \* a bound on the heap blocks held at once
  MaxArena       \* a bound on the calls of rostrt_alloc

ASSUME SlotAssumption ==
  /\ \A n \in {End, StackBytes, ArenaBytes, MinHeap, GlobalSlots,
               MaxLive, MaxArena} : n \in Nat
  /\ Limits \subseteq Nat
  /\ EarlyResize \in BOOLEAN

\* Alignments are powers of two; nothing of size zero is asked for.
ASSUME RequestAssumption ==
  /\ Size \in [Hashes -> Nat \ {0}]
  /\ ArenaRequests \subseteq Nat \ {0}
  /\ Requests \subseteq {1, 2, 4, 8, 16, 32, 64} \X (Nat \ {0})

VARIABLES
  limit,     \* the slot's top: what OS_GetEnv answers in R1
  stackTop,  \* what crt0 put in sp
  split,     \* slot_ready and what slot_init set: NotSplit, or [arena, heap, top]
  claimed,   \* the blocks of the OS heap: records [lo, size]
  live,      \* the aligned blocks held; raw is the word stored below each
  used,      \* arena_used
  bumped,    \* the blocks of the arena handed out: records [lo, size]
  known,     \* global_hash and global_block: a sequence of [hash, at]
  building,  \* the globals whose constructors are running, innermost last
  given,     \* given[h]: the addresses GetOrCreateGlobal has returned for h
  exited     \* os_exit was called

areas == <<limit, stackTop, split>>
heapVars == <<claimed, live>>
globals == <<known, building, given>>
vars == <<areas, heapVars, used, bumped, globals, exited>>

NotSplit == [ready |-> FALSE]
RoundUp(n, unit) == (n + unit - 1) - ((n + unit - 1) % unit)
Apart(b, c) == b.lo + b.size <= c.lo \/ c.lo + c.size <= b.lo

Init ==
  /\ limit \in Limits /\ stackTop = limit
  /\ split = NotSplit
  /\ claimed = {} /\ live = {} /\ bumped = {}
  /\ used = 0
  /\ known = << >> /\ building = << >>
  /\ given = [h \in Hashes |-> {}]
  /\ exited = FALSE

\* The program gives its slot another top (external), not one below its stack.
SlotSize ==
  /\ ~exited /\ (split.ready \/ EarlyResize)
  /\ limit' \in {l \in Limits : l >= stackTop}
  /\ UNCHANGED <<stackTop, split, heapVars, used, bumped, globals, exited>>

-----------------------------------------------------------------------------
\* Mistake: the heap runs up to the slot's top.
SlotInitUpToLimit ==
  IF split.ready
    THEN split
    ELSE [ready |-> TRUE, arena |-> RoundUp(End, 16),
          heap |-> RoundUp(End, 16) + ArenaBytes, top |-> limit]

\* slot_init, which every allocation calls first: nothing once done, an exit
\* when the slot is too small, else the split from the slot's present top.
Base == RoundUp(End, 16)
SlotTooSmall == ~split.ready /\ limit <= Base + StackBytes + ArenaBytes + MinHeap
SlotInit ==
  IF split.ready
    THEN split
    ELSE [ready |-> TRUE, arena |-> Base, heap |-> Base + ArenaBytes,
          top |-> limit - StackBytes]

\* An allocation begins: the slot is split from here on.
Ready == ~exited /\ ~SlotTooSmall /\ split' = SlotInit /\ UNCHANGED <<limit, stackTop>>

\* A message and os_exit.
Exit == exited' = TRUE /\ UNCHANGED <<heapVars, bumped, globals>>

RefuseSlot == ~exited /\ SlotTooSmall /\ Exit /\ UNCHANGED <<areas, used>>

\* Mistake: no room to move up to an aligned address.
ClaimUnaligned(a, n) == RoundUp(n + 4, 4)

\* What heap_alloc asks OS_Heap for on behalf of an aligned block: the block,
\* the alignment and a word, in whole words.
Alignment(a) == IF a < 8 THEN 8 ELSE a
Claim(a, n) == RoundUp(n + Alignment(a) + 4, 4)

\* The first aligned address past a word of its own in the raw block.
AlignedIn(a, raw) == RoundUp(raw + 4, Alignment(a))

\* What OS_Heap may answer to a claim of n bytes (external).
FreeAt(lo, n) == \A b \in claimed : Apart([lo |-> lo, size |-> n], b)
Offers(n) ==
  {lo \in SlotInit.heap .. (SlotInit.top - n) : lo % 4 = 0 /\ FreeAt(lo, n)}

\* KGEN_CompilerRT_AlignedAlloc(a, n), OS_Heap answering with a block.
AlignedAlloc(a, n) ==
  /\ Ready
  /\ Cardinality(live) < MaxLive
  /\ \E raw \in Offers(Claim(a, n)) :
       /\ claimed' = claimed \union {[lo |-> raw, size |-> Claim(a, n)]}
       /\ live' = live \union
            {[lo |-> AlignedIn(a, raw), size |-> n, align |-> a, raw |-> raw]}
  /\ UNCHANGED <<used, bumped, globals, exited>>

\* OS_Heap answers with a null pointer.
OutOfHeap == Ready /\ Exit /\ UNCHANGED used

\* KGEN_CompilerRT_AlignedFree: the word below the block says what to free.
AlignedFree(b) ==
  /\ ~exited
  /\ claimed' = {k \in claimed : k.lo # b.raw}
  /\ live' = live \ {b}
  /\ UNCHANGED <<areas, used, bumped, globals, exited>>

-----------------------------------------------------------------------------
\* Mistake: sizes rounded down.
Truncated(n) == n - (n % 8)

ArenaSize(n) == RoundUp(n, 16)
GlobalSize(n) == RoundUp(n, 8)

\* Hand out n bytes at the arena's cursor, which moves by sz.
Bump(sz, n) ==
  /\ used + sz <= ArenaBytes
  /\ used' = used + sz
  /\ bumped' = bumped \union {[lo |-> SlotInit.arena + used, size |-> n]}

\* rostrt_alloc.
RostrtAlloc(n) ==
  /\ Ready
  /\ Cardinality(bumped) < Len(known) + MaxArena
  /\ Bump(ArenaSize(n), n)
  /\ UNCHANGED <<heapVars, globals, exited>>

\* Mistake: the search stops short of the last entry.
MatchesButLast(h) == {i \in 1..(Len(known) - 1) : known[i].hash = h}

\* global_hash searched from the start.
Matches(h) == {i \in 1..Len(known) : known[i].hash = h}
First(h) == Min(Matches(h))

\* "arena exhausted" for rostrt_alloc, "global arena exhausted" for a new global.
ArenaExhausted ==
  /\ Ready
  /\ \/ \E n \in ArenaRequests : used + ArenaSize(n) > ArenaBytes
     \/ \E h \in Hashes : Matches(h) = {} /\ used + GlobalSize(Size[h]) > ArenaBytes
  /\ Exit /\ UNCHANGED used

\* KGEN_CompilerRT_GetOrCreateGlobal for a global in the table.
GetGlobal(h) ==
  /\ Ready
  /\ Matches(h) # {}
  /\ given' = [given EXCEPT ![h] = @ \union {known[First(h)].at}]
  /\ UNCHANGED <<heapVars, used, bumped, known, building, exited>>

\* ... and for a new one, up to the call of its constructor: the block is
\* taken and entered in the table first.
CreateGlobal(h) ==
  /\ Ready
  /\ Matches(h) = {}
  /\ Len(known) < GlobalSlots
  /\ Bump(GlobalSize(Size[h]), Size[h])
  /\ LET entry == [hash |-> h, at |-> SlotInit.arena + used] IN
       known' = Append(known, entry) /\ building' = Append(building, entry)
  /\ UNCHANGED <<heapVars, given, exited>>

\* The table is full: the block is taken, then the program exits.
TooManyGlobals(h) ==
  /\ Ready
  /\ Matches(h) = {}
  /\ Len(known) >= GlobalSlots
  /\ used + GlobalSize(Size[h]) <= ArenaBytes
  /\ used' = used + GlobalSize(Size[h])
  /\ Exit

\* The constructor, which may have done any of the above, returns.
Constructed ==
  /\ ~exited /\ building # << >>
  /\ LET entry == building[Len(building)] IN
       given' = [given EXCEPT ![entry.hash] = @ \union {entry.at}]
  /\ building' = SubSeq(building, 1, Len(building) - 1)
  /\ UNCHANGED <<areas, heapVars, used, bumped, known, exited>>

Next ==
  \/ SlotSize \/ RefuseSlot \/ OutOfHeap \/ ArenaExhausted \/ Constructed
  \/ \E r \in Requests : AlignedAlloc(r[1], r[2])
  \/ \E b \in live : AlignedFree(b)
  \/ \E n \in ArenaRequests : RostrtAlloc(n)
  \/ \E h \in Hashes : GetGlobal(h) \/ CreateGlobal(h) \/ TooManyGlobals(h)

Spec == Init /\ [][Next]_vars

-----------------------------------------------------------------------------
Entry == [hash : Hashes, at : Nat]

TypeOK ==
  /\ limit \in Nat /\ stackTop \in Nat
  /\ split = NotSplit \/ split \in [ready : {TRUE}, arena : Nat, heap : Nat, top : Nat]
  /\ claimed \subseteq [lo : Nat, size : Nat \ {0}]
  /\ live \subseteq [lo : Nat, size : Nat \ {0}, align : {1, 2, 4, 8, 16, 32, 64}, raw : Nat]
  /\ used \in Nat
  /\ bumped \subseteq [lo : Nat, size : Nat \ {0}]
  /\ known \in Seq(Entry) /\ building \in Seq(Entry)
  /\ given \in [Hashes -> SUBSET Nat]
  /\ exited \in BOOLEAN

\* rostrt.c:213: "The two grow towards each other: the stack down from the slot
\* top that crt0 put in sp, the heap up from the end of the image."  The heap
\* the slot was split into ends where the STACK_BYTES below that top begin.
ClearOfStack == split.ready => split.top <= stackTop - StackBytes

\* rostrt.c:294: "ask twice for the same one and you must get the same block
\* back", also when the constructor is the one that asks.
OneBlockPerGlobal == \A h \in Hashes : Cardinality(given[h]) <= 1

\* Every aligned block starts at a multiple of the alignment asked for and
\* lies, with the word below it that AlignedFree reads, in the raw block that
\* word names; that block is claimed for it alone, and no other is claimed:
\* freeing gives back exactly what was claimed.
BlocksMatchClaims ==
  /\ \A b \in live : b.lo % b.align = 0
  /\ \A b \in live : \E k \in claimed :
       k.lo = b.raw /\ k.lo + 4 <= b.lo /\ b.lo + b.size <= k.lo + k.size
  /\ \A b, c \in live : b.raw = c.raw => b = c
  /\ \A k \in claimed : \E b \in live : b.raw = k.lo

Held == {[lo |-> b.lo, size |-> b.size] : b \in live} \union bumped
Home == [h \in Hashes |-> IF Matches(h) = {} THEN -1 ELSE known[First(h)].at]

Abstract == INSTANCE Allocator WITH held <- Held, home <- Home

\* Nothing handed out ever overlaps anything else handed out, and a global
\* stays where it was put.
ImplementsAllocator == Abstract!ASpec

-----------------------------------------------------------------------------
\* The inductive invariant.
SplitInv ==
  /\ split.ready => /\ split.arena = Base
                    /\ split.heap = Base + ArenaBytes
                    /\ split.heap <= split.top
  /\ ~split.ready => /\ claimed = {} /\ live = {} /\ bumped = {}
                     /\ used = 0 /\ known = << >>
  /\ ~EarlyResize => IF split.ready THEN split.top = stackTop - StackBytes
                                    ELSE limit = stackTop

HeapInv ==
  /\ \A k \in claimed : split.heap <= k.lo /\ k.lo + k.size <= split.top
  /\ \A k, l \in claimed : k # l => Apart(k, l)

ArenaInv ==
  /\ used <= ArenaBytes /\ used % 8 = 0
  /\ \A b \in bumped :
       split.arena <= b.lo /\ b.lo + b.size <= split.arena + used
  /\ \A b, c \in bumped : b # c => Apart(b, c)

TableInv ==
  /\ \A i, j \in DOMAIN known : known[i].hash = known[j].hash => i = j
  /\ \A i \in DOMAIN known : \E b \in bumped : b.lo = known[i].at
  /\ \A i \in DOMAIN building : \E j \in DOMAIN known : known[j] = building[i]
  /\ \A h \in Hashes : \A p \in given[h] :
       \E i \in DOMAIN known : known[i] = [hash |-> h, at |-> p]

IInv ==
  /\ TypeOK /\ SplitInv /\ HeapInv /\ BlocksMatchClaims /\ ArenaInv /\ TableInv
=============================================================================

---------------------------- MODULE SwiShimProofs ----------------------------
(***************************************************************************)
(* A shim whose asm gives up every register its SWI overwrites delivers    *)
(* the answers it lists and returns with its caller's registers, under any *)
(* assignment of live values the compiler may choose.  Whatever the        *)
(* generator makes of entry and exit registers is such a shim, and so is   *)
(* every shim of the runtime, generated or written by hand.  That a SWI    *)
(* finds the arguments it takes needs more: the shim must have them as     *)
(* inputs.  It is proved of the shims written by hand; the generated ones  *)
(* are as complete as the database they come from.                         *)
(***************************************************************************)
EXTENDS SwiTables, TLAPS

\* What a shim's constraints must say of the registers after the SWI: every
\* one the SWI changes is named, lr and the scratch registers among them, and
\* what is returned or stored is an answer of the SWI.
Sound(s) ==
  /\ Scratch \cup s.writes \cup {LR} \subseteq Named(s)
  /\ s.stores \cup ({s.ret} \ {None}) \subseteq s.writes

\* And of those before it: what the SWI takes is an input.
Complete(s) == s.reads \subseteq s.in

AllSound == \A s \in Shims : Sound(s)
AllComplete == \A s \in Shims : Complete(s)

-----------------------------------------------------------------------------
LEMMA LowestInside == ASSUME NEW S \in SUBSET (0..12), S # {}
                      PROVE  Lowest(S) \in S
<1>1. \E r \in S : \A q \in S : r <= q
  <2>1. PICK a \in S : TRUE
    OBVIOUS
  <2> DEFINE Least(r) == r \in S /\ \A q \in S : r <= q
  <2>2. \/ Least(0) \/ Least(1) \/ Least(2) \/ Least(3) \/ Least(4) \/ Least(5)
        \/ Least(6) \/ Least(7) \/ Least(8) \/ Least(9) \/ Least(10)
        \/ Least(11) \/ Least(12)
    BY <2>1, SMTT(60)
  <2> QED
    BY <2>2
<1> QED
  BY <1>1 DEF Lowest

\* Whatever entry and exit registers the database gives for a SWI, the
\* generator's clobber list gives up the scratch registers and lr that are no
\* operands, and it returns and stores outputs only.
THEOREM GeneratedSound ==
  ASSUME NEW n, NEW takes, NEW entry \in SUBSET (0..12), NEW exit \in SUBSET (0..12)
  PROVE  Sound(Generated(n, takes, entry, exit))
<1> DEFINE s == Generated(n, takes, entry, exit)
<1>1. /\ s.writes = exit /\ s.in = entry /\ s.out = exit
      /\ s.clobber = (Scratch \ (entry \cup exit)) \cup {LR}
      /\ s.ret = Lowest(exit) /\ s.stores = exit \ {Lowest(exit)}
  BY DEF Generated, Shim, Outputs, Clobbers
<1>2. Lowest(exit) \in exit \cup {None}
  BY LowestInside DEF Lowest
<1>3. \A r \in Scratch \cup {LR} : r \in entry \cup exit \cup s.clobber
  BY <1>1
<1> HIDE DEF s
<1>4. Sound(s)
  BY <1>1, <1>2, <1>3 DEF Sound, Named
<1> QED
  BY <1>4 DEF s

-----------------------------------------------------------------------------
LEMMA HomesAllowed == ASSUME NEW s \in Shims, NEW h \in Homes(s)
                      PROVE  Allowed(s, h)
BY ShimsAssumption

\* A value kept in a register is in none the asm names.
LEMMA HomeUnnamed ==
  ASSUME NEW s, NEW h, Allowed(s, h), NEW v \in Live(s), h[v] # Stack
  PROVE  h[v] \in Regs /\ h[v] \notin Named(s)
BY DEF Allowed

LEMMA ShimTyped ==
  ASSUME NEW s \in Shims
  PROVE  /\ s.reads \subseteq 0..12 /\ s.writes \subseteq 0..12
         /\ s.in \subseteq 0..12 /\ s.out \subseteq 0..12
         /\ s.clobber \subseteq Regs /\ s.stores \subseteq 0..12
         /\ s.ret \in 0..12 \cup {None}
         /\ s.stores \subseteq Live(s) /\ LR \in Live(s) /\ Live(s) \subseteq 0..LR
BY ShimsAssumption DEF Live, LR

LEMMA ValuesClosed ==
  ASSUME NEW r \in 0..LR
  PROVE  /\ Caller(r) \in Values /\ Arg(r) \in Values /\ Kept(r) \in Values
         /\ Result(r) \in Values /\ AfterSwi \in Values /\ Junk \in Values
BY DEF Values, Caller, Arg, Kept, Result, AfterSwi, Junk, LR

LEMMA AtSwiTyped ==
  ASSUME NEW s \in Shims, NEW h
  PROVE  AtSwi(s, h) \in [Regs -> Values]
<1> SUFFICES ASSUME NEW r \in Regs PROVE AtSwi(s, h)[r] \in Values
  BY DEF AtSwi
<1>1. r \in 0..LR
  BY DEF Regs, LR
<1>2. (\E v \in Live(s) : h[v] = r) => (CHOOSE v \in Live(s) : h[v] = r) \in 0..LR
  BY ShimTyped
<1> QED
  BY <1>1, <1>2, ValuesClosed DEF AtSwi

LEMMA AfterKernelTyped ==
  ASSUME NEW s, NEW m, reg \in [Regs -> Values]
  PROVE  AfterKernel(s, m) \in [Regs -> Values]
<1> SUFFICES ASSUME NEW r \in Regs PROVE AfterKernel(s, m)[r] \in Values
  BY DEF AfterKernel
<1>1. r \in 0..LR
  BY DEF Regs, LR
<1> QED
  BY <1>1, ValuesClosed DEF AfterKernel

\* What the registers hold when the SWI is reached.
LEMMA AtSwiHolds ==
  ASSUME NEW s \in Shims, NEW h, Allowed(s, h)
  PROVE  /\ \A r \in s.in : AtSwi(s, h)[r] = Arg(r)
         /\ \A v \in Live(s) : h[v] # Stack => AtSwi(s, h)[h[v]] = Kept(v)
         /\ \A r \in CalleeSaved \ Saved(s, h) : AtSwi(s, h)[r] = Caller(r)
<1>1. \A r \in s.in : AtSwi(s, h)[r] = Arg(r)
  BY ShimTyped DEF AtSwi, Regs
<1>2. ASSUME NEW v \in Live(s), h[v] # Stack
      PROVE  AtSwi(s, h)[h[v]] = Kept(v)
  <2>1. h[v] \in Regs /\ h[v] \notin s.in
    BY <1>2, HomeUnnamed DEF Named
  <2>2. \A u \in Live(s) : h[u] = h[v] => u = v
    BY <1>2 DEF Allowed
  <2>3. (CHOOSE u \in Live(s) : h[u] = h[v]) = v
    BY <2>2
  <2> QED
    BY <2>1, <2>3 DEF AtSwi
<1>3. ASSUME NEW r \in CalleeSaved \ Saved(s, h)
      PROVE  AtSwi(s, h)[r] = Caller(r)
  <2>1. r \in Regs /\ r \notin s.in /\ ~\E v \in Live(s) : h[v] = r
    BY DEF CalleeSaved, Saved, Named, HomeOf, Regs
  <2> QED
    BY <2>1 DEF AtSwi
<1> QED
  BY <1>1, <1>2, <1>3

-----------------------------------------------------------------------------
LEMMA InitInvariant == ASSUME Init PROVE IInv
<1>1. Allowed(shim, home)
  BY HomesAllowed DEF Init
<1>2. reg \in [Regs -> Values]
  BY ValuesClosed DEF Init, Regs, CalleeSaved, LR
<1>3. cell \in [shim.stores -> Values] /\ \A r \in shim.stores : cell[r] = Junk
  BY ValuesClosed DEF Init, LR
<1> QED
  BY <1>1, <1>2, <1>3 DEF Init, IInv, TypeOK

LEMMA CallStep == ASSUME IInv, Call PROVE IInv'
<1>1. AtSwi(shim, home) \in [Regs -> Values]
  BY AtSwiTyped DEF IInv, TypeOK
<1> QED
  BY <1>1 DEF IInv, TypeOK, Call, Allowed, AtSwi, Live

LEMMA SwiStep == ASSUME AllSound, IInv, Swi PROVE IInv'
<1>1. shim \in Shims /\ Allowed(shim, home) /\ reg = AtSwi(shim, home) /\ reg \in [Regs -> Values]
  BY DEF IInv, TypeOK, Swi
<1>2. Sound(shim)
  BY <1>1 DEF AllSound
<1>3. reg' \in [Regs -> Values]
  BY <1>1, AfterKernelTyped DEF Swi
<1>4. ASSUME NEW v \in Live(shim), home[v] # Stack
      PROVE  reg'[home[v]] = Kept(v)
  <2>1. home[v] \in Regs /\ home[v] \notin Named(shim)
    BY <1>1, <1>4, HomeUnnamed
  <2>2. home[v] \notin shim.writes /\ home[v] \notin Scratch /\ home[v] # LR
    BY <2>1, <1>2 DEF Sound
  <2> QED
    BY <1>1, <1>4, <2>1, <2>2, AtSwiHolds DEF Swi, AfterKernel
<1>5. \A r \in shim.writes : reg'[r] = Result(r)
  BY <1>1, ShimTyped DEF Swi, AfterKernel, Regs
<1>6. ASSUME NEW r \in CalleeSaved \ Saved(shim, home)
      PROVE  reg'[r] = Caller(r)
  <2>1. r \in Regs /\ r \notin Named(shim)
    BY DEF CalleeSaved, Saved, Regs
  <2>2. r \notin shim.writes /\ r \notin Scratch /\ r # LR
    BY <2>1, <1>2 DEF Sound
  <2> QED
    BY <1>1, <2>1, <2>2, AtSwiHolds DEF Swi, AfterKernel
<1>7. \A v \in Live(shim) : Holds(v)'
  BY <1>4 DEF Holds, Swi
<1> QED
  BY <1>3, <1>5, <1>6, <1>7 DEF IInv, TypeOK, Swi, Allowed, Live, Saved

LEMMA StoreStep == ASSUME AllSound, IInv, Store PROVE IInv'
<1>1. PICK r \in left :
        /\ left' = left \ {r}
        /\ cell' = IF r \in wanted /\ Holds(r) THEN [cell EXCEPT ![r] = reg[r]] ELSE cell
  BY DEF Store
<1>2. shim \in Shims /\ Sound(shim) /\ left \subseteq shim.stores /\ cell \in [shim.stores -> Values]
  BY DEF IInv, TypeOK, AllSound
<1>3. r \in Live(shim) /\ Holds(r) /\ r \in shim.writes
  BY <1>1, <1>2 DEF Live, Sound, IInv, Store
<1>4. reg[r] = Result(r) /\ cell[r] = Junk /\ reg[r] \in Values
  BY <1>1, <1>3, <1>2, ShimTyped DEF IInv, Store, TypeOK, Regs
<1>5. cell' \in [shim.stores -> Values]
  BY <1>1, <1>2, <1>4
<1>6. cell'[r] = IF r \in wanted THEN Result(r) ELSE Junk
  BY <1>1, <1>2, <1>3, <1>4
<1>7. \A q \in shim.stores \ {r} : cell'[q] = cell[q]
  BY <1>1, <1>2
<1> QED
  BY <1>1, <1>2, <1>5, <1>6, <1>7
  DEF IInv, TypeOK, Store, Delivered, Allowed, Live, Holds, Saved, Named, HomeOf

LEMMA ReturnStep == ASSUME AllSound, IInv, Return PROVE IInv'
<1>1. Holds(LR)
  BY DEF IInv, Return, Live
<1>2. reg' = Epilogue /\ pc' = "returned" /\ left' = {}
  BY <1>1 DEF Return
<1>3. Epilogue \in [Regs -> Values]
  <2> SUFFICES ASSUME NEW r \in Regs PROVE Epilogue[r] \in Values
    BY DEF Epilogue
  <2>1. r \in 0..LR /\ Caller(r) \in Values /\ reg[r] \in Values
    BY ValuesClosed DEF Regs, LR, IInv, TypeOK
  <2>2. shim.ret # None => reg[shim.ret] \in Values
    BY ShimTyped DEF IInv, TypeOK, Regs
  <2> QED
    BY <2>1, <2>2 DEF Epilogue
<1> QED
  BY <1>2, <1>3 DEF IInv, TypeOK, Return, Allowed, Live

LEMMA NextStep == ASSUME AllSound, IInv, [Next]_vars PROVE IInv'
<1>1. CASE UNCHANGED vars
  BY <1>1 DEF vars, IInv, TypeOK, Allowed, Live, AtSwi, Delivered, Holds, Saved, Named, HomeOf
<1>2. CASE GoOn
  BY <1>1, <1>2 DEF GoOn
<1> QED
  BY <1>1, <1>2, CallStep, SwiStep, StoreStep, ReturnStep DEF Next

\* IInv holds at every step of every shim, for any set of sound shims.
THEOREM Invariance == AllSound => (Spec => []IInv)
<1> SUFFICES ASSUME AllSound PROVE Spec => []IInv
  OBVIOUS
<1> QED
  BY InitInvariant, NextStep, PTL DEF Spec

-----------------------------------------------------------------------------
\* Every SWI finds its arguments in their registers, for sound shims that
\* have all of them as inputs.
THEOREM ArgumentsAlwaysInPlace == AllSound /\ AllComplete => (Spec => []ArgumentsInPlace)
<1> SUFFICES ASSUME AllSound, AllComplete PROVE Spec => []ArgumentsInPlace
  OBVIOUS
<1>1. IInv => ArgumentsInPlace
  <2> SUFFICES ASSUME IInv, pc = "ready", NEW r \in shim.reads
               PROVE  reg[r] = Arg(r)
    BY DEF ArgumentsInPlace
  <2>1. shim \in Shims /\ Allowed(shim, home) /\ reg = AtSwi(shim, home)
    BY DEF IInv, TypeOK
  <2>2. r \in shim.in
    BY <2>1 DEF AllComplete, Complete
  <2> QED
    BY <2>1, <2>2, AtSwiHolds
<1> QED
  BY <1>1, Invariance, PTL

\* The epilogue puts the result in r0 and gives the callee-saved registers
\* back: those the compiler saved, and the others, which nothing changed.
LEMMA EpilogueRight ==
  ASSUME AllSound, IInv, Return
  PROVE  ResultsDelivered' /\ CallerRegistersKept'
<1>1. /\ shim \in Shims /\ Sound(shim) /\ left = {} /\ pc = "answered"
      /\ \A r \in shim.stores : Delivered(r)
      /\ \A r \in shim.writes : reg[r] = Result(r)
      /\ \A r \in CalleeSaved \ Saved(shim, home) : reg[r] = Caller(r)
  BY DEF IInv, TypeOK, AllSound, Return
<1>2. Holds(LR)
  BY <1>1 DEF IInv, Live
<1>3. reg' = Epilogue
  BY <1>2 DEF Return
<1>4. ASSUME shim.ret # None
      PROVE  reg'[0] = Result(shim.ret)
  <2>1. shim.ret \in shim.writes
    BY <1>1, <1>4 DEF Sound
  <2> QED
    BY <1>1, <1>3, <1>4, <2>1 DEF Epilogue, Regs
<1>5. ASSUME NEW r \in CalleeSaved
      PROVE  reg'[r] = Caller(r)
  BY <1>1, <1>3 DEF Epilogue, Regs, CalleeSaved
<1> QED
  BY <1>1, <1>4, <1>5 DEF Return, ResultsDelivered, CallerRegistersKept, Delivered

LEMMA AnswerStep ==
  ASSUME AllSound, IInv, ResultsDelivered, CallerRegistersKept, [Next]_vars
  PROVE  ResultsDelivered' /\ CallerRegistersKept'
<1>1. CASE UNCHANGED vars
  BY <1>1 DEF vars, ResultsDelivered, CallerRegistersKept, Delivered
<1>2. CASE GoOn
  BY <1>1, <1>2 DEF GoOn
<1>3. CASE Call \/ Swi \/ Store
  BY <1>3 DEF Call, Swi, Store, ResultsDelivered, CallerRegistersKept
<1> QED
  BY <1>1, <1>2, <1>3, EpilogueRight DEF Next

LEMMA AnswersRight ==
  ASSUME AllSound PROVE Spec => [](ResultsDelivered /\ CallerRegistersKept)
<1>1. Init => ResultsDelivered /\ CallerRegistersKept
  BY DEF Init, ResultsDelivered, CallerRegistersKept
<1> QED
  BY <1>1, AnswerStep, Invariance, PTL DEF Spec

\* The caller of a sound shim finds the SWI's results where C puts them.
THEOREM ResultsAlwaysDelivered == AllSound => (Spec => []ResultsDelivered)
<1> SUFFICES ASSUME AllSound PROVE Spec => []ResultsDelivered
  OBVIOUS
<1> QED
  BY AnswersRight, PTL

\* A sound shim keeps the registers the calling standard says it keeps.
THEOREM CallerRegistersAlwaysKept == AllSound => (Spec => []CallerRegistersKept)
<1> SUFFICES ASSUME AllSound PROVE Spec => []CallerRegistersKept
  OBVIOUS
<1> QED
  BY AnswersRight, PTL

\* No step of a sound shim leads from the epilogue back into the shim: a step
\* from the last store is the return to the caller.
THEOREM ReturnsLeave ==
  AllSound => (Spec => [][Return => pc' = "returned"]_vars)
<1> SUFFICES ASSUME AllSound PROVE Spec => [][Return => pc' = "returned"]_vars
  OBVIOUS
<1>1. IInv => [Return => pc' = "returned"]_vars
  BY DEF IInv, Return, Live
<1> QED
  BY <1>1, Invariance, PTL

-----------------------------------------------------------------------------
(* The shims of the runtime. *)

\* All shims of one row of the tables.
LEMMA SwisSound ==
  ASSUME NEW entry \in SUBSET (0..12), NEW exit \in SUBSET (0..12), NEW numbers
  PROVE  \A s \in Swis(entry, exit, numbers) : Sound(s)
BY GeneratedSound DEF Swis

LEMMA GeneratedShimsSound == \A s \in GeneratedShims : Sound(s)
<1>1. \A s \in Adfs \cup Basictrans \cup Buffer \cup Cache \cup
            ColourPicker \cup ColourTransA \cup ColourTransB \cup
            CompressJpeg \cup Debugger \cup DeviceFs :
       Sound(s)
  BY SwisSound
  DEF Adfs, Basictrans, Buffer, Cache, ColourPicker, ColourTransA,
      ColourTransB, CompressJpeg, Debugger, DeviceFs
<1>2. \A s \in Dma \cup Dosfs \cup DragAnObject \cup DragAsprite \cup
            Draw \cup DrawFile \cup EconetA \cup EconetB \cup FileCore \cup
            FilerAction :
       Sound(s)
  BY SwisSound
  DEF Dma, Dosfs, DragAnObject, DragAsprite, Draw, DrawFile, EconetA,
      EconetB, FileCore, FilerAction
<1>3. \A s \in Filter \cup FontA \cup FontB \cup FontC \cup Fpemulator \cup
            Fslock \cup Hourglass \cup Iic \cup Joystick \cup Jpeg :
       Sound(s)
  BY SwisSound
  DEF Filter, FontA, FontB, FontC, Fpemulator, Fslock, Hourglass, Iic,
      Joystick, Jpeg
<1>4. \A s \in MakePsfont \cup MessageTrans \cup NetFs \cup NetPrint \cup
            OsA \cup OsB \cup OsC \cup OsD \cup OsE \cup Parallel :
       Sound(s)
  BY SwisSound
  DEF MakePsfont, MessageTrans, NetFs, NetPrint, OsA, OsB, OsC, OsD, OsE,
      Parallel
<1>5. \A s \in PdriverA \cup PdriverB \cup Pdumper \cup Podule \cup
            Portable \cup RamFs \cup ResourceFs \cup ScreenBlanker \cup
            SharedClibrary \cup Shell :
       Sound(s)
  BY SwisSound
  DEF PdriverA, PdriverB, Pdumper, Podule, Portable, RamFs, ResourceFs,
      ScreenBlanker, SharedClibrary, Shell
<1>6. \A s \in SoundA \cup SoundB \cup TaskManager \cup TerritoryA \cup
            TerritoryB \cup WimpA \cup WimpB \cup WimpC :
       Sound(s)
  BY SwisSound
  DEF SoundA, SoundB, TaskManager, TerritoryA, TerritoryB, WimpA, WimpB,
      WimpC
<1> QED
  BY <1>1, <1>2, <1>3, <1>4, <1>5, <1>6 DEF GeneratedShims

LEMMA HandShimsSound == \A s \in HandShims : Sound(s) /\ Complete(s)
BY DEF HandShims, OsWritec, OsWrite0, OsGetenv, OsMemLimit, HeapInit, HeapAlloc,
       HeapFree, ModWrite0, ModWritec, ModNewline, ModClaim, ModFree,
       WimpInitialise, WimpCloseDown, Shim, Sound, Complete, Named, Scratch, LR, None

\* The asm statement of every shim in the repository gives up r0-r3, r12 and
\* lr and the registers of the answers it lists, and returns and stores
\* nothing but such answers.
THEOREM RuntimeShimsSound == \A s \in RuntimeShims : Sound(s)
BY GeneratedShimsSound, HandShimsSound DEF RuntimeShims

\* So the callers of the repository's shims get the answers the shims list
\* and keep their registers, in either processor mode and wherever the
\* compiler keeps its values.
THEOREM RuntimeShimsWork ==
  ASSUME Shims \subseteq RuntimeShims
  PROVE  Spec => [](ResultsDelivered /\ CallerRegistersKept)
<1>1. AllSound
  BY RuntimeShimsSound DEF AllSound
<1> QED
  BY <1>1, ResultsAlwaysDelivered, CallerRegistersAlwaysKept, PTL

\* The SWIs behind the hand-written shims find every argument their comments
\* and reason codes call for, OS_Heap's and OS_Module's and the message list
\* of Wimp_Initialise among them.
THEOREM HandShimsPassArguments ==
  ASSUME Shims \subseteq HandShims
  PROVE  Spec => []ArgumentsInPlace
<1>1. AllSound /\ AllComplete
  BY HandShimsSound DEF AllSound, AllComplete
<1> QED
  BY <1>1, ArgumentsAlwaysInPlace, PTL
=============================================================================

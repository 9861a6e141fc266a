------------------------------ MODULE SwiShim ------------------------------
(***************************************************************************)
(* One C function around one SWI instruction, from its call to its return: *)
(* the shims that tools/gen_riscos_pkg.py generates and the ones written   *)
(* by hand in rostrt.c, modrt.c and wimp.c.  A shim is its asm statement:  *)
(* which registers are operands, which are clobbers, which register it     *)
(* returns and which it stores through the caller's out pointers.          *)
(*                                                                         *)
(* What the C compiler does around the asm is external: it may keep a      *)
(* value it needs afterwards in any register the asm does not name.  So is *)
(* the kernel: a SWI may corrupt r0-r3 and r12, and in SVC mode, where     *)
(* every module runs, the SWI instruction itself overwrites lr.            *)
(***************************************************************************)
EXTENDS Integers

CONSTANTS
  Shims,     \* the shims, records made by Shim or Generated
  Homes(_)   \* the assignments of a shim's live values the compiler considers

LR    == 14
Stack == -1          \* a home in memory, which no SWI touches
None  == -1
Regs  == 0..12 \cup {LR}
CalleeSaved == 4..11
Scratch == {0, 1, 2, 3, 12}

\* reads: the registers the SWI takes arguments in, which the shim does not
\* decide.  writes: those the shim takes answers from.  in, out, clobber: the
\* asm's constraints ("+r" is in both).  stores: what goes behind out pointers.
Shim(n, reads, writes, in, out, clobber, ret, stores) ==
  [swi |-> n, reads |-> reads, writes |-> writes, in |-> in, out |-> out,
   clobber |-> clobber, ret |-> ret, stores |-> stores]

Lowest(S) == IF S = {} THEN None ELSE CHOOSE r \in S : \A q \in S : r <= q

\* Mistakes: the clobber list without lr, and without r12.
ClobbersNoLr(used) == Scratch \ used
ClobbersNoR12(used) == ((0..3) \ used) \cup {LR}

Clobbers(used) == (Scratch \ used) \cup {LR}

\* Mistake: results above r3 are returned but not declared as outputs.
OutputsLow(exit) == exit \cap (0..3)

Outputs(exit) == exit

\* classify: the entry and exit registers of the generator's database become
\* operands, the lowest exit register is the result and the others go through
\* pointers.  What the SWI takes is not for the database to say.
Generated(n, takes, entry, exit) ==
  Shim(n, takes, exit, entry, Outputs(exit), Clobbers(entry \cup exit),
       Lowest(exit), exit \ {Lowest(exit)})

\* The values a shim needs after its SWI: its return address, under the name
\* LR, and the out pointers, each under the name of its register.
Live(s) == s.stores \cup {LR}
Named(s) == s.in \cup s.out \cup s.clobber
Allowed(s, h) ==
  /\ h \in [Live(s) -> (Regs \ Named(s)) \cup {Stack}]
  /\ \A u, v \in Live(s) : h[u] = h[v] /\ h[u] # Stack => u = v

ASSUME ShimsAssumption ==
  \A s \in Shims :
    /\ s.reads \subseteq 0..12 /\ s.writes \subseteq 0..12
    /\ s.in \subseteq 0..12    /\ s.out \subseteq 0..12
    /\ s.clobber \subseteq Regs
    /\ s.stores \subseteq 0..12 /\ s.ret \in 0..12 \cup {None}
    /\ \A h \in Homes(s) : Allowed(s, h)

VARIABLES
  pc,      \* "caller", "ready", "answered" or "returned"
  shim,    \* the shim called last
  mode,    \* the processor mode it runs in: "usr" or "svc"
  wanted,  \* the out pointers that are not null
  home,    \* where the compiler keeps each live value over the SWI
  left,    \* the stores still to do
  reg,     \* the registers, each a pair <<what, of which register>>
  cell     \* the caller's cells behind the out pointers

vars == <<pc, shim, mode, wanted, home, left, reg, cell>>

Caller(r) == <<"caller", r>>    \* what the caller had in a callee-saved register
Arg(r)    == <<"arg", r>>       \* the argument meant for register r
Kept(v)   == <<"live", v>>      \* an out pointer, or the return address
Result(r) == <<"result", r>>    \* what the SWI answers in register r
AfterSwi  == <<"after", LR>>    \* the address of the instruction after the SWI
Junk      == <<"junk", 0>>
Values == {"caller", "arg", "live", "result", "after", "junk"} \X (0..LR)

Holds(v) == home[v] = Stack \/ reg[home[v]] = Kept(v)
HomeOf(s, h) == {h[v] : v \in Live(s)}

\* The callee-saved registers the compiler knows the shim changes.
Saved(s, h) == CalleeSaved \cap (Named(s) \cup HomeOf(s, h))

\* The registers when the SWI is reached.
AtSwi(s, h) ==
  [r \in Regs |->
     IF r \in s.in THEN Arg(r)
     ELSE IF \E v \in Live(s) : h[v] = r THEN Kept(CHOOSE v \in Live(s) : h[v] = r)
     ELSE IF r \in CalleeSaved THEN Caller(r) ELSE Junk]

AfterKernel(s, m) ==
  [r \in Regs |->
     IF r \in s.writes THEN Result(r)
     ELSE IF r \in Scratch THEN Junk
     ELSE IF r = LR /\ m = "svc" THEN AfterSwi ELSE reg[r]]

-----------------------------------------------------------------------------
Init ==
  /\ pc = "caller"
  /\ shim \in Shims /\ mode \in {"usr", "svc"}
  /\ wanted \in SUBSET shim.stores
  /\ home \in Homes(shim)
  /\ left = {}
  /\ reg = [r \in Regs |-> IF r \in CalleeSaved THEN Caller(r) ELSE Junk]
  /\ cell = [r \in shim.stores |-> Junk]

\* The call, up to the SWI instruction.
Call ==
  /\ pc = "caller"
  /\ pc' = "ready"
  /\ reg' = AtSwi(shim, home)
  /\ UNCHANGED <<shim, mode, wanted, home, left, cell>>

\* The SWI itself.
Swi ==
  /\ pc = "ready"
  /\ pc' = "answered"
  /\ reg' = AfterKernel(shim, mode)
  /\ left' = shim.stores
  /\ UNCHANGED <<shim, mode, wanted, home, cell>>

\* if (out_x) *out_x = regr; the highest register is stored first.  A pointer
\* whose home the SWI overwrote leads somewhere else.
Store ==
  /\ pc = "answered"
  /\ \E r \in left :
       /\ \A q \in left : q <= r
       /\ left' = left \ {r}
       /\ cell' = IF r \in wanted /\ Holds(r) THEN [cell EXCEPT ![r] = reg[r]]
                                              ELSE cell
  /\ UNCHANGED <<pc, shim, mode, wanted, home, reg>>

\* The epilogue: the result to r0, the saved registers back.
Epilogue ==
  [r \in Regs |->
     IF r = 0 /\ shim.ret # None THEN reg[shim.ret]
     ELSE IF r \in Saved(shim, home) THEN Caller(r) ELSE reg[r]]

\* mov pc, lr.  With the SWI's own return address in lr it leads back into
\* the shim, to the instruction after the SWI.
Return ==
  /\ pc = "answered" /\ left = {}
  /\ IF Holds(LR) THEN pc' = "returned" /\ left' = {} /\ reg' = Epilogue
                  ELSE pc' = "answered" /\ left' = shim.stores /\ reg' = reg
  /\ UNCHANGED <<shim, mode, wanted, home, cell>>

\* The program goes on; what it does until its next SWI is its own business.
GoOn == pc = "returned" /\ UNCHANGED vars

Next == Call \/ Swi \/ Store \/ Return \/ GoOn

Spec == Init /\ [][Next]_vars /\ WF_vars(Next)

-----------------------------------------------------------------------------
TypeOK ==
  /\ pc \in {"caller", "ready", "answered", "returned"}
  /\ shim \in Shims /\ mode \in {"usr", "svc"}
  /\ wanted \subseteq shim.stores /\ left \subseteq shim.stores
  /\ Allowed(shim, home)
  /\ reg \in [Regs -> Values] /\ cell \in [shim.stores -> Values]

Delivered(r) == cell[r] = IF r \in wanted THEN Result(r) ELSE Junk

\* Between the SWI and the return every value the compiler still needs is
\* where it was put, every result is in its register, every callee-saved
\* register the compiler did not save is the caller's, and the stores done
\* are right.
IInv ==
  /\ TypeOK
  /\ pc \in {"caller", "ready"} => \A r \in shim.stores : cell[r] = Junk
  /\ pc = "ready" => reg = AtSwi(shim, home)
  /\ pc = "answered" =>
       /\ \A v \in Live(shim) : Holds(v)
       /\ \A r \in shim.writes : reg[r] = Result(r)
       /\ \A r \in CalleeSaved \ Saved(shim, home) : reg[r] = Caller(r)
       /\ \A r \in left : cell[r] = Junk
       /\ \A r \in shim.stores \ left : Delivered(r)

\* The SWI finds every argument it reads in the register it reads it from,
\* also where the compiler was free to use that register for something else
\* (the data abort described in wimp.c).
ArgumentsInPlace == pc = "ready" => \A r \in shim.reads : reg[r] = Arg(r)

\* The caller gets the result the SWI left in the shim's result register and
\* finds the others behind the pointers it passed, wherever the compiler kept
\* those pointers over the SWI; null pointers are left alone.
ResultsDelivered ==
  pc = "returned" => /\ \A r \in shim.stores : Delivered(r)
                     /\ shim.ret # None => reg[0] = Result(shim.ret)

\* A shim is a C function: r4 to r11 come back as its caller had them, also
\* when the SWI answers in them.
CallerRegistersKept ==
  pc = "returned" => \A r \in CalleeSaved : reg[r] = Caller(r)

\* Every shim returns to its caller, in SVC mode too, where the SWI overwrites
\* lr (the one-instruction loop described in gen_riscos_pkg.py and modrt.c).
EveryShimReturns == <>(pc = "returned")
=============================================================================

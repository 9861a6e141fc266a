------------------------------ MODULE Objects ------------------------------
(***************************************************************************)
(* What both linkers are given, objects as src/elf.rs reads them, and how  *)
(* both resolve a reference.  Of the bytes only the relocated words are    *)
(* modelled.                                                               *)
(***************************************************************************)
EXTENDS Integers, Sequences

CONSTANTS
  Inputs     \* the links considered: records of sections, symbols, relocs, rwpi

\* The sections kept from all objects, in object order; the alignment is four
\* at least.
Section == [kind : {"header", "code", "data", "bss"}, size : Nat \ {0}, align : Nat \ (0..3)]

\* sec is the number of the section.  An undefined symbol has sec 0, and so
\* has one in a dropped section.
Symbol == [name : STRING, sec : Nat, value : Nat, global : BOOLEAN]

\* "rel" stands for CALL, JUMP24 and REL32, "abs" for ABS32, MOVW and MOVT.
Reloc == [sec : Nat, offset : Nat, sym : Nat, type : {"abs", "rel", "sbrel", "got"}]

ASSUME InputsAssumption ==
  \A x \in Inputs :
    /\ x.sections \in Seq(Section) /\ x.symbols \in Seq(Symbol) /\ x.relocs \in Seq(Reloc)
    /\ x.rwpi \in BOOLEAN
    /\ \A i \in 1..Len(x.symbols) : x.symbols[i].sec \in 0..Len(x.sections)
    /\ \A i \in 1..Len(x.relocs) : /\ x.relocs[i].sec \in 1..Len(x.sections)
                                   /\ x.relocs[i].sym \in 1..Len(x.symbols)

VARIABLES
  sections, symbols, relocs,
  rwpi       \* a module's header object was generated with --rwpi, which no
             \* linker looks at

input == <<sections, symbols, relocs, rwpi>>

ObjectsInit ==
  \E x \in Inputs :
    /\ sections = x.sections /\ symbols = x.symbols /\ relocs = x.relocs
    /\ rwpi = x.rwpi

AlignTo(x, a) == ((x + a - 1) \div a) * a
Extend(f, s, v) == [t \in DOMAIN f \cup {s} |-> IF t = s THEN v ELSE f[t]]
Writable(s) == sections[s].kind \in {"data", "bss"}

\* The table of globals: of several definitions the last stays.
Globals(name) ==
  {i \in 1..Len(symbols) : /\ symbols[i].name = name
                           /\ symbols[i].global /\ symbols[i].sec # 0}
None == 0

\* Mistake: the first definition of the name, local or not.
GlobalFirst(name) ==
  LET defs == {i \in 1..Len(symbols) : symbols[i].name = name /\ symbols[i].sec # 0}
  IN  IF defs = {} THEN None ELSE CHOOSE i \in defs : \A j \in defs : i <= j

Global(name) ==
  IF Globals(name) = {} THEN None
  ELSE CHOOSE i \in Globals(name) : \A j \in Globals(name) : j <= i

\* The definition a relocation is given: a global of the name, wherever it
\* is, before the symbol's own section.
Resolved(r) ==
  IF symbols[relocs[r].sym].sec = 0 \/ Global(symbols[relocs[r].sym].name) # None
    THEN Global(symbols[relocs[r].sym].name)
    ELSE relocs[r].sym
=============================================================================

----------------------------- MODULE ModuleLink -----------------------------
(***************************************************************************)
(* The relocatable module writer (src/module.rs): sections laid out in two *)
(* address spaces, symbols resolved, relocations checked and applied, the  *)
(* parameter block filled and the debugger's sidecar laid out once more.   *)
(*                                                                         *)
(* Read-only sections are at offsets from the module's start, writable     *)
(* ones at offsets from the static base, and neither is known when the     *)
(* module is linked.                                                       *)
(***************************************************************************)
EXTENDS Objects

HeaderSize == 52
PARAMS == "__mod_params"

VARIABLES
  phase,      \* where build and write_module are
  next,       \* the section or relocation next in turn
  cursor,     \* of the space being laid out
  addr,       \* the sections placed, with their addresses
  roEnd, rwDataEnd, sbSize,
  words,      \* the relocations applied, with the value stored
  absSites,   \* absolute relocations outside the header
  params,     \* the parameter block
  sideAddr    \* the sidecar's addresses

linkVars == <<input, phase, next, cursor, addr, roEnd, rwDataEnd, sbSize,
              words, absSites, params, sideAddr>>

Headers == {s \in 1..Len(sections) : sections[s].kind = "header"}
RwInitOff == AlignTo(roEnd, 16)
ImageLen == RwInitOff + rwDataEnd

LinkInit ==
  /\ ObjectsInit
  /\ phase = "header" /\ next = 1 /\ cursor = 0 /\ addr = << >>
  /\ roEnd = 0 /\ rwDataEnd = 0 /\ sbSize = 0
  /\ words = << >> /\ absSites = {} /\ params = << >> /\ sideAddr = << >>

\* A return with Err: nothing is written.
Refuse ==
  /\ phase' = "refused"
  /\ UNCHANGED <<input, next, cursor, addr, roEnd, rwDataEnd, sbSize, words,
                 absSites, params, sideAddr>>

\* The header section is word 0 of the module.
HeaderFirst ==
  /\ phase = "header"
  /\ \E s \in Headers :
       /\ Headers = {s} /\ sections[s].size >= HeaderSize
       /\ addr' = [t \in {s} |-> 0]
       /\ cursor' = sections[s].size
  /\ phase' = "code" /\ next' = 1
  /\ UNCHANGED <<input, roEnd, rwDataEnd, sbSize, words, absSites, params, sideAddr>>

HeaderMissing ==
  /\ phase = "header"
  /\ ~ \E s \in Headers : Headers = {s} /\ sections[s].size >= HeaderSize
  /\ Refuse

\* Mistake: the cursor is aligned, the section is not.
PlacedAtCursor(s) == cursor

Placed(s) == AlignTo(cursor, sections[s].align)

\* One section of the pass: read-only, then with contents, then zero-filled.
Passes == {"code", "data", "bss"}
Place ==
  /\ phase \in Passes /\ next <= Len(sections)
  /\ next' = next + 1
  /\ IF sections[next].kind = phase
       THEN /\ addr' = Extend(addr, next, Placed(next))
            /\ cursor' = AlignTo(cursor, sections[next].align) + sections[next].size
       ELSE UNCHANGED <<addr, cursor>>
  /\ UNCHANGED <<input, phase, roEnd, rwDataEnd, sbSize, words, absSites, params, sideAddr>>

CodePlaced ==
  /\ phase = "code" /\ next > Len(sections)
  /\ roEnd' = AlignTo(cursor, 4)
  /\ phase' = "data" /\ next' = 1 /\ cursor' = 0
  /\ UNCHANGED <<input, addr, rwDataEnd, sbSize, words, absSites, params, sideAddr>>

\* Mistake: the zero-filled sections start at the last byte of contents, so
\* the copy of the rounded size runs into them.
DataPlacedUnrounded ==
  /\ phase = "data" /\ next > Len(sections)
  /\ rwDataEnd' = AlignTo(cursor, 16) /\ cursor' = cursor
  /\ phase' = "bss" /\ next' = 1
  /\ UNCHANGED <<input, addr, roEnd, sbSize, words, absSites, params, sideAddr>>

DataPlaced ==
  /\ phase = "data" /\ next > Len(sections)
  /\ rwDataEnd' = AlignTo(cursor, 16) /\ cursor' = rwDataEnd'
  /\ phase' = "bss" /\ next' = 1
  /\ UNCHANGED <<input, addr, roEnd, sbSize, words, absSites, params, sideAddr>>

BssPlaced ==
  /\ phase = "bss" /\ next > Len(sections)
  /\ sbSize' = AlignTo(cursor, 4)
  /\ phase' = "relocate" /\ next' = 1
  /\ UNCHANGED <<input, cursor, addr, roEnd, rwDataEnd, words, absSites, params, sideAddr>>

-----------------------------------------------------------------------------
Value(i) == addr[symbols[i].sec] + symbols[i].value
InHeader(r) == relocs[r].sec \in Headers

\* Mistake: a writable section may hold a relocated value.
ExpressibleInData(r) ==
  LET static == Writable(symbols[Resolved(r)].sec)
  IN  CASE relocs[r].type = "got"   -> FALSE
        [] relocs[r].type = "sbrel" -> static
        [] OTHER                    -> ~static

\* What the two spaces and an unknown load address let a relocation say.
Expressible(r) ==
  LET static == Writable(symbols[Resolved(r)].sec)
  IN  CASE relocs[r].type = "got"   -> FALSE
        [] relocs[r].type = "sbrel" -> static
        [] OTHER                    -> ~static /\ ~Writable(relocs[r].sec)

Word(r) ==
  CASE relocs[r].type \in {"sbrel", "abs"} -> Value(Resolved(r))
    [] relocs[r].type = "rel" ->
         Value(Resolved(r)) - (addr[relocs[r].sec] + relocs[r].offset)

AbsoluteSite(r) == relocs[r].type = "abs" /\ ~InHeader(r)

\* relocation outside section: only the image's end stops it.
FileOff(s) == IF Writable(s) THEN RwInitOff + addr[s] ELSE addr[s]
InImage(r) == FileOff(relocs[r].sec) + relocs[r].offset + 4 <= ImageLen

Relocate ==
  /\ phase = "relocate" /\ next <= Len(relocs)
  /\ Resolved(next) # None
  /\ IF AbsoluteSite(next)
       THEN absSites' = absSites \cup {next} /\ UNCHANGED words
       ELSE /\ InImage(next) /\ Expressible(next)
            /\ words' = Extend(words, next, Word(next)) /\ UNCHANGED absSites
  /\ next' = next + 1
  /\ UNCHANGED <<input, phase, cursor, addr, roEnd, rwDataEnd, sbSize, params, sideAddr>>

CannotRelocate ==
  /\ phase = "relocate" /\ next <= Len(relocs)
  /\ \/ Resolved(next) = None
     \/ /\ Resolved(next) # None /\ ~AbsoluteSite(next)
        /\ ~(InImage(next) /\ Expressible(next))
  /\ Refuse

\* The parameter block, for the generated initialisation.
FillParams ==
  /\ phase = "relocate" /\ next > Len(relocs) /\ absSites = {}
  /\ IF Global(PARAMS) = None THEN sbSize = 0 /\ params' = << >>
     ELSE /\ ~Writable(symbols[Global(PARAMS)].sec)
          /\ Value(Global(PARAMS)) + 16 <= ImageLen
          /\ params' = <<RwInitOff, rwDataEnd, sbSize, Value(Global(PARAMS))>>
  /\ phase' = "check"
  /\ UNCHANGED <<input, next, cursor, addr, roEnd, rwDataEnd, sbSize, words,
                 absSites, sideAddr>>

CannotFill ==
  /\ phase = "relocate" /\ next > Len(relocs)
  /\ \/ absSites # {}
     \/ Global(PARAMS) = None /\ sbSize # 0
     \/ /\ Global(PARAMS) # None
        /\ \/ Writable(symbols[Global(PARAMS)].sec)
           \/ Value(Global(PARAMS)) + 16 > ImageLen
  /\ Refuse

\* check_header: a function of the header's words, which are not modelled.
\* The image is then on disc and the sidecar is begun.
CheckHeader ==
  /\ phase = "check"
  /\ \E s \in Headers : /\ sideAddr' = [t \in {s} |-> 0]
                        /\ cursor' = sections[s].size
  /\ phase' = "sidecar" /\ next' = 1
  /\ UNCHANGED <<input, addr, roEnd, rwDataEnd, sbSize, words, absSites, params>>

HeaderWrong == phase = "check" /\ Refuse

\* Mistake: the sidecar counts the writable sections along.
InSidecarAll(s) == sections[s].kind # "header"

InSidecar(s) == sections[s].kind = "code"

\* write_sidecar_elf lays the read-only sections out again, on words.
SidePlace ==
  /\ phase = "sidecar" /\ next <= Len(sections)
  /\ next' = next + 1
  /\ IF InSidecar(next)
       THEN /\ sideAddr' = Extend(sideAddr, next, AlignTo(cursor, 4))
            /\ cursor' = AlignTo(cursor, 4) + sections[next].size
       ELSE UNCHANGED <<sideAddr, cursor>>
  /\ UNCHANGED <<input, phase, addr, roEnd, rwDataEnd, sbSize, words, absSites, params>>

SidecarWritten ==
  /\ phase = "sidecar" /\ next > Len(sections)
  /\ phase' = "written"
  /\ UNCHANGED <<input, next, cursor, addr, roEnd, rwDataEnd, sbSize, words,
                 absSites, params, sideAddr>>

LinkNext ==
  \/ HeaderFirst \/ HeaderMissing \/ Place \/ CodePlaced \/ DataPlaced
  \/ BssPlaced \/ Relocate \/ CannotRelocate \/ FillParams \/ CannotFill
  \/ CheckHeader \/ HeaderWrong \/ SidePlace \/ SidecarWritten

LinkSpec == LinkInit /\ [][LinkNext]_linkVars

-----------------------------------------------------------------------------
Linked == phase \in {"relocate", "check", "sidecar", "written"}
End(s) == addr[s] + sections[s].size

\* Every section has bytes of its own, at a multiple of its alignment; what
\* the image carries is in the image; what the initialisation copies is what
\* has contents, and what it zeroes is the rest.
SectionsApart ==
  Linked =>
    /\ DOMAIN addr = 1..Len(sections)
    /\ \A s, t \in 1..Len(sections) :
         s # t /\ Writable(s) = Writable(t) => End(s) <= addr[t] \/ End(t) <= addr[s]
    /\ \A s \in 1..Len(sections) :
         /\ sections[s].kind = "header" => addr[s] = 0
         /\ sections[s].kind # "header" => addr[s] % sections[s].align = 0
         /\ ~Writable(s) => End(s) <= roEnd
         /\ sections[s].kind = "data" => End(s) <= rwDataEnd
         /\ sections[s].kind = "bss" => rwDataEnd <= addr[s] /\ End(s) <= sbSize
    /\ roEnd <= RwInitOff /\ rwDataEnd <= sbSize

\* Where a section is at run time, and what a relocated word leads to when the
\* code or RISC OS reads it.
RunTime(s, load, base) == addr[s] + (IF Writable(s) THEN base ELSE load)
Denotes(r, load, base) ==
  CASE relocs[r].type = "sbrel" -> base + words[r]
    [] relocs[r].type = "abs" -> IF InHeader(r) THEN load + words[r] ELSE words[r]
    [] relocs[r].type = "rel" ->
         RunTime(relocs[r].sec, load, base) + relocs[r].offset + words[r]

\* A module that is written works wherever the RMA and its static area are: a
\* relocated word leads to its symbol for any load address and static base.
RunsAt(load, base) ==
  phase = "written" =>
    \A r \in 1..Len(relocs) :
      LET i == Resolved(r)
      IN  /\ r \in DOMAIN words
          /\ Denotes(r, load, base) =
               RunTime(symbols[i].sec, load, base) + symbols[i].value

\* At a handful of addresses of each kind.
RunsAnywhere == \A load, base \in {0, 20, 400} : RunsAt(load, base)

\* A reference leads to the definition its object means: its own local one,
\* unless a global elsewhere has that name, or the one global there is.
MeantDefinition ==
  phase = "written" =>
    \A r \in 1..Len(relocs) :
      LET meant == symbols[relocs[r].sym]
          i     == Resolved(r)
      IN  /\ symbols[i].name = meant.name /\ symbols[i].sec # 0
          /\ meant.sec # 0 /\ Globals(meant.name) \subseteq {relocs[r].sym} =>
               i = relocs[r].sym
          /\ meant.sec = 0 => symbols[i].global

\* The debugger is told where the code is, as long as no read-only section
\* wants more than word alignment: the sidecar knows nothing of alignments.
SidecarAgrees ==
  phase = "written" /\ (\A s \in DOMAIN sideAddr : sections[s].align = 4) =>
    \A s \in DOMAIN sideAddr : sideAddr[s] = addr[s]
=============================================================================

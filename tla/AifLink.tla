------------------------------ MODULE AifLink ------------------------------
(***************************************************************************)
(* The absolute image writer (src/aif.rs, build): one address space from   *)
(* &8080, code then data, a GOT behind both, and the two symbols the       *)
(* linker defines, __image_end before the GOT is laid out and _end after.  *)
(***************************************************************************)
EXTENDS Objects, FiniteSets

CONSTANTS ImageBase   \* where the image starts: &8080

ASSUME BaseAssumption == ImageBase \in Nat /\ ImageBase % 4 = 0

VARIABLES
  aifPhase,   \* "code", "data", "got", "relocate", "written" or "refused"
  turn,       \* the section or relocation next in turn
  aifCursor,
  aifAddr,    \* the sections placed, with their addresses
  aifRoEnd,
  defined,    \* the linker's own symbols, with their values
  slots,      \* GOT slots by name, with address and value
  aifWords    \* the relocations applied, with the value stored

aifVars == <<aifPhase, turn, aifCursor, aifAddr, aifRoEnd, defined, slots, aifWords>>

AifInit ==
  /\ aifPhase = "code" /\ turn = 1 /\ aifCursor = ImageBase /\ aifAddr = << >>
  /\ aifRoEnd = 0 /\ defined = << >> /\ slots = << >> /\ aifWords = << >>

AifRefuse ==
  /\ aifPhase' = "refused"
  /\ UNCHANGED <<turn, aifCursor, aifAddr, aifRoEnd, defined, slots, aifWords>>

\* Word alignment, whatever the section asks for.
AifPlace ==
  /\ aifPhase \in {"code", "data"} /\ turn <= Len(sections)
  /\ turn' = turn + 1
  /\ IF Writable(turn) = (aifPhase = "data")
       THEN /\ aifAddr' = Extend(aifAddr, turn, AlignTo(aifCursor, 4))
            /\ aifCursor' = AlignTo(aifCursor, 4) + sections[turn].size
       ELSE UNCHANGED <<aifAddr, aifCursor>>
  /\ UNCHANGED <<aifPhase, aifRoEnd, defined, slots, aifWords>>

AifCodePlaced ==
  /\ aifPhase = "code" /\ turn > Len(sections)
  /\ aifPhase' = "data" /\ turn' = 1
  /\ UNCHANGED <<aifCursor, aifAddr, aifRoEnd, defined, slots, aifWords>>

\* The end of the read-only part is the first writable section's address.
\* The entry symbol is external to the model: a link without one is refused
\* here.
Statics == {s \in 1..Len(sections) : Writable(s)}
AifDataPlaced ==
  /\ aifPhase = "data" /\ turn > Len(sections)
  /\ aifRoEnd' = IF Statics = {} THEN aifCursor
                 ELSE aifAddr[CHOOSE s \in Statics : \A t \in Statics : s <= t]
  /\ defined' = [n \in {"__image_end"} |-> AlignTo(aifCursor, 4)]
  /\ aifPhase' = "got"
  /\ UNCHANGED <<turn, aifCursor, aifAddr, slots, aifWords>>

AifNoEntry == aifPhase = "data" /\ turn > Len(sections) /\ AifRefuse

-----------------------------------------------------------------------------
AifValue(i) == aifAddr[symbols[i].sec] + symbols[i].value

\* The linker's own symbols replace any definition of the same name.
Known(name) == name \in DOMAIN defined \/ Global(name) # None
ValueOf(name) ==
  IF name \in DOMAIN defined THEN defined[name] ELSE AifValue(Global(name))

NameAt(r) == symbols[relocs[r].sym].name
GotRelocs == {r \in 1..Len(relocs) : relocs[r].type = "got"}
GotNames == {NameAt(r) : r \in GotRelocs}

\* A name that is no global's is looked for in every object, the first
\* definition serving all.
Named(n) == {i \in 1..Len(symbols) : symbols[i].name = n /\ symbols[i].sec # 0}
GotValue(n) ==
  IF Known(n) THEN ValueOf(n)
  ELSE AifValue(CHOOSE i \in Named(n) : \A j \in Named(n) : i <= j)

\* The slots are in the order in which the names are first needed.
FirstUse(n) ==
  CHOOSE r \in GotRelocs : NameAt(r) = n /\ \A q \in GotRelocs : NameAt(q) = n => r <= q
SlotNumber(n) == Cardinality({m \in GotNames : FirstUse(m) < FirstUse(n)})

\* Mistake: the slots are placed from the cursor as it stands.
GotBaseUnaligned == aifCursor

GotBase == AlignTo(aifCursor, 4)

BuildGot ==
  /\ aifPhase = "got"
  /\ \A n \in GotNames : Known(n) \/ Named(n) # {}
  /\ slots' = [n \in GotNames |-> [at |-> GotBase + 4 * SlotNumber(n), value |-> GotValue(n)]]
  /\ aifCursor' = GotBase + 4 * Cardinality(GotNames)
  /\ defined' = Extend(defined, "_end", AlignTo(aifCursor', 4))
  /\ aifPhase' = "relocate" /\ turn' = 1
  /\ UNCHANGED <<aifAddr, aifRoEnd, aifWords>>

\* _end itself is not known yet.
CannotBuildGot ==
  /\ aifPhase = "got"
  /\ \E n \in GotNames : ~Known(n) /\ Named(n) = {}
  /\ AifRefuse

Target(r) ==
  IF symbols[relocs[r].sym].sec = 0 \/ Known(NameAt(r)) THEN ValueOf(NameAt(r))
  ELSE AifValue(relocs[r].sym)
Site(r) == aifAddr[relocs[r].sec] + relocs[r].offset

\* The image ends with the last byte, not with its last word.
AifAccepts(r) ==
  /\ symbols[relocs[r].sym].sec # 0 \/ Known(NameAt(r))
  /\ relocs[r].type # "sbrel" /\ Site(r) + 4 <= aifCursor

AifRelocate ==
  /\ aifPhase = "relocate" /\ turn <= Len(relocs) /\ AifAccepts(turn)
  /\ aifWords' = Extend(aifWords, turn,
                        CASE relocs[turn].type = "abs" -> Target(turn)
                          [] relocs[turn].type = "rel" -> Target(turn) - Site(turn)
                          [] relocs[turn].type = "got" -> slots[NameAt(turn)].at - Site(turn))
  /\ turn' = turn + 1
  /\ UNCHANGED <<aifPhase, aifCursor, aifAddr, aifRoEnd, defined, slots>>

AifCannotRelocate ==
  /\ aifPhase = "relocate" /\ turn <= Len(relocs) /\ ~AifAccepts(turn)
  /\ AifRefuse

AifWritten ==
  /\ aifPhase = "relocate" /\ turn > Len(relocs)
  /\ aifPhase' = "written"
  /\ UNCHANGED <<turn, aifCursor, aifAddr, aifRoEnd, defined, slots, aifWords>>

AifNext ==
  \/ AifPlace \/ AifCodePlaced \/ AifDataPlaced \/ AifNoEntry
  \/ BuildGot \/ CannotBuildGot \/ AifRelocate \/ AifCannotRelocate \/ AifWritten

-----------------------------------------------------------------------------
AifEnd(s) == aifAddr[s] + sections[s].size

\* Nothing linked overlaps anything else linked, slots included, or lies past
\* _end, from where the runtime takes its heap; statics are past the end of
\* what is read-only, and __image_end is past all sections.
ImageBelowEnd ==
  aifPhase = "written" =>
    /\ \A s, t \in DOMAIN aifAddr :
         s # t => AifEnd(s) <= aifAddr[t] \/ AifEnd(t) <= aifAddr[s]
    /\ \A s \in DOMAIN aifAddr :
         /\ ImageBase <= aifAddr[s] /\ AifEnd(s) <= defined["__image_end"]
         /\ AifEnd(s) <= defined["_end"]
         /\ IF Writable(s) THEN aifRoEnd <= aifAddr[s] ELSE AifEnd(s) <= aifRoEnd
    /\ \A n \in DOMAIN slots :
         /\ slots[n].at % 4 = 0 /\ slots[n].at + 4 <= defined["_end"]
         /\ \A s \in DOMAIN aifAddr : AifEnd(s) <= slots[n].at
         /\ \A m \in DOMAIN slots : m # n => slots[m].at # slots[n].at

\* Every reference, through the GOT or not, leads to the definition its object
\* means, unless its symbol is local and the name is used elsewhere as well:
\* globals of the name capture it, and the GOT keeps one slot for a name.  The
\* linker's own symbols go before any, but the GOT is filled before _end is
\* defined and can only lead to an _end of the objects.
Reached(r) ==
  CASE relocs[r].type = "abs" -> aifWords[r]
    [] relocs[r].type = "rel" -> Site(r) + aifWords[r]
    [] relocs[r].type = "got" ->
         slots[CHOOSE n \in DOMAIN slots : slots[n].at = Site(r) + aifWords[r]].value
LinkersOwn(r) ==
  NameAt(r) \in DOMAIN defined /\ ~(relocs[r].type = "got" /\ NameAt(r) = "_end")
ReferencesMeant ==
  aifPhase = "written" =>
    \A r \in 1..Len(relocs) :
      LET meant == symbols[relocs[r].sym]
      IN  /\ LinkersOwn(r) => Reached(r) = defined[meant.name]
          /\ ~LinkersOwn(r) /\ meant.sec # 0 /\ Named(meant.name) = {relocs[r].sym} =>
               Reached(r) = AifValue(relocs[r].sym)
          /\ ~LinkersOwn(r) /\ meant.sec = 0 =>
               \E i \in Named(meant.name) :
                 /\ Reached(r) = AifValue(i)
                 /\ meant.name # "_end" => symbols[i].global
=============================================================================

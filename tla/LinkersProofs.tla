--------------------------- MODULE LinkersProofs ---------------------------
(***************************************************************************)
(* The module linker for any objects: its layout, its relocations, and the *)
(* static area the initialisation makes of what it wrote.                  *)
(***************************************************************************)
EXTENDS Linkers, TLAPS, FiniteSetTheorems, WellFoundedInduction

-----------------------------------------------------------------------------
\* The loops of the static initialisation, on their own.
LEMMA LoopInvInit == Init => LoopInv
  BY SizesAssumption DEF Init, LoopInv, Words

LEMMA LoopInvNext == LoopInv /\ [Next]_vars => LoopInv'
  <1> SUFFICES ASSUME LoopInv, [Next]_vars PROVE LoopInv'
    OBVIOUS
  <1>1. /\ rw \in Nat /\ sb \in Nat /\ rw % 4 = 0 /\ sb % 4 = 0
        /\ rw <= sb /\ sb <= Limit
    <2>1. /\ <<rw, sb>>[1] = rw /\ <<rw, sb>>[2] = sb
      OBVIOUS
    <2>2. QED
      BY <2>1, SizesAssumption DEF LoopInv
  <1>2. ASSUME NEW o \in Words PROVE o \in Nat /\ o % 4 = 0
    BY SizesAssumption DEF Words
  <1>3. CASE CopyWord
    <2>1. r2 + 4 <= rw /\ r2 \in Words
      BY <1>1, <1>3, SizesAssumption DEF CopyWord, LoopInv, Words
    <2>2. ASSUME NEW o \in Words
          PROVE  area'[o] = IF o >= r2 + 4 THEN Junk
                            ELSE IF o < rw THEN Source(o) ELSE 0
      BY <1>1, <1>2, <1>3, <2>1 DEF CopyWord, LoopInv
    <2>3. QED
      BY <1>1, <1>3, <2>1, <2>2 DEF CopyWord, LoopInv
  <1>4. CASE CopyDone
    BY <1>1, <1>4 DEF CopyDone, LoopInv
  <1>5. CASE ZeroWord
    <2>1. r2 + 4 <= sb /\ r2 \in Words
      BY <1>1, <1>5, SizesAssumption DEF ZeroWord, LoopInv, Words
    <2>2. ASSUME NEW o \in Words
          PROVE  area'[o] = IF o >= r2 + 4 THEN Junk
                            ELSE IF o < rw THEN Source(o) ELSE 0
      BY <1>1, <1>2, <1>5, <2>1 DEF ZeroWord, LoopInv
    <2>3. QED
      BY <1>1, <1>5, <2>1, <2>2 DEF ZeroWord, LoopInv
  <1>6. CASE ZeroDone \/ Finished \/ UNCHANGED vars
    BY <1>1, <1>6 DEF ZeroDone, Finished, vars, LoopInv
  <1>7. QED
    BY <1>3, <1>4, <1>5, <1>6 DEF Next

LEMMA LoopFills == LoopInv => AreaFilled
  BY SizesAssumption DEF LoopInv, AreaFilled, Words

\* At every moment of the initialisation what each pointer has passed is in
\* its final state and nothing else has changed.
THEOREM LoopInvAlways == Spec => []LoopInv
  BY LoopInvInit, LoopInvNext, PTL DEF Spec

\* Whatever the sizes and the image, the C initialisation starts from the
\* initial contents followed by zeros, with nothing past the area written.
THEOREM AreaAlwaysFilled == Spec => []AreaFilled
  <1>1. LoopInv => AreaFilled
    BY LoopFills
  <1>2. QED
    BY <1>1, LoopInvAlways, PTL

-----------------------------------------------------------------------------
LEMMA Least ==
  ASSUME NEW T, T \subseteq Nat, T # {}
  PROVE  \E x \in T : \A y \in T : x <= y
  <1> DEFINE R == OpToRel(<, Nat)
  <1>1. \A x, y \in Nat : y < x => <<y, x>> \in R
    BY Zenon DEF OpToRel
  <1>2. IsWellFoundedOn(R, Nat)
    BY NatLessThanWellFounded, Zenon
  <1> HIDE DEF R
  <1>3. PICK x \in T : \A y \in T : ~(<<y, x>> \in R)
    BY <1>2, WFMin, Zenon
  <1>4. ASSUME NEW y \in T PROVE x <= y
    <2>1. x \in Nat /\ y \in Nat
      OBVIOUS
    <2>2. ~(y < x)
      BY <1>1, <1>3, <2>1
    <2>3. QED
      BY <2>1, <2>2
  <1>5. QED
    BY <1>4

LEMMA Greatest ==
  ASSUME NEW k \in Nat, NEW S, S \subseteq 1..k, S # {}
  PROVE  \E x \in S : \A y \in S : y <= x
  <1>0. \A x \in S : x \in Nat /\ k - x \in Nat
    <2>1. \A x \in S : x \in 1..k
      OBVIOUS
    <2>2. \A x \in 1..k : x \in Nat /\ k - x \in Nat
      OBVIOUS
    <2>3. QED
      BY <2>1, <2>2
  <1> DEFINE T == {k - x : x \in S}
  <1>1. T \subseteq Nat /\ T # {}
    BY <1>0
  <1>2. PICK t \in T : \A u \in T : t <= u
    BY <1>1, Least
  <1>3. PICK x \in S : t = k - x
    OBVIOUS
  <1>4. ASSUME NEW y \in S PROVE y <= x
    <2>1. t <= k - y
      BY <1>2
    <2>2. QED
      BY <1>0, <1>3, <2>1
  <1>5. QED
    BY <1>4

LEMMA AlignUp ==
  ASSUME NEW x \in Nat, NEW a \in Nat \ {0}
  PROVE  /\ AlignTo(x, a) \in Nat /\ x <= AlignTo(x, a) /\ AlignTo(x, a) % a = 0
  BY DEF AlignTo

-----------------------------------------------------------------------------
InputInv ==
  /\ sections \in Seq(Section) /\ symbols \in Seq(Symbol) /\ relocs \in Seq(Reloc)
  /\ \A i \in 1..Len(symbols) : symbols[i].sec \in 0..Len(sections)
  /\ \A i \in 1..Len(relocs) : /\ relocs[i].sec \in 1..Len(sections)
                               /\ relocs[i].sym \in 1..Len(symbols)

LEMMA SectionTypes ==
  ASSUME InputInv, NEW s \in 1..Len(sections)
  PROVE  /\ sections[s].kind \in {"header", "code", "data", "bss"}
         /\ sections[s].size \in Nat \ {0}
         /\ sections[s].align \in Nat \ {0}
  <1>1. sections[s] \in Section
    BY DEF InputInv
  <1>2. QED
    BY <1>1 DEF Section

\* The table of globals holds definitions of the name, and None for no other.
LEMMA GlobalDefined ==
  ASSUME InputInv, NEW name
  PROVE  /\ Globals(name) \subseteq 1..Len(symbols)
         /\ Globals(name) # {} => Global(name) \in Globals(name) /\ Global(name) # None
         /\ Globals(name) = {} => Global(name) = None
  <1>1. Globals(name) \subseteq 1..Len(symbols) /\ Len(symbols) \in Nat
    BY DEF InputInv, Globals
  <1>2. ASSUME Globals(name) # {} PROVE Global(name) \in Globals(name)
    <2>1. \E x \in Globals(name) : \A y \in Globals(name) : y <= x
      BY <1>1, <1>2, Greatest
    <2>2. QED
      BY <1>2, <2>1 DEF Global
  <1>3. \A i \in 1..Len(symbols) : i # None
    BY <1>1 DEF None
  <1>4. QED
    BY <1>1, <1>2, <1>3 DEF Global

\* What the linker resolves a reference to is a definition of the name: the
\* own one, or a global.
LEMMA ResolvedDefines ==
  ASSUME InputInv, NEW r \in 1..Len(relocs), Resolved(r) # None
  PROVE  LET i == Resolved(r)
             m == relocs[r].sym
         IN  /\ i \in 1..Len(symbols)
             /\ symbols[i].sec \in 1..Len(sections) /\ symbols[i].value \in Nat
             /\ symbols[i].name = symbols[m].name
             /\ i = m \/ i \in Globals(symbols[m].name)
             /\ symbols[m].sec # 0 /\ Globals(symbols[m].name) = {} => i = m
  <1> DEFINE m    == relocs[r].sym
             name == symbols[m].name
             i    == Resolved(r)
  <1>1. m \in 1..Len(symbols) /\ Len(symbols) \in Nat
    BY DEF InputInv
  <1>2. Globals(name) \subseteq 1..Len(symbols)
    BY DEF Globals
  <1>3. Globals(name) # {} => Global(name) \in Globals(name)
    BY GlobalDefined
  <1>4. Globals(name) = {} => Global(name) = None
    BY DEF Global
  <1>5. /\ i = m /\ symbols[m].sec # 0
        \/ i \in Globals(name)
    BY <1>3, <1>4 DEF Resolved
  <1>6. \A j \in Globals(name) : symbols[j].name = name /\ symbols[j].sec # 0
    BY DEF Globals
  <1>7. i \in 1..Len(symbols) /\ symbols[i].sec # 0 /\ symbols[i].name = name
    BY <1>1, <1>2, <1>5, <1>6
  <1>8. symbols[i] \in Symbol
    BY <1>7 DEF InputInv
  <1>9. symbols[i].value \in Nat /\ symbols[i].sec \in 1..Len(sections)
    BY <1>7, <1>8 DEF InputInv, Symbol
  <1>10. symbols[m].sec # 0 /\ Globals(name) = {} => i = m
    BY <1>5
  <1>11. QED
    BY <1>5, <1>7, <1>9, <1>10

-----------------------------------------------------------------------------
AfterLayout == {"relocate", "check", "sidecar", "written", "running"}
Kind(s) == sections[s].kind

\* Sections placed keep apart from each other; each space ends at the cursor
\* while it is laid out, and at its recorded end after that.
LayoutInv ==
  /\ phase \in {"header", "code", "data", "bss", "refused"} \cup AfterLayout
  /\ cursor \in Nat /\ roEnd \in Nat /\ rwDataEnd \in Nat /\ sbSize \in Nat
  /\ next \in Nat \ {0}
  /\ DOMAIN addr \subseteq 1..Len(sections)
  /\ \A s \in DOMAIN addr :
       /\ addr[s] \in Nat
       /\ Kind(s) = "header" => addr[s] = 0
       /\ Kind(s) # "header" => addr[s] % sections[s].align = 0
  /\ \A s, t \in DOMAIN addr :
       s # t /\ (Writable(s) <=> Writable(t)) => End(s) <= addr[t] \/ End(t) <= addr[s]
  /\ phase \in Passes =>
       \A s \in DOMAIN addr : (Writable(s) <=> phase # "code") => End(s) <= cursor
  /\ phase = "header" => DOMAIN addr = {}
  /\ phase = "code" =>
       DOMAIN addr = {s \in 1..Len(sections) :
                        Kind(s) = "header" \/ (Kind(s) = "code" /\ s < next)}
  /\ phase = "data" =>
       DOMAIN addr = {s \in 1..Len(sections) :
                        ~Writable(s) \/ (Kind(s) = "data" /\ s < next)}
  /\ phase = "bss" =>
       /\ DOMAIN addr = {s \in 1..Len(sections) : Kind(s) # "bss" \/ s < next}
       /\ rwDataEnd <= cursor
  /\ phase \in {"data", "bss"} \cup AfterLayout =>
       \A s \in DOMAIN addr : ~Writable(s) => End(s) <= roEnd
  /\ phase \in {"bss"} \cup AfterLayout =>
       /\ rwDataEnd % 16 = 0
       /\ \A s \in DOMAIN addr : /\ Kind(s) = "data" => End(s) <= rwDataEnd
                                 /\ Kind(s) = "bss" => rwDataEnd <= addr[s]
  /\ phase \in AfterLayout =>
       /\ DOMAIN addr = 1..Len(sections)
       /\ sbSize % 4 = 0 /\ rwDataEnd <= sbSize
       /\ \A s \in DOMAIN addr : Kind(s) = "bss" => End(s) <= sbSize

LEMMA LayoutInit == LinkInit => InputInv /\ LayoutInv
  <1> SUFFICES ASSUME LinkInit PROVE InputInv /\ LayoutInv
    OBVIOUS
  <1>1. InputInv
    BY InputsAssumption DEF LinkInit, ObjectsInit, InputInv
  <1>2. DOMAIN addr = {}
    BY DEF LinkInit
  <1>3. QED
    BY <1>1, <1>2 DEF LinkInit, LayoutInv, AfterLayout, Passes

LEMMA LayoutPlace == ASSUME InputInv, LayoutInv, Place PROVE LayoutInv'
  <1>1. /\ sections' = sections /\ phase' = phase /\ phase \in Passes
        /\ next \in 1..Len(sections) /\ next' = next + 1 /\ next' \in Nat \ {0}
        /\ roEnd' = roEnd /\ rwDataEnd' = rwDataEnd /\ sbSize' = sbSize
        /\ phase \notin AfterLayout /\ phase # "header"
    BY DEF Place, input, LayoutInv, InputInv, Passes, AfterLayout
  <1>2. /\ Kind(next) \in {"header", "code", "data", "bss"}
        /\ sections[next].size \in Nat \ {0} /\ sections[next].align \in Nat \ {0}
    BY <1>1, SectionTypes DEF Kind
  <1>3. /\ \A s : Writable(s)' = Writable(s) /\ Kind(s)' = Kind(s)
        /\ \A s : Writable(s) <=> Kind(s) \in {"data", "bss"}
    BY <1>1 DEF Writable, Kind
  <1>4. CASE Kind(next) # phase
    <2>1. addr' = addr /\ cursor' = cursor /\ \A s : End(s)' = End(s)
      BY <1>1, <1>4 DEF Place, Kind, End
    <2>2. \A s \in 1..Len(sections) : Kind(s) = phase /\ s < next' => s < next
      BY <1>1, <1>4
    <2>3. \A s \in 1..Len(sections) : s < next => s < next'
      BY <1>1
    <2>4. phase = "code" =>
            DOMAIN addr = {s \in 1..Len(sections) :
                             Kind(s) = "header" \/ (Kind(s) = "code" /\ s < next')}
      BY <2>2, <2>3 DEF LayoutInv
    <2>5. phase = "data" =>
            DOMAIN addr = {s \in 1..Len(sections) :
                             ~Writable(s) \/ (Kind(s) = "data" /\ s < next')}
      BY <2>2, <2>3 DEF LayoutInv
    <2>6. phase = "bss" =>
            DOMAIN addr = {s \in 1..Len(sections) : Kind(s) # "bss" \/ s < next'}
      BY <2>2, <2>3 DEF LayoutInv
    <2>7. QED
      BY <1>1, <1>3, <2>1, <2>4, <2>5, <2>6 DEF LayoutInv
  <1>5. CASE Kind(next) = phase
    <2> DEFINE at == AlignTo(cursor, sections[next].align)
    <2>1. at \in Nat /\ cursor <= at /\ at % sections[next].align = 0
      BY <1>2, AlignUp DEF LayoutInv
    <2>2. /\ addr' = Extend(addr, next, at)
          /\ cursor' = at + sections[next].size
      BY <1>1, <1>5 DEF Place, Kind, Placed
    <2> HIDE DEF at
    <2>3. next \notin DOMAIN addr
      BY <1>1, <1>3, <1>5 DEF LayoutInv, Passes
    <2>4. /\ DOMAIN addr' = DOMAIN addr \cup {next} /\ addr'[next] = at
          /\ \A s \in DOMAIN addr : addr'[s] = addr[s]
      BY <2>2, <2>3 DEF Extend
    <2>5. /\ \A s \in DOMAIN addr' : s = next => End(s)' = cursor'
          /\ \A s \in DOMAIN addr : End(s)' = End(s) /\ End(s) \in Nat
      <3>1. \A s \in DOMAIN addr : sections[s].size \in Nat /\ addr[s] \in Nat
        BY SectionTypes DEF LayoutInv
      <3>2. \A s : End(s)' = addr'[s] + sections'[s].size
        BY DEF End
      <3>3. QED
        BY <1>1, <2>2, <2>4, <3>1, <3>2 DEF End
    <2>6. /\ cursor' \in Nat /\ cursor <= cursor'
      BY <1>2, <2>1, <2>2 DEF LayoutInv
    <2>7. \A s \in DOMAIN addr : (Writable(s) <=> Writable(next)) => End(s) <= cursor
      BY <1>1, <1>3, <1>5 DEF LayoutInv, Passes
    <2>8. \A s, t \in DOMAIN addr' :
            s # t /\ (Writable(s) <=> Writable(t)) => (End(s) <= addr[t] \/ End(t) <= addr[s])'
      BY <2>1, <2>4, <2>5, <2>7 DEF LayoutInv
    <2>9. \A s \in DOMAIN addr' :
            /\ addr'[s] \in Nat
            /\ Kind(s) = "header" => addr'[s] = 0
            /\ Kind(s) # "header" => addr'[s] % sections[s].align = 0
      BY <1>1, <1>5, <2>1, <2>4 DEF LayoutInv, Passes
    <2>10. \A s \in DOMAIN addr' : (Writable(s) <=> phase # "code") => End(s)' <= cursor'
      BY <1>1, <1>3, <1>5, <2>1, <2>4, <2>5, <2>6, <2>7 DEF LayoutInv, Passes
    <2>11. phase \in {"data", "bss"} =>
             \A s \in DOMAIN addr' : ~Writable(s) => End(s)' <= roEnd
      BY <1>3, <1>5, <2>4, <2>5 DEF LayoutInv
    <2>12. phase = "bss" =>
             \A s \in DOMAIN addr' : /\ Kind(s) = "data" => End(s)' <= rwDataEnd
                                     /\ Kind(s) = "bss" => rwDataEnd <= addr'[s]
      BY <1>5, <2>1, <2>4, <2>5 DEF LayoutInv
    <2>13. phase = "bss" => rwDataEnd <= cursor'
      BY <2>6 DEF LayoutInv
    <2>14. \A s \in 1..Len(sections) : s < next' <=> s < next \/ s = next
      BY <1>1
    <2>15. phase = "code" =>
            DOMAIN addr' = {s \in 1..Len(sections) :
                              Kind(s) = "header" \/ (Kind(s) = "code" /\ s < next')}
      BY <1>1, <1>5, <2>4, <2>14 DEF LayoutInv
    <2>16. phase = "data" =>
            DOMAIN addr' = {s \in 1..Len(sections) :
                              ~Writable(s) \/ (Kind(s) = "data" /\ s < next')}
      BY <1>1, <1>5, <2>4, <2>14 DEF LayoutInv
    <2>17. phase = "bss" =>
            DOMAIN addr' = {s \in 1..Len(sections) : Kind(s) # "bss" \/ s < next'}
      BY <1>1, <1>5, <2>4, <2>14 DEF LayoutInv
    <2>18. DOMAIN addr' \subseteq 1..Len(sections)
      BY <1>1, <2>4 DEF LayoutInv
    <2>19. QED
      BY <1>1, <1>3, <2>6, <2>8, <2>9, <2>10, <2>11, <2>12, <2>13, <2>15, <2>16, <2>17,
         <2>18 DEF LayoutInv
  <1>6. QED
    BY <1>4, <1>5

\* Once laid out the sections stay where they are.
LEMMA LayoutKept ==
  ASSUME LayoutInv, UNCHANGED <<sections, addr, roEnd, rwDataEnd, sbSize>>,
         \/ phase' = "refused"
         \/ phase \in AfterLayout /\ phase' \in AfterLayout,
         cursor' \in Nat, next' \in Nat \ {0}
  PROVE  LayoutInv'
  <1>1. \A s : Writable(s)' = Writable(s) /\ Kind(s)' = Kind(s) /\ End(s)' = End(s)
    BY DEF Writable, Kind, End
  <1>2. phase' \notin Passes /\ phase' # "header"
    BY DEF AfterLayout, Passes
  <1>3. CASE phase' = "refused"
    BY <1>1, <1>2, <1>3 DEF LayoutInv, AfterLayout
  <1>4. CASE phase \in AfterLayout /\ phase' \in AfterLayout
    BY <1>1, <1>2, <1>4 DEF LayoutInv, AfterLayout
  <1>5. QED
    BY <1>3, <1>4

\* From one pass to the next.
LEMMA LayoutPassDone ==
  ASSUME InputInv, LayoutInv, CodePlaced \/ DataPlaced \/ BssPlaced
  PROVE  LayoutInv'
  <1>1. sections' = sections /\ addr' = addr /\ next' = 1 /\ cursor \in Nat
    BY DEF CodePlaced, DataPlaced, BssPlaced, input, LayoutInv
  <1>2. \A s : Writable(s)' = Writable(s) /\ Kind(s)' = Kind(s) /\ End(s)' = End(s)
    BY <1>1 DEF Writable, Kind, End
  <1>3. \A s \in 1..Len(sections) :
          /\ Kind(s) \in {"header", "code", "data", "bss"}
          /\ Writable(s) <=> Kind(s) \in {"data", "bss"}
          /\ s \in Nat /\ s >= 1
    BY SectionTypes DEF Kind, Writable
  <1>4. \A a \in {4, 16} : /\ AlignTo(cursor, a) \in Nat /\ cursor <= AlignTo(cursor, a)
                           /\ AlignTo(cursor, a) % a = 0
    BY <1>1, AlignUp
  <1>5. \A s \in DOMAIN addr : End(s) \in Nat
    BY SectionTypes DEF LayoutInv, End
  <1>6. next > Len(sections) => \A s \in 1..Len(sections) : s < next
    BY DEF InputInv, LayoutInv
  <1>7. CASE CodePlaced
    <2>1. /\ phase = "code" /\ phase' = "data" /\ next > Len(sections) /\ cursor' = 0
          /\ roEnd' = AlignTo(cursor, 4) /\ rwDataEnd' = rwDataEnd /\ sbSize' = sbSize
      BY <1>7 DEF CodePlaced
    <2>2. DOMAIN addr = {s \in 1..Len(sections) : ~Writable(s)}
      BY <1>3, <1>6, <2>1 DEF LayoutInv
    <2>3. DOMAIN addr = {s \in 1..Len(sections) : ~Writable(s) \/ (Kind(s) = "data" /\ s < 1)}
      BY <1>3, <2>2
    <2>4. \A s \in DOMAIN addr : ~Writable(s) => End(s) <= roEnd'
      BY <1>4, <1>5, <2>1 DEF LayoutInv, Passes
    <2>5. \A s \in DOMAIN addr : ~Writable(s)
      BY <2>2
    <2>6. QED
      BY <1>1, <1>2, <1>4, <2>1, <2>3, <2>4, <2>5 DEF LayoutInv, Passes, AfterLayout
  <1>8. CASE DataPlaced
    <2>1. /\ phase = "data" /\ phase' = "bss" /\ next > Len(sections)
          /\ rwDataEnd' = AlignTo(cursor, 16) /\ cursor' = rwDataEnd'
          /\ roEnd' = roEnd /\ sbSize' = sbSize
      BY <1>8 DEF DataPlaced
    <2>2. DOMAIN addr = {s \in 1..Len(sections) : Kind(s) # "bss" \/ s < 1}
      BY <1>3, <1>6, <2>1 DEF LayoutInv
    <2>3. \A s \in DOMAIN addr : Kind(s) # "bss"
      BY <1>3, <2>2
    <2>4. \A s \in DOMAIN addr : Writable(s) => End(s) <= rwDataEnd'
      BY <1>4, <1>5, <2>1 DEF LayoutInv, Passes
    <2>5. \A s \in DOMAIN addr : Kind(s) = "data" => Writable(s)
      BY DEF Kind, Writable
    <2>6. QED
      BY <1>1, <1>2, <1>4, <2>1, <2>2, <2>3, <2>4, <2>5 DEF LayoutInv, Passes, AfterLayout
  <1>9. CASE BssPlaced
    <2>1. /\ phase = "bss" /\ phase' = "relocate" /\ next > Len(sections)
          /\ sbSize' = AlignTo(cursor, 4) /\ cursor' = cursor
          /\ roEnd' = roEnd /\ rwDataEnd' = rwDataEnd
      BY <1>9 DEF BssPlaced
    <2>2. DOMAIN addr = 1..Len(sections)
      BY <1>6, <2>1 DEF LayoutInv
    <2>3. \A s \in DOMAIN addr : Writable(s) => End(s) <= sbSize'
      BY <1>4, <1>5, <2>1 DEF LayoutInv, Passes
    <2>4. rwDataEnd <= sbSize'
      <3>1. rwDataEnd \in Nat /\ rwDataEnd <= cursor
        BY <2>1 DEF LayoutInv
      <3>2. QED
        BY <1>1, <1>4, <2>1, <3>1
    <2>5. \A s \in DOMAIN addr : Kind(s) = "bss" => Writable(s)
      BY DEF Kind, Writable
    <2>6. QED
      BY <1>1, <1>2, <1>4, <2>1, <2>2, <2>3, <2>4, <2>5 DEF LayoutInv, Passes, AfterLayout
  <1>10. QED
    BY <1>7, <1>8, <1>9

LEMMA LayoutHeader == ASSUME InputInv, LayoutInv, HeaderFirst PROVE LayoutInv'
  <1>1. PICK s \in Headers : /\ Headers = {s} /\ sections[s].size >= HeaderSize
                             /\ addr' = [t \in {s} |-> 0] /\ cursor' = sections[s].size
    BY DEF HeaderFirst
  <1>2. /\ phase' = "code" /\ next' = 1 /\ sections' = sections
        /\ roEnd' = roEnd /\ rwDataEnd' = rwDataEnd /\ sbSize' = sbSize
    BY DEF HeaderFirst, input
  <1>3. s \in 1..Len(sections) /\ Kind(s) = "header" /\ sections[s].size \in Nat
    BY <1>1, SectionTypes DEF Headers, Kind
  <1>4. \A t : Writable(t)' = Writable(t) /\ Kind(t)' = Kind(t)
    BY <1>2 DEF Writable, Kind
  <1>5. DOMAIN addr' = {s} /\ addr'[s] = 0
    BY <1>1
  <1>6. \A t \in DOMAIN addr' : t = s /\ End(t)' = cursor' /\ addr'[t] = 0 /\ Kind(t) = "header"
    BY <1>1, <1>2, <1>3, <1>5 DEF End
  <1>7. DOMAIN addr' = {t \in 1..Len(sections) :
                          Kind(t) = "header" \/ (Kind(t) = "code" /\ t < 1)}
    BY <1>1, <1>5 DEF Headers, Kind
  <1>8. QED
    BY <1>1, <1>2, <1>3, <1>4, <1>6, <1>7 DEF LayoutInv, Passes, AfterLayout

LEMMA LayoutNext == ASSUME InputInv, LayoutInv, [LinkNext]_linkVars PROVE InputInv' /\ LayoutInv'
  <1>1. UNCHANGED input
    BY DEF LinkNext, linkVars, Refuse, HeaderFirst, HeaderMissing, Place, CodePlaced, DataPlaced,
           BssPlaced, Relocate, CannotRelocate, FillParams, CannotFill, CheckHeader, HeaderWrong,
           SidePlace, SidecarWritten
  <1>2. InputInv'
    BY <1>1 DEF input, InputInv
  <1> SUFFICES LayoutInv'
    BY <1>2
  <1>3. CASE UNCHANGED linkVars
    BY <1>3 DEF linkVars, input, LayoutInv, Kind, Writable, End
  <1>4. CASE HeaderMissing \/ CannotRelocate \/ CannotFill \/ HeaderWrong
    <2>1. Refuse
      BY <1>4 DEF HeaderMissing, CannotRelocate, CannotFill, HeaderWrong
    <2>2. QED
      BY <2>1, LayoutKept DEF Refuse, input, LayoutInv
  <1>5. CASE Relocate \/ FillParams \/ SidecarWritten
    <2>1. /\ UNCHANGED <<sections, addr, roEnd, rwDataEnd, sbSize, cursor>>
          /\ next' \in {next, next + 1}
          /\ phase \in AfterLayout /\ phase' \in AfterLayout
      BY <1>5 DEF Relocate, FillParams, SidecarWritten, input, AfterLayout
    <2>2. cursor' \in Nat /\ next' \in Nat \ {0}
      BY <2>1 DEF LayoutInv
    <2>3. QED
      BY <2>1, <2>2, LayoutKept
  <1>6. CASE CheckHeader
    <2>1. PICK s \in Headers : cursor' = sections[s].size
      BY <1>6 DEF CheckHeader
    <2>2. cursor' \in Nat
      BY <2>1, SectionTypes DEF Headers
    <2>3. QED
      BY <1>6, <2>2, LayoutKept DEF CheckHeader, input, AfterLayout
  <1>7. CASE SidePlace
    <2>1. next \in 1..Len(sections) /\ next' \in Nat \ {0} /\ cursor \in Nat
      BY <1>7 DEF SidePlace, LayoutInv, InputInv
    <2>2. AlignTo(cursor, 4) \in Nat
      BY <2>1, AlignUp, 4 \in Nat \ {0}
    <2>3. sections[next].size \in Nat
      BY <2>1, SectionTypes
    <2>4. cursor' \in Nat
      BY <1>7, <2>1, <2>2, <2>3 DEF SidePlace
    <2>5. QED
      BY <1>7, <2>1, <2>4, LayoutKept DEF SidePlace, input, AfterLayout
  <1>8. QED
    BY <1>3, <1>4, <1>5, <1>6, <1>7, LayoutHeader, LayoutPlace, LayoutPassDone DEF LinkNext

LEMMA LayoutApart == ASSUME InputInv, LayoutInv PROVE SectionsApart
  <1> SUFFICES ASSUME Linked PROVE SectionsApart
    BY DEF SectionsApart
  <1>1. phase \in AfterLayout
    BY DEF Linked, AfterLayout
  <1>2. DOMAIN addr = 1..Len(sections)
    BY <1>1 DEF LayoutInv
  <1>3. \A s, t \in 1..Len(sections) :
          s # t /\ Writable(s) = Writable(t) => End(s) <= addr[t] \/ End(t) <= addr[s]
    BY <1>2 DEF LayoutInv
  <1>4. ASSUME NEW s \in 1..Len(sections)
        PROVE  /\ sections[s].kind = "header" => addr[s] = 0
               /\ sections[s].kind # "header" => addr[s] % sections[s].align = 0
               /\ ~Writable(s) => End(s) <= roEnd
               /\ sections[s].kind = "data" => End(s) <= rwDataEnd
               /\ sections[s].kind = "bss" => rwDataEnd <= addr[s] /\ End(s) <= sbSize
    BY <1>1, <1>2 DEF LayoutInv, Kind
  <1>5. roEnd <= RwInitOff /\ rwDataEnd <= sbSize
    <2>1. roEnd \in Nat /\ 16 \in Nat \ {0}
      BY DEF LayoutInv
    <2>2. QED
      BY <1>1, <2>1, AlignUp DEF LayoutInv, RwInitOff
  <1>6. QED
    BY <1>2, <1>3, <1>4, <1>5 DEF SectionsApart

-----------------------------------------------------------------------------
\* What has been relocated was expressible, and is not absolute outside the
\* header; when the parameter block is filled nothing is left.
AllRelocated == {"check", "sidecar", "written", "running"}
RelocInv ==
  /\ DOMAIN words \subseteq 1..Len(relocs)
  /\ phase \in Passes \cup {"header"} => DOMAIN words = {} /\ absSites = {}
  /\ \A r \in DOMAIN words : /\ Resolved(r) # None /\ Expressible(r)
                             /\ ~AbsoluteSite(r) /\ words[r] = Word(r)
  /\ phase = "relocate" =>
       \A r \in 1..Len(relocs) : r < next => r \in DOMAIN words \cup absSites
  /\ phase \in AllRelocated => DOMAIN words = 1..Len(relocs)

LEMMA SameResolution ==
  ASSUME UNCHANGED <<sections, symbols, relocs>>
  PROVE  \A r : /\ Resolved(r)' = Resolved(r)
                /\ Expressible(r)' = Expressible(r)
                /\ AbsoluteSite(r)' = AbsoluteSite(r)
  <1>1. \A name : Globals(name)' = Globals(name)
    BY DEF Globals
  <1>2. \A name : Global(name)' = Global(name)
    <2> SUFFICES ASSUME NEW name PROVE Global(name)' = Global(name)
      OBVIOUS
    <2> DEFINE S == Globals(name)
               G(T) == IF T = {} THEN None ELSE CHOOSE i \in T : \A j \in T : j <= i
    <2>1. S' = S
      BY <1>1
    <2>2. Global(name) = G(S) /\ Global(name)' = G(S')
      BY DEF Global
    <2>3. QED
      BY <2>1, <2>2
  <1>3. \A r : Resolved(r)' = Resolved(r)
    BY <1>2, Zenon DEF Resolved
  <1>4. \A s : Writable(s)' = Writable(s)
    BY DEF Writable
  <1>5. Headers' = Headers
    BY DEF Headers
  <1>6. \A r : Expressible(r)' = Expressible(r)
    BY <1>3, <1>4, Zenon DEF Expressible
  <1>7. \A r : AbsoluteSite(r)' = AbsoluteSite(r)
    BY <1>5, Zenon DEF AbsoluteSite, InHeader
  <1>8. QED
    BY <1>3, <1>6, <1>7

LEMMA SameWord ==
  ASSUME UNCHANGED <<sections, symbols, relocs, addr>>
  PROVE  \A r : Word(r)' = Word(r)
  <1>1. \A r : Resolved(r)' = Resolved(r)
    BY SameResolution
  <1>2. QED
    BY <1>1, Zenon DEF Word, Value

LEMMA RelocKept ==
  ASSUME RelocInv, UNCHANGED <<sections, symbols, relocs, addr, words>>,
         \/ phase' = "refused"
         \/ phase \in AllRelocated /\ phase' \in AllRelocated
  PROVE  RelocInv'
  <1>1. \A r : /\ Resolved(r)' = Resolved(r) /\ Expressible(r)' = Expressible(r)
               /\ AbsoluteSite(r)' = AbsoluteSite(r) /\ Word(r)' = Word(r)
    BY SameResolution, SameWord
  <1>2. /\ phase' \notin Passes \cup {"header"} /\ phase' # "relocate"
        /\ phase' \in AllRelocated => phase \in AllRelocated
    BY DEF Passes, AllRelocated
  <1>3. QED
    BY <1>1, <1>2 DEF RelocInv

LEMMA RelocInit == LinkInit => RelocInv
  BY DEF LinkInit, RelocInv, Passes, AllRelocated

LEMMA RelocStep == ASSUME InputInv, LayoutInv, RelocInv, Relocate PROVE RelocInv'
  <1>1. /\ phase = "relocate" /\ phase' = phase /\ next \in 1..Len(relocs)
        /\ next' = next + 1 /\ Resolved(next) # None
        /\ UNCHANGED <<sections, symbols, relocs, addr>>
        /\ phase' \notin Passes \cup {"header"} /\ phase' \notin AllRelocated
    BY DEF Relocate, input, InputInv, LayoutInv, Passes, AllRelocated
  <1>2. \A r : /\ Resolved(r)' = Resolved(r) /\ Expressible(r)' = Expressible(r)
               /\ AbsoluteSite(r)' = AbsoluteSite(r) /\ Word(r)' = Word(r)
    BY <1>1, SameResolution, SameWord
  <1>3. \A r \in 1..Len(relocs) : r < next + 1 => r < next \/ r = next
    BY <1>1
  <1>4. CASE AbsoluteSite(next)
    <2>1. absSites' = absSites \cup {next} /\ words' = words
      BY <1>4 DEF Relocate
    <2>2. QED
      BY <1>1, <1>2, <1>3, <2>1 DEF RelocInv
  <1>5. CASE ~AbsoluteSite(next)
    <2>1. /\ Expressible(next) /\ absSites' = absSites
          /\ words' = Extend(words, next, Word(next))
      BY <1>5 DEF Relocate
    <2>2. /\ DOMAIN words' = DOMAIN words \cup {next}
          /\ \A r \in DOMAIN words' :
               words'[r] = IF r = next THEN Word(next) ELSE words[r]
      BY <2>1 DEF Extend
    <2>3. \A r \in DOMAIN words' :
            /\ Resolved(r) # None /\ Expressible(r) /\ ~AbsoluteSite(r)
            /\ words'[r] = Word(r)
      BY <1>1, <1>5, <2>1, <2>2 DEF RelocInv
    <2>4. QED
      BY <1>1, <1>2, <1>3, <2>1, <2>2, <2>3 DEF RelocInv
  <1>6. QED
    BY <1>4, <1>5

LEMMA RelocNext ==
  ASSUME InputInv, LayoutInv, RelocInv, [LinkNext]_linkVars PROVE RelocInv'
  <1>1. CASE UNCHANGED linkVars
    <2>1. UNCHANGED <<sections, symbols, relocs, addr, words>>
      BY <1>1 DEF linkVars, input
    <2>2. \A r : /\ Resolved(r)' = Resolved(r) /\ Expressible(r)' = Expressible(r)
                 /\ AbsoluteSite(r)' = AbsoluteSite(r) /\ Word(r)' = Word(r)
      BY <2>1, SameResolution, SameWord
    <2>3. QED
      BY <1>1, <2>2 DEF RelocInv, linkVars, input
  <1>2. CASE HeaderMissing \/ CannotRelocate \/ CannotFill \/ HeaderWrong
    <2>1. Refuse
      BY <1>2 DEF HeaderMissing, CannotRelocate, CannotFill, HeaderWrong
    <2>2. QED
      BY <2>1, RelocKept DEF Refuse, input
  <1>3. CASE HeaderFirst \/ Place \/ CodePlaced \/ DataPlaced \/ BssPlaced
    <2>1. /\ phase \in Passes \cup {"header"} /\ words' = words /\ absSites' = absSites
          /\ relocs' = relocs
          /\ phase' \in Passes \/ (phase' = "relocate" /\ next' = 1)
      BY <1>3 DEF HeaderFirst, Place, CodePlaced, DataPlaced, BssPlaced, Passes, input
    <2>2. DOMAIN words = {} /\ absSites = {} /\ phase' \notin AllRelocated
      BY <2>1 DEF RelocInv, Passes, AllRelocated
    <2>3. \A r \in 1..Len(relocs) : ~(r < 1)
      OBVIOUS
    <2>4. QED
      BY <2>1, <2>2, <2>3 DEF RelocInv, Passes, AllRelocated
  <1>4. CASE Relocate
    BY <1>4, RelocStep
  <1>5. CASE FillParams
    <2>1. /\ phase = "relocate" /\ phase' = "check" /\ next > Len(relocs) /\ absSites = {}
          /\ UNCHANGED <<sections, symbols, relocs, addr, words>>
      BY <1>5 DEF FillParams, input
    <2>2. \A r \in 1..Len(relocs) : r < next
      BY <2>1 DEF InputInv, LayoutInv
    <2>3. DOMAIN words = 1..Len(relocs)
      BY <2>1, <2>2 DEF RelocInv
    <2>4. \A r : /\ Resolved(r)' = Resolved(r) /\ Expressible(r)' = Expressible(r)
                 /\ AbsoluteSite(r)' = AbsoluteSite(r) /\ Word(r)' = Word(r)
      BY <2>1, SameResolution, SameWord
    <2>5. QED
      BY <2>1, <2>3, <2>4 DEF RelocInv, Passes, AllRelocated
  <1>6. CASE CheckHeader \/ SidePlace \/ SidecarWritten
    <2>1. /\ UNCHANGED <<sections, symbols, relocs, addr, words>>
          /\ phase \in AllRelocated /\ phase' \in AllRelocated
      BY <1>6 DEF CheckHeader, SidePlace, SidecarWritten, AllRelocated, input
    <2>2. QED
      BY <2>1, RelocKept
  <1>7. QED
    BY <1>1, <1>2, <1>3, <1>4, <1>5, <1>6 DEF LinkNext

\* Where the load address and the static base are does not matter.
LEMMA RelocatedRuns ==
  ASSUME InputInv, LayoutInv, RelocInv, NEW load \in Nat, NEW base \in Nat
  PROVE  RunsAt(load, base)
  <1> SUFFICES ASSUME phase = "written", NEW r \in 1..Len(relocs)
               PROVE  /\ r \in DOMAIN words
                      /\ Denotes(r, load, base) =
                           RunTime(symbols[Resolved(r)].sec, load, base)
                             + symbols[Resolved(r)].value
    BY DEF RunsAt
  <1> DEFINE i == Resolved(r)
             t == relocs[r].sec
  <1>1. r \in DOMAIN words
    BY DEF RelocInv, AllRelocated
  <1>2. i # None /\ Expressible(r) /\ ~AbsoluteSite(r) /\ words[r] = Word(r)
    BY <1>1 DEF RelocInv
  <1>3. symbols[i].sec \in 1..Len(sections) /\ symbols[i].value \in Nat
    BY <1>2, ResolvedDefines
  <1>4. t \in 1..Len(sections) /\ relocs[r].offset \in Nat
        /\ relocs[r].type \in {"abs", "rel", "sbrel", "got"}
    <2>1. relocs[r] \in Reloc
      BY DEF InputInv
    <2>2. QED
      BY <2>1 DEF InputInv, Reloc
  <1>5. addr[symbols[i].sec] \in Nat /\ addr[t] \in Nat
    BY <1>3, <1>4 DEF LayoutInv, AfterLayout
  <1>6. Value(i) = addr[symbols[i].sec] + symbols[i].value
    BY DEF Value
  <1>7. CASE relocs[r].type = "got"
    BY <1>2, <1>7 DEF Expressible
  <1>8. CASE relocs[r].type = "sbrel"
    <2>1. Writable(symbols[i].sec) /\ words[r] = Value(i)
      BY <1>2, <1>8 DEF Expressible, Word
    <2>2. Denotes(r, load, base) = base + words[r]
      BY <1>8 DEF Denotes
    <2>3. RunTime(symbols[i].sec, load, base) = addr[symbols[i].sec] + base
      BY <2>1 DEF RunTime
    <2> HIDE DEF i
    <2>4. QED
      BY <1>1, <1>3, <1>5, <1>6, <2>1, <2>2, <2>3 DEF i
  <1>9. CASE relocs[r].type = "abs"
    <2>1. ~Writable(symbols[i].sec) /\ words[r] = Value(i) /\ InHeader(r)
      BY <1>2, <1>9 DEF Expressible, Word, AbsoluteSite
    <2>2. Denotes(r, load, base) = load + words[r]
      BY <1>9, <2>1 DEF Denotes
    <2>3. RunTime(symbols[i].sec, load, base) = addr[symbols[i].sec] + load
      BY <2>1 DEF RunTime
    <2>4. QED
      BY <1>1, <1>3, <1>5, <1>6, <2>1, <2>2, <2>3
  <1>10. CASE relocs[r].type = "rel"
    <2>1. /\ ~Writable(symbols[i].sec) /\ ~Writable(t)
          /\ words[r] = Value(i) - (addr[t] + relocs[r].offset)
      BY <1>2, <1>10 DEF Expressible, Word
    <2>2. Denotes(r, load, base) = RunTime(t, load, base) + relocs[r].offset + words[r]
      BY <1>10 DEF Denotes
    <2>3. /\ RunTime(symbols[i].sec, load, base) = addr[symbols[i].sec] + load
          /\ RunTime(t, load, base) = addr[t] + load
      BY <2>1 DEF RunTime
    <2> DEFINE a == addr[symbols[i].sec]
               v == symbols[i].value
               b == addr[t]
               o == relocs[r].offset
    <2>4. a \in Nat /\ v \in Nat /\ b \in Nat /\ o \in Nat
      BY <1>3, <1>4, <1>5
    <2>5. Denotes(r, load, base) = (b + load) + o + ((a + v) - (b + o))
      BY <1>6, <2>1, <2>2, <2>3
    <2>6. Denotes(r, load, base) = (a + load) + v
      <3> HIDE DEF a, v, b, o, i, t
      <3>1. QED
        BY <2>4, <2>5
    <2>7. QED
      BY <1>1, <2>3, <2>6
  <1>11. QED
    BY <1>4, <1>7, <1>8, <1>9, <1>10

LEMMA RelocatedMeant == ASSUME InputInv, RelocInv PROVE MeantDefinition
  <1> SUFFICES ASSUME phase = "written", NEW r \in 1..Len(relocs)
               PROVE  LET meant == symbols[relocs[r].sym]
                          i     == Resolved(r)
                      IN  /\ symbols[i].name = meant.name /\ symbols[i].sec # 0
                          /\ meant.sec # 0 /\ Globals(meant.name) \subseteq {relocs[r].sym} =>
                               i = relocs[r].sym
                          /\ meant.sec = 0 => symbols[i].global
    BY DEF MeantDefinition
  <1>1. Resolved(r) # None
    BY DEF RelocInv, AllRelocated
  <1> DEFINE m == relocs[r].sym
             i == Resolved(r)
  <1>2. /\ symbols[i].sec \in 1..Len(sections) /\ symbols[i].name = symbols[m].name
        /\ i = m \/ i \in Globals(symbols[m].name)
    BY <1>1, ResolvedDefines
  <1>3. symbols[i].sec # 0
    BY <1>2 DEF InputInv
  <1>4. symbols[m].sec # 0 /\ Globals(symbols[m].name) \subseteq {m} => i = m
    BY <1>2
  <1>5. symbols[m].sec = 0 => symbols[i].global
    BY <1>2, <1>3 DEF Globals
  <1>6. QED
    BY <1>2, <1>3, <1>4, <1>5

-----------------------------------------------------------------------------
\* Both layouts of the read-only sections go by where the section before ends:
\* c is where the code sections before t end.
CodeBefore(t) == {s \in 1..Len(sections) : Kind(s) = "code" /\ s < t}
EndsBefore(c, t) ==
  /\ CodeBefore(t) = {} => \A h \in Headers : c = sections[h].size
  /\ \A s \in CodeBefore(t) : (\A u \in CodeBefore(t) : u <= s) => c = End(s)

WordAligned == \A s \in DOMAIN sideAddr : sections[s].align = 4
SideInv ==
  /\ phase \in Passes \cup AfterLayout => \E h : Headers = {h}
  /\ phase \in Passes \cup AfterLayout =>
       \A t \in DOMAIN addr : Kind(t) = "code" =>
         \E c \in Nat : EndsBefore(c, t) /\ addr[t] = AlignTo(c, sections[t].align)
  /\ phase = "code" => EndsBefore(cursor, next)
  /\ phase = "sidecar" /\ WordAligned => EndsBefore(cursor, next)
  /\ phase \in {"sidecar", "written"} /\ WordAligned =>
       \A s \in DOMAIN sideAddr : sideAddr[s] = addr[s]

LEMMA EndsOnce ==
  ASSUME InputInv, NEW h, Headers = {h}, NEW t, NEW c, NEW d,
         EndsBefore(c, t), EndsBefore(d, t)
  PROVE  c = d
  <1>1. CASE CodeBefore(t) = {}
    BY <1>1 DEF EndsBefore
  <1>2. CASE CodeBefore(t) # {}
    <2>1. Len(sections) \in Nat /\ CodeBefore(t) \subseteq 1..Len(sections)
      BY DEF InputInv, CodeBefore
    <2>2. PICK s \in CodeBefore(t) : \A u \in CodeBefore(t) : u <= s
      BY <1>2, <2>1, Greatest
    <2>3. QED
      BY <2>2 DEF EndsBefore
  <1>3. QED
    BY <1>1, <1>2

\* It depends on the addresses of the code before only.
LEMMA EndsKept ==
  ASSUME UNCHANGED sections, NEW t, NEW c, EndsBefore(c, t),
         \A s \in CodeBefore(t) : addr'[s] = addr[s]
  PROVE  EndsBefore(c, t)'
  <1>1. CodeBefore(t)' = CodeBefore(t) /\ Headers' = Headers
    BY DEF CodeBefore, Headers, Kind
  <1>2. \A s \in CodeBefore(t) : End(s)' = End(s)
    BY DEF End
  <1>3. QED
    BY <1>1, <1>2 DEF EndsBefore

\* The section last passed is the last one before, if it is code at all.
LEMMA EndsNext ==
  ASSUME InputInv, NEW t \in 1..Len(sections), NEW c
  PROVE  /\ Kind(t) # "code" /\ EndsBefore(c, t) => EndsBefore(c, t + 1)
         /\ Kind(t) = "code" /\ c = End(t) => EndsBefore(c, t + 1)
  <1>0. Len(sections) \in Nat /\ t \in Nat
    BY DEF InputInv
  <1>1. \A s \in 1..Len(sections) : s < t + 1 <=> s < t \/ s = t
    BY <1>0
  <1>2. CASE Kind(t) # "code"
    <2>1. CodeBefore(t + 1) = CodeBefore(t)
      BY <1>1, <1>2 DEF CodeBefore
    <2>2. QED
      BY <1>2, <2>1 DEF EndsBefore
  <1>3. CASE Kind(t) = "code"
    <2>1. t \in CodeBefore(t + 1)
      BY <1>1, <1>3 DEF CodeBefore
    <2>2. ASSUME NEW s \in CodeBefore(t + 1), t <= s PROVE s = t
      BY <1>0, <2>2 DEF CodeBefore
    <2>3. QED
      BY <1>3, <2>1, <2>2 DEF EndsBefore
  <1>4. QED
    BY <1>2, <1>3

\* The chain of the first layout stays as it is when the code stays.
LEMMA ChainKept ==
  ASSUME UNCHANGED sections, LayoutInv,
         NEW t \in DOMAIN addr, Kind(t) = "code",
         \A s \in 1..Len(sections) : Kind(s) = "code" /\ s <= t => addr'[s] = addr[s],
         \E c \in Nat : EndsBefore(c, t) /\ addr[t] = AlignTo(c, sections[t].align)
  PROVE  \E c \in Nat : EndsBefore(c, t)' /\ addr'[t] = AlignTo(c, sections'[t].align)
  <1>1. PICK c \in Nat : EndsBefore(c, t) /\ addr[t] = AlignTo(c, sections[t].align)
    OBVIOUS
  <1>2. t \in 1..Len(sections) /\ addr'[t] = addr[t]
    BY DEF LayoutInv
  <1>3. \A s \in CodeBefore(t) : addr'[s] = addr[s]
    BY <1>2 DEF CodeBefore
  <1>4. QED
    BY <1>1, <1>2, <1>3, EndsKept

LEMMA SideInit == LinkInit => SideInv
  BY DEF LinkInit, SideInv, Passes, AfterLayout

LEMMA SideHeader == ASSUME InputInv, LayoutInv, SideInv, HeaderFirst PROVE SideInv'
  <1>1. PICK h \in Headers : /\ Headers = {h} /\ addr' = [t \in {h} |-> 0]
                             /\ cursor' = sections[h].size
    BY DEF HeaderFirst
  <1>2. phase' = "code" /\ next' = 1 /\ sections' = sections
    BY DEF HeaderFirst, input
  <1>3. Headers' = Headers /\ Kind(h)' = "header" /\ DOMAIN addr' = {h}
    BY <1>1, <1>2 DEF Headers, Kind
  <1>4. CodeBefore(next)' = {}
    BY <1>2 DEF CodeBefore
  <1>5. EndsBefore(cursor, next)'
    BY <1>1, <1>2, <1>3, <1>4 DEF EndsBefore
  <1>6. QED
    BY <1>1, <1>2, <1>3, <1>5 DEF SideInv

LEMMA SidePass == ASSUME InputInv, LayoutInv, SideInv, Place PROVE SideInv'
  <1>1. /\ sections' = sections /\ phase' = phase /\ phase \in Passes
        /\ next \in 1..Len(sections) /\ next' = next + 1
        /\ phase \notin {"sidecar", "written"}
    BY DEF Place, input, LayoutInv, InputInv, Passes
  <1>2. PICK h : Headers = {h}
    BY <1>1 DEF SideInv
  <1>3. Headers' = Headers /\ \A s : Kind(s)' = Kind(s)
    BY <1>1 DEF Headers, Kind
  <1>4. CASE ~(phase = "code" /\ Kind(next) = "code")
    <2>1. \A t \in DOMAIN addr' : Kind(t) = "code" => t \in DOMAIN addr /\ addr'[t] = addr[t]
      BY <1>1, <1>4 DEF Place, Kind, Extend
    <2>2. \A s \in 1..Len(sections) : Kind(s) = "code" => addr'[s] = addr[s]
      <3>1. CASE phase = "code"
        BY <1>4, <3>1 DEF Place, Kind
      <3>2. CASE phase # "code"
        <4>1. \A s \in 1..Len(sections) : Kind(s) = "code" =>
                (s \in DOMAIN addr /\ s # next) \/ addr' = addr
          BY <1>1, <3>2 DEF LayoutInv, Passes, Place, Kind, Writable
        <4>2. addr' = addr \/ \A s \in DOMAIN addr : s # next => addr'[s] = addr[s]
          BY <1>1 DEF Place, Extend
        <4>3. QED
          BY <4>1, <4>2
      <3>3. QED
        BY <3>1, <3>2
    <2>3. ASSUME NEW t \in DOMAIN addr', Kind(t) = "code"
          PROVE  \E c \in Nat : EndsBefore(c, t)' /\ addr'[t] = AlignTo(c, sections'[t].align)
      <3>1. t \in DOMAIN addr
        BY <2>1, <2>3
      <3>2. \E c \in Nat : EndsBefore(c, t) /\ addr[t] = AlignTo(c, sections[t].align)
        BY <1>1, <2>3, <3>1 DEF SideInv
      <3>3. QED
        BY <1>1, <2>2, <2>3, <3>1, <3>2, ChainKept
    <2>4. CASE phase = "code"
      <3>1. EndsBefore(cursor, next + 1)
        BY <1>1, <1>4, <2>4, EndsNext DEF SideInv
      <3>2. cursor' = cursor /\ addr' = addr
        BY <1>4, <2>4 DEF Place, Kind
      <3>3. EndsBefore(cursor, next)'
        BY <1>1, <1>3, <3>1, <3>2 DEF EndsBefore, CodeBefore, End
      <3>4. QED
        BY <1>1, <1>2, <1>3, <2>3, <3>3 DEF SideInv
    <2>5. CASE phase # "code"
      BY <1>1, <1>2, <1>3, <2>3, <2>5 DEF SideInv
    <2>6. QED
      BY <2>4, <2>5
  <1>5. CASE phase = "code" /\ Kind(next) = "code"
    <2> DEFINE at == AlignTo(cursor, sections[next].align)
    <2>1. addr' = Extend(addr, next, at) /\ cursor' = at + sections[next].size
      BY <1>5 DEF Place, Kind, Placed
    <2>2. DOMAIN addr = {s \in 1..Len(sections) :
                           Kind(s) = "header" \/ (Kind(s) = "code" /\ s < next)}
      BY <1>5 DEF LayoutInv
    <2> HIDE DEF at
    <2>3. /\ DOMAIN addr' = DOMAIN addr \cup {next} /\ addr'[next] = at
          /\ \A s \in DOMAIN addr : s # next => addr'[s] = addr[s]
      BY <2>1 DEF Extend
    <2>4. \A s \in 1..Len(sections) : Kind(s) = "code" /\ s < next => addr'[s] = addr[s]
      BY <1>1, <2>2, <2>3
    <2>5. ASSUME NEW t \in DOMAIN addr', Kind(t) = "code"
          PROVE  \E c \in Nat : EndsBefore(c, t)' /\ addr'[t] = AlignTo(c, sections'[t].align)
      <3>1. CASE t = next
        <4>1. EndsBefore(cursor, t) /\ cursor \in Nat
          BY <1>5, <3>1 DEF SideInv, LayoutInv
        <4>2. \A s \in CodeBefore(t) : addr'[s] = addr[s]
          BY <2>4, <3>1 DEF CodeBefore
        <4>3. EndsBefore(cursor, t) => \E c \in Nat : c = cursor /\ EndsBefore(c, t)
          BY <4>1
        <4>4. PICK c \in Nat : c = cursor /\ EndsBefore(c, t)
          BY <4>1, <4>3
        <4>5. EndsBefore(c, t)'
          BY <1>1, <4>2, <4>4, EndsKept
        <4>6. addr'[t] = AlignTo(c, sections'[t].align)
          BY <1>1, <2>3, <3>1, <4>4 DEF at
        <4>7. QED
          BY <4>5, <4>6
      <3>2. CASE t # next
        <4>1. t \in DOMAIN addr /\ t < next /\ t \in 1..Len(sections)
          BY <2>2, <2>3, <2>5, <3>2
        <4>2. \A s \in 1..Len(sections) : Kind(s) = "code" /\ s <= t => addr'[s] = addr[s]
          BY <1>1, <2>4, <4>1
        <4>3. \E c \in Nat : EndsBefore(c, t) /\ addr[t] = AlignTo(c, sections[t].align)
          BY <1>1, <2>5, <4>1 DEF SideInv
        <4>4. QED
          BY <1>1, <2>5, <4>1, <4>2, <4>3, ChainKept
      <3>3. QED
        BY <3>1, <3>2
    <2>6. EndsBefore(cursor, next)'
      <3>1. PICK n \in 1..Len(sections) : n = next
        BY <1>1
      <3>2. cursor' = End(n)'
        BY <1>1, <2>1, <2>3, <3>1 DEF End
      <3>3. CodeBefore(next)' = {s \in 1..Len(sections) : Kind(s) = "code" /\ s < n + 1}
        BY <1>1, <1>3, <3>1 DEF CodeBefore
      <3>4. \A s \in CodeBefore(next)' : n <= s => s = n
        BY <3>1, <3>3
      <3>5. n \in CodeBefore(next)'
        BY <1>5, <3>1, <3>3
      <3>6. QED
        BY <3>2, <3>4, <3>5 DEF EndsBefore
    <2>7. QED
      BY <1>1, <1>2, <1>3, <2>5, <2>6 DEF SideInv
  <1>6. QED
    BY <1>4, <1>5

LEMMA SideKept ==
  ASSUME LayoutInv, SideInv, UNCHANGED <<sections, addr>>,
         \/ phase' = "refused"
         \/ /\ phase \in Passes \cup AfterLayout
            /\ phase' \in (Passes \cup AfterLayout) \ {"code", "sidecar", "written"}
  PROVE  SideInv'
  <1>1. Headers' = Headers /\ \A s : Kind(s)' = Kind(s)
    BY DEF Headers, Kind
  <1>2. CASE phase' = "refused"
    BY <1>2 DEF SideInv, Passes, AfterLayout
  <1>3. CASE /\ phase \in Passes \cup AfterLayout
             /\ phase' \in (Passes \cup AfterLayout) \ {"code", "sidecar", "written"}
    <2>1. ASSUME NEW t \in DOMAIN addr', Kind(t)' = "code"
          PROVE  \E c \in Nat : EndsBefore(c, t)' /\ addr'[t] = AlignTo(c, sections'[t].align)
      <3>1. t \in DOMAIN addr /\ Kind(t) = "code"
        BY <1>1, <2>1
      <3>2. \E c \in Nat : EndsBefore(c, t) /\ addr[t] = AlignTo(c, sections[t].align)
        BY <1>3, <3>1 DEF SideInv
      <3>3. QED
        BY <3>1, <3>2, ChainKept
    <2>2. \E h : Headers' = {h}
      BY <1>1, <1>3 DEF SideInv
    <2>3. QED
      BY <1>3, <2>1, <2>2 DEF SideInv
  <1>4. QED
    BY <1>2, <1>3

\* The sidecar's layout follows the chain, on words.
LEMMA SideStep == ASSUME InputInv, LayoutInv, SideInv, SidePlace PROVE SideInv'
  <1>1. /\ UNCHANGED <<sections, addr>> /\ phase = "sidecar" /\ phase' = "sidecar"
        /\ next' = next + 1
        /\ phase \in Passes \cup AfterLayout
    BY DEF SidePlace, input, AfterLayout
  <1>2. PICK n \in 1..Len(sections) : n = next
    BY <1>1 DEF SidePlace, LayoutInv, InputInv
  <1>3. Headers' = Headers /\ \A s : Kind(s)' = Kind(s) /\ End(s)' = End(s)
    BY <1>1 DEF Headers, Kind, End
  <1>4. PICK h : Headers = {h}
    BY <1>1 DEF SideInv
  <1>5. ASSUME NEW t \in DOMAIN addr', Kind(t)' = "code"
        PROVE  \E c \in Nat : EndsBefore(c, t)' /\ addr'[t] = AlignTo(c, sections'[t].align)
    <2>1. t \in DOMAIN addr /\ Kind(t) = "code"
      BY <1>1, <1>3, <1>5
    <2>2. \E c \in Nat : EndsBefore(c, t) /\ addr[t] = AlignTo(c, sections[t].align)
      BY <1>1, <2>1 DEF SideInv
    <2>3. QED
      BY <1>1, <2>1, <2>2, ChainKept
  <1>6. CodeBefore(next)' = CodeBefore(n + 1)
    BY <1>1, <1>2, <1>3 DEF CodeBefore
  <1>7. EndsBefore(cursor', n + 1) => EndsBefore(cursor, next)'
    BY <1>1, <1>3, <1>6 DEF EndsBefore
  <1>8. CASE Kind(n) # "code"
    <2>1. sideAddr' = sideAddr /\ cursor' = cursor
      BY <1>2, <1>8 DEF SidePlace, InSidecar, Kind
    <2>2. WordAligned' => EndsBefore(cursor', n + 1)
      BY <1>1, <1>2, <1>8, <2>1, EndsNext DEF SideInv, WordAligned
    <2>3. QED
      BY <1>1, <1>3, <1>4, <1>5, <1>7, <2>1, <2>2 DEF SideInv, WordAligned
  <1>9. CASE Kind(n) = "code"
    <2> DEFINE at == AlignTo(cursor, 4)
    <2>1. sideAddr' = Extend(sideAddr, n, at) /\ cursor' = at + sections[n].size
      BY <1>2, <1>9 DEF SidePlace, InSidecar, Kind
    <2> HIDE DEF at
    <2>2. /\ DOMAIN sideAddr' = DOMAIN sideAddr \cup {n} /\ sideAddr'[n] = at
          /\ \A s \in DOMAIN sideAddr : s # n => sideAddr'[s] = sideAddr[s]
      BY <2>1 DEF Extend
    <2>3. WordAligned' => WordAligned /\ sections[n].align = 4
      BY <1>1, <2>2 DEF WordAligned
    <2>4. WordAligned' => addr[n] = at
      <3> SUFFICES ASSUME WordAligned, sections[n].align = 4 PROVE addr[n] = at
        BY <2>3
      <3>1. EndsBefore(cursor, n)
        BY <1>1, <1>2 DEF SideInv
      <3>2. n \in DOMAIN addr
        BY <1>1 DEF LayoutInv, AfterLayout
      <3>3. PICK c \in Nat : EndsBefore(c, n) /\ addr[n] = AlignTo(c, sections[n].align)
        BY <1>1, <1>9, <3>2 DEF SideInv
      <3>4. c = cursor
        BY <1>4, <3>1, <3>3, EndsOnce
      <3>5. QED
        BY <3>3, <3>4 DEF at
    <2>5. WordAligned' => EndsBefore(cursor', n + 1)
      <3> SUFFICES ASSUME WordAligned' PROVE EndsBefore(cursor', n + 1)
        OBVIOUS
      <3>1. cursor' = End(n)
        BY <2>1, <2>4 DEF End
      <3>2. QED
        BY <1>9, <3>1, EndsNext
    <2>6. WordAligned' => \A s \in DOMAIN sideAddr' : sideAddr'[s] = addr'[s]
      BY <1>1, <2>2, <2>3, <2>4 DEF SideInv
    <2>7. QED
      BY <1>1, <1>3, <1>4, <1>5, <1>7, <2>5, <2>6 DEF SideInv
  <1>10. QED
    BY <1>8, <1>9

LEMMA SideBegun == ASSUME LayoutInv, SideInv, CheckHeader PROVE SideInv'
  <1>1. PICK h \in Headers : sideAddr' = [t \in {h} |-> 0] /\ cursor' = sections[h].size
    BY DEF CheckHeader
  <1>2. /\ UNCHANGED <<sections, addr>> /\ phase = "check" /\ phase' = "sidecar" /\ next' = 1
        /\ phase \in Passes \cup AfterLayout
    BY DEF CheckHeader, input, AfterLayout
  <1>3. Headers = {h} /\ Headers' = Headers /\ \A s : Kind(s)' = Kind(s)
    BY <1>1, <1>2 DEF SideInv, Headers, Kind
  <1>4. ASSUME NEW t \in DOMAIN addr', Kind(t)' = "code"
        PROVE  \E c \in Nat : EndsBefore(c, t)' /\ addr'[t] = AlignTo(c, sections'[t].align)
    <2>1. t \in DOMAIN addr /\ Kind(t) = "code"
      BY <1>2, <1>3, <1>4
    <2>2. \E c \in Nat : EndsBefore(c, t) /\ addr[t] = AlignTo(c, sections[t].align)
      BY <1>2, <2>1 DEF SideInv
    <2>3. QED
      BY <1>2, <2>1, <2>2, ChainKept
  <1>5. addr[h] = 0
    BY <1>1, <1>2 DEF LayoutInv, AfterLayout, Headers, Kind
  <1>6. CodeBefore(next)' = {}
    BY <1>2 DEF CodeBefore
  <1>7. EndsBefore(cursor, next)'
    BY <1>1, <1>2, <1>3, <1>6 DEF EndsBefore
  <1>8. \A s \in DOMAIN sideAddr' : sideAddr'[s] = addr'[s]
    BY <1>1, <1>2, <1>5
  <1>9. QED
    BY <1>2, <1>3, <1>4, <1>7, <1>8 DEF SideInv

LEMMA SideNext == ASSUME InputInv, LayoutInv, SideInv, [LinkNext]_linkVars PROVE SideInv'
  <1>1. CASE UNCHANGED linkVars
    <2>1. UNCHANGED <<sections, phase, next, cursor, addr, sideAddr>>
      BY <1>1 DEF linkVars, input
    <2>2. /\ \A t : CodeBefore(t)' = CodeBefore(t) /\ Kind(t)' = Kind(t) /\ End(t)' = End(t)
          /\ Headers' = Headers /\ WordAligned' = WordAligned
      BY <2>1 DEF CodeBefore, Headers, Kind, End, WordAligned
    <2>3. \A c, t : EndsBefore(c, t)' = EndsBefore(c, t)
      BY <2>1, <2>2 DEF EndsBefore
    <2>4. QED
      BY <2>1, <2>2, <2>3 DEF SideInv
  <1>2. CASE HeaderMissing \/ CannotRelocate \/ CannotFill \/ HeaderWrong
    <2>1. Refuse
      BY <1>2 DEF HeaderMissing, CannotRelocate, CannotFill, HeaderWrong
    <2>2. QED
      BY <2>1, SideKept DEF Refuse, input
  <1>3. CASE CodePlaced \/ DataPlaced \/ BssPlaced \/ Relocate \/ FillParams
    <2>1. /\ UNCHANGED <<sections, addr>> /\ phase \in Passes \cup AfterLayout
          /\ phase' \in (Passes \cup AfterLayout) \ {"code", "sidecar", "written"}
      BY <1>3 DEF CodePlaced, DataPlaced, BssPlaced, Relocate, FillParams, input, Passes, AfterLayout
    <2>2. QED
      BY <2>1, SideKept
  <1>4. CASE SidecarWritten
    <2>1. /\ UNCHANGED <<sections, addr, sideAddr>> /\ phase = "sidecar" /\ phase' = "written"
          /\ phase \in Passes \cup AfterLayout
      BY <1>4 DEF SidecarWritten, input, AfterLayout
    <2>2. Headers' = Headers /\ (\A s : Kind(s)' = Kind(s)) /\ WordAligned' = WordAligned
      BY <2>1 DEF Headers, Kind, WordAligned
    <2>3. ASSUME NEW t \in DOMAIN addr', Kind(t)' = "code"
          PROVE  \E c \in Nat : EndsBefore(c, t)' /\ addr'[t] = AlignTo(c, sections'[t].align)
      <3>1. t \in DOMAIN addr /\ Kind(t) = "code"
        BY <2>1, <2>2, <2>3
      <3>2. \E c \in Nat : EndsBefore(c, t) /\ addr[t] = AlignTo(c, sections[t].align)
        BY <2>1, <3>1 DEF SideInv
      <3>3. QED
        BY <2>1, <3>1, <3>2, ChainKept
    <2>4. QED
      BY <2>1, <2>2, <2>3 DEF SideInv
  <1>5. QED
    BY <1>1, <1>2, <1>3, <1>4, SideHeader, SidePass, SideBegun, SideStep DEF LinkNext

-----------------------------------------------------------------------------
\* The initialisation starts with what the linker wrote, and its loop
\* invariant holds from there on.
Unfilled == /\ rw = 0 /\ sb = 0 /\ r0 = 0 /\ r1 = 0 /\ r2 = 0
            /\ pc = "copy" /\ area = [o \in Words |-> Junk]
FillInv ==
  /\ phase \in Passes \cup {"header", "relocate"} => params = << >>
  /\ phase \in AllRelocated /\ params # << >> => params[2] = rwDataEnd /\ params[3] = sbSize
  /\ phase # "running" => Unfilled
  /\ phase = "running" => /\ rw = rwDataEnd /\ sb = sbSize
                          /\ <<rw, sb>> \in Sizes /\ (rwpi \/ sb = 0) => LoopInv

LEMMA FillLink == ASSUME LayoutInv, FillInv, Link PROVE FillInv'
  <1>1. LinkNext /\ UNCHANGED vars
    BY DEF Link
  <1>2. phase # "running" /\ phase' # "running"
    BY <1>1 DEF LinkNext, Refuse, HeaderFirst, HeaderMissing, Place, CodePlaced, DataPlaced,
           BssPlaced, Relocate, CannotRelocate, FillParams, CannotFill, CheckHeader, HeaderWrong,
           SidePlace, SidecarWritten, Passes
  <1>3. Unfilled'
    BY <1>1, <1>2 DEF FillInv, Unfilled, vars
  <1>4. CASE Refuse
    BY <1>2, <1>3, <1>4 DEF Refuse, FillInv, Passes, AllRelocated
  <1>5. CASE HeaderFirst \/ Place \/ CodePlaced \/ DataPlaced \/ BssPlaced \/ Relocate
    <2>1. /\ phase \in Passes \cup {"header", "relocate"}
          /\ phase' \in Passes \cup {"relocate"} /\ params' = params
      BY <1>5 DEF HeaderFirst, Place, CodePlaced, DataPlaced, BssPlaced, Relocate, Passes
    <2>2. phase' \notin AllRelocated
      BY <2>1 DEF Passes, AllRelocated
    <2>3. QED
      BY <1>2, <1>3, <2>1, <2>2 DEF FillInv
  <1>6. CASE FillParams
    <2>1. /\ phase' = "check" /\ rwDataEnd' = rwDataEnd /\ sbSize' = sbSize
          /\ params' = << >> \/ \E a, b : params' = <<a, rwDataEnd, sbSize, b>>
      BY <1>6 DEF FillParams
    <2>2. \A a, b : /\ <<a, rwDataEnd, sbSize, b>>[2] = rwDataEnd
                    /\ <<a, rwDataEnd, sbSize, b>>[3] = sbSize
      OBVIOUS
    <2>3. QED
      BY <1>3, <2>1, <2>2 DEF FillInv, Passes
  <1>7. CASE CheckHeader \/ SidePlace \/ SidecarWritten
    <2>1. /\ phase \in AllRelocated /\ phase' \in AllRelocated
          /\ UNCHANGED <<params, rwDataEnd, sbSize>>
      BY <1>7 DEF CheckHeader, SidePlace, SidecarWritten, AllRelocated
    <2>2. phase' \notin Passes \cup {"header", "relocate"}
      BY <2>1 DEF Passes, AllRelocated
    <2>3. QED
      BY <1>2, <1>3, <2>1, <2>2 DEF FillInv
  <1>8. QED
    BY <1>1, <1>4, <1>5, <1>6, <1>7
    DEF LinkNext, HeaderMissing, CannotRelocate, CannotFill, HeaderWrong

LEMMA FillLoad == ASSUME FillInv, Load PROVE FillInv'
  <1>1. /\ phase = "written" /\ params # << >> /\ phase' = "running"
        /\ rw' = rwDataEnd /\ sb' = sbSize /\ r0' = 0 /\ r2' = 0
        /\ rwDataEnd' = rwDataEnd /\ sbSize' = sbSize /\ params' = params
        /\ area' = [o \in Words |-> Junk] /\ rwpi' = rwpi
        /\ IF rwpi THEN r1' = rw' /\ pc' = "copy" ELSE r1' = sb' /\ pc' = "done"
    BY DEF Load, FillInv, AllRelocated, Unfilled, input
  <1>2. ASSUME <<rw', sb'>> \in Sizes, rwpi' \/ sb' = 0 PROVE LoopInv'
    <2>1. \E s \in Sizes : rw' = s[1] /\ sb' = s[2]
      BY <1>2
    <2>2. CASE rwpi
      <3>1. Init'
        BY <1>1, <2>1, <2>2 DEF Init
      <3>2. QED
        BY <3>1, SizesAssumption DEF Init, LoopInv, Words
    <2>3. CASE ~rwpi
      <3>1. pc' = "done" /\ r1' = sb' /\ sb' = 0 /\ r2' = 0
        BY <1>1, <1>2, <2>3
      <3>2. rw' \in Nat /\ rw' <= sb'
        BY <2>1, SizesAssumption
      <3>3. rw' = 0
        BY <3>1, <3>2
      <3>4. \A o \in Words : o >= 0 /\ area'[o] = Junk
        BY <1>1, SizesAssumption DEF Words
      <3>5. QED
        BY <1>1, <1>2, <3>1, <3>3, <3>4 DEF LoopInv
    <2>4. QED
      BY <2>2, <2>3
  <1>3. QED
    BY <1>1, <1>2 DEF FillInv, Passes, AllRelocated

ImageInv == InputInv /\ LayoutInv /\ RelocInv /\ SideInv /\ FillInv

LEMMA ImageInvInit == LinkersInit => ImageInv
  <1> SUFFICES ASSUME LinkersInit PROVE ImageInv
    OBVIOUS
  <1>1. LinkInit /\ Unfilled /\ phase = "header" /\ params = << >>
    BY DEF LinkersInit, ImageInit, LinkInit, Unfilled
  <1>2. QED
    BY <1>1, LayoutInit, RelocInit, SideInit DEF ImageInv, FillInv, AllRelocated

LEMMA ImageInvNext ==
  ASSUME ImageInv, [LinkersNext]_linkersVars PROVE ImageInv'
  <1>1. CASE UNCHANGED imageVars
    <2>1. UNCHANGED linkVars /\ UNCHANGED vars
      BY <1>1 DEF imageVars
    <2>2. InputInv' /\ LayoutInv' /\ RelocInv' /\ SideInv'
      BY <2>1, LayoutNext, RelocNext, SideNext DEF ImageInv
    <2>3. FillInv'
      BY <2>1 DEF ImageInv, FillInv, Unfilled, LoopInv, linkVars, input, vars
    <2>4. QED
      BY <2>2, <2>3 DEF ImageInv
  <1>2. CASE Link
    BY <1>2, LayoutNext, RelocNext, SideNext, FillLink DEF ImageInv, Link
  <1>3. CASE Load
    <2>1. /\ UNCHANGED <<sections, symbols, relocs, addr, words, roEnd, rwDataEnd, sbSize,
                         cursor, next>>
          /\ phase \in AfterLayout /\ phase' \in AfterLayout
          /\ phase \in AllRelocated /\ phase' \in AllRelocated
      BY <1>3 DEF Load, input, AfterLayout, AllRelocated
    <2>2. InputInv'
      BY <2>1 DEF ImageInv, InputInv
    <2>3. LayoutInv'
      BY <2>1, LayoutKept DEF ImageInv, LayoutInv
    <2>4. RelocInv'
      BY <2>1, RelocKept DEF ImageInv
    <2>5. SideInv'
      <3>1. phase' \in (Passes \cup AfterLayout) \ {"code", "sidecar", "written"}
        BY <1>3 DEF Load, AfterLayout
      <3>2. phase \in Passes \cup AfterLayout
        BY <2>1
      <3>3. QED
        BY <2>1, <3>1, <3>2, SideKept DEF ImageInv
    <2>6. QED
      BY <1>3, <2>2, <2>3, <2>4, <2>5, FillLoad DEF ImageInv
  <1>4. CASE Run
    <2>1. phase = "running" /\ Next /\ UNCHANGED linkVars
      BY <1>4 DEF Run
    <2>2. InputInv' /\ LayoutInv' /\ RelocInv' /\ SideInv'
      BY <2>1, LayoutNext, RelocNext, SideNext DEF ImageInv
    <2>3. rw' = rw /\ sb' = sb /\ (<<rw, sb>> \in Sizes /\ (rwpi \/ sb = 0) => LoopInv')
      BY <2>1, LoopInvNext
      DEF ImageInv, FillInv, Next, CopyWord, CopyDone, ZeroWord, ZeroDone, Finished, vars
    <2>4. FillInv'
      BY <2>1, <2>3 DEF ImageInv, FillInv, linkVars, input
    <2>5. QED
      BY <2>2, <2>4 DEF ImageInv
  <1>5. QED
    BY <1>1, <1>2, <1>3, <1>4
    DEF LinkersNext, LinkModule, ImageNext, Over, LinkAif, AifOver, linkersVars

LEMMA ImageInvAlways == LinkersSpec => []ImageInv
  BY ImageInvInit, ImageInvNext, PTL DEF LinkersSpec

-----------------------------------------------------------------------------
\* Writable data only in modules whose header was generated with --rwpi: the
\* linker does not see to it.
RwpiData ==
  \A x \in Inputs :
    x.rwpi \/ \A i \in 1..Len(x.sections) : x.sections[i].kind \notin {"data", "bss"}

\* Without writable data the second address space stays empty.
NoStatics == \A s \in 1..Len(sections) : ~Writable(s)
NoStaticsInv ==
  /\ rwpi \/ NoStatics
  /\ NoStatics => /\ phase \in {"data", "bss"} => cursor = 0
                  /\ phase = "bss" => rwDataEnd = 0
                  /\ phase \in AfterLayout => rwDataEnd = 0 /\ sbSize = 0

LEMMA NoStaticsInit == ASSUME RwpiData, LinkersInit PROVE NoStaticsInv
  <1>1. PICK x \in Inputs : sections = x.sections /\ rwpi = x.rwpi
    BY DEF LinkersInit, ImageInit, LinkInit, ObjectsInit
  <1>2. rwpi \/ NoStatics
    BY <1>1 DEF RwpiData, NoStatics, Writable
  <1>3. phase = "header"
    BY DEF LinkersInit, ImageInit, LinkInit
  <1>4. QED
    BY <1>2, <1>3 DEF NoStaticsInv, AfterLayout

LEMMA NoStaticsLink == ASSUME LayoutInv, NoStaticsInv, LinkNext PROVE NoStaticsInv'
  <1>1. UNCHANGED <<sections, rwpi>>
    BY DEF LinkNext, Refuse, HeaderFirst, HeaderMissing, Place, CodePlaced, DataPlaced,
           BssPlaced, Relocate, CannotRelocate, FillParams, CannotFill, CheckHeader, HeaderWrong,
           SidePlace, SidecarWritten, input
  <1>2. NoStatics' = NoStatics
    BY <1>1 DEF NoStatics, Writable
  <1>3. AlignTo(0, 16) = 0 /\ AlignTo(0, 4) = 0
    BY DEF AlignTo
  <1>4. CASE Place
    <2>1. phase' = phase /\ rwDataEnd' = rwDataEnd /\ sbSize' = sbSize /\ phase \in Passes
      BY <1>4 DEF Place
    <2>2. ASSUME NoStatics, phase \in {"data", "bss"} PROVE cursor' = cursor
      <3>1. next \in 1..Len(sections)
        BY <1>4 DEF Place, LayoutInv
      <3>2. sections[next].kind # phase
        BY <2>2, <3>1 DEF NoStatics, Writable
      <3>3. QED
        BY <1>4, <3>2 DEF Place
    <2>3. phase \notin AfterLayout
      BY <2>1 DEF Passes, AfterLayout
    <2>4. QED
      BY <1>1, <1>2, <2>1, <2>2, <2>3 DEF NoStaticsInv
  <1>5. CASE CodePlaced
    BY <1>1, <1>2, <1>5 DEF CodePlaced, NoStaticsInv, AfterLayout
  <1>6. CASE DataPlaced
    BY <1>1, <1>2, <1>3, <1>6 DEF DataPlaced, NoStaticsInv, AfterLayout
  <1>7. CASE BssPlaced
    BY <1>1, <1>2, <1>3, <1>7 DEF BssPlaced, NoStaticsInv, AfterLayout
  <1>8. CASE Relocate \/ FillParams \/ CheckHeader \/ SidePlace \/ SidecarWritten
    <2>1. /\ phase \in AfterLayout /\ phase' \in AfterLayout
          /\ rwDataEnd' = rwDataEnd /\ sbSize' = sbSize
      BY <1>8 DEF Relocate, FillParams, CheckHeader, SidePlace, SidecarWritten, AfterLayout
    <2>2. phase' \notin {"data", "bss"}
      BY <2>1 DEF AfterLayout
    <2>3. QED
      BY <1>1, <1>2, <2>1, <2>2 DEF NoStaticsInv
  <1>9. CASE HeaderFirst \/ Refuse
    BY <1>1, <1>2, <1>9 DEF HeaderFirst, Refuse, NoStaticsInv, AfterLayout
  <1>10. QED
    BY <1>4, <1>5, <1>6, <1>7, <1>8, <1>9
    DEF LinkNext, HeaderMissing, CannotRelocate, CannotFill, HeaderWrong

LEMMA NoStaticsNext ==
  ASSUME ImageInv, NoStaticsInv, [LinkersNext]_linkersVars PROVE NoStaticsInv'
  <1>1. CASE UNCHANGED linkVars
    BY <1>1 DEF linkVars, input, NoStaticsInv, NoStatics, Writable
  <1>2. CASE LinkNext
    BY <1>2, NoStaticsLink DEF ImageInv
  <1>3. CASE Load
    <2>1. /\ UNCHANGED <<sections, rwpi, rwDataEnd, sbSize>>
          /\ phase \in AfterLayout /\ phase' \in AfterLayout
          /\ phase' \notin {"data", "bss"}
      BY <1>3 DEF Load, input, AfterLayout
    <2>2. NoStatics' = NoStatics
      BY <2>1 DEF NoStatics, Writable
    <2>3. QED
      BY <2>1, <2>2 DEF NoStaticsInv
  <1>4. QED
    BY <1>1, <1>2, <1>3
    DEF LinkersNext, LinkModule, ImageNext, Link, Run, Over, LinkAif, AifOver, linkersVars, imageVars

LEMMA NoStaticsAlways == ASSUME RwpiData PROVE LinkersSpec => [](ImageInv /\ NoStaticsInv)
  <1>1. LinkersInit => ImageInv /\ NoStaticsInv
    BY ImageInvInit, NoStaticsInit
  <1>2. ImageInv /\ NoStaticsInv /\ [LinkersNext]_linkersVars => (ImageInv /\ NoStaticsInv)'
    BY ImageInvNext, NoStaticsNext
  <1>3. QED
    BY <1>1, <1>2, PTL DEF LinkersSpec

-----------------------------------------------------------------------------
\* Whatever objects are linked, the module's sections keep apart in both
\* spaces, aligned, and inside the ends that are handed on (src/module.rs,
\* the layout of build).
THEOREM SectionsAlwaysApart == LinkersSpec => []SectionsApart
  <1>1. ImageInv => SectionsApart
    BY LayoutApart DEF ImageInv
  <1>2. QED
    BY <1>1, ImageInvAlways, PTL

\* The parameter block has the shape the initialisation veneer relies on: a
\* multiple of sixteen to copy, a multiple of four in all, and no more to copy
\* than there is.
ParamsShape ==
  phase \in AllRelocated /\ params # << >> =>
    /\ params[2] \in Nat /\ params[3] \in Nat
    /\ params[2] % 16 = 0 /\ params[3] % 4 = 0 /\ params[2] <= params[3]
THEOREM ParamsAdmitted == LinkersSpec => []ParamsShape
  <1>1. ImageInv => ParamsShape
    BY DEF ImageInv, FillInv, LayoutInv, ParamsShape, AllRelocated, AfterLayout
  <1>2. QED
    BY <1>1, ImageInvAlways, PTL

\* A relocated word of a module that is written leads to its symbol wherever
\* the RMA and the static area are (src/module.rs, the relocation loop).
THEOREM ModulesRunAt ==
  ASSUME NEW load \in Nat, NEW base \in Nat PROVE LinkersSpec => []RunsAt(load, base)
  <1>1. ImageInv => RunsAt(load, base)
    BY RelocatedRuns DEF ImageInv
  <1>2. QED
    BY <1>1, ImageInvAlways, PTL

\* In particular at the addresses the runs try.
THEOREM ModulesRunAnywhere == LinkersSpec => []RunsAnywhere
  <1>1. ImageInv => RunsAnywhere
    <2>1. \A a \in {0, 20, 400} : a \in Nat
      OBVIOUS
    <2>2. QED
      BY <2>1, RelocatedRuns DEF ImageInv, RunsAnywhere
  <1>2. QED
    BY <1>1, ImageInvAlways, PTL

\* A reference of a module leads to the definition its object means, captures
\* by a global of the same name excepted.
THEOREM ReferencesAlwaysMeant == LinkersSpec => []MeantDefinition
  <1>1. ImageInv => MeantDefinition
    BY RelocatedMeant DEF ImageInv
  <1>2. QED
    BY <1>1, ImageInvAlways, PTL

\* The debugger is told where the code of a module is, if no part of it wants
\* more than word alignment (src/module.rs, write_sidecar_elf).
THEOREM SidecarAlwaysAgrees == LinkersSpec => []SidecarAgrees
  <1>1. ImageInv => SidecarAgrees
    BY DEF ImageInv, SideInv, SidecarAgrees, WordAligned
  <1>2. QED
    BY <1>1, ImageInvAlways, PTL

\* The C initialisation of a module finds every section with contents filled
\* and every other one zero, if the sizes are among those that fit in memory and
\* only --rwpi headers are linked with writable data.
THEOREM StaticsAlwaysInitialised ==
  ASSUME RwpiData
  PROVE  LinkersSpec => [](<<rw, sb>> \in Sizes => StaticsInitialised)
  <1>1. ImageInv /\ NoStaticsInv => (<<rw, sb>> \in Sizes => StaticsInitialised)
    <2> SUFFICES ASSUME ImageInv, NoStaticsInv, <<rw, sb>> \in Sizes,
                        phase = "running", pc = "done",
                        NEW s \in DOMAIN addr, NEW o \in Words,
                        Writable(s), addr[s] <= o, o + 4 <= End(s)
                 PROVE  area[o] = IF sections[s].kind = "data" THEN Source(o) ELSE 0
      BY DEF StaticsInitialised
    <2>0. s \in 1..Len(sections)
      BY DEF ImageInv, LayoutInv, AfterLayout
    <2>1. LoopInv /\ rw = rwDataEnd /\ sb = sbSize
      <3>1. rwpi
        BY <2>0 DEF NoStaticsInv, NoStatics
      <3>2. QED
        BY <3>1 DEF ImageInv, FillInv
    <2>2. /\ o \in Nat /\ addr[s] \in Nat /\ rw \in Nat /\ sb \in Nat
          /\ Kind(s) = "data" => End(s) <= rw
          /\ Kind(s) = "bss" => rw <= addr[s] /\ End(s) <= sb
          /\ Kind(s) \in {"data", "bss"} /\ rw <= sb
      BY <2>1, SizesAssumption DEF ImageInv, LayoutInv, AfterLayout, Words, Writable, Kind
    <2>3. area[o] = IF o < rw THEN Source(o) ELSE IF o < sb THEN 0 ELSE Junk
      BY <2>1, SizesAssumption DEF LoopInv, Words
    <2>4. End(s) \in Nat
      BY SectionTypes, <2>2 DEF ImageInv, LayoutInv, End
    <2>5. CASE Kind(s) = "data"
      <3>1. o < rw
        BY <2>2, <2>4, <2>5
      <3>2. QED
        BY <2>3, <2>5, <3>1 DEF Kind
    <2>6. CASE Kind(s) = "bss"
      <3>1. ~(o < rw) /\ o < sb
        BY <2>2, <2>4, <2>6
      <3>2. QED
        BY <2>3, <2>6, <3>1 DEF Kind
    <2>7. QED
      BY <2>2, <2>5, <2>6
  <1>2. QED
    BY <1>1, NoStaticsAlways, PTL

\* The loops start on sizes the linker rounded as they need them, and do what
\* they are for in every module whose statics fit in memory; Sizes is no
\* restriction beyond that.  A workspace-only header has no loops, and needs
\* none where there is no writable data.
THEOREM LinkedModulesInitialise ==
  ASSUME RwpiData,
         \A i, j \in 0..Limit : i % 16 = 0 /\ j % 4 = 0 /\ i <= j => <<i, j>> \in Sizes
  PROVE  LinkersSpec => [](sb <= Limit => LoopInv /\ AreaFilled /\ StaticsInitialised)
  <1>1. ASSUME ImageInv, NoStaticsInv, sb <= Limit PROVE LoopInv
    <2>1. CASE phase = "running"
      <3>0. rwpi \/ sb = 0
        BY <1>1, <2>1 DEF ImageInv, FillInv, NoStaticsInv, AfterLayout
      <3>1. /\ rw \in Nat /\ sb \in Nat /\ rw % 16 = 0 /\ sb % 4 = 0 /\ rw <= sb
            /\ <<rw, sb>> \in Sizes => LoopInv
        BY <1>1, <2>1, <3>0 DEF ImageInv, FillInv, LayoutInv, AfterLayout
      <3>2. rw \in 0..Limit /\ sb \in 0..Limit
        BY <1>1, <3>1, SizesAssumption
      <3>3. QED
        BY <3>1, <3>2
    <2>2. CASE phase # "running"
      <3>1. Unfilled
        BY <1>1, <2>2 DEF ImageInv, FillInv
      <3>2. <<0, 0>> \in Sizes
        <4>1. 0 \in 0..Limit /\ 0 % 16 = 0 /\ 0 % 4 = 0 /\ 0 <= 0
          BY SizesAssumption
        <4>2. QED
          BY <4>1
      <3>3. Init
        <4>1. \E s \in Sizes : rw = s[1] /\ sb = s[2]
          BY <3>1, <3>2 DEF Unfilled
        <4>2. QED
          BY <3>1, <4>1 DEF Unfilled, Init
      <3>4. QED
        BY <3>3, LoopInvInit
    <2>3. QED
      BY <2>1, <2>2
  <1>2. LoopInv => AreaFilled /\ <<rw, sb>> \in Sizes
    BY LoopFills DEF LoopInv
  <1>3. ImageInv /\ NoStaticsInv /\ (<<rw, sb>> \in Sizes => StaticsInitialised) =>
          (sb <= Limit => LoopInv /\ AreaFilled /\ StaticsInitialised)
    BY <1>1, <1>2
  <1>4. QED
    BY <1>3, NoStaticsAlways, StaticsAlwaysInitialised, PTL
=============================================================================

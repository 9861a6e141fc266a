---------------------------- MODULE AifLinkProofs ----------------------------
(***************************************************************************)
(* The absolute image linker for any objects: its layout with the GOT      *)
(* behind it, and what its references lead to.                             *)
(***************************************************************************)
EXTENDS LinkersProofs

-----------------------------------------------------------------------------
\* Sections are placed one behind the other, code before data; when all are,
\* the linker's own symbols and the GOT lie behind them.
Laid == {"got", "relocate", "written"}
Resolving == {"relocate", "written"}
AifInv ==
  /\ aifPhase \in {"code", "data", "refused"} \cup Laid
  /\ aifCursor \in Nat /\ ImageBase <= aifCursor /\ turn \in Nat \ {0}
  /\ DOMAIN aifAddr \subseteq 1..Len(sections)
  /\ \A s \in DOMAIN aifAddr : aifAddr[s] \in Nat /\ ImageBase <= aifAddr[s]
  /\ \A s, t \in DOMAIN aifAddr :
       s # t => AifEnd(s) <= aifAddr[t] \/ AifEnd(t) <= aifAddr[s]
  /\ aifPhase \in {"code", "data", "got"} =>
       /\ \A s \in DOMAIN aifAddr : AifEnd(s) <= aifCursor
       /\ \A s, t \in DOMAIN aifAddr :
            Writable(t) /\ (~Writable(s) \/ s < t) => AifEnd(s) <= aifAddr[t]
  /\ aifPhase \in {"code", "data"} => DOMAIN defined = {}
  /\ aifPhase = "code" =>
       DOMAIN aifAddr = {s \in 1..Len(sections) : ~Writable(s) /\ s < turn}
  /\ aifPhase = "data" =>
       DOMAIN aifAddr = {s \in 1..Len(sections) : ~Writable(s) \/ s < turn}
  /\ \A n \in DOMAIN defined : defined[n] \in Nat
  /\ aifPhase \in Laid =>
       /\ DOMAIN aifAddr = 1..Len(sections)
       /\ "__image_end" \in DOMAIN defined
       /\ \A s \in DOMAIN aifAddr :
            /\ AifEnd(s) <= defined["__image_end"]
            /\ IF Writable(s) THEN aifRoEnd <= aifAddr[s] ELSE AifEnd(s) <= aifRoEnd
  /\ aifPhase = "got" => DOMAIN defined = {"__image_end"} /\ DOMAIN aifWords = {}
  /\ aifPhase \in Resolving =>
       /\ DOMAIN defined = {"__image_end", "_end"}
       /\ DOMAIN slots = GotNames
       /\ \A s \in DOMAIN aifAddr : AifEnd(s) <= defined["_end"]
       /\ \A n \in GotNames :
            /\ slots[n].at \in Nat /\ slots[n].at % 4 = 0
            /\ slots[n].at + 4 <= defined["_end"]
            /\ \A s \in DOMAIN aifAddr : AifEnd(s) <= slots[n].at
            /\ \A m \in GotNames : m # n => slots[m].at # slots[n].at
  /\ aifPhase \in {"code", "data"} => DOMAIN aifWords = {}

LEMMA AifInitially == InputInv /\ AifInit => AifInv
  BY BaseAssumption DEF AifInit, AifInv, Laid, Resolving

LEMMA AifPlaces == ASSUME InputInv, AifInv, AifPlace, UNCHANGED input PROVE AifInv'
  <1>1. /\ UNCHANGED <<sections, aifPhase, defined, aifWords, aifRoEnd, slots>>
        /\ aifPhase \in {"code", "data"}
        /\ aifPhase \notin {"got"} \cup Laid \cup Resolving
        /\ turn \in 1..Len(sections) /\ turn' = turn + 1 /\ turn' \in Nat \ {0}
    BY DEF AifPlace, input, AifInv, InputInv, Laid, Resolving
  <1>2. \A s : Writable(s)' = Writable(s)
    BY <1>1 DEF Writable
  <1>3. \A s \in 1..Len(sections) : s < turn' <=> s < turn \/ s = turn
    BY <1>1
  <1> DEFINE here == Writable(turn) <=> aifPhase = "data"
  <1>0. (Writable(turn) = (aifPhase = "data")) <=> here
    BY DEF Writable
  <1>4. CASE ~here
    <2>1. aifAddr' = aifAddr /\ aifCursor' = aifCursor /\ \A s : AifEnd(s)' = AifEnd(s)
      BY <1>0, <1>1, <1>4 DEF AifPlace, AifEnd
    <2>2. aifPhase = "code" =>
            DOMAIN aifAddr = {s \in 1..Len(sections) : ~Writable(s) /\ s < turn'}
      BY <1>3, <1>4 DEF AifInv
    <2>3. aifPhase = "data" =>
            DOMAIN aifAddr = {s \in 1..Len(sections) : ~Writable(s) \/ s < turn'}
      BY <1>3, <1>4 DEF AifInv
    <2>4. QED
      BY <1>1, <1>2, <2>1, <2>2, <2>3 DEF AifInv
  <1>5. CASE here
    <2> DEFINE at == AlignTo(aifCursor, 4)
    <2>1. aifAddr' = Extend(aifAddr, turn, at) /\ aifCursor' = at + sections[turn].size
      BY <1>0, <1>5 DEF AifPlace
    <2>2. at \in Nat /\ aifCursor <= at /\ sections[turn].size \in Nat
      BY <1>1, AlignUp, SectionTypes, 4 \in Nat \ {0} DEF AifInv
    <2> HIDE DEF at
    <2>3. turn \notin DOMAIN aifAddr
      BY <1>1, <1>5 DEF AifInv
    <2>4. /\ DOMAIN aifAddr' = DOMAIN aifAddr \cup {turn} /\ aifAddr'[turn] = at
          /\ \A s \in DOMAIN aifAddr : aifAddr'[s] = aifAddr[s]
      BY <2>1, <2>3 DEF Extend
    <2>5. PICK n \in 1..Len(sections) : n = turn
      BY <1>1
    <2>6. /\ \A s \in DOMAIN aifAddr : AifEnd(s)' = AifEnd(s) /\ AifEnd(s) <= aifCursor
          /\ \A s \in DOMAIN aifAddr : AifEnd(s) \in Nat
          /\ AifEnd(n)' = aifCursor'
      <3>1. \A s \in DOMAIN aifAddr : sections[s].size \in Nat /\ aifAddr[s] \in Nat
        BY SectionTypes DEF AifInv
      <3>2. QED
        BY <1>1, <2>1, <2>4, <2>5, <3>1 DEF AifEnd, AifInv
    <2>7. aifCursor' \in Nat /\ aifCursor <= aifCursor' /\ ImageBase <= aifCursor'
      BY <2>1, <2>2, BaseAssumption DEF AifInv
    <2>8. \A s \in DOMAIN aifAddr' : aifAddr'[s] \in Nat /\ ImageBase <= aifAddr'[s]
      BY <2>2, <2>4, BaseAssumption DEF AifInv
    <2>9. \A s, t \in DOMAIN aifAddr' :
            s # t => (AifEnd(s) <= aifAddr[t])' \/ (AifEnd(t) <= aifAddr[s])'
      BY <2>2, <2>4, <2>5, <2>6 DEF AifInv
    <2>10. \A s \in DOMAIN aifAddr' : (AifEnd(s) <= aifCursor)'
      BY <2>4, <2>5, <2>6, <2>7 DEF AifInv
    <2>11. \A s, t \in DOMAIN aifAddr' :
             Writable(t) /\ (~Writable(s) \/ s < t) => (AifEnd(s) <= aifAddr[t])'
      <3> SUFFICES ASSUME NEW s \in DOMAIN aifAddr', NEW t \in DOMAIN aifAddr',
                          Writable(t), ~Writable(s) \/ s < t
                   PROVE  (AifEnd(s) <= aifAddr[t])'
        OBVIOUS
      <3>1. CASE t = n
        <4>1. s # n
          BY <1>1, <3>1
        <4>2. QED
          BY <2>2, <2>4, <2>5, <2>6, <3>1, <4>1 DEF AifInv
      <3>2. CASE t # n
        <4>1. t \in DOMAIN aifAddr
          BY <2>4, <2>5, <3>2
        <4>2. aifPhase = "data" /\ t < turn /\ Writable(n)
          BY <1>1, <1>5, <2>5, <4>1 DEF AifInv
        <4>3. s # n
          BY <2>5, <4>2
        <4>4. QED
          BY <1>1, <2>4, <2>5, <2>6, <4>1, <4>3 DEF AifInv
      <3>3. QED
        BY <3>1, <3>2
    <2>12. aifPhase = "code" =>
             DOMAIN aifAddr' = {s \in 1..Len(sections) : ~Writable(s) /\ s < turn'}
      BY <1>1, <1>3, <1>5, <2>4 DEF AifInv
    <2>13. aifPhase = "data" =>
             DOMAIN aifAddr' = {s \in 1..Len(sections) : ~Writable(s) \/ s < turn'}
      BY <1>1, <1>3, <1>5, <2>4 DEF AifInv
    <2>14. DOMAIN aifAddr' \subseteq 1..Len(sections)
      BY <1>1, <2>4 DEF AifInv
    <2>15. QED
      BY <1>1, <1>2, <2>7, <2>8, <2>9, <2>10, <2>11, <2>12, <2>13, <2>14 DEF AifInv
  <1>6. QED
    BY <1>4, <1>5

\* A link that is refused, or a relocation, moves nothing.
LEMMA AifKept ==
  ASSUME AifInv, UNCHANGED <<input, aifCursor, aifAddr, aifRoEnd, defined, slots>>,
         \/ aifPhase' = "refused"
         \/ aifPhase \in Resolving /\ aifPhase' \in Resolving,
         turn' \in Nat \ {0}
  PROVE  AifInv'
  <1>1. /\ \A s : Writable(s)' = Writable(s) /\ AifEnd(s)' = AifEnd(s)
        /\ GotNames' = GotNames /\ sections' = sections
    BY DEF input, Writable, AifEnd, GotNames, GotRelocs, NameAt
  <1>2. CASE aifPhase' = "refused"
    BY <1>1, <1>2 DEF AifInv, Laid, Resolving
  <1>3. CASE aifPhase \in Resolving /\ aifPhase' \in Resolving
    BY <1>1, <1>3 DEF AifInv, Laid, Resolving
  <1>4. QED
    BY <1>2, <1>3

LEMMA AifCodeDone == ASSUME InputInv, AifInv, AifCodePlaced, UNCHANGED input PROVE AifInv'
  <1>1. /\ UNCHANGED <<sections, aifCursor, aifAddr, aifRoEnd, defined, slots, aifWords>>
        /\ aifPhase = "code" /\ aifPhase' = "data" /\ turn' = 1 /\ turn > Len(sections)
    BY DEF AifCodePlaced, input
  <1>2. \A s : Writable(s)' = Writable(s) /\ AifEnd(s)' = AifEnd(s)
    BY <1>1 DEF Writable, AifEnd
  <1>3. DOMAIN aifAddr = {s \in 1..Len(sections) : ~Writable(s) \/ s < 1}
    <2>1. \A s \in 1..Len(sections) : s < turn /\ ~(s < 1)
      BY <1>1 DEF AifInv, InputInv
    <2>2. QED
      BY <1>1, <2>1 DEF AifInv
  <1>4. QED
    BY <1>1, <1>2, <1>3 DEF AifInv, Laid, Resolving

LEMMA AifDataDone == ASSUME InputInv, AifInv, AifDataPlaced, UNCHANGED input PROVE AifInv'
  <1>1. /\ UNCHANGED <<sections, aifCursor, aifAddr, slots, aifWords, turn>>
        /\ aifPhase = "data" /\ aifPhase' = "got" /\ turn > Len(sections)
        /\ defined' = [n \in {"__image_end"} |-> AlignTo(aifCursor, 4)]
    BY DEF AifDataPlaced, input
  <1>2. \A s : Writable(s)' = Writable(s) /\ AifEnd(s)' = AifEnd(s)
    BY <1>1 DEF Writable, AifEnd
  <1>3. /\ DOMAIN aifAddr = 1..Len(sections)
        /\ \A s \in 1..Len(sections) : AifEnd(s) \in Nat /\ aifAddr[s] \in Nat
    <2>1. \A s \in 1..Len(sections) : s < turn
      BY <1>1 DEF AifInv, InputInv
    <2>2. DOMAIN aifAddr = 1..Len(sections)
      BY <1>1, <2>1 DEF AifInv
    <2>3. \A s \in 1..Len(sections) : sections[s].size \in Nat
      BY SectionTypes
    <2>4. QED
      BY <2>2, <2>3 DEF AifInv, AifEnd
  <1>4. /\ AlignTo(aifCursor, 4) \in Nat /\ aifCursor <= AlignTo(aifCursor, 4)
    BY AlignUp, 4 \in Nat \ {0} DEF AifInv
  <1>5. /\ DOMAIN defined' = {"__image_end"}
        /\ \A n \in DOMAIN defined' : defined'[n] \in Nat
        /\ \A s \in DOMAIN aifAddr : AifEnd(s) <= defined'["__image_end"]
    BY <1>1, <1>3, <1>4 DEF AifInv
  <1>6. \A s \in DOMAIN aifAddr :
          IF Writable(s) THEN aifRoEnd' <= aifAddr[s] ELSE AifEnd(s) <= aifRoEnd'
    <2>1. CASE Statics = {}
      <3>1. aifRoEnd' = aifCursor
        BY <2>1 DEF AifDataPlaced
      <3>2. \A s \in DOMAIN aifAddr : ~Writable(s)
        BY <1>3, <2>1 DEF Statics
      <3>3. QED
        BY <1>1, <3>1, <3>2 DEF AifInv
    <2>2. CASE Statics # {}
      <3>1. \E s \in Statics : \A t \in Statics : s <= t
        <4>1. Statics \subseteq Nat
          BY DEF Statics
        <4>2. QED
          BY <2>2, <4>1, Least
      <3>2. PICK s \in Statics : (\A t \in Statics : s <= t) /\ aifRoEnd' = aifAddr[s]
        BY <2>2, <3>1 DEF AifDataPlaced
      <3>3. s \in DOMAIN aifAddr /\ Writable(s) /\ s \in Nat
        BY <1>3 DEF Statics
      <3>4. ASSUME NEW t \in DOMAIN aifAddr, Writable(t) PROVE aifRoEnd' <= aifAddr[t]
        <4>1. t \in Statics /\ t \in Nat /\ s <= t
          BY <1>3, <3>2, <3>4 DEF Statics
        <4>2. CASE t = s
          BY <1>3, <3>2, <3>3, <4>2
        <4>3. CASE t # s
          <5>1. AifEnd(s) <= aifAddr[t]
            BY <1>1, <3>3, <3>4, <4>1, <4>3 DEF AifInv
          <5>2. aifAddr[s] <= AifEnd(s)
            BY <1>3, <3>3, SectionTypes DEF AifEnd
          <5>3. QED
            BY <1>3, <3>2, <3>3, <5>1, <5>2
        <4>4. QED
          BY <4>2, <4>3
      <3>5. ASSUME NEW t \in DOMAIN aifAddr, ~Writable(t) PROVE AifEnd(t) <= aifRoEnd'
        BY <1>1, <3>2, <3>3, <3>5 DEF AifInv
      <3>6. QED
        BY <3>4, <3>5
    <2>3. QED
      BY <2>1, <2>2
  <1>7. QED
    BY <1>1, <1>2, <1>3, <1>5, <1>6 DEF AifInv, Laid, Resolving

-----------------------------------------------------------------------------
\* The slots are numbered without gaps or repetitions.
LEMMA FirstUses ==
  ASSUME InputInv, NEW n \in GotNames
  PROVE  /\ FirstUse(n) \in GotRelocs /\ FirstUse(n) \in Nat
         /\ NameAt(FirstUse(n)) = n
  <1> DEFINE U == {r \in GotRelocs : NameAt(r) = n}
  <1>1. U \subseteq Nat /\ U # {}
    BY DEF GotRelocs, GotNames
  <1>2. \E r \in U : \A q \in U : r <= q
    BY <1>1, Least
  <1>3. \E r \in GotRelocs : NameAt(r) = n /\ \A q \in GotRelocs : NameAt(q) = n => r <= q
    BY <1>2
  <1>4. FirstUse(n) \in GotRelocs /\ NameAt(FirstUse(n)) = n
    BY <1>3 DEF FirstUse
  <1>5. QED
    BY <1>4 DEF GotRelocs

LEMMA SmallerSet ==
  ASSUME NEW S, IsFiniteSet(S), NEW T, T \subseteq S, NEW x \in S, x \notin T
  PROVE  Cardinality(T) \in Nat /\ Cardinality(S) \in Nat /\ Cardinality(T) < Cardinality(S)
  <1>1. IsFiniteSet(T) /\ Cardinality(T) <= Cardinality(S) /\ Cardinality(T) # Cardinality(S)
    BY FS_Subset
  <1>2. Cardinality(T) \in Nat /\ Cardinality(S) \in Nat
    BY <1>1, FS_CardinalityType
  <1>3. QED
    BY <1>1, <1>2

LEMMA SlotNumbers ==
  ASSUME InputInv
  PROVE  /\ Cardinality(GotNames) \in Nat
         /\ \A n \in GotNames :
              /\ SlotNumber(n) \in Nat /\ SlotNumber(n) < Cardinality(GotNames)
              /\ \A m \in GotNames : m # n => SlotNumber(m) # SlotNumber(n)
  <1>1. IsFiniteSet(GotNames)
    <2>1. IsFiniteSet(1..Len(relocs)) /\ GotRelocs \subseteq 1..Len(relocs)
      BY FS_Interval DEF InputInv, GotRelocs
    <2>2. IsFiniteSet(GotRelocs)
      BY <2>1, FS_Subset
    <2> DEFINE f == [r \in GotRelocs |-> NameAt(r)]
    <2>3. f \in Surjection(GotRelocs, GotNames)
      BY DEF Surjection, GotNames
    <2>4. QED
      BY <2>2, <2>3, FS_Surjection
  <1>2. Cardinality(GotNames) \in Nat
    BY <1>1, FS_CardinalityType
  <1> DEFINE B(n) == {m \in GotNames : FirstUse(m) < FirstUse(n)}
  <1>3. \A n \in GotNames : FirstUse(n) \in Nat /\ NameAt(FirstUse(n)) = n
    BY FirstUses
  <1>4. \A n \in GotNames : SlotNumber(n) = Cardinality(B(n))
    BY DEF SlotNumber
  <1>5. ASSUME NEW n \in GotNames
        PROVE  SlotNumber(n) \in Nat /\ SlotNumber(n) < Cardinality(GotNames)
    <2>1. B(n) \subseteq GotNames /\ n \notin B(n)
      BY <1>3
    <2>2. QED
      BY <1>1, <1>4, <2>1, SmallerSet
  <1>6. ASSUME NEW m \in GotNames, NEW n \in GotNames, FirstUse(m) < FirstUse(n)
        PROVE  SlotNumber(m) < SlotNumber(n)
    <2>1. B(m) \subseteq B(n)
      BY <1>3, <1>6
    <2>2. m \in B(n) /\ m \notin B(m)
      BY <1>3, <1>6
    <2>3. IsFiniteSet(B(n))
      BY <1>1, FS_Subset
    <2>4. Cardinality(B(m)) < Cardinality(B(n))
      BY <2>1, <2>2, <2>3, SmallerSet
    <2>5. QED
      BY <1>4, <2>4
  <1>7. ASSUME NEW m \in GotNames, NEW n \in GotNames, m # n
        PROVE  SlotNumber(m) # SlotNumber(n)
    <2>1. FirstUse(m) < FirstUse(n) \/ FirstUse(n) < FirstUse(m)
      BY <1>3, <1>7
    <2>2. SlotNumber(m) \in Nat /\ SlotNumber(n) \in Nat
      BY <1>5
    <2>3. QED
      BY <1>6, <2>1, <2>2
  <1>8. QED
    BY <1>2, <1>5, <1>7

LEMMA AifGotBuilt == ASSUME InputInv, AifInv, BuildGot, UNCHANGED input PROVE AifInv'
  <1>1. /\ UNCHANGED <<sections, symbols, relocs, aifAddr, aifRoEnd, aifWords>>
        /\ aifPhase = "got" /\ aifPhase' = "relocate" /\ turn' = 1
        /\ slots' = [n \in GotNames |->
                      [at |-> GotBase + 4 * SlotNumber(n), value |-> GotValue(n)]]
        /\ aifCursor' = GotBase + 4 * Cardinality(GotNames)
        /\ defined' = Extend(defined, "_end", AlignTo(aifCursor', 4))
    BY DEF BuildGot, input
  <1>2. /\ \A s : Writable(s)' = Writable(s) /\ AifEnd(s)' = AifEnd(s)
        /\ GotNames' = GotNames
    BY <1>1 DEF Writable, AifEnd, GotNames, GotRelocs, NameAt
  <1>3. GotBase \in Nat /\ aifCursor <= GotBase /\ GotBase % 4 = 0
    BY AlignUp, 4 \in Nat \ {0} DEF AifInv, GotBase
  <1>4. aifCursor' \in Nat /\ GotBase <= aifCursor'
    BY <1>1, <1>3, SlotNumbers
  <1> DEFINE end == AlignTo(aifCursor', 4)
  <1>5. end \in Nat /\ aifCursor' <= end
    BY <1>4, AlignUp, 4 \in Nat \ {0}
  <1> HIDE DEF end
  <1>6. /\ DOMAIN defined' = {"__image_end", "_end"}
        /\ defined'["_end"] = end /\ defined'["__image_end"] = defined["__image_end"]
        /\ defined["__image_end"] \in Nat
    BY <1>1 DEF AifInv, Extend, end
  <1>7. \A s \in DOMAIN aifAddr : AifEnd(s) \in Nat /\ AifEnd(s) <= GotBase /\ AifEnd(s) <= end
    <2>1. \A s \in DOMAIN aifAddr : AifEnd(s) \in Nat /\ AifEnd(s) <= aifCursor
      BY <1>1, SectionTypes DEF AifInv, AifEnd
    <2>2. aifCursor \in Nat
      BY DEF AifInv
    <2>3. QED
      BY <1>3, <1>4, <1>5, <2>1, <2>2
  <1>8. ASSUME NEW n \in GotNames
        PROVE  /\ slots'[n].at \in Nat /\ slots'[n].at % 4 = 0
               /\ slots'[n].at + 4 <= end
               /\ \A s \in DOMAIN aifAddr : AifEnd(s) <= slots'[n].at
               /\ \A m \in GotNames : m # n => slots'[m].at # slots'[n].at
    <2> DEFINE k == SlotNumber(n)
    <2>1. /\ k \in Nat /\ Cardinality(GotNames) \in Nat /\ k + 1 <= Cardinality(GotNames)
          /\ \A m \in GotNames : SlotNumber(m) \in Nat /\ (m # n => SlotNumber(m) # k)
      BY SlotNumbers
    <2>2. \A m \in GotNames : slots'[m].at = GotBase + 4 * SlotNumber(m)
      BY <1>1
    <2> HIDE DEF k
    <2>3. slots'[n].at = GotBase + 4 * k
      BY <2>2 DEF k
    <2>4. slots'[n].at \in Nat /\ slots'[n].at % 4 = 0 /\ GotBase <= slots'[n].at
      BY <1>3, <2>1, <2>3
    <2>5. slots'[n].at + 4 <= aifCursor'
      BY <1>1, <1>3, <2>1, <2>3
    <2>6. ASSUME NEW m \in GotNames, m # n PROVE slots'[m].at # slots'[n].at
      <3> DEFINE j == SlotNumber(m)
      <3>1. j \in Nat /\ j # k
        BY <2>1, <2>6
      <3>2. slots'[m].at = GotBase + 4 * j
        BY <2>2
      <3> HIDE DEF j
      <3>3. GotBase + 4 * j # GotBase + 4 * k
        BY <1>3, <2>1, <3>1
      <3>4. QED
        BY <2>3, <3>2, <3>3
    <2>7. QED
      BY <1>3, <1>4, <1>5, <1>7, <2>4, <2>5, <2>6
  <1>9. DOMAIN slots' = GotNames
    BY <1>1
  <1>10. ImageBase <= aifCursor'
    BY <1>3, <1>4, BaseAssumption DEF AifInv
  <1>11. QED
    BY <1>1, <1>2, <1>4, <1>5, <1>6, <1>7, <1>8, <1>9, <1>10 DEF AifInv, Laid, Resolving

-----------------------------------------------------------------------------
\* What a slot holds, and the relocations done: _end is defined between them.
WordFor(r) ==
  CASE relocs[r].type = "abs" -> Target(r)
    [] relocs[r].type = "rel" -> Target(r) - Site(r)
    [] relocs[r].type = "got" -> slots[NameAt(r)].at - Site(r)
Accepted(r) ==
  /\ symbols[relocs[r].sym].sec # 0 \/ Known(NameAt(r))
  /\ relocs[r].type # "sbrel"
MeantInv ==
  /\ aifPhase \in Resolving =>
       /\ \A n \in GotNames :
            /\ n = "__image_end" => slots[n].value = defined[n]
            /\ n # "__image_end" /\ Global(n) # None => slots[n].value = AifValue(Global(n))
            /\ n # "__image_end" /\ Global(n) = None =>
                 \E i \in Named(n) : slots[n].value = AifValue(i)
       /\ \A r \in DOMAIN aifWords : Accepted(r) /\ aifWords[r] = WordFor(r)
  /\ aifPhase = "relocate" => \A r \in 1..Len(relocs) : r < turn => r \in DOMAIN aifWords
  /\ aifPhase = "written" => \A r \in 1..Len(relocs) : r \in DOMAIN aifWords

LEMMA SameMeaning ==
  ASSUME UNCHANGED <<input, aifAddr>>
  PROVE  /\ GotNames' = GotNames
         /\ \A n : Global(n)' = Global(n) /\ Named(n)' = Named(n)
         /\ \A i : AifValue(i)' = AifValue(i)
         /\ \A r : NameAt(r)' = NameAt(r) /\ Site(r)' = Site(r)
  <1>1. UNCHANGED <<sections, symbols, relocs, aifAddr>>
    BY DEF input
  <1>2. \A n : Globals(n)' = Globals(n) /\ Named(n)' = Named(n)
    BY <1>1 DEF Globals, Named
  <1>3. \A n : Global(n)' = Global(n)
    <2> SUFFICES ASSUME NEW n PROVE Global(n)' = Global(n)
      OBVIOUS
    <2> DEFINE S == Globals(n)
               G(T) == IF T = {} THEN None ELSE CHOOSE i \in T : \A j \in T : j <= i
    <2>1. S' = S
      BY <1>2
    <2>2. Global(n) = G(S) /\ Global(n)' = G(S')
      BY DEF Global
    <2>3. QED
      BY <2>1, <2>2
  <1>4. GotNames' = GotNames
    BY <1>1 DEF GotNames, GotRelocs, NameAt
  <1>5. QED
    BY <1>1, <1>2, <1>3, <1>4 DEF AifValue, NameAt, Site

LEMMA SameWords ==
  ASSUME UNCHANGED <<input, aifAddr, defined, slots>>
  PROVE  \A r : Accepted(r)' = Accepted(r) /\ WordFor(r)' = WordFor(r)
  <1>1. UNCHANGED <<symbols, relocs>>
    BY DEF input
  <1>2. \A n : Known(n)' = Known(n) /\ ValueOf(n)' = ValueOf(n)
    BY SameMeaning DEF Known, ValueOf
  <1>3. \A r : Target(r)' = Target(r)
    BY <1>1, <1>2, SameMeaning DEF Target
  <1>4. \A r : Accepted(r)' = Accepted(r)
    BY <1>1, <1>2, SameMeaning DEF Accepted
  <1>5. \A r : WordFor(r)' = WordFor(r)
    BY <1>1, <1>3, SameMeaning, Zenon DEF WordFor
  <1>6. QED
    BY <1>4, <1>5

LEMMA MeantKept ==
  ASSUME MeantInv, UNCHANGED <<input, aifAddr, defined, slots, aifWords>>,
         \/ aifPhase' \notin Resolving
         \/ aifPhase' = aifPhase /\ turn' = turn
         \/ /\ aifPhase = "relocate" /\ aifPhase' = "written"
            /\ \A r \in 1..Len(relocs) : r < turn
  PROVE  MeantInv'
  <1>1. relocs' = relocs
    BY DEF input
  <1>2. CASE aifPhase' \notin Resolving
    BY <1>2 DEF MeantInv, Resolving
  <1>3. CASE aifPhase' \in Resolving
    <2>1. aifPhase \in Resolving
      BY <1>3 DEF Resolving
    <2>2. \A n \in GotNames' :
            /\ n = "__image_end" => slots'[n].value = defined'[n]
            /\ n # "__image_end" /\ Global(n)' # None => slots'[n].value = AifValue(Global(n))'
            /\ n # "__image_end" /\ Global(n)' = None =>
                 \E i \in Named(n)' : slots'[n].value = AifValue(i)'
      BY <2>1, SameMeaning DEF MeantInv
    <2>3. \A r \in DOMAIN aifWords' : Accepted(r)' /\ aifWords'[r] = WordFor(r)'
      BY <2>1, SameWords DEF MeantInv
    <2>4. QED
      BY <1>1, <1>3, <2>2, <2>3 DEF MeantInv, Resolving
  <1>4. QED
    BY <1>2, <1>3

LEMMA MeantGotBuilt ==
  ASSUME InputInv, AifInv, BuildGot, UNCHANGED input PROVE MeantInv'
  <1>1. /\ UNCHANGED <<aifAddr, aifWords, relocs>> /\ aifPhase = "got" /\ aifPhase' = "relocate"
        /\ turn' = 1
        /\ \A n \in GotNames : /\ Known(n) \/ Named(n) # {}
                               /\ slots'[n].value = GotValue(n)
        /\ defined' = Extend(defined, "_end", AlignTo(aifCursor', 4))
    BY DEF BuildGot, input
  <1>2. /\ DOMAIN defined = {"__image_end"} /\ DOMAIN aifWords = {}
        /\ defined'["__image_end"] = defined["__image_end"]
    BY <1>1 DEF AifInv, Extend
  <1>3. ASSUME NEW n \in GotNames
        PROVE  /\ n = "__image_end" => slots'[n].value = defined'[n]
               /\ n # "__image_end" /\ Global(n) # None => slots'[n].value = AifValue(Global(n))
               /\ n # "__image_end" /\ Global(n) = None =>
                    \E i \in Named(n) : slots'[n].value = AifValue(i)
    <2>1. CASE n = "__image_end"
      BY <1>1, <1>2, <2>1 DEF GotValue, Known, ValueOf
    <2>2. CASE n # "__image_end" /\ Global(n) # None
      BY <1>1, <1>2, <2>2 DEF GotValue, Known, ValueOf
    <2>3. CASE n # "__image_end" /\ Global(n) = None
      <3>1. ~Known(n)
        BY <1>2, <2>3 DEF Known
      <3>2. Named(n) # {} /\ Named(n) \subseteq Nat
        BY <1>1, <3>1 DEF Named
      <3>3. \E i \in Named(n) : \A j \in Named(n) : i <= j
        BY <3>2, Least
      <3>4. slots'[n].value = AifValue(CHOOSE i \in Named(n) : \A j \in Named(n) : i <= j)
        BY <1>1, <3>1 DEF GotValue
      <3>5. QED
        BY <2>3, <3>3, <3>4
    <2>4. QED
      BY <2>1, <2>2, <2>3
  <1>4. \A r \in 1..Len(relocs) : ~(r < 1)
    OBVIOUS
  <1>5. QED
    BY <1>1, <1>2, <1>3, <1>4, SameMeaning DEF MeantInv, Resolving

LEMMA MeantStep ==
  ASSUME InputInv, AifInv, MeantInv, AifRelocate, UNCHANGED input PROVE MeantInv'
  <1>1. /\ UNCHANGED <<aifPhase, aifAddr, defined, slots>> /\ aifPhase = "relocate"
        /\ relocs' = relocs
        /\ turn \in 1..Len(relocs) /\ turn' = turn + 1
        /\ Accepted(turn)
    BY DEF AifRelocate, AifAccepts, Accepted, input, AifInv, InputInv
  <1>2. aifWords' = Extend(aifWords, turn, WordFor(turn))
    BY DEF AifRelocate, WordFor
  <1>3. /\ DOMAIN aifWords' = DOMAIN aifWords \cup {turn}
        /\ \A r \in DOMAIN aifWords' :
             aifWords'[r] = IF r = turn THEN WordFor(turn) ELSE aifWords[r]
    BY <1>2 DEF Extend
  <1>4. \A r \in DOMAIN aifWords' : Accepted(r)' /\ aifWords'[r] = WordFor(r)'
    BY <1>1, <1>3, SameWords DEF MeantInv, Resolving
  <1>5. \A r \in 1..Len(relocs) : r < turn' => r \in DOMAIN aifWords'
    <2>1. \A r \in 1..Len(relocs) : r < turn + 1 => r < turn \/ r = turn
      BY <1>1
    <2>2. QED
      BY <1>1, <1>3, <2>1 DEF MeantInv
  <1>6. \A n \in GotNames' :
          /\ n = "__image_end" => slots'[n].value = defined'[n]
          /\ n # "__image_end" /\ Global(n)' # None => slots'[n].value = AifValue(Global(n))'
          /\ n # "__image_end" /\ Global(n)' = None =>
               \E i \in Named(n)' : slots'[n].value = AifValue(i)'
    BY <1>1, SameMeaning DEF MeantInv, Resolving
  <1>7. QED
    BY <1>1, <1>4, <1>5, <1>6 DEF MeantInv

-----------------------------------------------------------------------------
AifLinkInv == AifInv /\ MeantInv

LEMMA AifStep ==
  ASSUME InputInv, AifLinkInv, AifNext, UNCHANGED input PROVE AifLinkInv'
  <1>1. CASE AifNoEntry \/ CannotBuildGot \/ AifCannotRelocate
    <2>1. AifRefuse
      BY <1>1 DEF AifNoEntry, CannotBuildGot, AifCannotRelocate
    <2>2. AifInv'
      BY <2>1, AifKept DEF AifRefuse, AifLinkInv, AifInv
    <2>3. MeantInv'
      BY <2>1, MeantKept DEF AifRefuse, AifLinkInv, Resolving
    <2>4. QED
      BY <2>2, <2>3 DEF AifLinkInv
  <1>2. CASE AifPlace \/ AifCodePlaced \/ AifDataPlaced
    <2>1. AifInv'
      BY <1>2, AifPlaces, AifCodeDone, AifDataDone DEF AifLinkInv
    <2>2. aifPhase' \notin Resolving
      BY <1>2 DEF AifPlace, AifCodePlaced, AifDataPlaced, Resolving
    <2>3. QED
      BY <2>1, <2>2 DEF AifLinkInv, MeantInv, Resolving
  <1>3. CASE BuildGot
    BY <1>3, AifGotBuilt, MeantGotBuilt DEF AifLinkInv
  <1>4. CASE AifRelocate
    <2>1. turn' \in Nat \ {0} /\ aifPhase \in Resolving /\ aifPhase' \in Resolving
      BY <1>4 DEF AifRelocate, AifLinkInv, AifInv, Resolving
    <2>2. AifInv'
      BY <1>4, <2>1, AifKept DEF AifRelocate, AifLinkInv
    <2>3. QED
      BY <1>4, <2>2, MeantStep DEF AifLinkInv
  <1>5. CASE AifWritten
    <2>1. /\ UNCHANGED <<turn, aifCursor, aifAddr, aifRoEnd, defined, slots, aifWords>>
          /\ aifPhase = "relocate" /\ aifPhase' = "written" /\ turn > Len(relocs)
      BY <1>5 DEF AifWritten
    <2>2. turn \in Nat \ {0} /\ \A r \in 1..Len(relocs) : r < turn
      BY <2>1 DEF AifLinkInv, AifInv, InputInv
    <2>3. AifInv'
      BY <2>1, <2>2, AifKept DEF AifLinkInv, Resolving
    <2>4. MeantInv'
      BY <2>1, <2>2, MeantKept DEF AifLinkInv
    <2>5. QED
      BY <2>3, <2>4 DEF AifLinkInv
  <1>6. QED
    BY <1>1, <1>2, <1>3, <1>4, <1>5 DEF AifNext

\* An image's steps leave the module's variables alone, and the other way
\* round; the objects are the same for both.
LEMMA AifLinkInvInit == LinkersInit => AifLinkInv
  <1> SUFFICES ASSUME LinkersInit PROVE AifLinkInv
    OBVIOUS
  <1>1. InputInv /\ AifInit
    BY ImageInvInit DEF LinkersInit, ImageInv
  <1>2. AifInv
    BY <1>1, AifInitially
  <1>3. MeantInv
    BY <1>1 DEF AifInit, MeantInv, Resolving
  <1>4. QED
    BY <1>2, <1>3 DEF AifLinkInv

LEMMA AifLinkInvNext ==
  ASSUME ImageInv, AifLinkInv, [LinkersNext]_linkersVars PROVE AifLinkInv'
  <1>1. UNCHANGED input
    <2>1. CASE LinkModule
      <3>1. CASE Link
        BY <3>1 DEF Link, LinkNext, Refuse, HeaderFirst, HeaderMissing, Place, CodePlaced,
           DataPlaced, BssPlaced, Relocate, CannotRelocate, FillParams, CannotFill, CheckHeader,
           HeaderWrong, SidePlace, SidecarWritten
      <3>2. CASE Load \/ Run \/ Over
        BY <3>2 DEF Load, Run, Over, imageVars, linkVars
      <3>3. QED
        BY <2>1, <3>1, <3>2 DEF LinkModule, ImageNext
    <2>2. CASE LinkAif \/ AifOver \/ UNCHANGED linkersVars
      BY <2>2 DEF LinkAif, AifOver, linkersVars, imageVars, linkVars
    <2>3. QED
      BY <2>1, <2>2 DEF LinkersNext
  <1>2. CASE UNCHANGED aifVars
    <2>1. AifInv'
      <3>1. /\ \A s : Writable(s)' = Writable(s) /\ AifEnd(s)' = AifEnd(s)
            /\ GotNames' = GotNames
        BY <1>1, <1>2 DEF aifVars, input, Writable, AifEnd, GotNames, GotRelocs, NameAt
      <3>2. QED
        BY <1>1, <1>2, <3>1 DEF aifVars, input, AifLinkInv, AifInv
    <2>2. MeantInv'
      BY <1>1, <1>2, MeantKept DEF aifVars, AifLinkInv
    <2>3. QED
      BY <2>1, <2>2 DEF AifLinkInv
  <1>3. CASE AifNext
    BY <1>1, <1>3, AifStep DEF ImageInv
  <1>4. QED
    BY <1>2, <1>3 DEF LinkersNext, LinkModule, LinkAif, AifOver, linkersVars

LEMMA AifLinkInvAlways == LinkersSpec => [](ImageInv /\ AifLinkInv)
  <1>1. LinkersInit => ImageInv /\ AifLinkInv
    BY ImageInvInit, AifLinkInvInit
  <1>2. ImageInv /\ AifLinkInv /\ [LinkersNext]_linkersVars => (ImageInv /\ AifLinkInv)'
    BY ImageInvNext, AifLinkInvNext
  <1>3. QED
    BY <1>1, <1>2, PTL DEF LinkersSpec

\* What a reference of an image that is written leads to.
LEMMA ReachedThrough ==
  ASSUME InputInv, AifLinkInv, aifPhase = "written", NEW r \in 1..Len(relocs)
  PROVE  /\ Accepted(r)
         /\ relocs[r].type \in {"abs", "rel", "got"}
         /\ relocs[r].type \in {"abs", "rel"} => Reached(r) = Target(r)
         /\ relocs[r].type = "got" =>
              NameAt(r) \in GotNames /\ Reached(r) = slots[NameAt(r)].value
  <1>1. Accepted(r) /\ aifWords[r] = WordFor(r)
    BY DEF AifLinkInv, MeantInv, Resolving
  <1>2. /\ relocs[r].type \in {"abs", "rel", "got"}
        /\ relocs[r].offset \in Nat /\ relocs[r].sec \in 1..Len(sections)
        /\ relocs[r].sym \in 1..Len(symbols)
    <2>1. relocs[r] \in Reloc
      BY DEF InputInv
    <2>2. QED
      BY <1>1, <2>1 DEF InputInv, Reloc, Accepted
  <1>3. DOMAIN aifAddr = 1..Len(sections) /\ \A s \in DOMAIN aifAddr : aifAddr[s] \in Nat
    BY DEF AifLinkInv, AifInv, Laid
  <1>4. Site(r) \in Nat
    BY <1>2, <1>3 DEF Site
  <1>5. \A i \in 1..Len(symbols) : symbols[i].sec # 0 => AifValue(i) \in Nat
    <2> SUFFICES ASSUME NEW i \in 1..Len(symbols), symbols[i].sec # 0
                 PROVE  AifValue(i) \in Nat
      OBVIOUS
    <2>1. symbols[i] \in Symbol /\ symbols[i].sec \in 0..Len(sections)
      BY DEF InputInv
    <2>2. symbols[i].value \in Nat /\ symbols[i].sec \in 1..Len(sections)
      BY <2>1 DEF Symbol, InputInv
    <2>3. QED
      BY <1>3, <2>2 DEF AifValue
  <1>6. Target(r) \in Nat
    <2>1. \A n : Known(n) => ValueOf(n) \in Nat
      <3> SUFFICES ASSUME NEW n, Known(n) PROVE ValueOf(n) \in Nat
        OBVIOUS
      <3>1. CASE n \in DOMAIN defined
        BY <3>1 DEF ValueOf, AifLinkInv, AifInv
      <3>2. CASE n \notin DOMAIN defined
        <4>1. Global(n) \in Globals(n) /\ Globals(n) \subseteq 1..Len(symbols)
          BY <3>2, GlobalDefined DEF Known
        <4>2. symbols[Global(n)].sec # 0
          BY <4>1 DEF Globals
        <4>3. QED
          BY <1>5, <3>2, <4>1, <4>2 DEF ValueOf
      <3>3. QED
        BY <3>1, <3>2
    <2>2. QED
      BY <1>1, <1>2, <1>5, <2>1 DEF Target, Accepted
  <1>7. CASE relocs[r].type = "abs"
    BY <1>1, <1>7 DEF WordFor, Reached
  <1>8. CASE relocs[r].type = "rel"
    <2>1. Reached(r) = Site(r) + (Target(r) - Site(r))
      BY <1>1, <1>8 DEF WordFor, Reached
    <2>2. QED
      BY <1>1, <1>4, <1>6, <1>8, <2>1
  <1>9. CASE relocs[r].type = "got"
    <2>1. NameAt(r) \in GotNames
      BY <1>9 DEF GotNames, GotRelocs
    <2>2. /\ DOMAIN slots = GotNames /\ slots[NameAt(r)].at \in Nat
          /\ \A m \in GotNames : m # NameAt(r) => slots[m].at # slots[NameAt(r)].at
      BY <2>1 DEF AifLinkInv, AifInv, Resolving
    <2>3. Site(r) + aifWords[r] = slots[NameAt(r)].at
      <3>1. aifWords[r] = slots[NameAt(r)].at - Site(r)
        BY <1>1, <1>9 DEF WordFor
      <3>2. QED
        BY <1>4, <2>2, <3>1
    <2>4. (CHOOSE n \in DOMAIN slots : slots[n].at = Site(r) + aifWords[r]) = NameAt(r)
      BY <2>1, <2>2, <2>3
    <2>5. QED
      BY <1>1, <1>9, <2>1, <2>4 DEF Reached
  <1>10. QED
    BY <1>2, <1>7, <1>8, <1>9

LEMMA ReachedMeant == ASSUME InputInv, AifLinkInv PROVE ReferencesMeant
  <1> SUFFICES ASSUME aifPhase = "written", NEW r \in 1..Len(relocs)
               PROVE  LET meant == symbols[relocs[r].sym]
                      IN  /\ LinkersOwn(r) => Reached(r) = defined[meant.name]
                          /\ ~LinkersOwn(r) /\ meant.sec # 0
                               /\ Named(meant.name) = {relocs[r].sym} =>
                               Reached(r) = AifValue(relocs[r].sym)
                          /\ ~LinkersOwn(r) /\ meant.sec = 0 =>
                               \E i \in Named(meant.name) :
                                 /\ Reached(r) = AifValue(i)
                                 /\ meant.name # "_end" => symbols[i].global
    BY DEF ReferencesMeant
  <1> DEFINE m == relocs[r].sym
             n == NameAt(r)
  <1>1. n = symbols[m].name
    BY DEF NameAt
  <1>2. /\ Accepted(r) /\ relocs[r].type \in {"abs", "rel", "got"}
        /\ relocs[r].type \in {"abs", "rel"} => Reached(r) = Target(r)
        /\ relocs[r].type = "got" => n \in GotNames /\ Reached(r) = slots[n].value
    BY ReachedThrough
  <1>3. /\ Globals(n) \subseteq Named(n)
        /\ \A i \in Globals(n) : symbols[i].global
        /\ Global(n) # None => Global(n) \in Globals(n)
    BY GlobalDefined DEF Globals, Named
  <1>4. DOMAIN defined = {"__image_end", "_end"}
    BY DEF AifLinkInv, AifInv, Resolving
  <1>5. relocs[r].type = "got" =>
          /\ n = "__image_end" => slots[n].value = defined[n]
          /\ n # "__image_end" /\ Global(n) # None => slots[n].value = AifValue(Global(n))
          /\ n # "__image_end" /\ Global(n) = None =>
               \E i \in Named(n) : slots[n].value = AifValue(i)
    BY <1>2 DEF AifLinkInv, MeantInv, Resolving
  <1>6. CASE LinkersOwn(r)
    <2>1. n \in DOMAIN defined /\ (relocs[r].type = "got" => n = "__image_end")
      BY <1>4, <1>6 DEF LinkersOwn
    <2>2. Target(r) = defined[n]
      BY <2>1 DEF Target, Known, ValueOf
    <2>3. Reached(r) = defined[n]
      BY <1>2, <1>5, <2>1, <2>2
    <2>4. QED
      BY <1>1, <1>6, <2>3
  <1>7. CASE ~LinkersOwn(r)
    <2>1. /\ relocs[r].type = "got" => n # "__image_end"
          /\ relocs[r].type # "got" => n \notin DOMAIN defined
      BY <1>4, <1>7 DEF LinkersOwn
    <2>2. ASSUME symbols[m].sec # 0, Named(n) = {m} PROVE Reached(r) = AifValue(m)
      <3>1. Global(n) # None => Global(n) = m
        BY <1>3, <2>2
      <3>2. relocs[r].type # "got" => Target(r) = AifValue(m)
        BY <2>1, <2>2, <3>1 DEF Target, Known, ValueOf
      <3>3. QED
        BY <1>2, <1>5, <2>1, <2>2, <3>1, <3>2
    <2>3. ASSUME symbols[m].sec = 0
          PROVE  \E i \in Named(n) : /\ Reached(r) = AifValue(i)
                                     /\ n # "_end" => symbols[i].global
      <3>1. n \in DOMAIN defined \/ Global(n) # None
        BY <1>2, <2>3 DEF Accepted, Known
      <3>2. CASE Global(n) # None
        <4>1. relocs[r].type # "got" => Target(r) = AifValue(Global(n))
          BY <2>1, <2>3, <3>2 DEF Target, Known, ValueOf
        <4>2. Reached(r) = AifValue(Global(n))
          BY <1>2, <1>5, <2>1, <3>2, <4>1
        <4>3. QED
          BY <1>3, <3>2, <4>2
      <3>3. CASE Global(n) = None
        <4>1. relocs[r].type = "got" /\ n = "_end"
          BY <1>4, <2>1, <3>1, <3>3
        <4>2. QED
          BY <1>2, <1>5, <3>3, <4>1
      <3>4. QED
        BY <3>2, <3>3
    <2>4. QED
      BY <1>1, <1>7, <2>2, <2>3
  <1>8. QED
    BY <1>6, <1>7

-----------------------------------------------------------------------------
\* Whatever objects are linked into an image, sections and GOT slots keep apart
\* and lie below _end, from where the heap is taken; the read-only sections are
\* below the end handed on for them, and all sections below __image_end
\* (src/aif.rs, build).
THEOREM ImagesBelowEnd == LinkersSpec => []ImageBelowEnd
  <1>1. ImageInv /\ AifLinkInv => ImageBelowEnd
    BY DEF AifLinkInv, AifInv, Laid, Resolving, ImageBelowEnd
  <1>2. QED
    BY <1>1, AifLinkInvAlways, PTL

\* A reference of an image leads to the linker's own symbol, or to the
\* definition its object means, through the GOT or not; captures of a local
\* name excepted (src/aif.rs, the resolution of got_names and of relocations).
THEOREM ImageReferencesMeant == LinkersSpec => []ReferencesMeant
  <1>1. ImageInv /\ AifLinkInv => ReferencesMeant
    BY ReachedMeant DEF ImageInv
  <1>2. QED
    BY <1>1, AifLinkInvAlways, PTL
=============================================================================

----------------------------- MODULE MCLinkers -----------------------------
(* Links small enough to enumerate: every layout of a header and three other *)
(* sections, every single relocation between two definitions of one name or  *)
(* two in a fixed layout, and GOT slots for up to three names.               *)
EXTENDS Linkers

Sec(k, n, a) == [kind |-> k, size |-> n, align |-> a]
Sym(n, s, g) == [name |-> n, sec |-> s, value |-> 4, global |-> g]
Rel(t, i, k) == [sec |-> t, offset |-> 4, sym |-> i, type |-> k]
Header == Sec("header", 72, 4)
ParamsIn(s) == [name |-> PARAMS, sec |-> s, value |-> 56, global |-> TRUE]

Others == {Sec(k, n, a) : k \in {"code", "data", "bss"}, n \in {6, 20}, a \in {4, 16}}
Layouts ==
  {[sections |-> <<Header, x, y, z>>, symbols |-> <<ParamsIn(1)>>, relocs |-> << >>, rwpi |-> TRUE] :
     x, y, z \in Others}
  \cup
  {[sections |-> <<x, Header, y>>, symbols |-> s, relocs |-> << >>, rwpi |-> TRUE] :
     x, y \in Others, s \in {<< >>, <<ParamsIn(2)>>, <<ParamsIn(1)>>}}

\* Headers made with --workspace alone, before a code section.  The linker takes
\* data there as well, which such a header does not initialise: see RwpiData in
\* LinkersProofs.
WorkspaceOnly ==
  {[sections |-> <<Header, x>>, symbols |-> <<ParamsIn(1)>>, relocs |-> << >>, rwpi |-> FALSE] :
     x \in {y \in Others : y.kind = "code"}}

Headerless ==
  {[sections |-> s, symbols |-> << >>, relocs |-> << >>, rwpi |-> TRUE] :
     s \in {<<Sec("code", 8, 4)>>, <<Header, Header>>, <<Sec("header", 48, 4)>>}}

\* A header, two code sections of two objects, and data.
References ==
  {[sections |-> <<Header, Sec("code", 8, 4), Sec("code", 12, 8), Sec("data", 16, 4)>>,
    symbols  |-> <<Sym("f", s1, g1), Sym(n2, s2, g2), Sym("f", 0, TRUE), ParamsIn(1)>>,
    relocs   |-> <<Rel(t, i, k)>>, rwpi |-> TRUE] :
     s1, s2 \in 2..4, g1, g2 \in BOOLEAN, n2 \in {"f", "g"},
     t \in {1, 3, 4}, i \in 1..3, k \in {"abs", "rel", "sbrel", "got"}}

\* Sections that do not end on a word, the linker's own symbols, one of which
\* an object may define too, a symbol no one defines, and three relocations, of
\* any kind an absolute image may hold.
Slots ==
  {[sections |-> <<Sec("code", 8, 4), Sec("data", 10, 4), Sec("bss", n, 16)>>,
    symbols  |-> <<Sym("f", 1, TRUE), Sym("g", 2, g), third, Sym("__image_end", 0, TRUE),
                   Sym("_end", 0, TRUE), Sym("h", 0, TRUE)>>,
    relocs   |-> <<Rel(1, i, "got"), Rel(2, j, k), Rel(1, l, "got")>>,
    rwpi     |-> TRUE] :
     third \in {Sym("f", 3, FALSE), Sym("_end", 3, FALSE), Sym("_end", 3, TRUE)},
     n \in {4, 9}, g \in BOOLEAN, i, j, l \in 1..6, k \in {"abs", "rel", "got"}}

McInputs == Layouts \cup WorkspaceOnly \cup Headerless \cup References \cup Slots

McSizes == {<<i, j>> \in {16 * k : k \in 0..6} \X (0..Limit) : j % 4 = 0 /\ i <= j}
McSource(o) == 100 + o
=============================================================================

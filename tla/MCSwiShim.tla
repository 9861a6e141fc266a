------------------------------ MODULE MCSwiShim ------------------------------
EXTENDS SwiTables
McHomes(s) ==
  {[v \in Live(s) |-> IF v = w THEN p ELSE Stack] :
     w \in Live(s), p \in (Regs \ Named(s)) \cup {Stack}}
=============================================================================

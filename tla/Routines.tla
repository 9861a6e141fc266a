------------------------------ MODULE Routines ------------------------------
(***************************************************************************)
(* One call of one of the runtime's sequential routines, the others idle.  *)
(* write() is the exception: the program goes on calling it.               *)
(***************************************************************************)
EXTENDS Division, ArgvTail, ConsoleWrite, MemoryHelpers, DecimalOutput

routineVars == <<divVars, argvVars, consVars, memVars, decVars>>

Init ==
  \/ DivInit /\ ArgvIdle /\ ConsIdle /\ MemIdle /\ DecIdle
  \/ DivIdle /\ ArgvInit /\ ConsIdle /\ MemIdle /\ DecIdle
  \/ DivIdle /\ ArgvIdle /\ ConsInit /\ MemIdle /\ DecIdle
  \/ DivIdle /\ ArgvIdle /\ ConsIdle /\ MemInit /\ DecIdle
  \/ DivIdle /\ ArgvIdle /\ ConsIdle /\ MemIdle /\ DecInit

Returned == "returned" \in {divPc, argvPc, memPc, decPc} \/ consPc = "program"

Divide == DivNext /\ UNCHANGED <<argvVars, consVars, memVars, decVars>>
Argv == ArgvNext /\ UNCHANGED <<divVars, consVars, memVars, decVars>>
Console == ConsNext /\ UNCHANGED <<divVars, argvVars, memVars, decVars>>
Memory == MemNext /\ UNCHANGED <<divVars, argvVars, consVars, decVars>>
Decimal == DecNext /\ UNCHANGED <<divVars, argvVars, consVars, memVars>>

Next == Divide \/ Argv \/ Console \/ Memory \/ Decimal

Spec == Init /\ [][Next]_routineVars /\ WF_routineVars(Next)

\* Every routine returns: the loops of the tail, the moves, the digits and the
\* division end for every input.  write() returns to a program that may call
\* it again.
RoutineReturns == []<>Returned
=============================================================================

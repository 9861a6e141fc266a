---------------------------- MODULE ConsoleWrite ----------------------------
(***************************************************************************)
(* write(): text reaches the VDU drivers character by character.  The      *)
(* drivers are external: CR goes to the first column, LF down one line and *)
(* nothing else.  A program may split its text over calls anywhere.        *)
(***************************************************************************)
EXTENDS Integers, Sequences, FiniteSets

CONSTANTS
  TextMax     \* characters a program writes

CR == "cr"
LF == "lf"
Chars == {CR, LF, "x"}

ASSUME ConsoleAssumption == TextMax \in Nat

VARIABLES
  consPc,   \* "idle", "program" or "writing"
  buf,      \* the buffer of this call
  at,       \* characters of it sent
  text,     \* what the program has asked for so far
  sent      \* what the drivers have got

consVars == <<consPc, buf, at, text, sent>>

ConsIdle ==
  consPc = "idle" /\ buf = << >> /\ at = 0 /\ text = << >> /\ sent = << >>

ConsInit ==
  consPc = "program" /\ buf = << >> /\ at = 0 /\ text = << >> /\ sent = << >>

\* The program calls write() with what it has collected.
WriteCall ==
  /\ consPc = "program"
  /\ \E k \in 1..(TextMax - Len(text)) : \E b \in [1..k -> Chars] : buf' = b
  /\ at' = 0 /\ consPc' = "writing"
  /\ UNCHANGED <<text, sent>>

\* Mistake: a CR before every LF of the buffer but the first character.
NeedsReturnInside(i) == buf[i] = LF /\ i > 1 /\ buf[i - 1] # CR

\* p[i] == '\n' && (i == 0 || p[i - 1] != '\r')
NeedsReturn(i) == buf[i] = LF /\ (i = 1 \/ buf[i - 1] # CR)

\* os_writec, twice for a bare LF.
WriteChar ==
  /\ consPc = "writing" /\ at < Len(buf)
  /\ LET c == buf[at + 1]
     IN  /\ sent' = sent \o (IF NeedsReturn(at + 1) THEN <<CR, c>> ELSE <<c>>)
         /\ text' = Append(text, c)
  /\ at' = at + 1
  /\ UNCHANGED <<consPc, buf>>

\* return (long)count
WriteReturns ==
  /\ consPc = "writing" /\ at = Len(buf)
  /\ consPc' = "program"
  /\ UNCHANGED <<buf, at, text, sent>>

ConsNext == WriteCall \/ WriteChar \/ WriteReturns

-----------------------------------------------------------------------------
\* The column after s, when the characters in returns lead to the first one.
Column(s, returns) ==
  Cardinality({i \in 1..Len(s) :
                 s[i] = "x" /\ \A j \in i..Len(s) : s[j] \notin returns})
Row(s) == Cardinality({i \in 1..Len(s) : s[i] = LF})

\* After each character the cursor stands where a POSIX terminal, for which
\* LF starts a new line, would have it, however the text is split over calls
\* and also where a CR and its LF are in different calls.
CursorAsPosix ==
  /\ Row(sent) = Row(text)
  /\ Column(sent, {CR}) = Column(text, {CR, LF})
=============================================================================

------------------------------ MODULE ArgvTail ------------------------------
(***************************************************************************)
(* rostrt_init: the command tail split into argv, before main runs.  One   *)
(* action per turn of the code's loops.                                    *)
(*                                                                         *)
(* A character is the place it has in the tail; what kind it is decides    *)
(* everything.  The buffer then shows which characters were kept.          *)
(***************************************************************************)
EXTENDS Integers, Sequences, FiniteSets

CONSTANTS
  Tails,     \* the tails considered: sequences of kinds
  ArgBuf,    \* bytes in argbuf
  ArgMax     \* arguments taken at most; argvec has one entry more

Kinds == {"blank", "newline", "quote", "letter"}   \* blank: space or tab
Nul == 0

ASSUME ArgvAssumption ==
  /\ ArgBuf \in Nat \ {0} /\ ArgMax \in Nat
  /\ \A t \in Tails : t \in Seq(Kinds) /\ Len(t) < ArgBuf

VARIABLES
  argvPc,   \* "idle", "skip", "word" or "returned"
  tail,
  env,      \* the place of the next character
  quoted,
  out,      \* argbuf up to the pointer out
  argvec    \* the places in argbuf where the arguments start

argvVars == <<argvPc, tail, env, quoted, out, argvec>>

AtEnd == env > Len(tail)
Kind == IF AtEnd THEN "nul" ELSE tail[env]

ArgvIdle ==
  /\ argvPc = "idle" /\ tail = << >> /\ env = 1
  /\ quoted = FALSE /\ out = << >> /\ argvec = << >>

ArgvInit ==
  /\ argvPc = "skip" /\ tail \in Tails /\ env = 1
  /\ quoted = FALSE /\ out = << >> /\ argvec = << >>

\* Mistake: c is read again without moving on.
SkipSpaceInPlace ==
  /\ argvPc = "skip" /\ Kind \in {"blank", "newline"}
  /\ UNCHANGED argvVars

SkipSpace ==
  /\ argvPc = "skip" /\ Kind \in {"blank", "newline"}
  /\ env' = env + 1
  /\ UNCHANGED <<argvPc, tail, quoted, out, argvec>>

\* Mistake: the table's last entry is given to an argument.
FullLate == Len(argvec) > ArgMax

Full == Len(argvec) >= ArgMax

\* argvec[argc] = 0 in the code; here the sequence ends.
Stop ==
  /\ argvPc = "skip" /\ Kind \notin {"blank", "newline"}
  /\ AtEnd \/ Full
  /\ argvPc' = "returned"
  /\ UNCHANGED <<tail, env, quoted, out, argvec>>

\* start = out, past an opening quote.
StartWord ==
  /\ argvPc = "skip" /\ Kind \in {"quote", "letter"} /\ ~Full
  /\ argvPc' = "word"
  /\ quoted' = (Kind = "quote")
  /\ env' = IF Kind = "quote" THEN env + 1 ELSE env
  /\ argvec' = Append(argvec, Len(out) + 1)
  /\ UNCHANGED <<tail, out>>

InWord == ~AtEnd /\ (quoted \/ Kind # "blank")
Closing == quoted /\ Kind = "quote"

CopyChar ==
  /\ argvPc = "word" /\ InWord /\ ~Closing
  /\ out' = Append(out, env)
  /\ env' = env + 1
  /\ UNCHANGED <<argvPc, tail, quoted, argvec>>

\* Mistake: the break at the closing quote leaves the terminator out.
EndWordUnterminated ==
  /\ argvPc = "word" /\ (~InWord \/ Closing)
  /\ argvPc' = "skip"
  /\ env' = IF InWord /\ Closing THEN env + 1 ELSE env
  /\ out' = IF InWord /\ Closing THEN out ELSE Append(out, Nul)
  /\ UNCHANGED <<tail, quoted, argvec>>

EndWord ==
  /\ argvPc = "word" /\ (~InWord \/ Closing)
  /\ argvPc' = "skip"
  /\ env' = IF InWord /\ Closing THEN env + 1 ELSE env
  /\ out' = Append(out, Nul)
  /\ UNCHANGED <<tail, quoted, argvec>>

ArgvNext == SkipSpace \/ Stop \/ StartWord \/ CopyChar \/ EndWord

-----------------------------------------------------------------------------
\* A tail of less than 1024 characters fits argbuf with all the terminators,
\* however many words it has and whether or not its quotes are closed.
InsideArgBuf == Len(out) <= ArgBuf /\ Len(argvec) <= ArgMax

\* main gets every letter of the tail, in order and once, unless the table of
\* arguments is full; letters next to each other stay in one argument, and a
\* blank is kept only inside quotes.  Every argument starts at the buffer's
\* beginning or after a terminator and ends before one of its own.
Written(p) == \E i \in 1..Len(out) : out[i] = p
Opens(p) == \E q \in 1..(p - 1) : tail[q] = "quote"
WordsKept ==
  argvPc = "returned" =>
    /\ \A i, j \in 1..Len(out) : i < j /\ Nul \notin {out[i], out[j]} => out[i] < out[j]
    /\ ~Full => \A p \in 1..Len(tail) : tail[p] = "letter" => Written(p)
    /\ \A i \in 1..(Len(out) - 1) :
         out[i] = Nul \/ out[i + 1] = Nul \/ out[i + 1] = out[i] + 1
    /\ \A p \in 1..(Len(tail) - 1) :
         tail[p] = "letter" /\ tail[p + 1] = "letter" /\ Written(p) =>
           \E i \in 1..(Len(out) - 1) : out[i] = p /\ out[i + 1] = p + 1
    /\ \A p \in 1..Len(tail) : tail[p] = "blank" /\ Written(p) => Opens(p)
    /\ \A i \in DOMAIN argvec :
         /\ argvec[i] = 1 \/ out[argvec[i] - 1] = Nul
         /\ argvec[i] <= Len(out)
    /\ Len(argvec) = Cardinality({i \in 1..Len(out) : out[i] = Nul})
=============================================================================

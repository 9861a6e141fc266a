----------------------------- MODULE ModuleImage -----------------------------
(***************************************************************************)
(* From the objects to the static area of the running module: the linker   *)
(* writes the image and its parameter block, the initialisation veneer     *)
(* reads the block and, if it was generated with --rwpi, fills the area it *)
(* claimed.                                                                *)
(***************************************************************************)
EXTENDS ModuleLink, StaticInit

imageVars == <<linkVars, vars>>

\* Nothing of the initialisation has begun while the module is linked.
ImageInit ==
  /\ LinkInit
  /\ rw = 0 /\ sb = 0 /\ r0 = 0 /\ r1 = 0 /\ r2 = 0
  /\ area = [o \in Words |-> Junk] /\ pc = "copy"

Link == LinkNext /\ UNCHANGED vars

\* RISC OS loads the module and the veneer reads the block.  The veneer of a
\* header made with --workspace alone has a block but no loops: it goes by the
\* static size to where the workspace begins, and on to the C initialisation.
Load ==
  /\ phase = "written" /\ params # << >>
  /\ phase' = "running"
  /\ rw' = params[2] /\ sb' = params[3]
  /\ r0' = 0 /\ r2' = 0
  /\ IF rwpi THEN r1' = params[2] /\ pc' = "copy" ELSE r1' = params[3] /\ pc' = "done"
  /\ UNCHANGED <<input, next, cursor, addr, roEnd, rwDataEnd, sbSize, words,
                 absSites, params, sideAddr, area>>

Run == phase = "running" /\ Next /\ UNCHANGED linkVars

\* No module, or one whose header asks for neither statics nor workspace.
Over ==
  /\ phase = "refused" \/ (phase = "written" /\ params = << >>)
  /\ UNCHANGED imageVars

ImageNext == Link \/ Load \/ Run \/ Over

ImageSpec == ImageInit /\ [][ImageNext]_imageVars /\ WF_imageVars(ImageNext)

-----------------------------------------------------------------------------
\* When the C initialisation starts, every section that has contents has them,
\* at the offset from the static base that the code uses, and every other is
\* zero.  Source(o) is what the image carries o bytes into its last part.
\* (tools/gen_module.py writes the loops for --rwpi only; src/module.rs takes
\* writable data from any module that has a parameter block.)
StaticsInitialised ==
  phase = "running" /\ pc = "done" =>
    \A s \in DOMAIN addr : \A o \in Words :
      Writable(s) /\ addr[s] <= o /\ o + 4 <= End(s) =>
        area[o] = IF sections[s].kind = "data" THEN Source(o) ELSE 0

\* A module that is written and has a parameter block gets through its loops,
\* if it has any.
Initialises == phase = "written" /\ params # << >> ~> pc = "done"
=============================================================================

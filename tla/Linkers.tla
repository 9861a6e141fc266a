------------------------------ MODULE Linkers ------------------------------
(***************************************************************************)
(* The link command of the driver (src/main.rs, cmd_link): objects in, and *)
(* a module or an absolute image out.  A module is followed into RISC OS,  *)
(* where its initialisation fills the static area it claimed.              *)
(***************************************************************************)
EXTENDS ModuleImage, AifLink

VARIABLES target   \* what the --module flag asks for

linkersVars == <<imageVars, aifVars, target>>

LinkersInit == ImageInit /\ AifInit /\ target \in {"module", "aif"}

LinkModule == target = "module" /\ ImageNext /\ UNCHANGED <<aifVars, target>>
LinkAif == target = "aif" /\ AifNext /\ UNCHANGED <<imageVars, target>>

\* The driver has exited: the file is on disc, or a message was printed.
AifOver == aifPhase \in {"written", "refused"} /\ UNCHANGED linkersVars

LinkersNext == LinkModule \/ LinkAif \/ AifOver

LinkersSpec ==
  LinkersInit /\ [][LinkersNext]_linkersVars /\ WF_linkersVars(LinkersNext)
=============================================================================

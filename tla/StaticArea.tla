----------------------------- MODULE StaticArea -----------------------------
(***************************************************************************)
(* The arithmetic of a module's static area: what __mod_init asks the RMA  *)
(* for and where inside the block it is given the static base, the two     *)
(* header words and the workspace go (tools/gen_module.py, the             *)
(* initialisation veneer).  All quantities are bytes.                      *)
(***************************************************************************)
LOCAL INSTANCE Integers

\* Mistakes, each checked to break a property of ModuleVeneers: room for one
\* header word instead of two, in the claim and in the base.
ClaimSizeOneHeader(rwpi, sb, ws) == (IF rwpi THEN sb + 19 ELSE 0) + ws
StaticBaseOfOneHeader(block) == (block + 19) - ((block + 19) % 16)

\* What r3 holds at the XOS_Module Claim: under RWPI the linker's static-data
\* size plus 23, otherwise nothing, plus the workspace asked for.
ClaimSize(rwpi, sb, ws) == (IF rwpi THEN sb + 23 ELSE 0) + ws

\* add r9, r2, #23 ; bic r9, r9, #15
StaticBaseOf(block) == (block + 23) - ((block + 23) % 16)

\* The two words below the base: the block, and the workspace pointer.
BlockSlot(base) == base - 4
WorkspaceSlot(base) == base - 8

\* The workspace starts after the static data.
WorkspaceOf(base, sb) == base + sb

\* The bytes an entry may use: headers, statics and workspace.
AreaFirst(base) == WorkspaceSlot(base)
AreaEnd(base, sb, ws) == WorkspaceOf(base, sb) + ws

=============================================================================

-------------------------- MODULE MCModuleVeneers --------------------------
(* Small instances of ModuleVeneers for TLC. *)
EXTENDS ModuleVeneers, TLC

CONSTANTS a, b, c     \* three modules

McMods == {a, b, c}
McTouched == {0, 16}

\* a carries initial contents, in the linker's unit of sixteen bytes, and a
\* zeroed word; b a zeroed word and a workspace; c no writable data at all.
McRwpi == {a, b}
McSb == a :> 20 @@ b :> 4 @@ c :> 0
McRw == a :> 16 @@ b :> 0 @@ c :> 0
McWs == a :> 0 @@ b :> 4 @@ c :> 0
McImage == a :> (0 :> 7 @@ 4 :> 6 @@ 8 :> 7 @@ 12 :> 8) @@ b :> << >> @@ c :> << >>

\* A module generated with --workspace 8 and without --rwpi that has eight bytes
\* of zeroed statics, which the linker accepts as there is a parameter block.
WsMods == {a}
WsSizes == a :> 8
WsStatics == a :> 8
NoSizes == a :> 0
NoImage == a :> << >>
=============================================================================

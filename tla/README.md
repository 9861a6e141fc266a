# TLA+ models of roscc

roscc turns LLVM output into RISC OS programs: a static linker to absolute
images (AIF) and to relocatable modules, a generator of module headers and
entry veneers, and a freestanding runtime. This directory holds TLA+ modules
that model its parts, TLC configurations that check them on small instances,
and TLAPS proofs for every value of the constants. Source paths below are
relative to the repository.

    tlc -workers 2 -config MCModuleVeneers_nested.cfg MCModuleVeneers
    tlapm ModuleVeneersProofs.tla

## Inventory

| part | state it keeps | operations | hard behaviour | correct when |
|---|---|---|---|---|
| entry veneers (`tools/gen_module.py`, generated code) | RMA block, private word, r9, SVC stack | initialise, finalise, command, SWI | entries of several modules nest and share one r9; claim may fail, C side may refuse; reload after kill | the running C code finds its own base; blocks are neither leaked nor used after release; nobody else writes an area |
| header and table generator (`gen_module.py` main) | none | text | argument checks | header offsets and tables agree with the veneers |
| module linker (`src/module.rs`) | cursors of two address spaces, symbol table | lay out, resolve, relocate, fill parameter block, sidecar | two spaces with one name table; the sidecar recomputes the layout | sections apart and aligned, no load-address dependency, parameters match the layout |
| AIF linker (`src/aif.rs`) | cursor, symbols, GOT | lay out, resolve, relocate, header | `__image_end` and `_end` around the GOT; capture of local names | symbols point into their sections, nothing linked lies past `_end` |
| ELF and archive reader (`src/elf.rs`) | section list, keep index | parse object, walk archive | thin archives, long names | every member is seen once; symbol and relocation indices stay exact |
| driver (`src/main.rs`) | none | options, LLVM calls | - | - |
| runtime heap, arena, globals (`rostrt/rostrt.c`) | slot split, `heap_ready`, bump cursor, table of globals | claim, release, get-or-create | errors of OS_Heap, growth of the slot, constructor re-entry, table limits | blocks apart and aligned, a global has one block, stack and heap apart |
| argv, console (`rostrt/rostrt.c`) | `argbuf`, `argvec` | split the tail, write | limits; line ends split over calls | in bounds; each LF preceded by one CR |
| memory helpers (`rostrt/rostrt.c`) | memory | memcpy, memmove, memset, AEABI names | overlap; order of parameters | the destination is what the source was, nothing beside it changes |
| atomics (`rostrt/atomics_swp.s`, `rostrt/atomics_ldrex.s`) | the shared word, exclusive monitor | fetch_add, fetch_sub, load, store, exchange, compare_exchange | interrupts between any two instructions | each operation acts at one instant, and returns |
| division (`rostrt/aeabi.s`) | registers | restoring loops, signs | boundaries of the word, carries between halves | quotient and remainder |
| module runtime, Wimp helpers (`rostrt/modrt.c`, `rostrt/wimp.c`) | a number buffer on the SVC stack | SWI wrappers, digits | SVC mode overwrites lr; the most negative integer | as the SWI shims; digits inside the buffer |
| program entry (`rostrt/crt0*.s`) | stack pointer | set up, call main | stack top fixed at start | stack inside the slot |
| SharedCLibrary client (`rostrt/roclib_init.s`, generated `roclib.s`) | registration block | register, hand control over | failure exit | never runs unregistered |
| SWI shims (`tools/gen_riscos_pkg.py`, generated `rostrt/swis_*.c`) | none | register assignment | the compiler keeps values in registers the SWI destroys; lr in SVC mode | arguments arrive, results come back, the caller's registers survive, the shim returns |
| C library specification tools (`tools/clibspec`) | files | extract, generate | - | - |
| test harness (`tools/module_test.py`) | portal counters | run a command, wait | portal reports late or never | a command's output is attributed to it |

How they meet: `gen_module.py` writes the veneers and reserves
`__mod_params`; the module linker fills it with the size of the static data;
the veneer reads it at initialisation, claims memory from the kernel and puts
the base into the private word; the compiled C and Mojo code reaches statics
through r9 and calls the runtime, whose reference counts go through the
atomics. The kernel (module chain, RMA heap, interrupts) is external and is
modelled from how the code uses it.

The hazards of each part, with the property that covers each or the reason
why none does, are in `PROJECT.json` under `hazards`.

## Modules

| module | models | |
|---|---|---|
| `StaticArea` | `emit_veneer_init` | claim size, base, header words, workspace: arithmetic only |
| `ModuleVeneers` | `gen_module.py` 59-313 | the veneers of several modules on one machine, to the word |
| `ModuleInstances` | - | what the veneers promise: instances that own their statics |
| `StaticInit` | `emit_veneer_init` 98-118 | the copy and zero loops, word by word |
| `Objects` | what `src/elf.rs` hands over | sections, symbols, relocations; resolution of a name, common to both linkers |
| `ModuleLink` | `src/module.rs` | one action per section, relocation and check |
| `ModuleImage` | `module.rs` with `gen_module.py` | `ModuleLink`, then `StaticInit` with the parameters it wrote, if the header has the loops |
| `AifLink` | `src/aif.rs` | one action per section and relocation; the GOT in one |
| `Linkers` | `src/main.rs`, `cmd_link` | `ModuleImage` or `AifLink` |
| `AtomicWord` | - | what the `__atomic_*_4` builtins promise |
| `AtomicsLdrex` | `rostrt/atomics_ldrex.s` | one action per memory access |
| `AtomicsSwp` | `rostrt/atomics_swp.s` | one action per memory access |
| `RuntimeHeap` | `rostrt/rostrt.c` 106-422 | slot split, OS_Heap, aligned blocks, arena, table of globals |
| `Allocator` | - | what the runtime's allocators promise together |
| `SwiShim` | `tools/gen_riscos_pkg.py` `classify`; the shape of every shim | call, SWI, stores, return |
| `SwiTables` | `rostrt/swis_*.c`, `rostrt.c`, `modrt.c`, `wimp.c` | the registers of every shim of the runtime, and what the repository says SWIs take |
| `Division` | `rostrt/aeabi.s` | one action per turn of the loop |
| `ArgvTail` | `rostrt_init` | one action per character |
| `ConsoleWrite` | `write` | one action per character, over several calls |
| `MemoryHelpers` | `memcpy`, `memmove`, `memset`, `__aeabi_memset` | one action per byte |
| `DecimalOutput` | `mod_write_int` | one action per digit |
| `Routines` | - | one call of one of the five above |
| `*Proofs` | - | theorems about the module named |
| `MC*` | - | small instances for TLC |

### ModuleVeneers

`heap` is OS_Module's list of claimed blocks, `mem` the words of the RMA,
`priv` the private words the kernel keeps per module, `linked` the module
chain, `stack` the veneers under way with what each saved (the caller's r9)
and passed (the workspace pointer), `r9` the register. Memory is at word
granularity; registers other than r9, and what the C functions return besides
success, are left out.

Each veneer is two actions, up to the branch to C and from its return, because
the C function between them may enter other modules, load or kill them:
`InitClaim` with `InitSucceeds` and `InitRefuses` (label 8), `Final` with
`FinalAgrees` and `FinalRefuses`, `Command` and `Swi` with their returns.
`InitClaimFails` is the `bvs 9f` exit, `InitPlain` the veneer of a module
without an area, `SwiUnknown` the exit for a number past the branch table,
which has no C call and so is one action. `StaticWrite` and `WorkspaceWrite`
are the C code: whoever runs on top of the stack writes through r9 or through
the workspace it was passed, whatever these hold. A wrong base therefore
damages the memory it points at, as it would on the machine.

What the kernel is taken to guarantee: it calls entries only of modules whose
initialisation returned without error; it does not initialise a module that is
linked or executing; it does not finalise one whose code is executing (a
module whose own command kills it gets no defined behaviour from the kernel
either); it gives out any free word-aligned range of the RMA, not containing
zeros. OS_Module 7 with an address that starts no block changes nothing, and
the veneers, which do not test V after it, go on. A SWI handler is taken to
leave the r9 slot of its register block alone.

Filling the static area is one step there (`MemAfterInit`); `StaticInit` shows
that the two loops amount to it.

### Atomics

One core: the contexts are the foreground (0) and the interrupt levels above
it. A context starts an operation only when no higher one is active, and runs
until it returns or is interrupted. `AtomicWord` lets each operation take
effect at one instant between call and return; the implementations are checked
against it as a refinement with the identity mapping. `MaxOps` bounds the
operations issued.

In `AtomicsLdrex` the exclusive monitor is the core's: a load-exclusive claims
it, a store-exclusive and a return from an exception release it. In
`AtomicsSwp` the history variable `disturbed` records that a write was issued
over an unfinished retry loop; up to then the operations are atomic, after it
they need not be.

### RuntimeHeap

`limit` is what OS_GetEnv answers, `stackTop` what it answered when crt0 set
sp, `split` the areas `slot_init` measured out (with `slot_ready`), `claimed`
OS_Heap's blocks, `live` the aligned blocks over them, each with the raw
address stored in the word below it, `used` and `bumped` the arena's cursor and
blocks, `known` the table of globals. Every allocation is one action that
begins with `slot_init` (`Ready`), except `GetOrCreateGlobal` of a new global,
which is two: `CreateGlobal` up to the constructor's call and `Constructed`
from its return, because the constructor may allocate, ask for other globals,
or for its own. `building` is the stack of constructors under way and `given`
remembers every address returned. `os_exit` sets `exited`, after which nothing
happens; the exits are `RefuseSlot` (slot too small), `OutOfHeap`,
`ArenaExhausted` and `TooManyGlobals`.

What is taken from outside: OS_Heap gives out some free word-aligned range of
its area, or a null pointer (for lack of room or any other reason: its own
headers are not modelled); a program never cuts its slot below its stack; it
frees an aligned block once, and asks for nothing of size zero. Alignments are
powers of two up to 64. Sizes stay below 2^32: `heap_alloc` cuts to 32 bits.

`Allocator` says what the heap, the arena and the table promise together:
blocks in use overlap nothing in use, and a global settles once.

### Linkers

`Inputs` are the links considered. Of an object only what the linkers decide on
is kept: a section's kind, size and alignment, a symbol's name, section, value
and binding, and a relocation's place, symbol and kind. Kinds that are
resolved and checked alike are one (`Reloc`), and of the bytes only the
relocated words exist, as the numbers they stand for before the instruction
encoding. `phase`/`aifPhase` follow `build` and `write_module`; `Refuse` is
every return with an error. `check_header` looks at the header's words, which
are not modelled: it may refuse any module. The AIF entry symbol likewise.

`Resolved` keeps what the code does and a reader may not expect: the table of
globals is asked first, for local symbols too, and the last of several
definitions stays. `SidePlace` is the second layout, of the debugger's sidecar,
with word alignment only.

`ModuleImage` is where the linker meets the veneer: `Load` copies the parameter
block into `StaticInit`'s variables, and the loops run. Whether there are loops
is the header's doing, and a part of the input (`rwpi`): `gen_module.py` writes
`__mod_params` for `--workspace` too, but the loops, and the room for statics,
for `--rwpi` only. The linker asks for the block alone (`module.rs:351`), so it
takes writable data behind a header that will not initialise it; then `Load`
goes straight to the C code. `Linkers` adds the choice of the driver. The AIF linker runs beside it on the same input.

### SWI shims

One shim at a time, from its call to its return. A shim is its `asm` statement:
operands, clobbers, result and stores. The C compiler is external and free to
keep the return address and the out pointers in any register the statement does
not name (`Homes`), on the stack otherwise; so is the kernel, which destroys
r0-r3 and r12 and, in SVC mode, lr. `Generated` is what `classify` makes of
the entry and exit registers in its database; `SwiTables` holds the registers of
every shim in the repository, generated or written by hand.

What a SWI does is not for its shim to say, and the database and the manuals it
was made from are not in the repository. What a SWI *takes* (`reads`) therefore
comes from elsewhere: for a shim written by hand from its comments and reason
codes, for a generated one from `Documented`, which has the four of them whose
SWI `rostrt.c` or `tests/module/swicall.c` issues by hand as well. Of the other
generated shims nothing is claimed about arguments, and some of them lack one
(below, under Runs). What a SWI *answers* is what the shim
lists (`writes`), and what it destroys is what `rostrt.c:13` says of all SWIs:
r0-r3 and r12, besides its answers. A SWI that corrupts others above r3 is not
considered. Error returns are left out: a
plain SWI that fails does not return, and the X form answers in r0 like any
other.

### Routines

Sequential algorithms over all inputs of a small size; `Routines` starts one of
them and leaves the others idle, so that one run checks all.

- `Division` is parametric in the width of a register. `uidiv_core` works on
  one register and `uldiv_core` on a pair. The pair's comparison branches,
  sign tests and negation are as the code has them: inverted, from the low
  words, and without the borrow.
- `ArgvTail` reads characters of four kinds, and what it writes is known by its
  position in the tail. Only tails shorter than `argbuf` are considered
  (`ArgvAssumption`): a longer one overruns it, as `rostrt.c:83` does not test.
  A newline inside a word does not end the word, though the comment at
  `rostrt.c:62` speaks of whitespace: that loop stops at a space or a tab only.
- `ConsoleWrite` keeps what the program wrote and what was sent. A CR and LF
  split over two calls become CR CR LF, although the comment at `rostrt.c:374`
  speaks of not doubling it. `CursorAsPosix` does not exclude that; it says
  that the cursor is where it should be all the same.
- `DecimalOutput` takes a buffer of just the longest number's size.

## Runs

| run | shows | bounds |
|---|---|---|
| `nested` | `IInv`, `StaticBase`, `AreaInsideBlock`, `HeadersIntact`, `NoLeak`, `OwnWordsOnly`, `ImplementsInstances` hold | three modules: contents and zeros, zeros and workspace, no area. RMA of 76 bytes: both areas fit, at several alignments, but not always, so claims also fail for lack of room. Three frames: a module calls a second that calls the first again |
| `bad_swi` | `StaticBase` fails | two frames suffice: a command that issues an unimplemented SWI |
| `workspace_only` | `AreaInsideBlock` fails | one module, 8 bytes of workspace and 8 of statics |
| `linkers` | `SectionsApart`, `RunsAnywhere`, `MeantDefinition`, `SidecarAgrees`, `LoopInv`, `AreaFilled`, `StaticsInitialised`, `ImageBelowEnd`, `ReferencesMeant`, `Initialises` hold | layouts: a header and three sections of each kind, of 6 or 20 bytes, aligned to 4 or 16. References: two definitions, of one name or two, local or global, in code or data, and one relocation of each kind from the header, code or data. Slots: three relocations over six names, the linker's own, an `_end` that an object defines and an undefined one included, with sections that end off a word. Headers: `--rwpi`, and `--workspace` alone before each kind of code section |
| `ldrex` | `MonitorInv`, `ImplementsAtomicWord`, `EveryCallReturns` hold | three levels, four operations, words modulo 8 |
| `swp` | `AtomicUnlessDisturbed`, `EveryCallReturns` hold for all six operations | three levels, three operations |
| `swp_fetch` | `ImplementsAtomicWord` fails for fetch_add and fetch_sub | two levels, two operations |
| `slots` | `IInv`, `ClearOfStack`, `OneBlockPerGlobal`, `BlocksMatchClaims`, `ImplementsAllocator` hold | slots of 96 (too small), 144 and 176 bytes; an arena of two units; three globals for a table of two, one of them larger than its neighbours' unit; alignments below and above the minimum; two heap blocks live at once; the slot changes only after the first allocation |
| `slot_grown` | `ClearOfStack` fails | as above, the slot grows before the first allocation |
| `shims` | `IInv`, `ArgumentsInPlace`, `ResultsDelivered`, `CallerRegistersKept`, `EveryShimReturns` hold | every shim of the repository, USR and SVC mode, each set of null pointers; one live value at a time in each free register. Two values in two registers do not meet: each is lost or kept alone. `ArgumentsInPlace` speaks of the 14 shims written by hand and of the four in `Documented`; the others' SWIs are taken to read nothing |
| `routines` | `QuotientAndRemainder`, `InsideArgBuf`, `WordsKept`, `CursorAsPosix`, `RangeMoved`, `InsideBuf`, `NumberWritten`, `RoutineReturns` hold | registers of four bits: all operands of the word helpers; all tails of up to five characters for two arguments; all texts of five characters split in every way; all moves and fills in five bytes; all integers from -128 to 127 |
| `uldiv` | `QuotientAndRemainder` fails | registers of two bits |

The violation runs are real disagreements between the code and what it, or a
comment beside it, says. `PROJECT.json` quotes the line for each.

1. An unimplemented SWI loses the caller's r9 (`gen_module.py:302`).
2. `--workspace` without `--rwpi` claims too little: the workspace alone, with
   no room for the headers and the alignment gap before it
   (`gen_module.py:94`), nor for statics, which the linker accepts all the same
   as `__mod_params` is there (`module.rs:351`).
3. SWP-based fetch_add and fetch_sub lose an interrupt handler's update and
   may count twice (`atomics_swp.s:17`). compare_exchange (line 82) has the
   same flaw: it destroys another's value, then reports failure.
4. The heap is measured from the slot's present top but the stack starts at
   the original one; they overlap when the slot grew before the first
   allocation (`rostrt.c:216`).
5. The division of pairs subtracts exactly when it should not
   (`aeabi.s:96`). `__aeabi_ldivmod` moreover takes the signs from the low words
   (line 117) and negates a pair without the borrow between its words
   (line 121: the `rsbmi` before sets no flags). `tools/test_div_model.py`
   cannot show this: its model of the loop compares as the comment says, and
   it checks no signed pair. The run shows the core; the signed pair's own
   faults are in the model but have no run, as the core's hide them.

Read while modelling, without a run of their own:

- Statics behind a `--workspace`-only header are not only unclaimed (2) but
  neither copied nor zeroed (`gen_module.py:97`-118); `ModuleImage.Load` without
  `rwpi` shows it, and `RwpiData` excludes it from `StaticsInitialised`.
- The sidecar is laid out again with word alignment, so behind a section aligned
  to more its symbols drift from the image's (`module.rs:492`).
- GOT slots lie past `__image_end` (`aif.rs:90`), although `aif.rs:84` and
  `roclib_init.s:59` call that the end of everything.
- `write` doubles a CR whose LF comes with the next call (`rostrt.c:376`).
- Generated shims whose SWI takes more than the database lists name the missing
  registers as clobbers, the fault `wimp.c:10`-15 describes. By the RISC OS
  manuals, which are not in the repository, these lack arguments:
  `Wimp_GetWindowState` (`swis_wimp.c:182`), `OS_Byte` (`swis_os.c:68`),
  `Font_Paint` (`swis_font.c:161`), `Debugger_Disassemble`
  (`swis_debugger.c:8`) and `SharedCLibrary_LibInitAPCS_A` and `_R`
  (`swis_shared_clibrary.c:8` and 13).
- `__sync_synchronize` has no return (`atomics_ldrex.s:31`);
  `DrawFile_DeclareFonts` is defined both in `swis_draw.c` and
  `swis_draw_file.c`; a module's workspace is claimed but never zeroed, though
  `tests/module/mojomod.mojo:57` says it is; `roclib_init.s:116` issues SWI 0,
  which is OS_WriteC, and calls it OS_NewLine, which is 3 (`modrt.c:45`).

The atomics' configurations switch deadlock checking off: when `MaxOps`
operations have been issued and answered nothing more can happen. So do those
of `RuntimeHeap`, as a program that called `os_exit` stops, and of `Routines`,
where a routine that has returned is done. The other runs check for deadlock.

### What the properties do not promise

- `SidecarAgrees` is the case that no read-only section wants more than word
  alignment. Without that it is false.
- `StaticsInitialised` holds of headers that suit their module: `RwpiData` in the
  theorems, no writable data behind a `--workspace`-only header in the run
  `linkers`. Without that it is false, and `workspace_only` shows that the
  statics are not even claimed.
- `ArgumentsInPlace` says nothing of generated shims outside `Documented`, and
  passes on those that lack an argument.
- `CursorAsPosix` is about the cursor: a CR sent twice passes it.
- The copy of the initial contents is one step of `ModuleVeneers`: what an entry
  would find that an interrupt makes while it runs is not shown. The private
  word is set before the copy (`gen_module.py:159`).
- `MeantDefinition` and `ReferencesMeant` except local symbols whose name a
  global has, which the global captures, and GOT references to a name with
  several definitions, which share one slot (`aif.rs:119`). Nothing in the
  repository says what such references should reach.
- `ImageBelowEnd` promises sections below `__image_end` but GOT slots only below
  `_end`. The linker's `_end` cannot be reached through the GOT, which is filled before `_end` is
  defined (`aif.rs:163`): such a reference fails, or reaches an `_end` that an
  object defines, while a direct one reaches the linker's. `ReferencesMeant`
  says which (`LinkersOwn`). The AIF linker ignores alignments above a word.

## Fairness

`ModuleVeneers` and `RuntimeHeap` assume none and state only safety: nothing
obliges a module to return or a program to allocate. `Linkers`, `SwiShim` and
`Routines` assume weak fairness of their one thread of control, which nothing
there can block: the linker and the loops of the initialisation get to their
end, a shim returns, a routine returns. `write` returns to a program that may
call it again, so `RoutineReturns` says that it returns again and again. The
atomics assume weak fairness of each context's own instructions, which the core
gives to whoever is not interrupted, and none of `Enter`: interrupts may come or
not. They are finite in number through `MaxOps`; with an endless stream of
interrupts no bound on a retry loop could be given, on the machine either.

## Proofs

`ModuleVeneersProofs` proves, for any modules, sizes, RMA, initial contents
and nesting depth, that `IInv` is inductive, and from it `StaticBase`,
`AreaInsideBlock`, `HeadersIntact`, `NoLeak`, the action property
`OwnWordsOnly` and the refinement `ImplementsInstances`. It assumes `Careful`: every
module that has an area is generated with `--rwpi`, and no module issues an
unimplemented SWI. The runs `workspace_only` and `bad_swi` show that neither
half can be dropped.

Why the invariant is stronger than the properties:

- `StaticBase` speaks of the innermost frame only. After a return the frame
  below becomes innermost, so `SavedBases` says that every frame holds the
  base that was in force when it was entered: its caller's.
- That chain depends on private words staying put while a module is on the
  stack. `EntryOrder` and `FrameInv` say that a module being initialised or
  finalised is on the stack once, so that `Release` cannot clear a word some
  lower frame relies on.
- `AreasInv` ties private word, header words and block together. Writes leave
  it alone because `HeapInv` keeps blocks apart and each area is inside its
  own (`AreaFits`, from the +23 of the claim; `AreasApart`).

`OwnWordsOnly` has two halves. A step changes no word of the area of a module
that keeps it and is not the one running: a claim takes words no other area has,
a release gives back those of the module that leaves, and a write falls into the
area of the module on top of the stack (`WriteInArea`), apart from every other
(`AreasApart`). And a step that neither loads nor releases changes nothing but
statics and workspace of that module, so no header and no memory outside areas
(`StillStepWrites`). Of what the C code writes in its own statics it says
nothing. The refinement reads an instance's
statics from memory at the module's base and its calls from the stack; each
action of the veneers maps to one action of `ModuleInstances` or, where only the
workspace is written or an entry is refused, to none.

`AtomicsLdrexProofs` proves `MonitorInv`, and from it that the loop implements
`AtomicWord` for any number of contexts and operations: the successful
store-exclusive is the instant. `AtomicsSwpProofs` proves the positive half of
what is true of the StrongARM version, `AtomicUnlessDisturbed`: as long as
nothing but loads has been issued above a loop that has not finished, the word
such a loop has loaded is the present one (`LoopsAhead`), so that its swap
is the instant.

`LinkersProofs` proves, for any objects, `SectionsApart`, `RunsAnywhere` (at
every load address and static base: `ModulesRunAt`), `MeantDefinition`, the shape
of the parameter block (`ParamsAdmitted`: what `StaticInit` assumes of its
sizes, the memory limit excepted), `SidecarAgrees`, and the loops of the
initialisation: `LoopInv` and from it `AreaFilled` and, for the sizes that fit in
memory, `StaticsInitialised`. The last assumes `RwpiData`: objects with writable
data come behind a header made with `--rwpi`. `StaticInit` starts
from one of its constant `Sizes`; `LinkedModulesInitialise` shows that, when those
are all sizes of the veneer's shape up to the memory limit, no link that fits is
left out. The invariant:

- `LayoutInv`: whatever has been placed of a space ends at the cursor while
  that space is laid out, and below the recorded end after that; so the next
  section is apart from all before it;
- `RelocInv`: what has been relocated was expressible across the spaces and
  holds its final word; when no relocation is left, all have been. That
  resolution yields a definition at all needs that a non-empty set of symbol
  numbers has a greatest element (`Greatest`, from the well-foundedness of <);
- `SideInv`: each code section stands at the aligned end of the code before
  it. Where no section wants more than word alignment that fixes its address, so
  the second layout, which is one running cursor, arrives at the same one;
- `FillInv`: nothing of the static area is touched before the module is
  loaded, and after that `LoopInv` holds of the sizes the linker wrote, if the
  header has the loops or there are no statics;
- `NoStaticsInv`: without writable data the second address space stays empty, so
  that the module of a `--workspace`-only header needs no loops.

`AifLinkProofs` proves the same of absolute images: `ImageBelowEnd` and
`ReferencesMeant`. `AifInv` is the layout, code before data and the GOT behind
both. That two names never share a slot rests on the slots' numbering: a name's
slot is the number of first uses up to its own, and that number grows from one
first use to the next (`SlotNumbers`). `MeantInv` says of each relocation passed
that it holds the word for its symbol, or for the slot of its name;
`ReachedThrough` follows a slot to what it was filled with.

`RuntimeHeapProofs` proves, for any slot, arena, table, globals and requests,
that its `IInv` is inductive, and from it `OneBlockPerGlobal`,
`BlocksMatchClaims`, that heap and arena implement `Allocator`, and, when the
slot changes only after the first allocation (`~EarlyResize`), `ClearOfStack`.
The run `slot_grown` shows that this cannot be dropped. The invariant adds to
the properties:

- where the areas are (`SplitInv`): arena and heap meet at one address, and
  before the split there are no blocks;
- that claims are apart and inside the heap (`HeapInv`), the arena's blocks
  apart and below the cursor, a multiple of eight (`ArenaInv`). A new arena
  block is apart from the heap's because the cursor stays within the arena;
- that the table has one entry per global and whoever holds or constructs a
  global holds that entry's block (`TableInv`). A constructor that runs while
  others enter their globals can return nothing else.

`HeldBlocksApart` carries the promise of `Allocator` over: no two blocks in use
overlap, whichever allocator handed them out.

`SwiShimProofs` proves that every shim which gives up all registers the SWI
destroys or answers in and returns only answers (`Sound`) keeps every value the
compiler needs, wherever it was put, and from it `ResultsDelivered` and
`CallerRegistersKept`; and that what the generator makes of any entry and exit
registers within r0 to r12 is sound (`GeneratedSound`). `RuntimeShimsSound` goes
through the tables: every shim of the repository, generated or written by hand,
is sound, so the two hold of them without a further hypothesis
(`RuntimeShimsWork`), of the answers they list. `ArgumentsInPlace` needs that the
shim has what its SWI reads as inputs (`Complete`), which is true of the shims
written by hand (`HandShimsPassArguments`). Of the generated ones no such thing is
claimed, and of some it is false (above, under Runs).

`RoutinesProofs` proves every safety property of the sequential routines, each
from an invariant of its loop:

- `QuotientAndRemainder` for words, for registers of any width: the bits taken
  so far are divided and the others still stand at the top of the operand; the
  remainder then never outgrows a register, so the carry that `adc` drops is
  always zero. `WordOnly` excludes the pairs, for which it is false (`uldiv`).
- `InsideBuf` and `NumberWritten`: an integer of k digits is below the k-th power
  of ten, and each digit written is that of its place (`NumberInv`). The
  property compares digit by digit and needs no sum over the digits, which
  would be induction over data.
- `InsideArgBuf` and `WordsKept`: each terminator takes the place of a
  character already passed, and `WordInv` says that what was written keeps the
  tail's order, that no letter was lost, that letters of one word follow each
  other, and that an argument starts behind each terminator.
- `CursorAsPosix`: after each character the terminal that was sent to and the
  POSIX one stand alike (`ConsInv`). A CR sent twice does nothing the first did
  not do.
- `RangeMoved`: the bytes on the side the loop comes from are done and the
  others untouched (`MemInv`); the direction memmove chooses is the one in
  which the bytes still to be read are not yet overwritten.

No invariant or action property of a passing run is without a theorem.
Model-checked only are liveness (`Initialises`, `EveryCallReturns`,
`EveryShimReturns`, `RoutineReturns`), which is out of the prover's reach, and
the violations.

The hypotheses of the theorems are `Careful`, `WordOnly`, `~EarlyResize`,
`RwpiData`, the soundness of shims, and the named assumptions on constants. The
runs `bad_swi`, `workspace_only`, `uldiv` and `slot_grown` show that the first
three cannot be dropped; that `RwpiData` is needed follows from `workspace_only`
too, where such a module's statics lie in no block it claimed.

## Plan

1. The safe half of liveness: a measure for each loop (initialisation,
   division, the routines, the linkers' phases) which every step decreases.
2. What a failed store-exclusive says: something else ran since the load. It is
   the safe half of `EveryCallReturns` for the retry loops.
3. What `ModuleInstances` promises on its own (statics change only by their
   owner, a refused entry changes nothing), carried over to the veneers by the
   refinement.

## Not modelled

- The walk over the members of an archive and the byte decoding of ELF
  (`src/elf.rs`): one pass over a file, without a state that outlives it. What
  it hands over is `Objects`.
- The SharedCLibrary client (`roclib_init.s`): three calls in a row with a
  failure exit each; what they amount to is the library's doing. Its failure
  exit returns to callers that do not expect it (`roclib_init.s:106`).
- The program entry (`crt0.s`): instructions without a decision. `RuntimeHeap`
  starts from what it leaves.
- The encoding of instructions, of the AIF header and of the sidecar file: the
  words are numbers in the model, and no property is about their layout.
- Option parsing and calls of LLVM (`src/main.rs`), the text side of the
  generators, the extraction tools, build scripts and demo programs keep no
  state between operations or only format text. The test harness talks to an
  emulator's interface that the repository does not hold.
- The C library behind `roclib.s`, the kernel and the C compiler are external.

-------------------------------- MODULE Loader --------------------------------
(***************************************************************************)
(* The parts of pkg/rbase/backtrace: the readers, and those that look up   *)
(* what the readers have found, each in behaviours of its own.             *)
(***************************************************************************)
EXTENDS Readers

CONSTANTS
  Files, Addresses, Base, Top,     \* symbol tables and what is looked up in them
  Programs, Offsets,               \* what is compiled for xcoff.c
  Modules, Working(_), PCs,        \* debug information, the threads at work on it, addresses
  Threads, Format, Depth, Skips    \* backtraces

ASSUME FormatAssumption == Format \in {"elf", "macho"}

ASSUME BacktraceAssumption == Depth \in Nat /\ Skips \subseteq Nat

VARIABLES
  \* lookups in the tables of symbols and lines
  call, program, addr, result,
  \* dwarf.c
  info, list, cache, at, todo,
  \* fileline.c, backtrace.c; pc is dwarf.c's too
  failed, fileline_fn, syminfo_fn, pc, frame, skip, asked, alloc, fn, read, out

lookups  == <<call, program, addr, result>>
units    == <<info, list, cache, at, todo>>
pcinfo   == <<failed, fileline_fn, syminfo_fn, frame, skip, asked, alloc, fn, read, out>>
vars     == <<part, readers, lookups, units, pcinfo, pc>>

-----------------------------------------------------------------------------

\* The symbol tables of the readers, and the lines of xcoff.c.
S == INSTANCE Symbols
L == INSTANCE XcoffLines

\* dwarf.c
D == INSTANCE Dwarf

\* fileline.c and backtrace.c
F == INSTANCE Fileline

NoReader  == /\ Unused(disk) /\ Unused(loaded) /\ Unused(file) /\ Unused(main) /\ Unused(stack)
             /\ Unused(views) /\ Unused(res) /\ Unused(found) /\ Unused(kept) /\ Unused(added)
             /\ Unused(left) /\ Unused(faults)
NoLookup  == Unused(call) /\ Unused(program) /\ Unused(addr) /\ Unused(result)
NoUnits   == Unused(info) /\ Unused(list) /\ Unused(cache) /\ Unused(at) /\ Unused(todo)
NoPcinfo  == /\ Unused(failed) /\ Unused(fileline_fn) /\ Unused(syminfo_fn) /\ Unused(frame)
             /\ Unused(skip) /\ Unused(asked) /\ Unused(alloc) /\ Unused(fn) /\ Unused(read)
             /\ Unused(out)
NoThreads == NoUnits /\ NoPcinfo /\ Unused(pc)

Init ==
  \/ ReadersInit /\ NoLookup /\ NoThreads
  \/ part = "symbols"  /\ S!Init /\ Unused(program) /\ Unused(addr) /\ NoReader /\ NoThreads
  \/ part = "lines"    /\ L!Init /\ Unused(call) /\ NoReader /\ NoThreads
  \/ part = "dwarf"    /\ (\E i \in Modules : D!InitWith(i)) /\ NoReader /\ NoLookup /\ NoPcinfo
  \/ part = "fileline" /\ F!Init /\ NoReader /\ NoLookup /\ NoUnits

\* A lookup of these parts ends.
Ended == part \in {"symbols", "lines", "dwarf"} /\ UNCHANGED vars

Reads       == ReadersNext /\ UNCHANGED <<lookups, units, pcinfo, pc>>
FindsSymbol == part = "symbols" /\ S!Next /\ UNCHANGED <<readers, program, addr, units, pcinfo, pc>>
FindsLine   == part = "lines" /\ L!Next /\ UNCHANGED <<readers, call, units, pcinfo, pc>>
FindsFrames == /\ part = "dwarf"
               /\ \E t \in Threads \cap Working(info) : D!Step(t)
               /\ UNCHANGED <<readers, lookups, pcinfo>>
WalksStack  == part = "fileline" /\ F!Next /\ UNCHANGED <<readers, lookups, units>>

Next ==
  \/ Ended
  \/ /\ Reads \/ FindsSymbol \/ FindsLine \/ FindsFrames \/ WalksStack
     /\ UNCHANGED part

Spec == Init /\ [][Next]_vars

-----------------------------------------------------------------------------
(* The properties of the other parts, stated in their modules.             *)

\* Lookups: an address is given the symbol it is in (the syminfo functions), the line it was
\* compiled from (xcoff.c), the functions inlined at it, the innermost first (dwarf.c); and
\* every frame of the stack is reported once, in order (backtrace.c).
ReportsRight ==
  /\ part = "symbols"  => S!ReportsItsSymbol
  /\ part = "lines"    => L!ReportsItsLine
  /\ part = "dwarf"    => D!FramesRight
  /\ part = "fileline" => F!FramesInOrder

\* Threads that initialize or look up at once: who finds u->lines set finds the rest of the
\* unit's tables set, no module that was added is lost (dwarf.c), and nobody calls a
\* function that is not set (fileline.c).
SeenWhole ==
  /\ part = "dwarf"    => D!LinesLast /\ D!ModulesKept
  /\ part = "fileline" => F!NeverCallsNull
=============================================================================

------------------------------- MODULE Readers -------------------------------
(***************************************************************************)
(* The readers of pkg/rbase/backtrace, each in behaviours of its own: part *)
(* says which.  The variables of the others stay 0.                        *)
(***************************************************************************)
EXTENDS Integers, Sequences, Functions

CONSTANTS
  MaxFaults,                      \* how many system calls and allocations may fail
  Elfs, Machos, Pecoffs, Xcoffs   \* what the readers are started with: what is on the disk,
                                  \* the libraries, the program

VARIABLES part, disk, loaded, file, main, stack, views, res, found, kept, added, left, faults

readers == <<disk, loaded, file, main, stack, views, res, found, kept, added, left, faults>>

E == INSTANCE Elf
M == INSTANCE MachO
P == INSTANCE Pecoff
X == INSTANCE Xcoff

-----------------------------------------------------------------------------
(* What the readers are started with.                                      *)

\* ELF: dl_iterate_phdr calls back for something; there are the sections .debug_info and
\* .debug_abbrev at most, those of the old format compressed; and .gnu_debugdata has a file.
ElfSection(s) ==
  s.is \in {"debug", "zdebug"} =>
    /\ s = [is |-> s.is, n |-> s.n, as |-> s.as] /\ s.n \in 1 .. 2
    /\ s.as \in {"zlib", "header", "corrupt"} \cup (IF s.is = "debug" THEN {"plain"} ELSE {})

ElfFile(d, f) ==
  /\ f.sections \in Seq(Range(f.sections))
  /\ \A i \in DOMAIN f.sections :
       /\ ElfSection(f.sections[i])
       /\ f.sections[i].is = "gnu_debugdata" => f.inside \in DOMAIN d /\ d[f.inside].to = <<>>

ASSUME ElfsAssumption ==
  \A r \in Elfs : r.libraries # <<>> /\ \A p \in DOMAIN r.disk : r.disk[p].to = <<>> => ElfFile(r.disk, r.disk[p])

\* coff_expand_symbol: a long name is in the string table.
ASSUME PecoffsAssumption ==
  \A f \in Pecoffs : f.syms.is # P!None /\ f.syms.valid /\ f.syms.long => f.syms.strings

\* Mach-O: a file has one symbol table at most, the sections of a segment are two at most, and
\* the files in a fat one are thin.
MachoThin(f) ==
  f.is = "thin" =>
    /\ f.cmds \in Seq(Range(f.cmds))
    /\ \A i \in DOMAIN f.cmds : f.cmds[i].cmd = "segment" => f.cmds[i].sections \subseteq {"section1", "section2"}
    /\ \A i, j \in DOMAIN f.cmds : f.cmds[i].cmd = "symtab" /\ f.cmds[j].cmd = "symtab" => i = j

MachoFile(f) ==
  /\ MachoThin(f)
  /\ f.is = "fat" => \A i \in DOMAIN f.archs : f.archs[i].file.is # "fat" /\ MachoThin(f.archs[i].file)

ASSUME MachosAssumption ==
  \A r \in Machos : r.exe \in DOMAIN r.disk /\ \A p \in DOMAIN r.disk : MachoFile(r.disk[p])

-----------------------------------------------------------------------------
Unused(v) == v = 0

ReadersInit ==
  \/ /\ part = "elf"
     /\ \E r \in Elfs : E!InitWith(r.disk, r.libraries, r.exe)
     /\ Unused(file) /\ Unused(views)
  \/ /\ part = "macho"
     /\ \E r \in Machos : M!InitWith(r.disk, r.images, r.exe)
     /\ Unused(loaded) /\ Unused(found) /\ Unused(file) /\ Unused(views)
  \/ /\ part = "pecoff"
     /\ \E f \in Pecoffs : P!InitWith(f)
     /\ Unused(disk) /\ Unused(loaded) /\ Unused(stack) /\ Unused(found) /\ Unused(added)
     /\ Unused(left)
  \/ /\ part = "xcoff"
     /\ \E r \in Xcoffs : X!InitWith(r.disk, r.libraries, r.exe)
     /\ Unused(loaded) /\ Unused(found) /\ Unused(added) /\ Unused(file) /\ Unused(views)

ReadsElf    == part = "elf" /\ E!Next /\ UNCHANGED <<file, views>>
ReadsMacho  == part = "macho" /\ M!Next /\ UNCHANGED <<loaded, found, file, views>>
ReadsPecoff == part = "pecoff" /\ P!Next /\ UNCHANGED <<disk, loaded, stack, found, added, left>>
ReadsXcoff  == part = "xcoff" /\ X!Next /\ UNCHANGED <<loaded, found, added, file, views>>

ReadersNext == ReadsElf \/ ReadsMacho \/ ReadsPecoff \/ ReadsXcoff

-----------------------------------------------------------------------------
(* The properties of the readers, stated in their modules.                 *)

\* elf.c, macho.c, pecoff.c, xcoff.c: nothing is given back that is not held, and what the
\* state refers to is not released, but for what Pecoff and Xcoff name, of a call that fails.
NothingDangles ==
  /\ part = "elf"    => E!NothingDangles
  /\ part = "macho"  => M!NothingDangles
  /\ part = "pecoff" => P!NothingDangles
  /\ part = "xcoff"  => X!NothingDangles

\* The same: in the end every descriptor is closed, and every view released that nothing
\* refers to.
AllReleased ==
  /\ part = "elf"    => E!AllReleased
  /\ part = "macho"  => M!AllReleased
  /\ part = "pecoff" => P!AllReleased
  /\ part = "xcoff"  => X!AllReleased

\* The same: the debug information that is used is that of the file it was looked for.
RightFile ==
  /\ part = "elf"    => E!RightFile
  /\ part = "macho"  => M!RightFile
  /\ part = "pecoff" => P!RightFile
  /\ part = "xcoff"  => X!RightFile
=============================================================================

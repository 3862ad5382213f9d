--------------------------------- MODULE Elf ---------------------------------
(***************************************************************************)
(* How pkg/rbase/backtrace/elf.c finds the symbols and the debug           *)
(* information of a program and its libraries: elf_add, which reads a file *)
(* and calls itself for the file that has its debug information,           *)
(* phdr_callback, which calls it for every library, and                    *)
(* backtrace_initialize, which starts both.                                *)
(*                                                                         *)
(* A file is the list of its sections; of a section only what decides is   *)
(* kept.  At most MaxFaults system calls and allocations fail.             *)
(***************************************************************************)
EXTENDS Integers, Sequences, FiniteSetsExt, Resources

CONSTANTS MaxFaults

VARIABLES
  disk,    \* what is at each path: a file, or the path a symbolic link has
  loaded,  \* the libraries, in the order of dl_iterate_phdr, "" for the program
  main,    \* backtrace_initialize: where it is, the libraries to come, the descriptor
           \* it still has and the functions it has set
  stack,   \* the calls of elf_add, the innermost last
  res,     \* the ledger
  found,   \* *found_sym, *found_dwarf
  kept,    \* what the state refers to: things held, of which reader
  added,   \* the debug information that was added, with what asked for it
  left,    \* where each call of elf_add returned
  faults

vars == <<disk, loaded, main, stack, res, found, kept, added, left, faults>>

F == Last(stack)

File == disk[F.file]

\* One of these fails, or none.
Faulty(points) == IF faults < MaxFaults THEN points \cup {None} ELSE {None}

Count(fault) == faults' = IF fault = None THEN faults ELSE faults + 1

\* elf_get_view, elf_release_view: of a file in memory nothing is held.
Get(r, vs)  == IF F.memory = 0 THEN Taken(r, F.id, vs) ELSE r
Drop(r, vs) == IF F.memory = 0 THEN Released(r, F.id, vs) ELSE r

\* The state refers to a view: of a file in memory, to the block that has the file.
Kept(vs) == IF F.memory = 0 \/ vs = {} THEN {F.id} \X vs ELSE {<<F.memory, "image">>}

Goes(frame) == stack' = [stack EXCEPT ![Len(stack)] = frame]

\* The checksum and the build ID the file has to have; 0 and None ask for nothing.
Asked(crc, id) == [crc |-> crc, id |-> id]

NoSection == [is |-> None]

NextId == Len(left) + Len(stack) + 1

\* A call of elf_add.  path is the name it is given, which is not always the file's; memory
\* is 0, or the call that has uncompressed the file.
Call(id, path, file, fd, memory, exe, debuginfo, asked) ==
  [at |-> "header", path |-> path, file |-> file, fd |-> fd, memory |-> memory, exe |-> exe,
   debuginfo |-> debuginfo, asked |-> asked, id |-> id, i |-> 1,
   views |-> {}, debug |-> <<>>, zdebug |-> <<>>, sym |-> NoSection, buildid |-> None,
   link |-> NoSection, alt |-> NoSection, ret |-> 0]

\* The caller goes on where it is, with what was returned.
Returns(ret, from, r) ==
  /\ left' = Append(left, [id |-> F.id, file |-> F.file, from |-> from])
  /\ res'  = r
  /\ IF Len(stack) = 1
       THEN stack' = <<>> /\ main' = [main EXCEPT !.ret = ret]
       ELSE stack' = [Front(stack) EXCEPT ![Len(stack) - 1].ret = ret] /\ UNCHANGED main

\* fail: what is marked valid is released.
Fails(valid, r) == Returns(0, "fail", Closed(Drop(r, valid), F.fd))

Reading(at) == stack # <<>> /\ F.at = at

-----------------------------------------------------------------------------
(* elf_add, in its order.                                                  *)

\* The header, and the tables of the sections and their names.  "We need to wait for
\* dl_iterate_phdr" where the program is position independent.
Header ==
  /\ Reading("header")
  /\ \E fault \in Faulty({"ehdr", "shdr", "shdrs", "names"}) :
       /\ Count(fault)
       /\ IF fault = "ehdr" \/ ~File.elf
            THEN Fails({}, res)
          ELSE IF F.exe /\ File.dyn
            THEN Returns(-1, "dyn", res)
          ELSE IF fault \in {"shdr", "shdrs"} \/ File.sections = <<>>
            THEN Fails({}, res)
          ELSE IF fault = "names"
            THEN Fails({"shdrs"}, Get(res, {"shdrs"}))
          ELSE /\ Goes([F EXCEPT !.at = "scan", !.views = {"shdrs", "names"}])
               /\ res' = Get(res, {"shdrs", "names"})
               /\ UNCHANGED <<main, left>>
  /\ found' = IF F.debuginfo THEN found ELSE [sym |-> FALSE, dwarf |-> FALSE]
  /\ UNCHANGED <<disk, loaded, kept, added>>

\* Not the code: a build ID is not compared.
Matches_Any(s) == TRUE

\* The build ID that was asked for, if any.
Matches(s) == F.asked.id = None \/ (s.gnu /\ s.id = F.asked.id)

\* The section has a view of its own, which the first of its kind keeps.
Wanted(s) ==
  CASE s.is = "buildid"    -> (~F.debuginfo \/ F.asked.id # None) /\ "buildid" \notin F.views
    [] s.is = "debuglink"  -> ~F.debuginfo /\ "debuglink" \notin F.views
    [] s.is \in {"debugaltlink", "gnu_debugdata"} -> s.is \notin F.views
    [] s.is = "opd"        -> TRUE
    [] OTHER               -> FALSE

\* The debug sections, by number, with s.
With(sections, s) == [n \in DOMAIN sections \cup {s.n} |-> IF n = s.n THEN s ELSE sections[n]]

\* What is remembered of the section.
Noted(s) ==
  CASE s.is \in {"symtab", "dynsym"} ->
         [F EXCEPT !.sym = IF s.is = "symtab" \/ @.is = None \/ @.is = "dynsym" THEN s ELSE @]
    [] s.is = "debug"         -> [F EXCEPT !.debug = With(@, s)]
    [] s.is = "zdebug"        -> [F EXCEPT !.zdebug = With(@, s)]
    [] s.is = "buildid"       -> [F EXCEPT !.buildid = IF s.gnu THEN s.id ELSE None]
    [] s.is = "debuglink"     -> [F EXCEPT !.link = s]
    [] s.is = "debugaltlink"  -> [F EXCEPT !.alt = s]
    [] OTHER                  -> F

\* One turn of the loop over the sections.
Scan ==
  /\ Reading("scan")
  /\ UNCHANGED <<disk, loaded, found, kept, added>>
  /\ IF F.i > Len(File.sections)
       THEN /\ Goes([F EXCEPT !.at = "symbols"])
            /\ UNCHANGED <<main, res, left, faults>>
     ELSE LET s == File.sections[F.i]
              v == IF Wanted(s) THEN {s.is} ELSE {}
              n == IF v # {} \/ s.is \in {"symtab", "dynsym", "debug", "zdebug"} THEN Noted(s) ELSE F
          IN  \E fault \in Faulty(v) :
                /\ Count(fault)
                /\ IF s.is = "badname" \/ fault # None
                     THEN Fails(F.views, res)
                   ELSE IF s.is = "buildid" /\ v # {} /\ ~Matches(s)
                     THEN Fails(F.views \cup v, Get(res, v))
                   ELSE /\ Goes([n EXCEPT !.i = @ + 1, !.views = @ \cup v])
                        /\ res' = Get(res, v)
                        /\ UNCHANGED <<main, left>>

\* The symbol table and its strings, elf_initialize_syminfo and elf_add_syminfo_data; "we
\* hold on to the string table permanently".
Symbols ==
  LET on(f) == [f EXCEPT !.at = "separate", !.views = @ \ {"shdrs", "names"}]
      off   == {"shdrs", "names"}
  IN  /\ Reading("symbols")
      /\ IF F.sym.is = None \/ F.debuginfo
           THEN /\ Goes(on(F)) /\ res' = Drop(res, off)
                /\ UNCHANGED <<main, found, kept, left, faults>>
         ELSE \E fault \in Faulty({"symtab", "strtab", "sdata", "symbols"}) :
                /\ Count(fault)
                /\ IF ~F.sym.linked \/ fault = "symtab"
                     THEN Fails(F.views, res) /\ UNCHANGED <<found, kept>>
                   ELSE IF fault = "strtab"
                     THEN Fails(F.views \cup {"symtab"}, Get(res, {"symtab"})) /\ UNCHANGED <<found, kept>>
                   ELSE IF fault # None \/ ~F.sym.named
                     THEN /\ Fails(F.views \cup {"symtab", "strtab"}, Get(res, {"symtab", "strtab"}))
                          /\ UNCHANGED <<found, kept>>
                   ELSE /\ Goes(on(F))
                        /\ res'   = Drop(Taken(Get(res, {"strtab"}), F.id, {"sdata", "symbols"}), off)
                        /\ found' = [found EXCEPT !.sym = TRUE]
                        /\ kept'  = kept \cup ({F.id} \X {"sdata", "symbols"}) \cup Kept({"strtab"})
                        /\ UNCHANGED <<main, left>>
      /\ UNCHANGED <<disk, loaded, added>>

-----------------------------------------------------------------------------
(* The files that have the debug information of another.                   *)

\* Where the links of a path end; elf_readlink or the buffer after it may fail, and then
\* the path is as far as it was read, or nothing is looked for.
Resolved(path) ==
  LET links     == {p \in DOMAIN disk : disk[p].to # <<>>}
      target(p) == IF disk[p].to[1] = "/" THEN Tail(disk[p].to) ELSE Front(p) \o disk[p].to
      end[p \in links] == IF target(p) \in links THEN end[target(p)] ELSE target(p)
  IN  IF path \in links THEN end[path] ELSE path

\* elf_find_debugfile_by_debuglink: in the directory of the file, in .debug under it, and
\* under /usr/lib/debug; elf_try_debugfile may fail in one of them.
Candidates(path, name) ==
  LET dir == IF path = <<>> THEN <<>> ELSE Front(path)
  IN  << <<"same", dir \o name>>, <<"debug", dir \o <<".debug">> \o name>>,
         <<"usr", <<"usr", "lib", "debug">> \o dir \o name>> >>

Exists(path) == path \in DOMAIN disk /\ disk[path].to = <<>>

LinkFaults == {"readlink", "concat", "same", "debug", "usr", "crc"}

\* The first of them that is there, if any.
There(path, name, fault) ==
  LET c     == Candidates(IF fault = "readlink" THEN path ELSE Resolved(path), name)
      there == {i \in 1 .. 3 : c[i][1] # fault /\ Exists(c[i][2])}
  IN  IF fault = "concat" \/ there = {} THEN <<>> ELSE c[Min(there)][2]

\* Not the code: the checksum is not compared.
FoundByLink_Any(path, name, crc, fault) == There(path, name, fault)

\* elf_open_debugfile_by_debuglink: that file, if it has the checksum; one of zero asks for
\* nothing.
FoundByLink(path, name, crc, fault) ==
  LET d == There(path, name, fault)
  IN  IF d # <<>> /\ (crc # 0 => fault # "crc" /\ disk[d].crc = crc) THEN d ELSE <<>>

\* The target of a relative link is lost where it cannot be appended to the directory.
Searched(r, fault) == IF fault = "concat" THEN Taken(r, F.id, {"new_buf"}) ELSE r

\* elf_open_debugfile_by_buildid.
FoundById(id) ==
  LET path == <<"usr", "lib", "debug", ".build-id", id>>
  IN  IF Exists(path) THEN path ELSE <<>>

\* The debug information is read from file d instead; what is no longer wanted is released,
\* which is not all there is.
Instead(d, vs, asked, r) ==
  /\ stack' = Append([stack EXCEPT ![Len(stack)].at = "instead"],
                     Call(NextId, <<>>, d, Descriptor(NextId), 0, FALSE, TRUE, asked))
  /\ res'   = Opened(Drop(r, vs), Descriptor(NextId))
  /\ UNCHANGED <<main, left>>

\* By the build ID, and without a file for that its view and that of .opd are released.
Separate ==
  /\ Reading("separate")
  /\ \E fault \in Faulty(IF F.buildid = None THEN {} ELSE {"bd_filename"}) :
       LET d == IF F.buildid = None \/ fault # None THEN <<>> ELSE FoundById(F.buildid)
       IN  /\ Count(fault)
           /\ IF d # <<>>
                THEN Instead(d, F.views \cap {"buildid", "debuglink", "debugaltlink"}, Asked(0, None), res)
                ELSE /\ Goes([F EXCEPT !.at = "debuglink", !.views = @ \ {"buildid", "opd"}])
                     /\ res' = Drop(res, F.views \cap {"buildid", "opd"})
                     /\ UNCHANGED <<main, left>>
  /\ UNCHANGED <<disk, loaded, found, kept, added>>

\* By the name and the checksum of .gnu_debuglink.
Debuglink ==
  /\ Reading("debuglink")
  /\ \E fault \in Faulty(IF F.link.is = None THEN {} ELSE LinkFaults) :
       LET d == IF F.link.is = None THEN <<>> ELSE FoundByLink(F.path, F.link.name, F.link.crc, fault)
           r == Searched(res, fault)
       IN  /\ Count(fault)
           /\ IF d # <<>>
                THEN Instead(d, {"debuglink"} \cup (F.views \cap {"debugaltlink"}), Asked(F.link.crc, None), r)
                ELSE /\ Goes([F EXCEPT !.at = "altlink", !.views = @ \ {"debuglink"}])
                     /\ res' = Drop(r, F.views \cap {"debuglink"})
                     /\ UNCHANGED <<main, left>>
  /\ UNCHANGED <<disk, loaded, found, kept, added>>

\* Not the code: the descriptor of this file stays open.
AfterInstead_Open ==
  /\ Reading("instead")
  /\ Returns(F.ret, "instead", res)
  /\ UNCHANGED <<disk, loaded, found, kept, added, faults>>

\* The descriptor of the file that was read instead is closed by its own call.
AfterInstead ==
  /\ Reading("instead")
  /\ Returns(F.ret, "instead", Closed(res, F.fd))
  /\ UNCHANGED <<disk, loaded, found, kept, added, faults>>

\* What two files share is in a third, which has to have the build ID that
\* .gnu_debugaltlink says.
Altlink ==
  /\ Reading("altlink")
  /\ \E fault \in Faulty(IF F.alt.is = None THEN {} ELSE LinkFaults \ {"crc"}) :
       LET d == IF F.alt.is = None THEN <<>> ELSE FoundByLink(F.path, F.alt.name, 0, fault)
           r == Searched(res, fault)
       IN  /\ Count(fault)
           /\ IF d # <<>>
                THEN /\ stack' = Append([stack EXCEPT ![Len(stack)].at = "shared"],
                                        Call(NextId, F.path, d, Descriptor(NextId), 0, FALSE, TRUE,
                                             Asked(0, F.alt.id)))
                     /\ res' = Opened(r, Descriptor(NextId))
                ELSE /\ Goes([F EXCEPT !.at = "minidebug", !.views = @ \ {"debugaltlink"}])
                     /\ res' = Drop(r, F.views \cap {"debugaltlink"})
  /\ UNCHANGED <<disk, loaded, main, found, kept, added, left>>

AfterShared ==
  /\ Reading("shared")
  /\ Goes([F EXCEPT !.at = "minidebug", !.views = @ \ {"debugaltlink"}])
  /\ res' = Drop(res, {"debugaltlink"})
  /\ UNCHANGED <<disk, loaded, main, found, kept, added, left, faults>>

\* .gnu_debugdata has a file, compressed, which is read from memory, with its symbols.
Minidebug ==
  /\ Reading("minidebug")
  /\ UNCHANGED <<disk, loaded, main, found, kept, added, left>>
  /\ IF "gnu_debugdata" \notin F.views
       THEN Goes([F EXCEPT !.at = "extent"]) /\ UNCHANGED <<res, faults>>
     ELSE \E fault \in Faulty({"mem", "block"}) :
            LET g == [F EXCEPT !.views = @ \ {"gnu_debugdata"}]
                r == Drop(res, {"gnu_debugdata"})
            IN  /\ Count(fault)
                /\ IF fault = None
                     THEN /\ stack' = Append([stack EXCEPT ![Len(stack)] = [g EXCEPT !.at = "inmemory"]],
                                             Call(NextId, F.path, File.inside, NoFile, F.id, FALSE, FALSE, Asked(0, None)))
                          /\ res' = Taken(r, F.id, {"image", "probs"})
                     ELSE /\ Goes([g EXCEPT !.at = "extent"])
                          /\ res' = IF fault = "block" THEN Taken(r, F.id, {"probs"}) ELSE r

AfterMemory ==
  /\ Reading("inmemory")
  /\ Returns(F.ret, "inmemory", Closed(res, F.fd))
  /\ UNCHANGED <<disk, loaded, found, kept, added, faults>>

-----------------------------------------------------------------------------
(* The debug sections: DOMAIN F.debug, and those of the old compressed     *)
(* format that have no other of their name.                                *)

Sections == 1 .. 2

Split(n) == <<"split1", "split2">>[n]
Data(n)  == <<"data1", "data2">>[n]

Old == DOMAIN F.zdebug \ DOMAIN F.debug

\* No debug sections; or one view of all, or a view of each where they are far apart; and
\* then the descriptor is closed.
Extent ==
  LET all      == DOMAIN F.debug \cup DOMAIN F.zdebug
      views    == IF File.near THEN {"debug"} ELSE {Split(n) : n \in all}
      closing  == IF F.fd = NoFile THEN {} ELSE {"close"}
  IN  /\ Reading("extent")
      /\ IF all = {}
           THEN \E fault \in Faulty(closing) :
                  /\ Count(fault)
                  /\ IF fault = None THEN Returns(1, "nodebug", Closed(res, F.fd))
                                     ELSE Fails(F.views, CloseFails(res, F.fd))
         ELSE \E fault \in Faulty(views \cup closing) :
                /\ Count(fault)
                /\ IF fault = "debug" THEN Fails(F.views, res)
                   ELSE IF fault \in views
                     THEN LET before == {Split(n) : n \in {k \in all : \E m \in all : fault = Split(m) /\ k < m}}
                          IN  Fails(F.views \cup before, Get(res, before))
                   ELSE IF fault = "close"
                     THEN Fails(F.views \cup views, CloseFails(Get(res, views), F.fd))
                   ELSE /\ Goes([F EXCEPT !.at = "zdebug", !.i = 1, !.fd = NoFile, !.views = @ \cup views])
                        /\ res' = Closed(Get(res, views), F.fd)
                        /\ UNCHANGED <<main, left>>
      /\ UNCHANGED <<disk, loaded, found, kept, added>>

HasTable == <<F.id, "table">> \in res.held

\* The section s as it is when it was uncompressed, which it may not have been.
Plain(s) == [s EXCEPT !.as = IF s.as = "zlib" THEN "data" ELSE "gone"]

\* One compressed section: the table for all of them, and the memory for this one, which
\* stays where the stream is corrupt.
Uncompress(s) ==
  \E fault \in Faulty((IF HasTable THEN {} ELSE {"table"}) \cup (IF s.as = "header" THEN {} ELSE {"data"})) :
    LET view == {Split(s.n)} \cap F.views
        r    == IF fault = "table" THEN res ELSE Taken(res, F.id, {"table"})
    IN  /\ Count(fault)
        /\ IF fault # None THEN Fails(F.views, r)
           ELSE /\ Goes([F EXCEPT !.i = @ + 1, !.views = @ \ view, !.debug = With(@, Plain(s))])
                /\ res' = Drop(Taken(r, F.id, IF s.as = "header" THEN {} ELSE {Data(s.n)}), view)
                /\ UNCHANGED <<main, left>>

UncompressOld ==
  /\ Reading("zdebug")
  /\ IF F.i \in Old
       THEN Uncompress(F.zdebug[F.i])
       ELSE /\ Goes(IF F.i \in Sections THEN [F EXCEPT !.i = @ + 1] ELSE [F EXCEPT !.at = "gabi", !.i = 1])
            /\ UNCHANGED <<main, res, left, faults>>
  /\ UNCHANGED <<disk, loaded, found, kept, added>>

UncompressNew ==
  /\ Reading("gabi")
  /\ IF F.i \in DOMAIN F.debug /\ F.debug[F.i].as \in {"zlib", "header", "corrupt"}
       THEN Uncompress(F.debug[F.i])
       ELSE /\ Goes(IF F.i \in Sections THEN [F EXCEPT !.i = @ + 1] ELSE [F EXCEPT !.at = "dwarf"])
            /\ UNCHANGED <<main, res, left, faults>>
  /\ UNCHANGED <<disk, loaded, found, kept, added>>

InView == {n \in DOMAIN F.debug : F.debug[n].as = "plain"}

\* Not the code: the view of all sections is released if any of them was uncompressed.
Unused_Any == {"debug"} \cap F.views \cap
              (IF \E n \in DOMAIN F.debug : F.debug[n].as = "data" THEN {"debug"} ELSE {})

\* debug_view, where using_debug_view is 0.
Unused == {"debug"} \cap F.views \cap (IF InView = {} THEN {"debug"} ELSE {})

\* The end: "if any of sections are uncompressed, we never release this view".
Dwarf ==
  LET r     == Drop(Released(res, F.id, IF HasTable THEN {"table"} ELSE {}), Unused)
      refers == IF File.near THEN (IF InView = {} THEN {} ELSE {"debug"}) ELSE {Split(n) : n \in InView}
      data  == {Data(n) : n \in {k \in DOMAIN F.debug : F.debug[k].as = "data"}}
  IN  /\ Reading("dwarf")
      /\ \E fault \in Faulty({"dwarf"}) :
           /\ Count(fault)
           /\ IF fault # None THEN Fails(F.views \ Unused, r) /\ UNCHANGED <<found, kept, added>>
              ELSE /\ left'  = Append(left, [id |-> F.id, file |-> F.file, from |-> "dwarf"])
                   /\ res'   = r
                   /\ found' = [found EXCEPT !.dwarf = TRUE]
                   /\ kept'  = kept \cup ({F.id} \X data) \cup Kept(refers)
                   /\ added' = added \cup {[file |-> F.file, asked |-> F.asked]}
                   /\ IF Len(stack) = 1
                        THEN stack' = <<>> /\ main' = [main EXCEPT !.ret = 1, !.fn = "dwarf"]
                        ELSE /\ stack' = [Front(stack) EXCEPT ![Len(stack) - 1].ret = 1]
                             /\ main' = [main EXCEPT !.fn = "dwarf"]
      /\ UNCHANGED <<disk, loaded>>

-----------------------------------------------------------------------------
(* backtrace_initialize and phdr_callback.                                 *)

\* The program was read; nothing is done for the libraries where that failed.
AfterProgram ==
  /\ stack = <<>> /\ main.at = "program"
  /\ main' = [main EXCEPT !.at = IF main.ret = 0 THEN "failed" ELSE "libraries",
                          !.fd = IF main.ret < 0 THEN @ ELSE NoFile,
                          !.fileline = main.fn]
  /\ UNCHANGED <<disk, loaded, stack, res, found, kept, added, left, faults>>

\* The program is the first, if its own address had to be waited for.
CallbackProgram ==
  /\ stack = <<>> /\ main.at = "libraries"
  /\ main.todo # <<>> /\ Head(main.todo) = <<>>
  /\ IF main.fd = NoFile
       THEN main' = [main EXCEPT !.todo = Tail(@)] /\ UNCHANGED stack
       ELSE /\ main' = [main EXCEPT !.todo = Tail(@), !.at = "library", !.fn = "unset", !.fd = NoFile]
            /\ stack' = <<Call(NextId, main.exe, Resolved(main.exe), main.fd, 0, FALSE, FALSE, Asked(0, None))>>
  /\ UNCHANGED <<disk, loaded, res, found, kept, added, left, faults>>

CallbackLibrary ==
  /\ stack = <<>> /\ main.at = "libraries"
  /\ main.todo # <<>> /\ Head(main.todo) # <<>>
  /\ LET l == Head(main.todo)
         r == Closed(res, main.fd)
     IN  IF Exists(Resolved(l))
           THEN /\ main' = [main EXCEPT !.todo = Tail(@), !.fd = NoFile, !.at = "library", !.fn = "unset"]
                /\ stack' = <<Call(NextId, l, Resolved(l), Descriptor(NextId), 0, FALSE, FALSE, Asked(0, None))>>
                /\ res' = Opened(r, Descriptor(NextId))
           ELSE /\ main' = [main EXCEPT !.todo = Tail(@), !.fd = NoFile]
                /\ res' = r
                /\ UNCHANGED stack
  /\ UNCHANGED <<disk, loaded, found, kept, added, left, faults>>

AfterLibrary ==
  /\ stack = <<>> /\ main.at = "library"
  /\ main' = [main EXCEPT !.at = "libraries",
                          !.dwarf    = @ \/ (main.ret # 0 /\ found.dwarf),
                          !.fileline = IF main.ret # 0 /\ found.dwarf THEN main.fn ELSE @]
  /\ UNCHANGED <<disk, loaded, stack, res, found, kept, added, left, faults>>

\* What is called for a symbol: elf_syminfo, or elf_nosyms unless there is something.
Finish ==
  /\ stack = <<>> /\ main.at = "libraries" /\ main.todo = <<>>
  /\ main' = [main EXCEPT !.at = "done",
                          !.syminfo = IF found.sym THEN "elf_syminfo" ELSE "elf_nosyms"]
  /\ UNCHANGED <<disk, loaded, stack, res, found, kept, added, left, faults>>

\* The program was opened.
InitWith(d, libraries, exe) ==
  /\ disk = d /\ loaded = libraries
  /\ main = [at |-> "program", exe |-> exe, fd |-> Descriptor(0), todo |-> libraries, ret |-> 0,
             fn |-> "elf_nodebug", fileline |-> None, syminfo |-> None, dwarf |-> FALSE]
  /\ left = <<>> /\ kept = {} /\ added = {} /\ faults = 0
  /\ found = [sym |-> FALSE, dwarf |-> FALSE]
  /\ res = Opened(NoResources, main.fd)
  /\ Exists(Resolved(exe))
  /\ stack = <<Call(1, exe, Resolved(exe), main.fd, 0, TRUE, FALSE, Asked(0, None))>>

Ended == stack = <<>> /\ main.at \in {"done", "failed"}

Next ==
  \/ Header \/ Scan \/ Symbols \/ Separate \/ Debuglink \/ AfterInstead
  \/ Altlink \/ AfterShared \/ Minidebug \/ AfterMemory
  \/ Extent \/ UncompressOld \/ UncompressNew \/ Dwarf
  \/ AfterProgram \/ CallbackProgram \/ CallbackLibrary \/ AfterLibrary \/ Finish
  \/ Ended /\ UNCHANGED vars

-----------------------------------------------------------------------------
(* Properties.                                                             *)

\* Whatever fails, and in whichever call for whichever file: what the state refers to is
\* never released, and nothing is released that is not held and no descriptor closed that
\* is not open, except, once more, one whose close has failed.
NothingDangles == kept \subseteq res.held /\ ~res.twice

Left(h, from) == \E l \in Range(left) : l.id = h[1] /\ l.from = from

\* What a call keeps although nothing refers to it: the view of .gnu_debugdata, and that
\* of .opd, where a file is read instead; the work space of the decompressors and what
\* was uncompressed, where there is a failure; a file in memory that was of no use.
Leaked(h) ==
  \/ h[2] \in {"gnu_debugdata", "opd"} /\ Left(h, "instead")
  \/ h[2] \in {"probs", "image"}
  \/ h[2] = "new_buf" /\ faults > 0
  \/ h[2] \in {"table", Data(1), Data(2)} /\ Left(h, "fail")
  \/ \E l \in Range(left) : \E s \in Range(disk[l.file].sections) :
       l.id = h[1] /\ s.is \in {"debug", "zdebug"} /\ s.as = "corrupt" /\ h[2] = Data(s.n)

\* In the end every descriptor is closed, and what is held is what the state refers to:
\* every view and block of every call on every path is given back, but for the above.
AllReleased ==
  Ended => /\ res.open = {}
           /\ \A h \in res.held \ kept : Leaked(h)

FirstBuildId(sections, i) ==
  sections[i].is = "buildid" /\ \A j \in 1 .. i - 1 : sections[j].is # "buildid"

\* The debug information that is used is that of the file: what .gnu_debuglink names has
\* the checksum, and what .gnu_debugaltlink names has the build ID, if it has any.
RightFile ==
  \A a \in added :
    LET s == disk[a.file].sections
    IN  /\ a.asked.crc # 0 => disk[a.file].crc = a.asked.crc
        /\ a.asked.id # None => \A i \in DOMAIN s : FirstBuildId(s, i) => s[i].gnu /\ s[i].id = a.asked.id
=============================================================================

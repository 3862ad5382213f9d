-------------------------------- MODULE Xcoff --------------------------------
(***************************************************************************)
(* How pkg/rbase/backtrace/xcoff.c finds the symbols and the debug         *)
(* information of a program and its libraries on AIX: xcoff_add, for a     *)
(* file or a member of an archive, xcoff_armem_add, which looks for the    *)
(* member, and backtrace_initialize.                                       *)
(*                                                                         *)
(* Of a file only what decides is kept.  At most MaxFaults system calls    *)
(* and allocations fail.                                                   *)
(***************************************************************************)
EXTENDS Integers, Sequences, FiniteSets, Functions, Resources

CONSTANTS MaxFaults

VARIABLES
  disk,   \* what is at each path: an object or an archive of objects
  main,   \* backtrace_initialize: where it is, the libraries to come, found_sym (sym) and
          \* lib_found_sym (lib)
  stack,  \* the calls of xcoff_armem_add and xcoff_add, the innermost last
  res,    \* the ledger
  kept,   \* what the state refers to: things held, of which reader
  left,   \* where each call of xcoff_add returned
  faults

vars == <<disk, main, stack, res, kept, left, faults>>

F == Last(stack)

Faulty(points) == IF faults < MaxFaults THEN points \cup {None} ELSE {None}

Count(fault) == faults' = IF fault = None THEN faults ELSE faults + 1

Goes(frame) == stack' = [stack EXCEPT ![Len(stack)] = frame]

Reading(at) == stack # <<>> /\ F.at = at

\* A view of a descriptor that was closed cannot be had.
Readable == F.fd \in res.open

NextId == Len(left) + 1

\* A call of xcoff_add, for the program (exe) or a library; inside is set where the offset is
\* not zero: for a member of an archive.
Object(id, fd, object, exe, inside) ==
  [at |-> "header", id |-> id, fd |-> fd, object |-> object, exe |-> exe, inside |-> inside, views |-> {}]

Archive(path, fd, member) ==
  [at |-> "archive", id |-> 0, path |-> path, fd |-> fd, member |-> member, i |-> 1, ret |-> FALSE]

\* To xcoff_armem_add, or to backtrace_initialize.
Returns(ret, r) ==
  /\ left' = Append(left, [id |-> F.id, ret |-> ret, exe |-> F.exe])
  /\ res'  = r
  /\ IF Len(stack) = 1
       THEN stack' = <<>> /\ main' = [main EXCEPT !.ret = ret]
       ELSE stack' = [Front(stack) EXCEPT ![1].ret = ret] /\ UNCHANGED main

\* fail: what is marked valid is released, also what the state refers to already; and the
\* descriptor is left to xcoff_armem_add, which goes on with the next member.
Fails(valid, r) ==
  LET s == Released(r, F.id, valid)
  IN  Returns(FALSE, IF F.inside THEN s ELSE Closed(s, F.fd))

-----------------------------------------------------------------------------
(* xcoff_add, in its order.                                                *)

\* The header and those of the sections, of which one has to be .text.
Header ==
  /\ Reading("header")
  /\ \E fault \in Faulty({"header", "sects"}) :
       /\ Count(fault)
       /\ IF \/ fault # None \/ ~Readable \/ ~F.object.xcoff
             \/ F.exe = F.object.shared
            THEN Fails({}, res)
          ELSE IF ~F.object.text THEN Fails({"sects"}, Taken(res, F.id, {"sects"}))
          ELSE /\ Goes([F EXCEPT !.at = "symbols", !.views = {"sects"}])
               /\ res' = Taken(res, F.id, {"sects"})
               /\ UNCHANGED <<main, left>>
  /\ UNCHANGED <<disk, kept>>

\* The tables of symbols and strings, xcoff_initialize_syminfo and xcoff_add_syminfo_data.
Symbols ==
  /\ Reading("symbols")
  /\ LET tables == IF F.object.strings THEN {"syms", "str"} ELSE {"syms"}
         r      == Taken(res, F.id, tables)
     IN  IF ~F.object.symbols
           THEN /\ Goes([F EXCEPT !.at = "debug"])
                /\ UNCHANGED <<main, res, kept, left, faults>>
         ELSE \E fault \in Faulty(tables \cup {"sdata", "symbols"}) :
                /\ Count(fault)
                /\ IF fault = "syms" THEN Fails(F.views, res) /\ UNCHANGED kept
                   ELSE IF fault = "str"
                     THEN Fails(F.views \cup {"syms"}, Taken(res, F.id, {"syms"})) /\ UNCHANGED kept
                   ELSE IF fault # None THEN Fails(F.views \cup tables, r) /\ UNCHANGED kept
                   ELSE /\ Goes([F EXCEPT !.at = "debug", !.views = @ \cup tables])
                        /\ main' = [main EXCEPT !.lib = TRUE]
                        /\ res'  = Taken(r, F.id, {"sdata", "symbols"})
                        /\ kept' = kept \cup ({F.id} \X ({"sdata", "symbols"} \cup (tables \ {"syms"})))
                        /\ UNCHANGED left
  /\ UNCHANGED disk

\* One view of the DWARF sections.
Debug ==
  /\ Reading("debug")
  /\ IF ~F.object.dwarf
       THEN Goes([F EXCEPT !.at = "lines"]) /\ UNCHANGED <<main, res, kept, left, faults>>
     ELSE \E fault \in Faulty({"view", "dwarf"}) :
            /\ Count(fault)
            /\ IF fault = "view" THEN Fails(F.views, res) /\ UNCHANGED kept
               ELSE IF fault = "dwarf"
                 THEN Fails(F.views \cup {"dwarf"}, Taken(res, F.id, {"dwarf"})) /\ UNCHANGED kept
               ELSE /\ Goes([F EXCEPT !.at = "lines", !.views = @ \cup {"dwarf"}])
                    /\ res'  = Taken(res, F.id, {"dwarf"})
                    /\ kept' = kept \cup {<<F.id, "dwarf">>}
                    /\ main' = [main EXCEPT !.fileline = "dwarf"]
                    /\ UNCHANGED left
  /\ UNCHANGED disk

\* The line numbers, where there is no DWARF.  That xcoff_initialize_fileline fails is no
\* failure, and what it has allocated and the view stay.
Lines ==
  /\ Reading("lines")
  /\ IF "dwarf" \in F.views \/ ~F.object.symbols \/ ~F.object.lines
       THEN Goes([F EXCEPT !.at = "close"]) /\ UNCHANGED <<main, res, kept, left, faults>>
     ELSE \E fault \in Faulty({"linenos", "fdata", "vector"}) :
            LET r == Taken(res, F.id, {"linenos"})
            IN  /\ Count(fault)
                /\ IF fault = "linenos" THEN Fails(F.views, res) /\ UNCHANGED kept
                   ELSE /\ Goes([F EXCEPT !.at = "close", !.views = @ \cup {"linenos"}])
                        /\ res'  = IF fault = "fdata" THEN r ELSE Taken(r, F.id, {"fdata"})
                        /\ kept' = IF fault # None THEN kept
                                   ELSE kept \cup ({F.id} \X ({"linenos", "fdata"} \cup (F.views \cap {"str"})))
                        /\ main' = [main EXCEPT !.fileline = IF fault = None THEN "xcoff_fileline" ELSE @]
                        /\ UNCHANGED left
  /\ UNCHANGED disk

\* Not the code: the string table is released with the symbols.
Temporary_Strings == {"sects", "syms", "str"}

\* What is released when all was read.
Temporary == {"sects", "syms"}

Close ==
  /\ Reading("close")
  /\ \E fault \in Faulty({"close"}) :
       LET r == Released(res, F.id, F.views \cap Temporary)
       IN  /\ Count(fault)
           /\ IF fault = None THEN Returns(TRUE, Closed(r, F.fd))
              ELSE Fails(F.views \ Temporary, CloseFails(r, F.fd))
  /\ UNCHANGED <<disk, kept>>

-----------------------------------------------------------------------------
(* xcoff_armem_add.                                                        *)

Members == disk[F.path].members

\* "No matching member found."
GivesUp(r) ==
  /\ stack' = <<>>
  /\ res'   = Closed(r, F.fd)
  /\ main'  = [main EXCEPT !.ret = FALSE]

Seek ==
  /\ Reading("archive")
  /\ \E fault \in Faulty({"fixed"}) :
       /\ Count(fault)
       /\ IF fault # None \/ ~disk[F.path].big \/ ~disk[F.path].first
            THEN GivesUp(res)
            ELSE Goes([F EXCEPT !.at = "member"]) /\ UNCHANGED <<main, res>>
  /\ UNCHANGED <<disk, kept, left>>

\* One member.  "The archive can contain several members with the same name", so that one
\* which xcoff_add does not take is passed.
Member ==
  /\ Reading("member")
  /\ UNCHANGED <<disk, kept, left>>
  /\ IF F.i > Len(Members) THEN GivesUp(res) /\ UNCHANGED faults
     ELSE \E fault \in Faulty({"view"}) :
            LET m == Members[F.i]
            IN  /\ Count(fault)
                /\ IF fault # None \/ ~Readable THEN GivesUp(res)
                   ELSE IF ~m.namlen THEN GivesUp(res)
                   ELSE IF m.name = F.member
                     THEN /\ stack' = Append([stack EXCEPT ![1].at = "tried"],
                                             Object(NextId, F.fd, m.object, FALSE, TRUE))
                          /\ res'   = Taken(res, 0, {"member"})
                          /\ main'  = [main EXCEPT !.lib = FALSE]
                   ELSE IF m.next THEN Goes([F EXCEPT !.i = @ + 1]) /\ UNCHANGED <<main, res>>
                   ELSE GivesUp(res)

AfterMember ==
  /\ Reading("tried")
  /\ LET r == Released(res, 0, {"member"})
     IN  IF F.ret THEN stack' = <<>> /\ res' = r /\ main' = [main EXCEPT !.ret = TRUE]
         ELSE IF Members[F.i].next
           THEN Goes([F EXCEPT !.i = @ + 1, !.at = "member"]) /\ res' = r /\ UNCHANGED main
         ELSE GivesUp(r)
  /\ UNCHANGED <<disk, kept, left, faults>>

-----------------------------------------------------------------------------
(* backtrace_initialize and xcoff_add_shared_libs.                         *)

\* Nothing is done for the libraries where the program fails, or loadquery.
AfterProgram ==
  /\ stack = <<>> /\ main.at = "program"
  /\ \E fault \in Faulty(IF main.ret THEN {"loadquery"} ELSE {}) :
       /\ Count(fault)
       /\ main' = [main EXCEPT !.at = IF ~main.ret THEN "failed"
                                      ELSE IF fault = None THEN "libraries" ELSE "set",
                               !.sym = main.lib]
  /\ UNCHANGED <<disk, stack, res, kept, left>>

\* A library is an archive where it has the name of a member.
Library ==
  /\ stack = <<>> /\ main.at = "libraries" /\ main.todo # <<>>
  /\ LET l == Head(main.todo)
         m == [main EXCEPT !.todo = Tail(@), !.sym = @ \/ main.lib, !.lib = FALSE]
     IN  IF l.path \in DOMAIN disk
           THEN /\ main'  = m
                /\ stack' = << IF l.member = None
                                 THEN Object(NextId, Descriptor(NextId), disk[l.path], FALSE, FALSE)
                                 ELSE Archive(l.path, Descriptor(NextId), l.member) >>
                /\ res'   = Opened(res, Descriptor(NextId))
           ELSE main' = m /\ UNCHANGED <<stack, res>>
  /\ UNCHANGED <<disk, kept, left, faults>>

AfterLibraries ==
  /\ stack = <<>> /\ main.at = "libraries" /\ main.todo = <<>>
  /\ main' = [main EXCEPT !.at = "set", !.sym = @ \/ main.lib]
  /\ UNCHANGED <<disk, stack, res, kept, left, faults>>

Finish ==
  /\ stack = <<>> /\ main.at = "set"
  /\ main' = [main EXCEPT !.at = "done",
                          !.syminfo = IF main.sym THEN "xcoff_syminfo" ELSE "xcoff_nosyms"]
  /\ UNCHANGED <<disk, stack, res, kept, left, faults>>

InitWith(d, libraries, exe) ==
  /\ disk = d
  /\ main = [at |-> "program", todo |-> libraries, ret |-> FALSE, sym |-> FALSE, lib |-> FALSE, syminfo |-> None,
             fileline |-> "xcoff_nodebug"]
  /\ left = <<>> /\ kept = {} /\ faults = 0
  /\ res = Opened(NoResources, Descriptor(0))
  /\ stack = <<Object(1, Descriptor(0), d[exe], TRUE, FALSE)>>

Ended == stack = <<>> /\ main.at \in {"done", "failed"}

Next ==
  \/ Header \/ Symbols \/ Debug \/ Lines \/ Close
  \/ Seek \/ Member \/ AfterMember
  \/ AfterProgram \/ Library \/ AfterLibraries \/ Finish
  \/ Ended /\ UNCHANGED vars

-----------------------------------------------------------------------------
(* Properties.                                                             *)

Failed(id) == \E l \in Range(left) : l.id = id /\ ~l.ret

\* What the state refers to is never released, but for the names, the DWARF sections and
\* the line numbers of a file whose xcoff_add fails, for want of memory or of a system
\* call, after it has added them.  And nothing is released that is not held and no
\* descriptor closed that is not open, in any case, except, once more, one whose close
\* has failed.
NothingDangles ==
  /\ \A h \in kept \ res.held : h[2] \in {"str", "dwarf", "linenos"} /\ Failed(h[1]) /\ faults > 0
  /\ ~res.twice

\* In the end every descriptor is closed, whichever member of whichever archive was read,
\* and what is held is what the state refers to, but for the lines that could not be read
\* for want of memory, and strings no name of which is used.
AllReleased ==
  Ended => /\ res.open = {}
           /\ \A h \in res.held \ kept : h[2] \in {"linenos", "fdata"} /\ faults > 0

\* Symbols are looked up if the program or a library has added some and not failed, and only
\* if there are any: every call resets lib_found_sym, but the last of the library decides.
RightFile ==
  main.at = "done" =>
    /\ (\E h \in kept : h[2] = "symbols" /\ ~Failed(h[1])) => main.syminfo = "xcoff_syminfo"
    /\ main.syminfo = "xcoff_syminfo" => \E h \in kept : h[2] = "symbols"
    /\ main.fileline # "xcoff_nodebug" => \E h \in kept : h[2] \in {"dwarf", "linenos"}
=============================================================================

-------------------------------- MODULE MachO --------------------------------
(***************************************************************************)
(* How pkg/rbase/backtrace/macho.c finds the symbols and the debug         *)
(* information of a program and its libraries: backtrace_initialize, which *)
(* calls macho_add for every image, and macho_add, which reads the load    *)
(* commands and looks for a dSYM file where there is no debug information. *)
(*                                                                         *)
(* A thin file is the list of its load commands, a fat one that of its     *)
(* architectures.  At most MaxFaults system calls and allocations fail.    *)
(***************************************************************************)
EXTENDS Integers, Sequences, Functions, Resources

CONSTANTS MaxFaults

VARIABLES
  disk,   \* what is at each path
  main,   \* backtrace_initialize: where it is, the images to come, the descriptor it has
          \* until it meets the program among them, and what it has found
  stack,  \* the calls of macho_add, the innermost last
  res,    \* the ledger
  kept,   \* what the state refers to: things held, of which reader
  added,  \* the debug information that was added, with the UUID asked for
  left,   \* where each call of macho_add returned
  faults

vars == <<disk, main, stack, res, kept, added, left, faults>>

F == Last(stack)

Faulty(points) == IF faults < MaxFaults THEN points \cup {None} ELSE {None}

Count(fault) == faults' = IF fault = None THEN faults ELSE faults + 1

Goes(frame) == stack' = [stack EXCEPT ![Len(stack)] = frame]

Reading(at) == stack # <<>> /\ F.at = at

NextId == Len(left) + Len(stack) + 1

\* A call of macho_add: of a thin file, or of a fat one that becomes the thin file in it.
Call(id, path, fd, uuid, symtab) ==
  [at |-> "header", id |-> id, path |-> path, file |-> disk[path], fd |-> fd, match |-> uuid,
   symtab |-> symtab, i |-> 1, uuid |-> None, sections |-> {}, sym |-> FALSE, ret |-> 0]

\* *found_sym is of use to backtrace_initialize only.
Returns(ret, from, r) ==
  /\ left' = Append(left, [id |-> F.id, path |-> F.path, from |-> from])
  /\ res'  = r
  /\ IF Len(stack) = 1
       THEN stack' = <<>> /\ main' = [main EXCEPT !.ret = ret, !.sym = @ \/ F.sym]
       ELSE stack' = [Front(stack) EXCEPT ![Len(stack) - 1].ret = ret] /\ UNCHANGED main

Fails(valid, r) == Returns(0, "fail", Closed(Released(r, F.id, valid), F.fd))

-----------------------------------------------------------------------------
(* macho_add, in its order.                                                *)

Header ==
  /\ Reading("header")
  /\ \E fault \in Faulty({"header", "cmds"}) :
       /\ Count(fault)
       /\ IF fault = "header" \/ F.file.is \notin {"thin", "fat"}
            THEN Fails({}, res)
          ELSE IF F.file.is = "fat"
            THEN fault = None /\ Goes([F EXCEPT !.at = "fat"]) /\ UNCHANGED <<main, res, left>>
          ELSE IF ~F.file.executable \/ fault = "cmds"
            THEN Fails({}, res)
            ELSE /\ Goes([F EXCEPT !.at = "commands"])
                 /\ res' = Taken(res, F.id, {"cmds"})
                 /\ UNCHANGED <<main, left>>
  /\ UNCHANGED <<disk, kept, added>>

\* macho_add_fat: the first architecture that is this one; arch_view_valid is never set.
Fat ==
  /\ Reading("fat")
  /\ \E fault \in Faulty({"arch"}) :
       LET mine == {i \in DOMAIN F.file.archs : F.file.archs[i].mine}
       IN  /\ Count(fault)
           /\ IF fault # None THEN Fails({}, res)
              ELSE IF mine = {} THEN Fails({}, Taken(res, F.id, {"arch"}))
              ELSE /\ \E i \in mine : /\ \A j \in mine : i <= j
                                     /\ Goes([F EXCEPT !.at = "header", !.file = F.file.archs[i].file])
                   /\ UNCHANGED <<main, res, left>>
  /\ UNCHANGED <<disk, kept, added>>

\* macho_add_dwarf_section: a view that cannot be had is no failure to its caller.
Segment(c) ==
  \E fault \in Faulty(c.sections) :
    LET got == IF c.overflow THEN {} ELSE c.sections \ {fault}
    IN  /\ Count(fault)
        /\ IF c.overflow THEN fault = None /\ Fails({"cmds"}, res)
           ELSE /\ Goes([F EXCEPT !.i = @ + 1, !.sections = @ \cup got, !.at = "commands"])
                /\ res' = Taken(res, F.id, got)
                /\ UNCHANGED <<main, left>>
        /\ UNCHANGED kept

\* Not the code: the strings are given back with the symbols.
Names_Released == {"sym", "str"}

\* "We need to keep the string table since it holds the names."
Names == {"sym"}

\* macho_add_symtab: where the second view fails the first is not released.
Symtab(c) ==
  \E fault \in Faulty({"sym", "str", "symbols", "sdata"}) :
    LET views == {"sym", "str"}
        all   == views \cup {"symbols", "sdata"}
    IN  /\ Count(fault)
        /\ IF fault = "sym" THEN Fails({"cmds"}, res) /\ UNCHANGED kept
           ELSE IF fault = "str" THEN Fails({"cmds"}, Taken(res, F.id, {"sym"})) /\ UNCHANGED kept
           ELSE IF fault # None \/ ~c.named
             THEN Fails({"cmds"}, Released(Taken(res, F.id, views), F.id, views)) /\ UNCHANGED kept
           ELSE /\ Goes([F EXCEPT !.i = @ + 1, !.sym = TRUE])
                /\ res'  = Released(Taken(res, F.id, all), F.id, Names)
                /\ kept' = kept \cup ({F.id} \X (all \ {"sym"}))
                /\ UNCHANGED <<main, left>>

\* One turn of the loop over the load commands.
Command ==
  /\ Reading("commands") /\ F.i <= Len(F.file.cmds)
  /\ LET c == F.file.cmds[F.i]
     IN  CASE c.cmd = "segment" -> Segment(c)
           [] c.cmd = "symtab" /\ F.symtab -> Symtab(c)
           [] c.cmd = "uuid" -> /\ Goes([F EXCEPT !.i = @ + 1, !.uuid = c.uuid])
                                /\ UNCHANGED <<main, res, kept, left, faults>>
           [] OTHER -> /\ Goes([F EXCEPT !.i = @ + 1])
                       /\ UNCHANGED <<main, res, kept, left, faults>>
  /\ UNCHANGED <<disk, added>>

HaveDwarf == \E i \in DOMAIN F.file.cmds : F.file.cmds[i].cmd = "segment"

\* Not the code: a file without a UUID is as good as one that has the right one.
Ignored_Loose == F.match # None /\ F.uuid # None /\ F.uuid # F.match

\* "If we don't have a UUID, or it doesn't match, just ignore this file."
Ignored == F.match # None /\ F.uuid # F.match

\* The end of the commands; the debug information is added.
Close ==
  /\ Reading("commands") /\ F.i > Len(F.file.cmds)
  /\ \E fault \in Faulty({"close", "dwarf"}) :
       LET closed == Closed(res, F.fd)
           r      == Released(closed, F.id, {"cmds"})
       IN  /\ Count(fault)
           /\ IF fault = "close" THEN Fails({"cmds"}, CloseFails(res, F.fd)) /\ UNCHANGED <<kept, added>>
              ELSE IF Ignored THEN fault = None /\ Returns(1, "ignored", r) /\ UNCHANGED <<kept, added>>
              ELSE IF ~HaveDwarf
                THEN /\ fault = None
                     /\ Goes([F EXCEPT !.at = "dsym", !.fd = NoFile])
                     /\ res' = r
                     /\ UNCHANGED <<main, kept, added, left>>
              ELSE IF fault = "dwarf" THEN Returns(0, "fail", r) /\ UNCHANGED <<kept, added>>
              ELSE /\ Returns(1, "dwarf", r)
                   /\ kept'  = kept \cup ({F.id} \X F.sections)
                   /\ added' = added \cup {[path |-> F.path, uuid |-> F.uuid, match |-> F.match]}
  /\ UNCHANGED disk

\* macho_add_dsym: the file of the same name in the directory beside this one.
DsymOf(path) ==
  (IF Len(path) = 1 THEN <<".">> ELSE Front(path)) \o <<".dSYM", Last(path)>>

Dsym ==
  /\ Reading("dsym")
  /\ UNCHANGED <<disk, kept, added>>
  /\ IF F.uuid = None
       THEN Returns(1, "none", res) /\ UNCHANGED faults
     ELSE \E fault \in Faulty({"diralc", "dsym"}) :
            LET d == DsymOf(F.path)
            IN  /\ Count(fault)
                /\ fault = "diralc" => Len(F.path) > 1
                /\ IF fault # None THEN Fails({}, res)
                   ELSE IF d \notin DOMAIN disk THEN Returns(1, "none", res)
                   ELSE /\ stack' = Append([stack EXCEPT ![Len(stack)].at = "indsym"],
                                           Call(NextId, d, Descriptor(NextId), F.uuid, FALSE))
                        /\ res' = Opened(Taken(res, F.id, {"dsym"}), Descriptor(NextId))
                        /\ UNCHANGED <<main, left>>

AfterDsym ==
  /\ Reading("indsym")
  /\ LET r == Released(res, F.id, {"dsym"})
     IN  IF F.ret = 0 THEN Fails({}, r) ELSE Returns(1, "dsym", r)
  /\ UNCHANGED <<disk, kept, added, faults>>

-----------------------------------------------------------------------------
(* backtrace_initialize, with dyld.                                        *)

\* The next image; the first that has the name of the program has its descriptor.
Image ==
  /\ stack = <<>> /\ main.at = "images" /\ main.todo # <<>>
  /\ LET name == Head(main.todo)
         own  == name = main.exe /\ main.fd # NoFile
         m    == [main EXCEPT !.todo = Tail(@), !.fd = IF own THEN NoFile ELSE @, !.at = "image"]
     IN  IF own \/ name \in DOMAIN disk
           THEN /\ main' = m
                /\ stack' = <<Call(NextId, name, IF own THEN main.fd ELSE Descriptor(NextId), None, TRUE)>>
                /\ res' = IF own THEN res ELSE Opened(res, Descriptor(NextId))
           ELSE /\ main' = [m EXCEPT !.at = "images"]
                /\ UNCHANGED <<stack, res>>
  /\ UNCHANGED <<disk, kept, added, left, faults>>

AfterImage ==
  /\ stack = <<>> /\ main.at = "image"
  /\ main' = [main EXCEPT !.at = IF main.ret = 0 THEN "failed" ELSE "images"]
  /\ UNCHANGED <<disk, stack, res, kept, added, left, faults>>

Finish ==
  /\ stack = <<>> /\ main.at = "images" /\ main.todo = <<>>
  /\ main' = [main EXCEPT !.at = "done", !.fd = NoFile,
                          !.syminfo = IF main.sym THEN "macho_syminfo" ELSE "macho_nosyms"]
  /\ res'  = Closed(res, main.fd)
  /\ UNCHANGED <<disk, stack, kept, added, left, faults>>

InitWith(d, images, exe) ==
  /\ disk = d
  /\ main = [at |-> "images", exe |-> exe, fd |-> Descriptor(0), todo |-> images, ret |-> 0, sym |-> FALSE,
             syminfo |-> None]
  /\ stack = <<>> /\ left = <<>> /\ kept = {} /\ added = {} /\ faults = 0
  /\ res = Opened(NoResources, main.fd)

Ended == stack = <<>> /\ main.at \in {"done", "failed"}

Next ==
  \/ Header \/ Fat \/ Command \/ Close \/ Dsym \/ AfterDsym
  \/ Image \/ AfterImage \/ Finish
  \/ Ended /\ UNCHANGED vars

-----------------------------------------------------------------------------
(* Properties.                                                             *)

\* Whatever fails: what the state refers to is never released, and nothing is released that
\* is not held and no descriptor closed that is not open, except, once more, one whose close
\* has failed.
NothingDangles == kept \subseteq res.held /\ ~res.twice

\* In the end what is held is what the state refers to and the descriptor of the program
\* is closed, but for: the table of a fat file without this architecture; the symbols
\* where the view of their names fails; the sections of a file that is ignored or fails;
\* the descriptor, where an image before the program fails.
AllReleased ==
  Ended =>
    /\ res.open = {} \/ (main.at = "failed" /\ res.open = {main.fd})
    /\ \A h \in res.held \ kept :
         \/ h[2] = "arch"
         \/ h[2] = "sym" /\ faults > 0
         \/ /\ h[2] \in {"section1", "section2"}
            /\ \E l \in Range(left) : l.id = h[1] /\ l.from \in {"ignored", "fail"}

\* The debug information of a dSYM file is that of this very image: both have the UUID.
\* And symbols are looked up if there are any, in whichever image.
RightFile ==
  /\ \A a \in added : a.match # None => a.uuid = a.match
  /\ main.at = "done" =>
       (main.syminfo = "macho_syminfo" <=> \E h \in kept : h[2] = "symbols")
=============================================================================

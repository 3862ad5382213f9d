-------------------------------- MODULE Pecoff --------------------------------
(***************************************************************************)
(* How pkg/rbase/backtrace/pecoff.c finds the symbols and the debug        *)
(* information of a program: coff_add and backtrace_initialize.            *)
(*                                                                         *)
(* Of the file only what decides is kept.  At most MaxFaults system calls  *)
(* and allocations fail.                                                   *)
(***************************************************************************)
EXTENDS Integers, Sequences, Resources

CONSTANTS MaxFaults

VARIABLES
  file,   \* the program
  main,   \* where coff_add and backtrace_initialize are, and what they have set
  views,  \* the views that are marked valid
  res,    \* the ledger
  kept,   \* what the state refers to
  faults

vars == <<file, main, views, res, kept, faults>>

Fd == Descriptor(0)

Faulty(points) == IF faults < MaxFaults THEN points \cup {None} ELSE {None}

Count(fault) == faults' = IF fault = None THEN faults ELSE faults + 1

At(place) == main.at = place

\* fail: what is marked valid is released, the strings of the symbols too.
Fails(valid, r) ==
  /\ main'  = [main EXCEPT !.at = "failed"]
  /\ views' = {}
  /\ res'   = LET s == Released(r, 1, valid) IN IF main.open THEN Closed(s, Fd) ELSE s

Goes(place, more) ==
  /\ main'  = [main EXCEPT !.at = place]
  /\ views' = views \cup more
  /\ res'   = Taken(res, 1, more)

-----------------------------------------------------------------------------

\* The stub, and the header it points to.
Header ==
  /\ At("header")
  /\ \E fault \in Faulty({"stub", "header"}) :
       /\ Count(fault)
       /\ IF fault # None \/ ~file.pe THEN Fails({}, res) ELSE Goes("sections", {})
  /\ UNCHANGED <<file, kept>>

\* The optional header and those of the sections.
Headers ==
  /\ At("sections")
  /\ \E fault \in Faulty({"sects"}) :
       /\ Count(fault)
       /\ IF fault # None THEN Fails({}, res)
          ELSE IF ~file.optional THEN Fails({"sects"}, Taken(res, 1, {"sects"}))
          ELSE Goes("tables", {"sects"})
  /\ UNCHANGED <<file, kept>>

HasSymbols == file.syms.is # None
HasStrings == HasSymbols /\ file.syms.strings

\* The symbol table, and the string table after it, if it is longer than its length.
Tables ==
  /\ At("tables")
  /\ \E fault \in Faulty((IF HasSymbols THEN {"syms"} ELSE {}) \cup (IF HasStrings THEN {"str"} ELSE {})) :
       /\ Count(fault)
       /\ IF fault = "syms" THEN Fails(views, res)
          ELSE IF fault = "str" THEN Fails(views \cup {"syms"}, Taken(res, 1, {"syms"}))
          ELSE Goes("names", (IF HasSymbols THEN {"syms"} ELSE {}) \cup (IF HasStrings THEN {"str"} ELSE {}))
  /\ UNCHANGED <<file, kept>>

\* Which sections have debug information.  A long name is looked up in the string table; where
\* there is none its view was never set, and any such name may match, or reading it may
\* end the program.
SectionNames ==
  /\ At("names")
  /\ LET long  == {i \in DOMAIN file.sections : file.sections[i].long}
         known == {i \in DOMAIN file.sections : file.sections[i].debug}
     IN  IF "str" \in views \/ long = {}
           THEN main' = [main EXCEPT !.at = "symbols", !.debug = known]
           ELSE \/ \E some \in SUBSET long :
                     main' = [main EXCEPT !.at = "symbols", !.debug = (known \ long) \cup some]
                \/ main' = [main EXCEPT !.at = "crashed"]
  /\ UNCHANGED <<file, views, res, kept, faults>>

\* Not the code: the string table is released with the symbol table.
Temporary_Strings == {"sects", "syms", "str"}

\* What is released when the symbols were read.
Temporary == {"sects", "syms"}

\* coff_initialize_syminfo and coff_add_syminfo_data: long names stay in the string table, short
\* ones are copied.
Symbols ==
  LET s     == file.syms
      names == (IF s.short THEN {"symstr"} ELSE {}) \cup (IF s.long THEN {"str"} ELSE {})
      own   == {"sdata", "symbols"} \cup (names \ {"str"})
      on(more) ==
        /\ main'  = [main EXCEPT !.at = "debug", !.sym = HasSymbols]
        /\ views' = views \ Temporary
        /\ res'   = Released(Taken(res, 1, more), 1, views \cap Temporary)
  IN  /\ At("symbols")
      /\ IF ~HasSymbols THEN on({}) /\ UNCHANGED <<kept, faults>>
         ELSE \E fault \in Faulty(own) :
                /\ Count(fault)
                /\ IF fault # None \/ ~s.valid
                     THEN Fails(views, res) /\ UNCHANGED kept
                     ELSE on(own) /\ kept' = {1} \X ({"sdata", "symbols"} \cup names)
      /\ UNCHANGED file

\* One view of the debug sections; the descriptor is closed, and then not again.
Debug ==
  /\ At("debug")
  /\ \E fault \in Faulty({"close"} \cup (IF main.debug = {} THEN {} ELSE {"debug"})) :
       LET view == IF main.debug = {} THEN {} ELSE {"debug"}
           r    == Taken(res, 1, view)
       IN  /\ Count(fault)
           /\ IF fault = "debug" THEN Fails(views, res)
              ELSE IF fault = "close" THEN Fails(views \cup view, CloseFails(r, Fd))
              ELSE /\ main'  = [main EXCEPT !.at = IF view = {} THEN "set" ELSE "dwarf", !.open = FALSE]
                   /\ views' = views \cup view
                   /\ res'   = Closed(r, Fd)
  /\ UNCHANGED <<file, kept>>

Dwarf ==
  /\ At("dwarf")
  /\ \E fault \in Faulty({"dwarf"}) :
       /\ Count(fault)
       /\ IF fault # None THEN Fails(views, res) /\ UNCHANGED kept
          ELSE /\ main' = [main EXCEPT !.at = "set", !.dwarf = TRUE]
               /\ kept' = kept \cup {<<1, "debug">>}
               /\ UNCHANGED <<views, res>>
  /\ UNCHANGED file

\* backtrace_initialize, after coff_add.
Finish ==
  /\ At("set")
  /\ main' = [main EXCEPT !.at = "done",
                          !.syminfo  = IF main.sym THEN "coff_syminfo" ELSE "coff_nosyms",
                          !.fileline = IF main.dwarf THEN "dwarf" ELSE "coff_nodebug"]
  /\ UNCHANGED <<file, views, res, kept, faults>>

InitWith(f) ==
  /\ file = f
  /\ main = [at |-> "header", open |-> TRUE, debug |-> {}, sym |-> FALSE, dwarf |-> FALSE,
             syminfo |-> None, fileline |-> None]
  /\ views = {} /\ kept = {} /\ faults = 0
  /\ res = Opened(NoResources, Fd)

Ended == main.at \in {"done", "failed", "crashed"}

Next ==
  \/ Header \/ Headers \/ Tables \/ SectionNames \/ Symbols \/ Debug \/ Dwarf \/ Finish
  \/ Ended /\ UNCHANGED vars

-----------------------------------------------------------------------------
(* Properties.                                                             *)

\* What the state refers to is never released, but for one thing in one case: where
\* coff_add fails after it has added the symbols, the string table that their long names
\* are in is released, although the state may be used, initialized by another thread.  And
\* nothing is released that is not held and no descriptor closed that is not open, in any
\* case, except, once more, one whose close has failed.
NothingDangles ==
  /\ kept \subseteq res.held \/ (main.at = "failed" /\ faults > 0 /\ kept \ res.held = {<<1, "str">>})
  /\ ~res.twice

\* In the end the descriptor is closed, and what is held is what the state refers to, but
\* for a string table without a name that is used.
AllReleased ==
  main.at \in {"done", "failed"} =>
    /\ res.open = {}
    /\ \A h \in res.held \ kept : h[2] = "str" /\ main.at = "done"

\* Symbols and lines are looked up if and only if the program has them.
RightFile ==
  main.at = "done" =>
    /\ main.syminfo = "coff_syminfo" <=> file.syms.is # None
    /\ main.fileline = "dwarf" <=> <<1, "debug">> \in kept
=============================================================================

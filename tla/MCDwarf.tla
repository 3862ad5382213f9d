------------------------------ MODULE MCDwarf ------------------------------
(***************************************************************************)
(* Instances of Dwarf for TLC.  One thread looks addresses up in debug     *)
(* information of every shape below; two threads do in a few.              *)
(***************************************************************************)
EXTENDS Dwarf

\* Line programs: one sequence, two in the wrong order, one that sets a file there is
\* not, and none.
OneSequence ==
  << <<"set_address", 1>>, <<"special", 0, 9>>, <<"advance_line", 1>>, <<"special", 1, 1>>,
     <<"set_file", 2>>, <<"fixed_advance_pc", 2>>, <<"copy">>, <<"set_prologue_end">>,
     <<"special", 1, -5>>, <<"copy">>, <<"special", 0, 1>>, <<"advance_pc", 4>>, <<"end_sequence">> >>
TwoSequences ==
  << <<"set_address", 5>>, <<"special", 0, 20>>, <<"special", 2, 1>>, <<"advance_pc", 2>>, <<"end_sequence">>,
     <<"set_address", 1>>, <<"set_file", 2>>, <<"copy">>, <<"special", 2, 4>>, <<"advance_pc", 2>>,
     <<"end_sequence">> >>
NoSuchFile == << <<"set_address", 1>>, <<"copy">>, <<"set_file", 7>>, <<"copy">> >>

Lines(p) == [insn |-> 1, ops |-> 1, files |-> <<"a.c", "b.c">>, program |-> p]

\* Entries.
At(d, low, high) == [d EXCEPT !.low = low, !.high = high]
In(d, ranges)    == [d EXCEPT !.ranges = <<ranges>>]
Call(name, line) == [Die("inlined_subroutine") EXCEPT !.names = << <<"name", name>> >>,
                                                      !.callfile = "c.c", !.callline = line]
Named(d, n)      == [d EXCEPT !.names = n]
Function(n)      == Named(Die("subprogram"), n)
Tree(d, kids)    == IF kids = <<>> THEN <<d>> ELSE <<[d EXCEPT !.kids = TRUE]>> \o kids \o <<Null>>

\* The name of f: by itself, or by the entry that is second of the unit.
Declared == Named(Die("subprogram"), << <<"name", "f">> >>)
Linked   == Named(Die("subprogram"), << <<"name", "f">>, <<"linkage", "_Zf">> >>)
NamesOfF == { << <<"name", "f">> >>, << <<"specification", 2>> >>,
              << <<"abstract_origin", 2>>, <<"name", "f2">> >>,
              << <<"linkage", "_f">>, <<"specification", 2>> >> }

\* What is inlined into f, which has 1 .. 7.
Inner == {<<>>, Tree(At(Call("j", 31), 2, 3), <<>>),
          Tree(At(Call("j", 31), 4, 5), Tree(At(Call("k", 32), 4, 5), <<>>))}
InlinedInto(version, base) ==
  { Tree(Die("lexical_block"), Tree(At(Call("i", 30), 2, 6), k)) : k \in Inner }
  \cup { Tree(Named(At(Call("i", 30), 2, 6), <<>>), k) : k \in Inner }
  \cup { Tree(In(Call("i", 30),
                 IF version < 5 THEN << <<2 - base, 3 - base>>, <<Top, 5>>, <<0, 1>>, <<0, 0>>, <<1, 2>> >>
                 ELSE << <<"offset_pair", 2 - base, 3 - base>>, <<"base_address", 4>>, <<"offset_pair", 0, 2>>,
                         <<"end_of_list">> >>),
              k) : k \in {<<>>, <<At(Call("j", 31), 2, 3)>>} }

Nested == At(Function(<< <<"name", "h">> >>), 1, 2)

Sibling == {<<>>, Tree(At(Call("s", 33), 6, 7), <<>>), <<Nested>>}

G(rel) == [At(Function(<< <<"name", "g">> >>), 7, IF rel THEN 2 ELSE 9) EXCEPT !.rel = rel]

UnitHeads(version) ==
  { At(Die("compile_unit"), 1, 9), Die("compile_unit"),
    In([Die("compile_unit") EXCEPT !.low = 0],
       IF version < 5 THEN << <<1, 7>>, <<7, 9>>, <<0, 0>> >>
       ELSE << <<"offset_pair", 1, 4>>, <<"start_length", 4, 3>>, <<"start_end", 7, 9>>, <<"end_of_list">> >>) }

UnitOver(head, dies, version, program) ==
  [dies |-> Tree(head, dies), version |-> version, lines |-> Lines(program), file |-> "a.c"]

ShapesUnder(v, head) ==
  { UnitOver(head, <<decl>> \o Tree(At(Function(n), 1, 7), i \o s) \o <<G(TRUE)>>, v, prog) :
      decl \in {Declared, Linked}, n \in NamesOfF,
      i \in InlinedInto(v, IF head.low = None THEN 0 ELSE head.low), s \in Sibling,
      prog \in {OneSequence, TwoSequences} }

Shapes == UNION { UNION { ShapesUnder(v, head) : head \in UnitHeads(v) } : v \in {4, 5} }

Plain == UnitOver(At(Die("compile_unit"), 1, 9),
                  <<At(Function(<< <<"name", "f">> >>), 1, 7), G(TRUE)>>, 4, OneSequence)

\* Units over the same addresses, of which one or both have no lines.
Overlapping(p, q) ==
  << [base |-> 0,
      units |-> << UnitOver(At(Die("compile_unit"), 1, 9), <<G(FALSE)>>, 4, p),
                   UnitOver(At(Die("compile_unit"), 3, 9), <<G(FALSE)>>, 4, q) >>] >>

Few == {Overlapping(OneSequence, NoSuchFile), Overlapping(OneSequence, <<>>),
        << [base |-> 0, units |-> <<Plain>>], [base |-> 10, units |-> <<Plain>>] >>}

Alone == { << [base |-> b, units |-> <<u>>] >> : b \in {0, 10}, u \in Shapes }
         \cup { Overlapping(NoSuchFile, p) : p \in {OneSequence, <<>>} }

MCInit == \E i \in Few \cup Alone : InitWith(i)

\* The threads that are at work.
AtWork(i) == IF Len(i) = 2 \/ Len(i[1].units) = 2 THEN Threads ELSE {CHOOSE t \in Threads : TRUE}

MCNext == \E t \in AtWork(info) : Step(t)

Spec == MCInit /\ [][MCNext]_vars
=============================================================================

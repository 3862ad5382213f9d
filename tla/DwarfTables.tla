----------------------------- MODULE DwarfTables -----------------------------
(***************************************************************************)
(* What pkg/rbase/backtrace/dwarf.c makes of the debug information of one  *)
(* compilation unit: the address ranges of the unit, the functions with    *)
(* the calls that were inlined into them, and the line table; and how an   *)
(* address is looked up in each.                                           *)
(*                                                                         *)
(* A unit is a sequence of entries (DIEs) as they stand in .debug_info,    *)
(* in which an entry with kids is followed by them and a Null.  Attributes *)
(* are fields; an address given by an index into .debug_addr is the        *)
(* address.                                                                *)
(***************************************************************************)
EXTENDS Integers, Sequences, SequencesExt, FiniteSetsExt, TLC

CONSTANTS Top  \* the highest address, which nothing is at

None == -1

\* An entry of which nothing but the tag is known.
Die(tag) == [tag |-> tag, kids |-> FALSE, names |-> <<>>, low |-> None, high |-> None,
             rel |-> FALSE, ranges |-> <<>>, callfile |-> "", callline |-> 0]

Null == Die("null")

-----------------------------------------------------------------------------
(* Address ranges: pairs of the first address and the one after the last.  *)

\* add_ranges_from_ranges: pairs of offsets from a base, which a pair that begins
\* with the highest address sets, up to a pair of zeros.
RangesV4(list, base) ==
  LET step(s, r) ==
        IF s.done \/ r = <<0, 0>> THEN [s EXCEPT !.done = TRUE]
        ELSE IF r[1] = Top THEN [s EXCEPT !.base = r[2]]
        ELSE [s EXCEPT !.out = Append(@, <<r[1] + s.base, r[2] + s.base>>)]
  IN  FoldLeft(step, [base |-> base, out |-> <<>>, done |-> FALSE], list).out

\* add_ranges_from_rnglists: each entry says of what kind it is.
RangesV5(list, base) ==
  LET step(s, e) ==
        CASE s.done \/ e[1] = "end_of_list" -> [s EXCEPT !.done = TRUE]
          [] e[1] = "base_address" /\ ~s.done -> [s EXCEPT !.base = e[2]]
          [] e[1] = "offset_pair" /\ ~s.done ->
               [s EXCEPT !.out = Append(@, <<e[2] + s.base, e[3] + s.base>>)]
          [] e[1] = "start_end" /\ ~s.done -> [s EXCEPT !.out = Append(@, <<e[2], e[3]>>)]
          [] e[1] = "start_length" /\ ~s.done ->
               [s EXCEPT !.out = Append(@, <<e[2], e[2] + e[3]>>)]
  IN  FoldLeft(step, [base |-> base, out |-> <<>>, done |-> FALSE], list).out

HasRange(d) == d.ranges # <<>> \/ (d.low # None /\ d.high # None)

\* add_ranges, without what is done with each range; to is the base address of the module.
Ranges(d, version, base, to) ==
  LET found == IF d.low # None /\ d.high # None
                 THEN << <<d.low, IF d.rel THEN d.low + d.high ELSE d.high>> >>
               ELSE IF d.ranges = <<>> THEN <<>>
               ELSE IF version < 5 THEN RangesV4(d.ranges[1], base)
               ELSE RangesV5(d.ranges[1], base)
  IN  [i \in DOMAIN found |-> <<found[i][1] + to, found[i][2] + to>>]

\* Not the code: whatever begins before the last range ends is one with it.
Added_Loose(vec, low, high, of) ==
  IF vec # <<>> /\ low <= Last(vec).high + 2 /\ Last(vec).of = of
    THEN [vec EXCEPT ![Len(vec)].high = IF high > @ THEN high ELSE @]
    ELSE Append(vec, [low |-> low, high |-> high, of |-> of])

\* add_unit_addr and add_function_range: a range that begins where the last one of the
\* same owner ends, or one after, extends that.
Added(vec, low, high, of) ==
  IF vec # <<>> /\ low \in {Last(vec).high, Last(vec).high + 1} /\ Last(vec).of = of
    THEN [vec EXCEPT ![Len(vec)].high = IF high > @ THEN high ELSE @]
    ELSE Append(vec, [low |-> low, high |-> high, of |-> of])

AddAll(vec, ranges, of) == FoldLeft(LAMBDA v, r : Added(v, r[1], r[2], of), vec, ranges)

\* Not the code: of the ranges that begin together the longest is last.
Before_Longest(a, b) == a.low < b.low \/ (a.low = b.low /\ a.high < b.high)

\* unit_addrs_compare and function_addrs_compare: by the beginning, and then "make the
\* smallest one sort last".  No two ranges of a program here are alike, so the last
\* comparison of each, of the offset of the lines and of the name, is left out.
Before(a, b) == a.low < b.low \/ (a.low = b.low /\ a.high > b.high)

Sorted(vec) == SortSeq(vec, Before)

\* Where bsearch and the walk after it end: the last entry of those that begin at or
\* before pc; "then walk backward and use the first range that includes pc" of those that
\* begin where it does.  0 if there is none.
Find(vec, pc) ==
  LET at == Max({i \in DOMAIN vec : vec[i].low <= pc} \cup {0})
  IN  IF pc = Top \/ at = 0 THEN 0
      ELSE Max({i \in 1 .. at : vec[i].low = vec[at].low /\ pc < vec[i].high} \cup {0})

-----------------------------------------------------------------------------
(* find_address_ranges: the ranges of the unit, or of its functions where  *)
(* the unit says none.  The base of a list is the low_pc of its own entry. *)

OwnRanges(d, version, to, vec) ==
  IF d.tag \in {"compile_unit", "subprogram"}
    THEN AddAll(vec, Ranges(d, version, IF d.low = None THEN 0 ELSE d.low, to), 0) ELSE vec

\* From entry p on to the end of the level: where that is, and the entries whose ranges are
\* added.
Owners(dies) ==
  LET level[p \in 1 .. Len(dies) + 1] ==
        IF p > Len(dies) THEN [at |-> p, of |-> <<>>]
        ELSE IF dies[p] = Null THEN [at |-> p + 1, of |-> <<>>]
        ELSE IF dies[p].tag = "compile_unit" /\ HasRange(dies[p]) THEN [at |-> p + 1, of |-> <<p>>]
        ELSE LET kids == IF dies[p].kids THEN level[p + 1] ELSE [at |-> p + 1, of |-> <<>>]
                 rest == level[kids.at]
             IN  [at |-> rest.at, of |-> <<p>> \o kids.of \o rest.of]
  IN  level[1].of

UnitRanges(dies, version, to) ==
  FoldLeft(LAMBDA vec, p : OwnRanges(dies[p], version, to, vec), <<>>, Owners(dies))

\* build_address_map and the qsort of build_dwarf_data: the ranges of all units, each
\* with the unit it is of.
AddressMap(units, to) ==
  LET owned(vec, i) == [k \in DOMAIN vec |-> [vec[k] EXCEPT !.of = i]]
  IN  Sorted(FlattenSeq([i \in DOMAIN units |->
                           owned(UnitRanges(units[i].dies, units[i].version, to), i)]))

-----------------------------------------------------------------------------
(* Names: pairs of an attribute and a name, or the entry it refers to.     *)

\* read_referenced_name: the name of the entry at p, in which a linkage name is taken
\* at once, a specification overrides, and a name is taken if there is none yet.
ReferencedName(dies, p) ==
  LET step(s, a, other) ==
        CASE s.linked                      -> s
          [] a[1] = "linkage" /\ ~s.linked -> [name |-> a[2], linked |-> TRUE]
          [] a[1] = "name" /\ ~s.linked    -> IF s.name = "" THEN [s EXCEPT !.name = a[2]] ELSE s
          [] a[1] = "specification" /\ ~s.linked ->
               IF other[a[2]] = "" THEN s ELSE [s EXCEPT !.name = other[a[2]]]
          [] OTHER -> s
      name[q \in DOMAIN dies] ==
        FoldLeft(LAMBDA s, a : step(s, a, name), [name |-> "", linked |-> FALSE], dies[q].names).name
  IN  name[p]

\* Not the code: a name overrides what was found by a reference.
FunctionName_Last(dies, p) ==
  LET step(s, a) ==
        CASE a[1] = "linkage" -> [name |-> a[2], linked |-> TRUE]
          [] a[1] = "name"    -> IF s.linked THEN s ELSE [s EXCEPT !.name = a[2]]
          [] OTHER            -> IF s.linked THEN s ELSE [s EXCEPT !.name = ReferencedName(dies, a[2])]
  IN  FoldLeft(step, [name |-> "", linked |-> FALSE], dies[p].names).name

\* read_function_entry: the same, and an abstract_origin is as good as a specification.
FunctionName(dies, p) ==
  LET step(s, a) ==
        CASE a[1] = "linkage" -> [name |-> a[2], linked |-> TRUE]
          [] a[1] = "name"    -> IF s.name = "" THEN [s EXCEPT !.name = a[2]] ELSE s
          [] a[1] \in {"specification", "abstract_origin"} ->
               LET n == ReferencedName(dies, a[2])
               IN  IF s.linked \/ n = "" THEN s ELSE [s EXCEPT !.name = n]
  IN  FoldLeft(step, [name |-> "", linked |-> FALSE], dies[p].names).name

-----------------------------------------------------------------------------
(* read_function_entry, read_function_info: the table of the functions,    *)
(* each with the table of what is inlined into it.                         *)

FunctionTags == {"subprogram", "entry_point", "inlined_subroutine"}

Table(adds) == Sorted(FoldLeft(LAMBDA v, a : Added(v, a.low, a.high, a.of), <<>>, adds))

\* An entry with a name and a range: its ranges with the function, and inl for those that
\* go to vec_inlined.
FunctionEntry(d, p, name, ranges, inlined) ==
  LET of == [die |-> p, name |-> name, callfile |-> d.callfile, callline |-> d.callline,
             inlined |-> Table(inlined)]
  IN  [i \in DOMAIN ranges |-> [low |-> ranges[i][1], high |-> ranges[i][2], of |-> of,
                                inl |-> d.tag = "inlined_subroutine"]]

\* What has no name or no range is no function, and what it has inlined belongs to the one
\* around it.
FunctionOr(d, p, name, ranges, kids) ==
  IF d.tag \in FunctionTags /\ name # "" /\ HasRange(d)
    THEN FunctionEntry(d, p, name, ranges, SelectSeq(kids, LAMBDA a : a.inl))
           \o SelectSeq(kids, LAMBDA a : ~a.inl)
    ELSE kids

Preceded(s, adds) == [s EXCEPT !.adds = adds \o @]

\* The rest of the entries of each level from p on: where it ends, and the ranges it adds
\* in their order.
Entries(dies, version, to) ==
  LET level[p \in 1 .. Len(dies) + 1, base \in Nat] ==
        IF p > Len(dies) THEN [at |-> p, adds |-> <<>>]
        ELSE IF dies[p] = Null THEN [at |-> p + 1, adds |-> <<>>]
        ELSE LET d    == dies[p]
                 b    == IF d.tag = "compile_unit" /\ d.low # None THEN d.low ELSE base
                 kids == IF d.kids THEN level[p + 1, b] ELSE [at |-> p + 1, adds |-> <<>>]
             IN  Preceded(level[kids.at, b],
                          FunctionOr(d, p, FunctionName(dies, p), Ranges(d, version, b, to), kids.adds))
  IN  level

AllEntries(dies, version, to) ==
  LET level == Entries(dies, version, to)
      all[p \in 1 .. Len(dies) + 1] ==
        IF p > Len(dies) THEN <<>> ELSE level[p, 0].adds \o all[level[p, 0].at]
  IN  all[1]

FunctionTable(unit, to) == Table(AllEntries(unit.dies, unit.version, to))

-----------------------------------------------------------------------------
(* read_line_program, read_line_info.  An operation is a tuple of its name *)
(* and its operands; a special opcode has its two parts, DW_LNS_const_add_pc*)
(* is an advance_pc, and DW_LNE_define_file a set_file with the file.      *)

Machine(hdr) == [address |-> 0, op |-> 0, file |-> hdr.files[1], line |-> 1]

Advanced(m, hdr, n) ==
  [m EXCEPT !.address = @ + ((hdr.insn * (m.op + n)) \div hdr.ops), !.op = (m.op + n) % hdr.ops]

\* add_line: "if we are adding the same mapping, ignore it", for which the address is
\* compared before the base is added to it with one to which it was.
AddLine(rows, m, to) ==
  IF rows # <<>> /\ Last(rows).pc = m.address /\ Last(rows).file = m.file /\ Last(rows).line = m.line
    THEN rows
    ELSE Append(rows, [pc |-> m.address + to, file |-> m.file, line |-> m.line])

\* Not the code: the end of a sequence leaves file and line as they are.
EndSequence_KeepsLine(m, hdr) == [m EXCEPT !.address = 0, !.op = 0]

\* DW_LNE_end_sequence, which is not recorded as a row.
EndSequence(m, hdr) == Machine(hdr)

\* One operation.
Op(s, o, hdr, to) ==
  LET m == s.m IN
  CASE o[1] = "special"          -> LET n == [Advanced(m, hdr, o[2]) EXCEPT !.line = @ + o[3]]
                                    IN  [s EXCEPT !.m = n, !.rows = AddLine(@, n, to)]
    [] o[1] = "copy"             -> [s EXCEPT !.rows = AddLine(@, m, to)]
    [] o[1] = "advance_pc"       -> [s EXCEPT !.m = Advanced(m, hdr, o[2])]
    [] o[1] = "fixed_advance_pc" -> [s EXCEPT !.m.address = @ + o[2], !.m.op = 0]
    [] o[1] = "advance_line"     -> [s EXCEPT !.m.line = @ + o[2]]
    [] o[1] = "set_file"         -> IF o[2] > Len(hdr.files) THEN [s EXCEPT !.ok = FALSE]
                                    ELSE [s EXCEPT !.m.file = hdr.files[o[2]]]
    [] o[1] = "set_address"      -> [s EXCEPT !.m.address = o[2]]
    [] o[1] = "end_sequence"     -> [s EXCEPT !.m = EndSequence(m, hdr)]
    [] OTHER                     -> s

Program(hdr, to) ==
  FoldLeft(LAMBDA s, o : IF s.ok THEN Op(s, o, hdr, to) ELSE s,
           [m |-> Machine(hdr), rows |-> <<>>, ok |-> TRUE], hdr.program)

\* The line table, sorted by address with the order of the program kept; <<>> stands
\* for failure, which no rows at all are too.
LineTable(unit, to) ==
  LET run == Program(unit.lines, to)
      key == [i \in DOMAIN run.rows |-> [row |-> run.rows[i], idx |-> i]]
      lt(a, b) == a.row.pc < b.row.pc \/ (a.row.pc = b.row.pc /\ a.idx < b.idx)
      sort == SortSeq(key, lt)
  IN  IF run.ok THEN [i \in DOMAIN sort |-> sort[i].row] ELSE <<>>

\* line_search: the last row at or before pc; 0 if there is none.
FindLine(rows, pc) == Max({i \in DOMAIN rows : rows[i].pc <= pc} \cup {0})

-----------------------------------------------------------------------------
\* The functions at pc that are inlined into function of, the innermost first; none is
\* deeper than there are entries.
Innermost(of, pc, entries) ==
  FoldLeft(LAMBDA fs, k : LET i == Find(fs[1].inlined, pc)
                          IN  IF i = 0 THEN fs ELSE <<fs[1].inlined[i].of>> \o fs,
           <<of>>, [k \in 1 .. entries |-> k])

\* report_inlined_functions and the call after it: the frames at pc of those functions;
\* file and line are those of the pc in the innermost.
Frames(fs, file, line) ==
  [i \in DOMAIN fs |-> [fn   |-> fs[i].name,
                        file |-> IF i = 1 THEN file ELSE fs[i - 1].callfile,
                        line |-> IF i = 1 THEN line ELSE fs[i - 1].callline]]

\* What dwarf_lookup_pc reports at pc from the tables of a unit.
Report(unit, rows, functions, pc) ==
  LET l == FindLine(rows, pc)
      f == Find(functions, pc)
  IN  IF l = 0 THEN << [fn |-> "", file |-> unit.file, line |-> 0] >>
      ELSE IF f = 0 THEN << [fn |-> "", file |-> rows[l].file, line |-> rows[l].line] >>
      ELSE Frames(Innermost(functions[f].of, pc, Len(unit.dies)), rows[l].file, rows[l].line)
=============================================================================

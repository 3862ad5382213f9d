------------------------------ MODULE XcoffLines ------------------------------
(***************************************************************************)
(* The line numbers of pkg/rbase/backtrace/xcoff.c: what                   *)
(* xcoff_initialize_fileline makes of the symbol table, and what           *)
(* xcoff_lookup_pc finds with it and the line table.                       *)
(*                                                                         *)
(* A line entry has size one, and pointers count from 1: lnnoptr0 is 1.    *)
(* An instruction has four bytes.  Symbols stand without their auxiliary   *)
(* entries.                                                                *)
(***************************************************************************)
EXTENDS Integers, Sequences, SequencesExt, FiniteSetsExt

CONSTANTS Programs,  \* what is compiled: a sequence of functions with the place each
                     \* instruction comes from
          Offsets    \* where in an instruction the address is

VARIABLES program, addr, result  \* the program, the address, and what xcoff_fileline reports

vars == <<program, addr, result>>

NoName == "NULL"

-----------------------------------------------------------------------------
(* xcoff_initialize_fileline                                               *)

NothingRead == [begin |-> 0, filename |-> NoName, fsym |-> <<>>, funcs |-> <<>>, incls |-> <<>>]

\* C_EXT and the like: a function with lines in the table and in a file that has a name.
Function(s, lines) ==
  IF s.function /\ s.lnnoptr \in 1 .. Len(lines) THEN <<s>> ELSE <<>>

\* Not the code: an end of an include file without a beginning counts.
Read_NoBegin(st, s, lines) ==
  CASE s.class = "bincl" -> [st EXCEPT !.begin = s.value]
    [] s.class = "eincl" -> [st EXCEPT !.begin = 0,
                              !.incls = Append(@, [filename |-> s.name, begin |-> st.begin, end |-> s.value])]
    [] s.class = "file"  -> [st EXCEPT !.filename = s.name]
    [] s.class = "ext"   -> [st EXCEPT !.fsym = IF st.filename = NoName THEN <<>> ELSE Function(s, lines)]
    [] s.class = "fcn" /\ st.fsym # <<>> ->
         IF s.name # ".bf" THEN [st EXCEPT !.fsym = <<>>]
         ELSE [st EXCEPT !.funcs = Append(@, [name |-> st.fsym[1].name, filename |-> st.filename,
                                              pc |-> st.fsym[1].value, size |-> st.fsym[1].fsize,
                                              lnno |-> s.lnno, lnnoptr |-> st.fsym[1].lnnoptr])]
    [] OTHER -> st

\* One symbol.
Read(st, s, lines) ==
  CASE s.class = "bincl" -> [st EXCEPT !.begin = s.value]
    [] s.class = "eincl" ->
         IF st.begin = 0 THEN st
         ELSE [st EXCEPT !.begin = 0,
                         !.incls = Append(@, [filename |-> s.name, begin |-> st.begin, end |-> s.value])]
    [] s.class = "file"  -> [st EXCEPT !.filename = s.name]
    [] s.class = "ext"   -> [st EXCEPT !.fsym = IF st.filename = NoName THEN <<>> ELSE Function(s, lines)]
    [] s.class = "fcn" /\ st.fsym # <<>> ->
         IF s.name # ".bf" THEN [st EXCEPT !.fsym = <<>>]
         ELSE [st EXCEPT !.funcs = Append(@, [name |-> st.fsym[1].name, filename |-> st.filename,
                                              pc |-> st.fsym[1].value, size |-> st.fsym[1].fsize,
                                              lnno |-> s.lnno, lnnoptr |-> st.fsym[1].lnnoptr])]
    [] OTHER -> st

\* The functions by address and the include files by their first line.
Fileline(symbols, lines) ==
  LET st == FoldLeft(LAMBDA t, s : Read(t, s, lines), NothingRead, symbols)
  IN  [funcs |-> SortSeq(st.funcs, LAMBDA f, g : f.pc < g.pc),
       incls |-> SortSeq(st.incls, LAMBDA f, g : f.begin < g.begin)]

-----------------------------------------------------------------------------
(* xcoff_lookup_pc                                                         *)

\* xcoff_func_search and xcoff_incl_search; what they find is unique where nothing overlaps.
FunctionAt(fdata, pc) ==
  SelectSeq(fdata.funcs, LAMBDA f : f.pc <= pc /\ IF f.size = 0 THEN pc = f.pc ELSE pc < f.pc + f.size)

InclAt(fdata, pointer) ==
  SelectSeq(fdata.incls, LAMBDA i : i.begin <= pointer /\ pointer <= i.end)

\* The last line entry of f before pc; its first, with line 0, where there is none.
LineFrom(lines, pc, first) ==
  LET past(p) == p > Len(lines) \/ lines[p].lnno = 0 \/ pc <= lines[p].paddr
      next    == Min({p \in first .. Len(lines) + 1 : past(p)})
  IN  IF next = first THEN [pointer |-> first, lnno |-> 0]
      ELSE [pointer |-> next - 1, lnno |-> lines[next - 1].lnno]

\* "If part of a function other than the beginning comes from an include file, the line
\* numbers are absolute."
Absolute(fdata, f, line) ==
  LET incl  == InclAt(fdata, line.pointer)
      bincl == InclAt(fdata, f.lnnoptr)
  IN  incl # <<>> /\ (bincl = <<>> \/ bincl[1].filename # incl[1].filename)

LookupPc(fdata, lines, address) ==
  LET pc == IF address % 4 # 0 THEN address + 1 ELSE address
      fs == FunctionAt(fdata, pc)
  IN  IF fs = <<>> THEN [function |-> NoName]
      ELSE LET f    == fs[1]
               line == LineFrom(lines, pc, f.lnnoptr + 1)
               incl == InclAt(fdata, line.pointer)
           IN  [function |-> f.name,
                filename |-> IF incl = <<>> THEN f.filename ELSE incl[1].filename,
                lnno     |-> IF Absolute(fdata, f, line) THEN line.lnno ELSE line.lnno + f.lnno - 1]

-----------------------------------------------------------------------------
(* What a compiler writes for a program.  A function has a name, whether   *)
(* its size is known, the line it begins with, and instructions, each of a *)
(* file and a line; its own file is that of the first.                     *)

\* Where function k begins: in the code, and in the line table.
StartOf(p, k) == FoldLeft(LAMBDA n, f : n + 4 * Len(f.code), 0, SubSeq(p, 1, k - 1))
LinesOf(p, k) == FoldLeft(LAMBDA n, f : n + 1 + Len(f.code), 1, SubSeq(p, 1, k - 1))

Home(f) == f.code[1].file

\* Line numbers are relative to the function's in its own file, else absolute.
LineTable(p) ==
  FlattenSeq([k \in DOMAIN p |->
    <<[lnno |-> 0, paddr |-> -1]>> \o
    [i \in DOMAIN p[k].code |->
       [lnno  |-> IF p[k].code[i].file = Home(p[k]) THEN p[k].code[i].line - p[k].line + 1 ELSE p[k].code[i].line,
        paddr |-> StartOf(p, k) + 4 * (i - 1)]]])

\* The source file, and the include file that the entries from pointer on are of.
SymbolTable(p) ==
  <<[class |-> "file", name |-> "main.c"]>> \o
  FlattenSeq([k \in DOMAIN p |->
    LET f == p[k]
        other == {i \in DOMAIN f.code : f.code[i].file # "main.c"}
    IN  <<[class |-> "ext", function |-> TRUE, name |-> f.name, value |-> StartOf(p, k),
           fsize |-> 4 * Len(f.code), lnnoptr |-> LinesOf(p, k)],
          [class |-> "fcn", name |-> ".bf", lnno |-> f.line], [class |-> "fcn", name |-> ".ef", lnno |-> 0]>> \o
        (IF other = {} THEN <<[class |-> "eincl", name |-> "stray.h", value |-> LinesOf(p, k) + 1]>>
         ELSE << [class |-> "bincl", value |-> LinesOf(p, k) + (IF 1 \in other THEN 0 ELSE Min(other))],
                 [class |-> "eincl", name |-> "incl.h", value |-> LinesOf(p, k) + Max(other)] >>)])

Instructions == UNION { {<<k, i>> : i \in DOMAIN program[k].code} : k \in DOMAIN program }

AddressOf(p, k, i) == StartOf(p, k) + 4 * (i - 1)

Init == program \in Programs /\ addr = <<>> /\ result = <<>>

\* A return address less one is in the last byte of the instruction that called.
Next ==
  /\ result = <<>>
  /\ \E at \in Instructions, o \in Offsets :
       /\ addr' = <<at, o>>
       /\ result' = <<LookupPc(Fileline(SymbolTable(program), LineTable(program)), LineTable(program),
                               AddressOf(program, at[1], at[2]) + o)>>
  /\ UNCHANGED program

Spec == Init /\ [][Next]_vars

-----------------------------------------------------------------------------
(* Property.                                                               *)

\* A call is reported with its function, its file and its line, whichever file the
\* instruction is of, unless it is the last instruction of the function: the address is
\* rounded up to the instruction after the call.
ReportsItsLine ==
  result # <<>> =>
    LET f == program[addr[1][1]]
        i == addr[1][2]
    IN  addr[2] = 3 /\ i < Len(f.code) =>
          result[1] = [function |-> f.name, filename |-> f.code[i].file, lnno |-> f.code[i].line]
=============================================================================

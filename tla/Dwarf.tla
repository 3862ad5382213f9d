------------------------------- MODULE Dwarf -------------------------------
(***************************************************************************)
(* The DWARF reader of pkg/rbase/backtrace/dwarf.c as threads use it: the  *)
(* list of the modules whose debug information was found, the tables of a  *)
(* unit, which the first lookup reads, and the report of the frames at an  *)
(* address.  Every atomic operation of the threaded mode is a step; what   *)
(* a thread computes by itself is in DwarfTables.                          *)
(***************************************************************************)
EXTENDS DwarfTables

CONSTANTS Threads,
          PCs  \* the addresses that are looked up

VARIABLES
  info,    \* the modules: a base address and the units of each
  list,    \* state->fileline_data: the modules that were added, each with its address map
  cache,   \* what was read of each unit: the four fields a reader of u->lines relies on
  pc,      \* where each thread is
  at,      \* the module a thread adds; the place in the list and the entry of its address map a thread is at, its address,
           \* the tables it has read, the frames it has reported; and late: whether it
           \* learned only when it had chosen a unit that the unit is of no use
  todo     \* the modules no thread has begun to add

vars == <<info, list, cache, pc, at, todo>>

\* u->lines before it is read, and when there is nothing useful in it.
Unread     == [is |-> "unread", rows |-> <<>>]
Useless    == [is |-> "useless", rows |-> <<>>]
Read(rows) == IF rows = <<>> THEN Useless ELSE [is |-> "table", rows |-> rows]

Units == UNION {{<<m, u>> : u \in DOMAIN info[m].units} : m \in DOMAIN info}

Unit(mu) == info[mu[1]].units[mu[2]]

\* build_dwarf_data: a module with its address map.
Built(m) == [m |-> m, map |-> AddressMap(info[m].units, info[m].base)]

Start == [ddata |-> <<>>, m |-> 0, e |-> 0, pc |-> 0, lines |-> Unread, functions |-> <<>>,
          late |-> FALSE, tail |-> 0, out |-> <<>>]

\* callback (data, pc, NULL, 0, NULL)
Nothing == << [fn |-> "", file |-> "", line |-> 0] >>

InitWith(i) ==
  /\ info = i
  /\ list = <<>>
  /\ cache = [mu \in Units |-> [count |-> 0, functions |-> <<>>, fcount |-> 0, lines |-> Unread]]
  /\ pc = [t \in Threads |-> "idle"]
  /\ at = [t \in Threads |-> Start]
  /\ todo = DOMAIN i

Goto(t, from, to) == pc[t] = from /\ pc' = [pc EXCEPT ![t] = to]

-----------------------------------------------------------------------------
(* backtrace_dwarf_add: follow the list to its end, and swap a NULL there  *)
(* for the new module; on failure from the start again.                    *)

Add(t, m) ==
  /\ Goto(t, "idle", "walk")
  /\ todo' = todo \ {m}
  /\ at' = [at EXCEPT ![t] = [Start EXCEPT !.ddata = <<Built(m)>>]]
  /\ UNCHANGED <<info, list, cache>>

Walk(t) ==
  /\ Goto(t, "walk", "swap")
  /\ at' = [at EXCEPT ![t].tail = Len(list)]
  /\ UNCHANGED <<info, list, cache, todo>>

\* Not the code: the pointer is stored without a look at what is there.
Swap_Store(t) ==
  /\ Goto(t, "swap", "idle")
  /\ list' = Append(SubSeq(list, 1, at[t].tail), at[t].ddata[1])
  /\ UNCHANGED <<info, cache, at, todo>>

Swap(t) ==
  /\ IF Len(list) = at[t].tail
       THEN Goto(t, "swap", "idle") /\ list' = Append(list, at[t].ddata[1])
       ELSE Goto(t, "swap", "walk") /\ UNCHANGED list
  /\ UNCHANGED <<info, cache, at, todo>>

-----------------------------------------------------------------------------
(* dwarf_fileline, dwarf_lookup_pc.  at[t].m is the place in the list.     *)

Look(t, a) ==
  /\ Goto(t, "idle", "module")
  /\ Len(list) = Len(info)
  /\ at[t].out = <<>>
  /\ at' = [at EXCEPT ![t] = [Start EXCEPT !.m = 1, !.pc = a]]
  /\ UNCHANGED <<info, list, cache, todo>>

Returns(t, frames) ==
  /\ pc' = [pc EXCEPT ![t] = "idle"]
  /\ at' = [at EXCEPT ![t].out = frames, ![t].lines = Unread, ![t].functions = <<>>]

\* The next module of the list, and the entry of its map that has the address.
Module(t) ==
  LET m == at[t].m
      e == Find(list[m].map, at[t].pc)
  IN  /\ pc[t] = "module"
      /\ IF m > Len(list)
           THEN Returns(t, Nothing)
         ELSE IF e = 0
           THEN at' = [at EXCEPT ![t].m = m + 1] /\ UNCHANGED pc
           ELSE at' = [at EXCEPT ![t].e = e] /\ pc' = [pc EXCEPT ![t] = "skip"]
      /\ UNCHANGED <<info, list, cache, todo>>

UnitOf(t) == <<list[at[t].m].m, list[at[t].m].map[at[t].e].of>>

\* The entry before the one a thread is at has its address too.
Back(t) ==
  LET map == list[at[t].m].map
      e   == at[t].e
  IN  e > 1 /\ at[t].pc >= map[e - 1].low /\ at[t].pc < map[e - 1].high

\* "Skip units with no useful line number information by walking backward."
Skip(t) ==
  /\ IF Back(t) /\ cache[UnitOf(t)].lines = Useless
       THEN UNCHANGED pc /\ pc[t] = "skip" /\ at' = [at EXCEPT ![t].e = @ - 1]
       ELSE Goto(t, "skip", "load") /\ UNCHANGED at
  /\ UNCHANGED <<info, list, cache, todo>>

\* The load of u->lines, where it is set.
Load(t) ==
  LET found == cache[UnitOf(t)].lines
  IN  /\ Goto(t, "load", "report")
      /\ found # Unread
      /\ at' = [at EXCEPT ![t].lines = found, ![t].late = found = Useless /\ Back(t)]
      /\ UNCHANGED <<info, list, cache, todo>>

\* The tables of a unit; of one without lines the functions are not read.
TablesOf(u, to, rows) ==
  [lines |-> Read(rows), functions |-> IF rows = <<>> THEN <<>> ELSE FunctionTable(u, to)]

\* With NULL, the reading of the unit: nothing but memory of the thread is written.
ReadUnit(t) ==
  LET u  == UnitOf(t)
      to == info[u[1]].base
  IN  /\ Goto(t, "load", "count")
      /\ cache[u].lines = Unread
      /\ \E read \in {TablesOf(Unit(u), to, LineTable(Unit(u), to))} :
           at' = [at EXCEPT ![t].lines = read.lines, ![t].functions = read.functions,
                            ![t].late = read.lines = Useless]
      /\ UNCHANGED <<info, list, cache, todo>>

\* Four stores: "we do have to write the lines field last".
StoreCount(t) ==
  /\ Goto(t, "count", "functions")
  /\ cache' = [cache EXCEPT ![UnitOf(t)].count = Len(at[t].lines.rows)]
  /\ UNCHANGED <<info, list, at, todo>>

StoreFunctions(t) ==
  /\ Goto(t, "functions", "fcount")
  /\ cache' = [cache EXCEPT ![UnitOf(t)].functions = at[t].functions]
  /\ UNCHANGED <<info, list, at, todo>>

\* Not the code: u->lines is stored before the rest.
StoreFcount_WithLines(t) ==
  /\ Goto(t, "functions", "fcount")
  /\ cache' = [cache EXCEPT ![UnitOf(t)].lines = at[t].lines]
  /\ UNCHANGED <<info, list, at, todo>>

StoreFcount(t) ==
  /\ Goto(t, "fcount", "lines")
  /\ cache' = [cache EXCEPT ![UnitOf(t)].fcount = Len(at[t].functions)]
  /\ UNCHANGED <<info, list, at, todo>>

StoreLines(t) ==
  /\ Goto(t, "lines", "report")
  /\ cache' = [cache EXCEPT ![UnitOf(t)].lines = at[t].lines]
  /\ UNCHANGED <<info, list, at, todo>>

\* The rest of dwarf_lookup_pc, with the fields of the unit as they are now.  It calls itself
\* again where new_data is set and the lines are of no use, which is never: new_data is set
\* where they were read.
ReportPC(t) ==
  LET c == cache[UnitOf(t)]
  IN  /\ pc[t] = "report"
      /\ Returns(t, IF at[t].lines = Useless THEN Nothing
                    ELSE Report(Unit(UnitOf(t)), SubSeq(at[t].lines.rows, 1, c.count),
                                SubSeq(c.functions, 1, c.fcount), at[t].pc))
      /\ UNCHANGED <<info, list, cache, todo>>

Step(t) ==
  \/ \E m \in todo : Add(t, m)
  \/ Walk(t) \/ Swap(t)
  \/ \E a \in PCs : Look(t, a)
  \/ Module(t) \/ Skip(t) \/ Load(t) \/ ReadUnit(t)
  \/ StoreCount(t) \/ StoreFunctions(t) \/ StoreFcount(t) \/ StoreLines(t)
  \/ ReportPC(t)

Next == \E t \in Threads : Step(t)

-----------------------------------------------------------------------------
(* What the debug information says, for the properties: read from the tree *)
(* of the entries and the rows of the program, without a sorted table.     *)

\* The entries around entry p, the innermost first, and p itself before them.
Around(dies, p) ==
  LET depth(i) == Cardinality({k \in 1 .. i - 1 : dies[k].kids})
                    - Cardinality({k \in 1 .. i - 1 : dies[k] = Null})
      outer == {q \in 1 .. p : /\ dies[q] # Null
                               /\ q < p => /\ dies[q].kids
                                           /\ \A k \in q + 1 .. p : depth(k) > depth(q)}
  IN  SetToSortSeq(outer, >)

\* The one-byte gaps between ranges that follow each other are counted in.
Has(unit, d, to, a) ==
  LET rs == Ranges(d, unit.version, IF unit.dies[1].low = None THEN 0 ELSE unit.dies[1].low, to)
  IN  \/ \E i \in DOMAIN rs : a \in rs[i][1] .. rs[i][2] - 1
      \/ \E i \in 2 .. Len(rs) : a = rs[i - 1][2] /\ rs[i][1] = a + 1

\* "First name preference", second and third.
PreferredName(dies, d) ==
  LET named(k) == {i \in DOMAIN d.names : d.names[i][1] = k}
      refs == {i \in DOMAIN d.names : d.names[i][1] \in {"specification", "abstract_origin"}
                                      /\ ReferencedName(dies, d.names[i][2]) # ""}
  IN  IF named("linkage") # {} THEN d.names[Max(named("linkage"))][2]
      ELSE IF refs # {} THEN ReferencedName(dies, d.names[Max(refs)][2])
      ELSE IF named("name") # {} THEN d.names[Min(named("name"))][2]
      ELSE ""

IsFunctionAt(unit, to, a, p) ==
  /\ unit.dies[p].tag \in FunctionTags
  /\ HasRange(unit.dies[p])
  /\ Has(unit, unit.dies[p], to, a)
  /\ PreferredName(unit.dies, unit.dies[p]) # ""

UpTo(s, i) == SubSeq(s, 1, i)

\* The functions at pc, the innermost first: up to the one that was not inlined.
FunctionsAmong(unit, hits) ==
  IF hits = {} THEN <<>>
  ELSE LET outwards == SelectSeq(Around(unit.dies, Max(hits)), LAMBDA p : p \in hits)
       IN  UpTo(outwards,
                Min({i \in DOMAIN outwards : unit.dies[outwards[i]].tag # "inlined_subroutine"}))

FunctionsAt(unit, to, a) ==
  FunctionsAmong(unit, {p \in DOMAIN unit.dies : IsFunctionAt(unit, to, a, p)})

\* The state after instruction i of a line program, of which its sequence is run by itself.
RunTo(unit, to, i) ==
  LET ends  == {e \in 1 .. i - 1 : unit.lines.program[e][1] = "end_sequence"} \cup {0}
  IN  Program([unit.lines EXCEPT !.program = SubSeq(@, Max(ends) + 1, i)], to).m

\* The row at pc: the last one at or before it of the sequence that covers it.
RowAt(unit, to, a) ==
  LET prog     == unit.lines.program
      close(i) == Min({e \in i .. Len(prog) : prog[e][1] = "end_sequence"})
      covers   == {i \in DOMAIN prog : /\ prog[i][1] \in {"special", "copy"}
                                       /\ RunTo(unit, to, i).address + to <= a
                                       /\ a < RunTo(unit, to, close(i) - 1).address + to}
  IN  IF covers = {} THEN <<>> ELSE << RunTo(unit, to, Max(covers)) >>

FramesOf(unit, fs, row) ==
  IF fs = <<>> THEN << [fn |-> "", file |-> row.file, line |-> row.line] >>
  ELSE [i \in DOMAIN fs |->
         [fn   |-> PreferredName(unit.dies, unit.dies[fs[i]]),
          file |-> IF i = 1 THEN row.file ELSE unit.dies[fs[i - 1]].callfile,
          line |-> IF i = 1 THEN row.line ELSE unit.dies[fs[i - 1]].callline]]

ReportedAt(unit, to, a) == FramesOf(unit, FunctionsAt(unit, to, a), RowAt(unit, to, a)[1])

\* A unit whose lines are of use, and that has pc.
Covers(mu, a) ==
  LET unit == Unit(mu)
      to   == info[mu[1]].base
      cu   == unit.dies[1]
  IN  /\ Program(unit.lines, to).ok
      /\ RowAt(unit, to, a) # <<>>
      /\ \E p \in DOMAIN unit.dies :
           /\ IF HasRange(cu) THEN p = 1 ELSE unit.dies[p].tag = "subprogram"
           /\ Has(unit, unit.dies[p], to, a)

-----------------------------------------------------------------------------
(* Properties.                                                             *)

\* The units whose lines are of use and that have the address of a thread.
Covering(t) == {mu \in Units : Covers(mu, at[t].pc)}

Agrees(lookup, right) ==
  right = {} \/ lookup.out \in right \/ (lookup.out = Nothing /\ lookup.late)

\* The frames a lookup reports are those the debug information has at the address: the
\* call that was inlined innermost with the line of the address, and every function
\* around it, outwards, with the line of the call; whichever thread has read the unit,
\* and whichever units were passed by for lack of lines.  Nothing is reported only by a
\* thread that found out too late that the unit it had chosen has no lines.
FramesRight ==
  \A t \in Threads :
    pc[t] = "idle" /\ at[t].out # <<>> =>
      Agrees(at[t], {ReportedAt(Unit(mu), info[mu[1]].base, at[t].pc) : mu \in Covering(t)})

\* "If reading the line number information failed in some way, try again to see if there is
\* a better compilation unit for this PC": where a unit has the address and its line, a
\* lookup finds that.
BetterUnitTried ==
  \A t \in Threads :
    pc[t] = "idle" /\ at[t].out = Nothing => Covering(t) = {}

\* "Now all fields of U have been initialized": whoever finds u->lines set finds the
\* fields that go with it, although nothing but the order of the stores says so.
LinesLast ==
  \A mu \in Units :
    cache[mu].lines.is = "table" =>
      /\ cache[mu].count = Len(cache[mu].lines.rows)
      /\ cache[mu].fcount = Len(cache[mu].functions)
      /\ cache[mu].functions = FunctionTable(Unit(mu), info[mu[1]].base)

\* No module that was added is lost from the list, and none is in it twice.
ModulesKept ==
  /\ \A i, k \in DOMAIN list : list[i].m = list[k].m => i = k
  /\ \A m \in DOMAIN info \ todo :
       \/ \E i \in DOMAIN list : list[i].m = m
       \/ \E t \in Threads : pc[t] \in {"walk", "swap"} /\ at[t].ddata[1].m = m
=============================================================================

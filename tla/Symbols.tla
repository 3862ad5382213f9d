-------------------------------- MODULE Symbols --------------------------------
(***************************************************************************)
(* The symbol tables of pkg/rbase/backtrace: how elf.c, macho.c, pecoff.c  *)
(* and xcoff.c choose and sort the symbols of a file, and how their        *)
(* syminfo functions find the one for an address in the tables of all      *)
(* files.  sort.c is modelled as it is; bsearch is the C library's.        *)
(***************************************************************************)
EXTENDS Integers, Sequences, SequencesExt, FiniteSetsExt

CONSTANTS Files,      \* sequences of symbol tables as they are in files, with their format
          Addresses,  \* what is looked up
          Base,       \* a base address
          Top         \* the largest address

VARIABLES call, result  \* the tables and the address, and <<the symbol>> when it returned

vars == <<call, result>>

None == [name |-> "none"]

-----------------------------------------------------------------------------
(* sort.c                                                                  *)

Swap(s, i, j) == [s EXCEPT ![i] = s[j], ![j] = s[i]]

\* What is less than the pivot, in the first place, is moved behind it: to the places up to mid.
Partition(s) ==
  FoldLeft(LAMBDA st, i :
             IF st.s[1].address > st.s[i].address
               THEN [s |-> Swap(st.s, st.mid + 1, i), mid |-> st.mid + 1] ELSE st,
           [s |-> s, mid |-> 1],
           [k \in 1 .. Len(s) - 1 |-> k + 1])

\* backtrace_qsort with the compare functions of the tables.
Sorted(entries) ==
  LET sort[s \in Seq([name : STRING, address : Int, size : Int])] ==
        IF Len(s) < 2 THEN s
        ELSE LET p == Partition(Swap(s, 1, Len(s) \div 2 + 1))
                 t == Swap(p.s, 1, p.mid)
             IN  sort[SubSeq(t, 1, p.mid - 1)] \o <<t[p.mid]>> \o sort[SubSeq(t, p.mid + 1, Len(t))]
  IN  sort[entries]

-----------------------------------------------------------------------------
(* The table of one file, or <<>> where that fails.  Raw symbols are in    *)
(* the order of the file; aux is how many entries follow that are none.    *)

Symbol(s) == [name |-> IF s.valid THEN s.name ELSE "NULL", address |-> s.value + Base, size |-> s.size]

Symbols(raw) == [i \in DOMAIN raw |-> Symbol(raw[i])]

Wanted(s) == s.function /\ s.defined

AllValid(raw) == \A i \in DOMAIN raw : raw[i].valid

Sentinel == [name |-> "", address |-> Top, size |-> 0]

\* Not the code: the last symbol is forgotten in the sort.
ElfTable_Unsorted(raw) ==
  LET chosen == Symbols(SelectSeq(raw, Wanted))
  IN  IF ~AllValid(SelectSeq(raw, Wanted)) THEN <<>>
      ELSE <<IF Len(chosen) < 2 THEN chosen ELSE Sorted(Front(chosen)) \o <<Last(chosen)>> >>

\* elf_initialize_syminfo, which fails for a name out of range.
ElfTable(raw) ==
  LET chosen == SelectSeq(raw, Wanted)
  IN  IF AllValid(chosen) THEN <<Sorted(Symbols(chosen))>> ELSE <<>>

\* macho_add_symtab sorts its sentinel with the symbols.
MachoTable(raw) ==
  LET chosen == SelectSeq(raw, Wanted)
  IN  IF AllValid(chosen) THEN <<Sorted(Symbols(chosen) \o <<Sentinel>>)>> ELSE <<>>

\* A symbol's auxiliary entries are passed.
NoAux(raw) ==
  FoldLeft(LAMBDA st, s : IF st.aux > 0 THEN [st EXCEPT !.aux = @ - 1]
                          ELSE [symbols |-> Append(st.symbols, s), aux |-> s.aux],
           [symbols |-> <<>>, aux |-> 0], raw).symbols

\* coff_initialize_syminfo fails for the name of any symbol, and writes its sentinel behind
\* what it has sorted.
CoffTable(raw) ==
  LET all == NoAux(raw)
  IN  IF AllValid(all) THEN <<Sorted(Symbols(SelectSeq(all, Wanted))) \o <<Sentinel>> >> ELSE <<>>

\* xcoff_initialize_syminfo takes a symbol without a name that is in range.
XcoffTable(raw) == <<Sorted(Symbols(SelectSeq(NoAux(raw), LAMBDA s : Wanted(s) /\ s.aux > 0)))>>

Table(format, raw) ==
  CASE format = "elf"   -> ElfTable(raw)
    [] format = "macho" -> MachoTable(raw)
    [] format = "coff"  -> CoffTable(raw)
    [] format = "xcoff" -> XcoffTable(raw)

CountOf(format, table) == IF format \in {"macho", "coff"} THEN Len(table) - 1 ELSE Len(table)

-----------------------------------------------------------------------------
(* The search functions: how an address compares with entry i of a table.  *)

ElfSymbolSearch(table, addr, i) ==
  CASE addr < table[i].address                  -> -1
    [] addr >= table[i].address + table[i].size -> 1
    [] OTHER                                    -> 0

\* The entry next to the sentinel is taken for the sentinel.
MachoSymbolSearch(table, addr, i) ==
  CASE addr < table[i].address \/ Sentinel \in {table[i], table[i + 1]} -> -1
    [] addr >= table[i + 1].address                                     -> 1
    [] OTHER                                                            -> 0

CoffSymbolSearch(table, addr, i) ==
  CASE addr < table[i].address      -> -1
    [] addr >= table[i + 1].address -> 1
    [] OTHER                        -> 0

XcoffSymbolSearch(table, addr, i) ==
  CASE addr < table[i].address                                          -> -1
    [] table[i].size = 0 /\ addr > table[i].address                     -> 1
    [] table[i].size > 0 /\ addr >= table[i].address + table[i].size    -> 1
    [] OTHER                                                            -> 0

Compare(format, table, addr, i) ==
  CASE format = "elf"   -> ElfSymbolSearch(table, addr, i)
    [] format = "macho" -> MachoSymbolSearch(table, addr, i)
    [] format = "coff"  -> CoffSymbolSearch(table, addr, i)
    [] format = "xcoff" -> XcoffSymbolSearch(table, addr, i)

\* bsearch, which halves.
Bsearch(format, table, addr) ==
  LET search[from \in Nat, to \in Nat] ==
        IF from >= to THEN None
        ELSE LET i == (from + to) \div 2
                 c == Compare(format, table, addr, i)
             IN  CASE c < 0 -> search[from, i]
                   [] c > 0 -> search[i + 1, to]
                   [] OTHER -> table[i]
  IN  search[1, CountOf(format, table) + 1]

\* elf_syminfo and the others: the first table that has a symbol.
Syminfo(format, tables, addr) ==
  LET found == SelectSeq([t \in DOMAIN tables |-> Bsearch(format, tables[t], addr)],
                         LAMBDA s : s # None)
  IN  IF found = <<>> THEN None ELSE found[1]

-----------------------------------------------------------------------------

\* The tables of those files whose symbols could be read.
Added(files) ==
  FoldLeft(LAMBDA ts, f : ts \o Table(f.format, f.raw), <<>>, files)

Init ==
  /\ call \in [files : Files, addr : Addresses]
  /\ result = <<>>

Next ==
  /\ result = <<>>
  /\ result' = <<Syminfo(call.files[1].format, Added(call.files), call.addr)>>
  /\ UNCHANGED call

Spec == Init /\ [][Next]_vars

-----------------------------------------------------------------------------
(* Property.                                                               *)

Within(s) == s.address <= call.addr /\ call.addr < s.address + s.size

\* The symbols of a table, without the sentinel.
Of(t) == {s \in Range(t) : s # Sentinel}

Disjoint(S) == \A r, s \in S : r.address < s.address => r.address + r.size <= s.address

Aliased(S) == \E r, s \in S : r # s /\ r.address = s.address

Before(S) == {s \in S : s.address <= call.addr}

\* The symbol that is reported is one of a file, and the one the address is in: by its size
\* with elf.c and xcoff.c, else the last that begins at or before it; and where the symbols
\* of a file do not overlap and have addresses of their own, one is reported whenever the
\* address is in one, with macho.c unless that is the last of the file.
ReportsItsSymbol ==
  result # <<>> =>
    LET s      == result[1]
        tables == Added(call.files)
        format == call.files[1].format
    IN  /\ s # None =>
             \E t \in DOMAIN tables :
               /\ s \in Of(tables[t])
               /\ CASE format = "elf"   -> Within(s)
                    [] format = "xcoff" -> Within(s) \/ (s.size = 0 /\ s.address = call.addr)
                    [] OTHER -> s.address = Max({r.address : r \in Before(Of(tables[t]))})
        /\ s = None =>
             \A t \in DOMAIN tables :
               CASE format = "coff"  -> Before(Of(tables[t])) = {}
                 [] format = "macho" -> \/ Before(Of(tables[t])) = {}
                                        \/ Before(Of(tables[t])) = Of(tables[t])
                                        \/ \A r \in Of(tables[t]) \ Before(Of(tables[t])) : r.address = Top
                 [] OTHER -> \/ ~Disjoint(Of(tables[t])) \/ Aliased(Of(tables[t]))
                             \/ \A r \in Of(tables[t]) : ~Within(r)
=============================================================================

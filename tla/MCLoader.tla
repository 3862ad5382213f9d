------------------------------ MODULE MCLoader ------------------------------
(***************************************************************************)
(* An instance of Loader for TLC: the files, programs and debug            *)
(* information it is run on.                                               *)
(***************************************************************************)
EXTENDS Loader, SequencesExt

-----------------------------------------------------------------------------
(* Symbol tables.                                                          *)

Formats == {"elf", "macho", "coff", "xcoff"}

\* A symbol as it is in a file; xcoff.c takes those with an auxiliary entry.
Raw(name, value, size, format) ==
  [name |-> name, value |-> value, size |-> size, function |-> TRUE, defined |-> TRUE, valid |-> TRUE,
   aux |-> IF format = "xcoff" THEN 1 ELSE 0]

\* The addresses in their order, up, down, mixed, two alike, one and none.
Orders == {<<0, 2, 5>>, <<5, 2, 0>>, <<2, 5, 0, 7>>, <<7, 5, 2, 0>>, <<0, 7, 2, 2>>, <<2>>, <<>>, <<5, 2, 7, 0>>}

\* The symbol at place zero has no size.
InOrder(o, zero, format) ==
  [i \in DOMAIN o |-> Raw(<<"a", "b", "c", "d">>[i], o[i], IF i = zero THEN 0 ELSE 2, format)]

\* One symbol is not valid, not a function, or longer.
Variants(s) ==
  {s} \cup { [s EXCEPT ![i].valid = FALSE] : i \in DOMAIN s }
      \cup { [s EXCEPT ![i].function = FALSE, ![i].valid = v] : v \in BOOLEAN, i \in DOMAIN s }
      \cup { [s EXCEPT ![i].size = 4] : i \in DOMAIN s }

WithAux(s) ==
  FlattenSeq([i \in DOMAIN s |-> IF s[i].aux = 1 THEN <<s[i], [s[i] EXCEPT !.name = "aux"]>> ELSE <<s[i]>>])

TableOf(s, format) == [format |-> format, raw |-> WithAux(s)]

Tables == UNION { { TableOf(v, f) : v \in UNION { Variants(InOrder(o, z, f)) : o \in Orders, z \in {0, 2} } } :
                  f \in Formats }

Second(f) == TableOf(InOrder(<<6, 3>>, 0, f), f)

MCFiles == UNION { {<<t>>, <<t, Second(t.format)>>, <<Second(t.format), t>>} : t \in Tables }

-----------------------------------------------------------------------------
(* What is compiled: the line and the file of each instruction.            *)

From(name, n) == [file |-> name, line |-> n]

Codes(l) ==
  { <<From("main.c", l), From("main.c", l + 2), From("main.c", l + 1)>>, <<From("main.c", l)>>,
    <<From("main.c", l), From("incl.h", 3), From("main.c", l + 3)>>,
    <<From("main.c", l + 1), From("incl.h", 3), From("incl.h", 3)>>,
    <<From("incl.h", l), From("incl.h", l + 1), From("incl.h", l + 4)>> }

Functions(n, l) == { [name |-> n, line |-> l, code |-> c] : c \in Codes(l) }

MCPrograms ==
  LET Fs == Functions("f", 5)
      Gs == Functions("g", 20)
      Hs == Functions("h", 30)
  IN  { <<f>> : f \in Fs } \cup (Fs \X Gs) \cup (Fs \X Gs \X Hs)

-----------------------------------------------------------------------------
(* ELF programs, what else has their debug information, and libraries.     *)

Is(k)           == [is |-> k]
ElfSym(k, l, n) == [is |-> k, linked |-> l, named |-> n]
Debug(k, n, as) == [is |-> k, n |-> n, as |-> as]
BuildId(g, i)   == [is |-> "buildid", gnu |-> g, id |-> i]
Link(n, c)      == [is |-> "debuglink", name |-> n, crc |-> c]
Alt(n, i)       == [is |-> "debugaltlink", name |-> n, id |-> i]

Program(sections) ==
  [to |-> <<>>, elf |-> TRUE, dyn |-> FALSE, crc |-> 0, near |-> TRUE, inside |-> <<"inside">>, sections |-> sections]
Symlink(to) == [to |-> to]

XPath == <<"bin", "x">>
Dwz   == <<"usr", "lib", "debug", ".dwz", "s">>
ById  == <<"usr", "lib", "debug", ".build-id", "1">>
Name  == <<"x.debug">>
LPath == <<"lib", "l">>

Info  == <<Debug("debug", 1, "plain"), Debug("debug", 2, "plain")>>
Good  == ElfSym("symtab", TRUE, TRUE)

DiskWith(x, more) == more @@ (XPath :> x)

\* The tables and symbols of one file.
ElfTables ==
  { << DiskWith([Program(s) EXCEPT !.elf = e, !.dyn = d], <<"inside">> :> Program(<<>>)), << <<>> >> >> :
      e \in BOOLEAN, d \in BOOLEAN,
      s \in {<<>>, <<Is("other")>>, <<Good>>, <<Is("badname")>>,
             <<ElfSym("dynsym", TRUE, TRUE), Is("opd"), Good, BuildId(TRUE, "1"), Is("badname")>>,
             <<ElfSym("symtab", FALSE, TRUE), Is("opd"), BuildId(TRUE, "1")>>,
             <<ElfSym("dynsym", TRUE, FALSE), Is("gnu_debugdata"), Link(Name, 7), Alt(Dwz, "2")>>} }

\* The debug sections of one file.
Compressions == {"plain", "zlib", "header", "corrupt"}
DebugSections ==
  { << DiskWith([Program(<<Good>> \o s) EXCEPT !.near = n], <<>>), << <<>> >> >> :
      n \in BOOLEAN,
      s \in { <<Debug("debug", 1, a), Debug("debug", 2, b)>> : a \in Compressions, b \in Compressions }
            \cup { <<Debug("debug", 2, a), Debug("zdebug", 1, b)>> : a \in Compressions, b \in Compressions \ {"plain"} }
            \cup { <<Debug("zdebug", 1, a), Debug("zdebug", 2, b), Debug("debug", 1, "plain")>> :
                     a \in {"zlib"}, b \in Compressions \ {"plain"} } }

\* Files with the debug information of XPath.
WithDebug(crc, id) == [Program(<<BuildId(TRUE, id), Alt(Dwz, "2"), Good>> \o Info) EXCEPT !.crc = crc]
Shared(id) == Program(<<BuildId(TRUE, id), Debug("debug", 1, "zlib")>>)
Elsewhere ==
  { <<>>, (ById :> WithDebug(0, "1")) @@ (Dwz :> Shared("2")),
    (<<"bin">> \o Name :> WithDebug(7, "1")) @@ (Dwz :> Shared("3")),
    (<<"bin", ".debug">> \o Name :> WithDebug(8, "1"))
      @@ (<<"usr", "lib", "debug", "bin">> \o Name :> WithDebug(7, "1")) @@ (Dwz :> Shared("2")),
    (<<"usr", "lib", "debug", "bin">> \o Name :> WithDebug(7, "1")) @@ (<<"bin">> \o Dwz :> Shared("2")) }
Inside == { (<<"inside">> :> Program(s)) : s \in {<<>>, <<Good>>, <<Good>> \o Info} }
SelfPaths == { <<XPath, <<>> >>,
               << <<"proc", "self", "exe">>, (<<"proc", "self", "exe">> :> Symlink(<<"/">> \o XPath)) >>,
               << <<"bin", "y">>, (<<"bin", "y">> :> Symlink(<<"x">>)) >> }

Linked ==
  { << DiskWith([Program(<<Good, BuildId(g, "1")>> \o l \o a \o m \o Info) EXCEPT !.dyn = TRUE],
            e @@ i), << <<>> >> >> :
      g \in BOOLEAN, l \in {<<>>, <<Link(Name, 7)>>}, a \in {<<>>, <<Alt(Dwz, "2")>>},
      m \in {<<>>, <<Is("opd"), Is("gnu_debugdata")>>}, e \in Elsewhere, i \in Inside }

\* Libraries.
ElfLibraries ==
  { << (LPath :> Program(s)) @@ DiskWith([Program(<<Good>>) EXCEPT !.dyn = d], <<>>), l >> :
      d \in BOOLEAN, s \in {<<>>, <<Good>>, Info},
      l \in { << <<>>, LPath >>, << LPath, <<>> >>, << <<>>, <<"vdso">>, LPath>> } }

MCElfs ==
  { [disk |-> d[1], libraries |-> d[2], exe |-> XPath] : d \in ElfTables \cup DebugSections \cup ElfLibraries }
  \cup { [disk |-> d[1] @@ p[2], libraries |-> d[2], exe |-> p[1]] : d \in Linked, p \in SelfPaths }

-----------------------------------------------------------------------------
(* Mach-O programs, thin and fat, with and without a dSYM file, and a      *)
(* library.                                                                *)

Sections(s, overflow) == [cmd |-> "segment", sections |-> s, overflow |-> overflow]
Sym(named) == [cmd |-> "symtab", named |-> named]
Uuid(u)    == [cmd |-> "uuid", uuid |-> u]
ThinFile(cmds) == [is |-> "thin", executable |-> TRUE, cmds |-> cmds]

Dwarfs == {<<>>, <<Sections({"section1", "section2"}, FALSE)>>,
           <<Sections({"section1"}, FALSE), Sections({"section2"}, TRUE)>>}

Thins ==
  { ThinFile(u \o s \o d) : u \in {<<>>, <<Uuid("1")>>}, s \in {<<>>, <<Sym(TRUE)>>, <<Sym(FALSE)>>}, d \in Dwarfs }
  \cup {[ThinFile(<<>>) EXCEPT !.executable = FALSE], [is |-> "other"]}

Fats == { [is |-> "fat", archs |-> <<[mine |-> FALSE, file |-> t], [mine |-> m, file |-> t]>>] :
          m \in BOOLEAN, t \in Thins }

Dsyms ==
  {<<>>} \cup { (M!DsymOf(XPath) :> ThinFile(u \o s \o d)) :
                u \in {<<>>, <<Uuid("1")>>, <<Uuid("2")>>}, s \in {<<>>, <<Sym(TRUE)>>}, d \in Dwarfs }

Libraries == {ThinFile(<<>>), ThinFile(<<Sym(TRUE)>>), ThinFile(<<Uuid("1"), Sections({"section1"}, FALSE)>>)}

MCMachos ==
  { [disk |-> (XPath :> x) @@ d, images |-> <<XPath>>, exe |-> XPath] : x \in Thins \cup Fats, d \in Dsyms }
  \cup { [disk |-> (XPath :> x) @@ (LPath :> l), images |-> i, exe |-> XPath] :
           x \in Thins, l \in Libraries, i \in { <<XPath, LPath>>, <<LPath, <<"gone">>, XPath>>, <<LPath>> } }

-----------------------------------------------------------------------------
(* The symbol tables and the section tables of a PE/COFF program.          *)

SymbolTables ==
  {[is |-> P!None]} \cup { [is |-> "syms", strings |-> s, valid |-> v, short |-> h, long |-> l /\ s] :
                           s \in BOOLEAN, v \in BOOLEAN, h \in BOOLEAN, l \in BOOLEAN }

SectionTables ==
  {<<>>} \cup { <<[long |-> l, debug |-> d], [long |-> m, debug |-> TRUE]>> :
                l \in BOOLEAN, d \in BOOLEAN, m \in BOOLEAN }

MCPecoffs ==
  { [pe |-> p, optional |-> o, syms |-> y, sections |-> t] :
      p \in BOOLEAN, o \in BOOLEAN, y \in SymbolTables, t \in SectionTables }

-----------------------------------------------------------------------------
(* The AIX programs and libraries, an archive among them.                  *)

ArchivePath == <<"lib", "l.a">>

Objects(shared) ==
  { [xcoff |-> TRUE, shared |-> shared, text |-> TRUE, symbols |-> y, strings |-> s /\ y, dwarf |-> d, lines |-> l] :
    y \in BOOLEAN, s \in BOOLEAN, d \in BOOLEAN, l \in BOOLEAN }

Full(shared) == [xcoff |-> TRUE, shared |-> shared, text |-> TRUE,
                 symbols |-> TRUE, strings |-> TRUE, dwarf |-> FALSE, lines |-> TRUE]
Bare(shared) == [Full(shared) EXCEPT !.symbols = FALSE, !.strings = FALSE, !.lines = FALSE]
Wrong(shared) == { [Full(shared) EXCEPT !.xcoff = FALSE], Full(~shared), [Full(shared) EXCEPT !.text = FALSE] }

Named(n, o) == [name |-> n, object |-> o, namlen |-> TRUE, next |-> TRUE]
ArchiveOf(ms) == [big |-> TRUE, first |-> TRUE, members |-> ms]

Archives ==
  { ArchiveOf(<<Named("n", Full(TRUE)), Named("m", p), Named("m", q)>>) :
      p \in Objects(TRUE) \cup Wrong(TRUE), q \in {Full(TRUE), Bare(TRUE)} }
  \cup { ArchiveOf(<<[Named("m", Full(TRUE)) EXCEPT !.namlen = FALSE]>>),
         ArchiveOf(<<[Named("m", Full(FALSE)) EXCEPT !.next = FALSE], Named("m", Full(TRUE))>>),
         ArchiveOf(<<[Named("n", Full(FALSE)) EXCEPT !.next = FALSE]>>),
         [ArchiveOf(<<>>) EXCEPT !.big = FALSE], [ArchiveOf(<<>>) EXCEPT !.first = FALSE], ArchiveOf(<<>>) }

Lib(path, m) == [path |-> path, member |-> m]

MCXcoffs ==
  { [disk |-> (XPath :> x) @@ (ArchivePath :> l),
     libraries |-> <<Lib(ArchivePath, X!None), Lib(<<"gone">>, X!None)>>, exe |-> XPath] :
      x \in Objects(FALSE) \cup Wrong(FALSE), l \in Objects(TRUE) \cup Wrong(TRUE) }
  \cup { [disk |-> (XPath :> x) @@ (ArchivePath :> a),
           libraries |-> <<Lib(ArchivePath, "m"), Lib(ArchivePath, "n")>>, exe |-> XPath] :
           x \in {Full(FALSE), Bare(FALSE)}, a \in Archives }

-----------------------------------------------------------------------------
(* Debug information (see MCDwarf).                                        *)

MD == INSTANCE MCDwarf

MCModules    == MD!Few \cup MD!Alone
MCWorking(i) == MD!AtWork(i)
=============================================================================

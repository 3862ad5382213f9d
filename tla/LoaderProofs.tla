----------------------------- MODULE LoaderProofs -----------------------------
(***************************************************************************)
(* Proofs about the parts of pkg/rbase/backtrace, for every file, every    *)
(* number of faults, threads and frames: macho.c, fileline.c, backtrace.c  *)
(* and dwarf.c, and the theorems.                                          *)
(***************************************************************************)
EXTENDS Loader, ReaderProofs

-----------------------------------------------------------------------------
(* macho.c                                                                 *)

MachoFields == {"at", "id", "path", "file", "fd", "match", "symtab", "i", "uuid", "sections", "sym", "ret"}

MachoMainFields == {"at", "exe", "fd", "todo", "ret", "sym", "syminfo"}

MachoPlaces == {"header", "fat", "commands", "dsym", "indsym"}

TwoSections == {"section1", "section2"}

HasSegment(file_) == \E i \in DOMAIN file_.cmds : file_.cmds[i].cmd = "segment"

HasSymtabBefore(file_, i) ==
  \E j \in 1 .. i - 1 : j \in DOMAIN file_.cmds /\ file_.cmds[j].cmd = "symtab"

\* What a call at its place holds, and what the state refers to of it.
MachoHolds(place, sections, sym, fd, held, refers) ==
  /\ refers \subseteq held /\ refers \subseteq {"str", "symbols", "sdata"}
  /\ "symbols" \in refers <=> sym
  /\ ~sym => refers = {}
  /\ place \in {"header", "fat"} => held = {} /\ sections = {} /\ ~sym
  /\ place \in {"header", "fat", "commands"} => fd # NoFile
  /\ place = "commands" => held = refers \cup {"cmds"} \cup sections
  /\ place = "dsym" => held = refers /\ fd = NoFile
  /\ place = "indsym" => held = refers \cup {"dsym"} /\ fd = NoFile

\* A call of macho_add.
MachoCall(f) ==
  /\ f = [x \in MachoFields |-> f[x]]
  /\ f.at \in MachoPlaces /\ f.i \in Nat \ {0} /\ f.id \in Nat \ {0}
  /\ f.sym \in BOOLEAN /\ f.symtab \in BOOLEAN /\ (f.sym => f.symtab)
  /\ MachoFile(f.file) /\ (f.at = "fat" => f.file.is = "fat") /\ (f.at = "commands" => f.file.is = "thin")
  /\ f.sym => HasSymtabBefore(f.file, f.i)
  /\ f.sections \subseteq TwoSections
  /\ f.sections # {} => HasSegment(f.file)

MachoFrame(f, held, refers) ==
  MachoCall(f) /\ MachoHolds(f.at, f.sections, f.sym, f.fd, held, refers)

\* What is left of a call that has returned.
MachoDone(i, held, refers, calls, n) ==
  /\ refers \subseteq held
  /\ \A w \in held \ refers :
       \/ w = "arch"
       \/ w = "sym" /\ n > 0
       \/ w \in TwoSections /\ \E l \in Range(calls) : l.id = i /\ l.from \in {"ignored", "fail"}

\* Open are the program, until it is met among the images, and the file that is read.
MachoOpen(open, own, fd) ==
  /\ open = {own, fd} \ {NoFile}
  /\ own = fd => own = NoFile

MachoFd == IF stack = <<>> THEN NoFile ELSE stack[Len(stack)].fd

MachoLedger ==
  /\ \A p \in DOMAIN disk : MachoFile(disk[p])
  /\ faults \in Nat
  /\ Ledger(res) /\ Pairs(kept)
  /\ res.unsure = {}
  /\ \A a \in added : a.match # M!None => a.uuid = a.match

MachoMain ==
  /\ main = [x \in MachoMainFields |-> main[x]]
  /\ main.exe \in DOMAIN disk
  /\ main.fd \in {NoFile, Descriptor(0)} /\ main.sym \in BOOLEAN
  /\ main.at \in {"images", "image", "failed", "done"}
  /\ main.at # "image" => stack = <<>>
  /\ main.at = "done" => main.fd = NoFile /\ (main.syminfo = "macho_syminfo" <=> main.sym)

MachoStack ==
  /\ IsStack(stack) /\ IsStack(left) /\ Distinct(stack)
  /\ \A j \in 1 .. Len(stack) : /\ MachoFrame(stack[j], Mine(res.held, stack[j].id), Mine(kept, stack[j].id))
                                /\ stack[j].id <= Len(left) + Len(stack)
                                /\ j < Len(stack) => stack[j].at = "indsym"
                                /\ j > 1 => ~stack[j].symtab

MachoRest ==
  /\ \A i : ~OnStack(stack, i) => MachoDone(i, Mine(res.held, i), Mine(kept, i), left, faults)
  /\ \A i : Mine(res.held, i) # {} => i \in Nat /\ i <= Len(left) + Len(stack)
  /\ main.sym <=> \E i : ~OnStack(stack, i) /\ "symbols" \in Mine(kept, i)

MachoInv ==
  MachoLedger /\ MachoMain /\ MachoStack /\ MachoRest /\ MachoOpen(res.open, main.fd, MachoFd)

LEMMA MachoResources ==
  \A r, id, whats : /\ M!Taken(r, id, whats) = Taken(r, id, whats)
                    /\ M!Released(r, id, whats) = Released(r, id, whats)
                    /\ M!Closed(r, id) = Closed(r, id)
                    /\ M!CloseFails(r, id) = CloseFails(r, id)
                    /\ M!Opened(r, id) = Opened(r, id)
                    /\ M!Descriptor(id) = Descriptor(id)
                    /\ M!NoFile = NoFile
  BY DEF M!CloseFails, CloseFails, M!Taken, Taken, M!Released, Released, M!Closed, Closed, M!Opened, Opened,
         M!Descriptor, Descriptor, M!NoFile, NoFile

LEMMA MachoFront == \A s : M!Front(s) = Front(s) /\ M!Last(s) = Last(s)
  BY DEF M!Front, Front, M!Last, Last

LEMMA MachoInit ==
  ASSUME NEW r \in Machos, M!InitWith(r.disk, r.images, r.exe)
  PROVE  MachoInv
<1>1. /\ disk = r.disk /\ stack = <<>> /\ left = <<>> /\ kept = {} /\ added = {} /\ faults = 0
      /\ main = [at |-> "images", exe |-> r.exe, fd |-> Descriptor(0), todo |-> r.images, ret |-> 0,
                 sym |-> FALSE, syminfo |-> M!None]
      /\ res = Opened(NoResources, Descriptor(0))
  BY DEF M!InitWith, M!Opened, Opened, M!NoResources, NoResources, M!Descriptor, Descriptor
<1>2. Ledger(res) /\ res.held = {} /\ res.unsure = {} /\ res.open = {Descriptor(0)}
  BY <1>1, NothingHeld, OpenedIs
<1>3. \A i : Mine(res.held, i) = {} /\ Mine(kept, i) = {}
  BY <1>1, <1>2, MineNone
<1>4. IsStack(stack) /\ IsStack(left) /\ Len(stack) = 0 /\ Len(left) = 0
  BY <1>1 DEF IsStack
<1>5. \A i : ~OnStack(stack, i)
  BY <1>4 DEF OnStack
<1>6. MachoLedger
  BY <1>1, <1>2, MachosAssumption DEF MachoLedger, Pairs
<1>7. MachoMain
  BY <1>1, MachosAssumption DEF MachoMain, MachoMainFields
<1>8. MachoStack
  BY <1>4 DEF MachoStack, Distinct
<1>9. MachoRest
  <2>1. \A i : MachoDone(i, {}, {}, left, faults)
    BY DEF MachoDone
  <2>2. ~main.sym
    BY <1>1
  <2>3. QED
    BY ONLY <1>3, <2>1, <2>2 DEF MachoRest
<1>10. MachoOpen(res.open, main.fd, MachoFd)
  <2>1. MachoFd = NoFile /\ main.fd = Descriptor(0)
    BY <1>1 DEF MachoFd
  <2>2. QED
    BY <1>2, <2>1, DescriptorIs DEF MachoOpen
<1>11. QED
  BY <1>6, <1>7, <1>8, <1>9, <1>10 DEF MachoInv

\* Of the reader at work alone anything was taken or released, or is referred to.
MachoOnly(r, things) ==
  /\ Ledger(r) /\ Pairs(things)
  /\ \A i : i # M!F.id => Mine(r.held, i) = Mine(res.held, i) /\ Mine(things, i) = Mine(kept, i)

MachoFaults == faults' \in Nat /\ (faults > 0 => faults' > 0)

LEMMA MachoTop ==
  ASSUME MachoInv, stack # <<>>
  PROVE  /\ M!F = stack[Len(stack)] /\ Len(stack) \in 1 .. Len(stack) /\ Len(stack) \in Nat /\ Len(stack) > 0
         /\ MachoFrame(M!F, Mine(res.held, M!F.id), Mine(kept, M!F.id))
         /\ MachoFd = M!F.fd /\ main.at = "image" /\ OnStack(stack, M!F.id)
         /\ Len(stack) > 1 => ~M!F.symtab
<1>1. IsStack(stack)
  BY DEF MachoInv, MachoStack
<1>2. M!F = stack[Len(stack)] /\ Len(stack) \in 1 .. Len(stack) /\ Len(stack) \in Nat /\ Len(stack) > 0
  BY <1>1, StackIs, MachoFront DEF M!F
<1>3. /\ MachoFrame(stack[Len(stack)], Mine(res.held, stack[Len(stack)].id), Mine(kept, stack[Len(stack)].id))
      /\ Len(stack) > 1 => ~stack[Len(stack)].symtab
  BY <1>2 DEF MachoInv, MachoStack
<1>4. main.at = "image"
  BY DEF MachoInv, MachoMain
<1>7. MachoFd = M!F.fd
  BY <1>2 DEF MachoFd
<1>5. OnStack(stack, M!F.id)
  BY <1>2 DEF OnStack
<1>6. QED
  BY <1>2, <1>3, <1>4, <1>5, <1>7

LEMMA MachoGoes ==
  ASSUME MachoInv, stack # <<>>, NEW g, M!Goes(g), g.id = M!F.id, g.symtab = M!F.symtab,
         UNCHANGED <<disk, main, added, left>>, MachoFaults, res'.unsure = {},
         MachoOnly(res', kept'),
         MachoFrame(g, Mine(res'.held, M!F.id), Mine(kept', M!F.id)),
         MachoOpen(res'.open, main.fd, g.fd)
  PROVE  MachoInv'
<1> DEFINE n == Len(stack)
<1>1. /\ M!F = stack[n] /\ n \in 1 .. n /\ n \in Nat /\ OnStack(stack, M!F.id) /\ IsStack(stack)
      /\ n > 1 => ~M!F.symtab
  BY MachoTop DEF MachoInv, MachoStack
<1>2. stack' = WithLast(stack, g)
  BY DEF M!Goes, WithLast
<1>3. /\ IsStack(stack') /\ stack' # <<>> /\ Len(stack') = n /\ stack'[n] = g
      /\ \A j \in 1 .. n - 1 : stack'[j] = stack[j]
  BY <1>1, <1>2, Replaced
<1>4. Distinct(stack) /\ g.id = stack[n].id
  BY <1>1 DEF MachoInv, MachoStack
<1>5. Distinct(stack') /\ \A i : OnStack(stack', i) <=> OnStack(stack, i)
  BY <1>1, <1>2, <1>4, ReplacedIds
<1>6. \A j \in 1 .. n - 1 : j \in 1 .. n /\ j # n /\ stack[j].id # M!F.id
  BY <1>1, <1>4 DEF Distinct
<1>7. \A j \in 1 .. n : j = n \/ j \in 1 .. n - 1
  BY <1>1
<1> HIDE DEF n
<1>8. MachoLedger'
  BY DEF MachoInv, MachoLedger, MachoFaults, MachoOnly
<1>9. MachoMain'
  BY <1>1, <1>3 DEF MachoInv, MachoMain
<1>10. MachoStack'
  <2>1. ASSUME NEW j \in 1 .. n
        PROVE  /\ MachoFrame(stack'[j], Mine(res'.held, stack'[j].id), Mine(kept', stack'[j].id))
               /\ stack'[j].id <= Len(left) + n
               /\ j < n => stack'[j].at = "indsym"
               /\ j > 1 => ~stack'[j].symtab
    <3>1. /\ MachoFrame(stack[j], Mine(res.held, stack[j].id), Mine(kept, stack[j].id))
          /\ stack[j].id <= Len(left) + n
          /\ j < n => stack[j].at = "indsym"
          /\ j > 1 => ~stack[j].symtab
      BY DEF MachoInv, MachoStack, n
    <3>2. CASE j = n
      BY <1>1, <1>3, <1>4, <3>1, <3>2
    <3>3. CASE j \in 1 .. n - 1
      BY <1>3, <1>6, <3>1, <3>3 DEF MachoOnly
    <3>4. QED
      BY <1>7, <3>2, <3>3
  <2>2. IsStack(left) /\ left' = left
    BY DEF MachoInv, MachoStack
  <2>3. QED
    BY <1>3, <1>5, <2>1, <2>2 DEF MachoStack
<1>11. MachoRest'
  <2>1. MachoRest /\ left' = left /\ Len(stack') = Len(stack) /\ main' = main
    BY <1>3 DEF MachoInv, n
  <2>2. ASSUME NEW i, ~OnStack(stack, i)
        PROVE  /\ Mine(res'.held, i) = Mine(res.held, i) /\ Mine(kept', i) = Mine(kept, i)
               /\ MachoDone(i, Mine(res.held, i), Mine(kept, i), left, faults')
    <3>1. i # M!F.id
      BY <1>1, <2>2
    <3>2. MachoDone(i, Mine(res.held, i), Mine(kept, i), left, faults)
      BY <2>1, <2>2 DEF MachoRest
    <3>3. QED
      BY <3>1, <3>2 DEF MachoOnly, MachoDone, MachoFaults
  <2>3. ASSUME NEW i, Mine(res'.held, i) # {} PROVE i \in Nat /\ i <= Len(left) + Len(stack)
    <3>1. CASE i = M!F.id
      <4>1. stack[n].id <= Len(left) + n /\ MachoCall(stack[n])
        BY <1>1 DEF MachoInv, MachoStack, MachoFrame, n
      <4>2. QED
        BY <1>1, <3>1, <4>1 DEF MachoCall, n
    <3>2. CASE i # M!F.id
      BY <2>1, <2>3, <3>2 DEF MachoOnly, MachoRest
    <3>3. QED
      BY <3>1, <3>2
  <2>4. main.sym <=> \E i : ~OnStack(stack', i) /\ "symbols" \in Mine(kept', i)
    <3>1. main.sym <=> \E i : ~OnStack(stack, i) /\ "symbols" \in Mine(kept, i)
      BY <2>1 DEF MachoRest
    <3>2. QED
      BY <1>5, <2>2, <3>1
  <2>5. QED
    BY <1>5, <2>1, <2>2, <2>3, <2>4 DEF MachoRest
<1>12. MachoOpen(res'.open, main'.fd, MachoFd')
  <2>1. MachoFd' = g.fd
    BY <1>3 DEF MachoFd
  <2>2. QED
    BY <2>1
<1>13. QED
  BY <1>8, <1>9, <1>10, <1>11, <1>12 DEF MachoInv

LEMMA MachoRet ==
  ASSUME NEW f, MachoCall(f), NEW ret
  PROVE  LET g == [f EXCEPT !.ret = ret]
         IN  /\ g.id = f.id /\ g.at = f.at /\ (g.symtab <=> f.symtab) /\ g.fd = f.fd
             /\ \A held, refers : MachoFrame(f, held, refers) => MachoFrame(g, held, refers)
<1> DEFINE g == [f EXCEPT !.ret = ret]
<1>1. f = [x \in MachoFields |-> f[x]]
  BY DEF MachoCall
<1>2. /\ g = [x \in MachoFields |-> g[x]]
      /\ g.at = f.at /\ g.id = f.id /\ g.file = f.file /\ g.fd = f.fd /\ g.symtab = f.symtab
      /\ g.i = f.i /\ g.sections = f.sections /\ g.sym = f.sym
  BY <1>1 DEF MachoFields
<1> HIDE DEF g
<1>3. MachoCall(g)
  BY ONLY MachoCall(f), <1>2 DEF MachoCall
<1>4. \A held, refers : MachoFrame(f, held, refers) => MachoFrame(g, held, refers)
  BY <1>2, <1>3 DEF MachoFrame
<1>5. QED
  BY <1>2, <1>4 DEF g

LEMMA MachoReturns ==
  ASSUME MachoInv, stack # <<>>, NEW ret, NEW from, NEW r, M!Returns(ret, from, r),
         UNCHANGED disk, MachoFaults, r.unsure = {},
         MachoOnly(r, kept'),
         MachoDone(M!F.id, Mine(r.held, M!F.id), Mine(kept', M!F.id), left', faults'),
         "symbols" \in Mine(kept', M!F.id) <=> M!F.sym,
         r.open = {main.fd} \ {NoFile},
         \A a \in added' : a.match # M!None => a.uuid = a.match
  PROVE  MachoInv'
<1> DEFINE n == Len(stack)
           id == M!F.id
           t == Pop(stack, ret)
<1>1. /\ M!F = stack[n] /\ n \in 1 .. n /\ n \in Nat /\ n > 0 /\ OnStack(stack, id) /\ IsStack(stack)
      /\ main.at = "image" /\ (n > 1 => ~M!F.symtab)
  BY MachoTop DEF MachoInv, MachoStack
<1>2. stack' = t /\ res' = r
  BY <1>1, MachoFront DEF M!Returns, Returned, Pop
<1>3. Distinct(stack) /\ IsStack(left)
  BY DEF MachoInv, MachoStack
<1> HIDE DEF t
<1>4. /\ IsStack(stack') /\ Len(stack') = n - 1 /\ Distinct(stack')
      /\ \A j \in 1 .. n - 2 : stack'[j] = stack[j]
      /\ n # 1 => n - 1 \in 1 .. n /\ stack'[n - 1] = [stack[n - 1] EXCEPT !.ret = ret]
      /\ \A j \in 1 .. n - 1 : stack'[j].id = stack[j].id
      /\ \A i : OnStack(stack', i) <=> OnStack(stack, i) /\ i # stack[n].id
  BY <1>1, <1>2, <1>3, PoppedIds DEF t
<1>5. IsStack(left') /\ Len(left') = Len(left) + 1 /\ Len(left) \in Nat /\ Range(left) \subseteq Range(left')
  <2> DEFINE x == [id |-> id, path |-> M!F.path, from |-> from]
  <2>1. left' = Append(left, x)
    BY DEF M!Returns
  <2> HIDE DEF x
  <2>2. /\ IsStack(left') /\ Len(left') = Len(left) + 1 /\ Len(left) \in Nat
        /\ \A j \in 1 .. Len(left) : left'[j] = left[j]
    <3>1. Len(left) \in Nat
      BY <1>3, StackIs
    <3>2. QED
      BY <1>3, <2>1, <3>1, Pushed
  <2>3. DOMAIN left = 1 .. Len(left) /\ DOMAIN left' = 1 .. Len(left')
    BY <1>3, <2>2, StackIs
  <2>4. DOMAIN left \subseteq DOMAIN left' /\ \A j \in DOMAIN left : left'[j] = left[j]
    BY <2>2, <2>3
  <2>5. QED
    BY <2>2, <2>4 DEF Range
<1>6. /\ main' = IF n = 1 THEN [main EXCEPT !.ret = ret, !.sym = @ \/ M!F.sym] ELSE main
  BY DEF M!Returns
<1>7. main = [x \in MachoMainFields |-> main[x]] /\ main.sym \in BOOLEAN /\ main.exe \in DOMAIN disk
      /\ main.fd \in {NoFile, Descriptor(0)}
  BY DEF MachoInv, MachoMain
<1>8. MachoCall(M!F)
  BY MachoTop DEF MachoFrame
<1>9. n > 1 => ~M!F.sym
  BY <1>1, <1>8 DEF MachoCall
<1> DEFINE sym == M!F.sym
           both == main.sym \/ sym
<1>10. both \in BOOLEAN /\ (main'.sym <=> both) /\ main' = [x \in MachoMainFields |-> main'[x]]
       /\ main'.fd = main.fd /\ main'.at = main.at /\ main'.exe = main.exe /\ main'.sym \in BOOLEAN
  <2>1. both \in BOOLEAN
    OBVIOUS
  <2>2. main' = IF n = 1 THEN [main EXCEPT !.ret = ret, !.sym = both] ELSE main
    BY <1>6
  <2>3. n # 1 => (both <=> main.sym)
    <3>1. n \in Nat /\ n > 0 /\ (n > 1 => ~sym)
      BY <1>1, <1>9
    <3> HIDE DEF n, sym
    <3>2. n # 1 => n > 1
      BY ONLY <3>1
    <3>3. n # 1 => ~sym
      BY ONLY <3>1, <3>2
    <3>4. QED
      BY ONLY <3>3
  <2> HIDE DEF both, n
  <2>4. QED
    BY <1>7, <2>1, <2>2, <2>3 DEF MachoMainFields
<1> HIDE DEF n, id, sym, both
<1>11. MachoLedger'
  BY <1>2 DEF MachoInv, MachoLedger, MachoFaults, MachoOnly
<1>12. MachoMain'
  <2>1. disk' = disk
    OBVIOUS
  <2>2. QED
    BY ONLY <1>1, <1>7, <1>10, <2>1 DEF MachoMain
<1>13. \A j \in 1 .. n - 1 : j \in 1 .. n /\ j # n /\ stack[j].id # id
  BY <1>1, <1>3 DEF Distinct, n, id
<1>14. \A j \in 1 .. n - 1 : j = n - 1 \/ j \in 1 .. n - 2
  BY <1>1
<1>15. MachoStack'
  <2>1. ASSUME NEW j \in 1 .. n - 1
        PROVE  /\ MachoFrame(stack'[j], Mine(r.held, stack'[j].id), Mine(kept', stack'[j].id))
               /\ stack'[j].id <= Len(left') + (n - 1)
               /\ j < n - 1 => stack'[j].at = "indsym"
               /\ j > 1 => ~stack'[j].symtab
    <3> DEFINE f == stack[j]
    <3>1. /\ MachoFrame(f, Mine(res.held, f.id), Mine(kept, f.id))
          /\ f.id <= Len(left) + n
          /\ f.at = "indsym"
          /\ j > 1 => ~f.symtab
      <4>1. j \in 1 .. n /\ j < n
        BY <1>1
      <4>2. QED
        BY <4>1 DEF MachoInv, MachoStack, n
    <3>2. MachoFrame(f, Mine(r.held, f.id), Mine(kept', f.id))
      BY <1>13, <3>1 DEF MachoOnly, id
    <3> HIDE DEF f
    <3>3. MachoCall(f) /\ f.id <= Len(left') + (n - 1)
      <4>1. MachoCall(f)
        BY <3>2 DEF MachoFrame
      <4>2. f.id \in Nat /\ f.id <= Len(left) + n /\ n \in Nat /\ Len(left) \in Nat /\ Len(left') = Len(left) + 1
        BY <1>1, <1>5, <3>1, <4>1 DEF MachoCall
      <4>3. QED
        BY ONLY <4>1, <4>2
    <3>4. stack'[j] = f \/ stack'[j] = [f EXCEPT !.ret = ret]
      BY <1>1, <1>4, <1>14 DEF f
    <3>5. ASSUME stack'[j] = [f EXCEPT !.ret = ret]
          PROVE  /\ MachoFrame(stack'[j], Mine(r.held, f.id), Mine(kept', f.id))
                 /\ stack'[j].id = f.id /\ stack'[j].at = f.at /\ (stack'[j].symtab <=> f.symtab)
      BY <3>2, <3>3, <3>5, MachoRet
    <3>6. QED
      BY <3>1, <3>2, <3>3, <3>4, <3>5
  <2>2. QED
    BY <1>2, <1>4, <1>5, <2>1 DEF MachoStack
<1>16. MachoRest'
  <2>1. MachoRest /\ Len(left') + Len(stack') = Len(left) + Len(stack) /\ id = stack[n].id
    BY <1>1, <1>4, <1>5 DEF MachoInv, n, id
  <2>2. ASSUME NEW i, ~OnStack(stack', i)
        PROVE  MachoDone(i, Mine(r.held, i), Mine(kept', i), left', faults')
    <3>1. CASE i = id
      BY <3>1 DEF id
    <3>2. CASE i # id
      <4>1. ~OnStack(stack, i)
        BY <1>4, <2>1, <2>2, <3>2
      <4>2. MachoDone(i, Mine(res.held, i), Mine(kept, i), left, faults)
        BY <2>1, <4>1 DEF MachoRest
      <4>3. MachoDone(i, Mine(r.held, i), Mine(kept', i), left, faults)
        BY <3>2, <4>2 DEF MachoOnly, id
      <4>4. QED
        BY <1>5, <4>3 DEF MachoDone, MachoFaults
    <3>3. QED
      BY <3>1, <3>2
  <2>3. ASSUME NEW i, Mine(r.held, i) # {} PROVE i \in Nat /\ i <= Len(left) + Len(stack)
    <3>1. CASE i = id
      <4>1. stack[n].id <= Len(left) + n
        BY <1>1 DEF MachoInv, MachoStack, n
      <4>2. id \in Nat
        BY <1>8 DEF MachoCall, id
      <4>3. QED
        BY <2>1, <3>1, <4>1, <4>2 DEF n
    <3>2. CASE i # id
      BY <2>1, <2>3, <3>2 DEF MachoOnly, MachoRest, id
    <3>3. QED
      BY <3>1, <3>2
  <2>4. main'.sym <=> \E i : ~OnStack(stack', i) /\ "symbols" \in Mine(kept', i)
    <3>1. main.sym <=> \E i : ~OnStack(stack, i) /\ "symbols" \in Mine(kept, i)
      BY <2>1 DEF MachoRest
    <3>2. "symbols" \in Mine(kept', id) <=> sym
      BY DEF id, sym
    <3>3. \A i : i # id => Mine(kept', i) = Mine(kept, i)
      BY DEF MachoOnly, id
    <3>4. QED
      BY <1>1, <1>4, <1>10, <2>1, <3>1, <3>2, <3>3 DEF both
  <2>5. QED
    BY <1>2, <2>1, <2>2, <2>3, <2>4 DEF MachoRest
<1>17. MachoOpen(res'.open, main'.fd, MachoFd')
  <2>1. MachoFd' = NoFile
    <3>1. CASE n = 1
      BY <1>1, <1>4, <3>1, StackIs DEF MachoFd
    <3>2. CASE n # 1
      <4>1. n - 1 \in 1 .. n - 1 /\ stack' # <<>>
        BY <1>1, <1>4, <3>2, StackIs
      <4>2. MachoFrame(stack'[n - 1], Mine(res'.held, stack'[n - 1].id), Mine(kept', stack'[n - 1].id))
            /\ stack'[n - 1].at = "indsym"
        <5>1. n - 1 < n /\ stack[n - 1].at = "indsym" /\ MachoCall(stack[n - 1])
          BY <1>1, <1>13, <4>1 DEF MachoInv, MachoStack, MachoFrame, n
        <5>2. stack'[n - 1] = [stack[n - 1] EXCEPT !.ret = ret]
          BY <1>4, <3>2
        <5>3. stack'[n - 1].at = "indsym"
          BY <5>1, <5>2 DEF MachoCall, MachoFields
        <5>4. QED
          BY <1>4, <1>15, <4>1, <5>3 DEF MachoStack
      <4>3. stack'[n - 1].fd = NoFile
        BY <4>2 DEF MachoFrame, MachoHolds
      <4>4. QED
        BY <1>4, <4>1, <4>3 DEF MachoFd
    <3>3. QED
      BY <3>1, <3>2
  <2>2. QED
    BY <1>2, <1>10, <2>1 DEF MachoOpen
<1>18. QED
  BY <1>11, <1>12, <1>15, <1>16, <1>17 DEF MachoInv

\* What fail needs.
MachoMayFail(valid, r) ==
  /\ MachoOnly(r, kept)
  /\ valid \subseteq Mine(r.held, M!F.id) /\ valid \cap Mine(kept, M!F.id) = {}
  /\ Mine(kept, M!F.id) \subseteq Mine(r.held, M!F.id)
  /\ \A w \in Mine(r.held, M!F.id) \ valid :
       w \in Mine(kept, M!F.id) \cup {"arch"} \cup TwoSections \/ (w = "sym" /\ faults' > 0)
  /\ \/ r.open = {main.fd, M!F.fd} \ {NoFile} /\ r.unsure = {}
     \/ M!F.fd # NoFile /\ r.open = {main.fd} \ {NoFile} /\ r.unsure = {M!F.fd}

LEMMA MachoFails ==
  ASSUME MachoInv, stack # <<>>, NEW valid, NEW r, M!Fails(valid, r), MachoMayFail(valid, r),
         UNCHANGED <<disk, kept, added>>, MachoFaults
  PROVE  MachoInv'
<1> DEFINE id == M!F.id
           fd == M!F.fd
           s == Released(r, id, valid)
           c == Closed(s, fd)
           failed_ == "fail"
<1>1. M!Returns(0, failed_, c)
  BY MachoResources DEF M!Fails
<1>2. MachoFrame(M!F, Mine(res.held, id), Mine(kept, id)) /\ MachoOpen(res.open, main.fd, fd)
  BY MachoTop DEF MachoInv
<1>3. /\ Ledger(s) /\ s.open = r.open
      /\ s.unsure = r.unsure
      /\ Mine(s.held, id) = Mine(r.held, id) \ valid
      /\ \A i : i # id => Mine(s.held, i) = Mine(r.held, i)
  <2>1. Ledger(r) /\ valid \subseteq Mine(r.held, id)
    BY DEF MachoMayFail, MachoOnly
  <2> HIDE DEF id
  <2>2. Ledger(s)
    BY <2>1, ReleasedMine
  <2>3. s.open = r.open /\ s.unsure = r.unsure /\ Mine(s.held, id) = Mine(r.held, id) \ valid
    BY <2>1, ReleasedMine
  <2>4. \A i : i # id => Mine(s.held, i) = Mine(r.held, i)
    BY <2>1, ReleasedMine
  <2> HIDE DEF s
  <2>5. QED
    BY <2>2, <2>3, <2>4
<1> HIDE DEF s
<1>4. /\ fd # NoFile => fd \in s.open \cup s.unsure
      /\ \/ s.open = {main.fd, fd} \ {NoFile} /\ s.unsure = {}
         \/ fd # NoFile /\ s.open = {main.fd} \ {NoFile} /\ s.unsure = {fd}
  BY <1>3 DEF MachoMayFail
<1>5. /\ Ledger(c) /\ c.held = s.held
      /\ fd = NoFile => c = s
      /\ fd # NoFile => /\ c.open = s.open \ {fd}
                        /\ c.unsure = s.unsure \ {fd}
  BY <1>3, <1>4, ClosedIs
<1> HIDE DEF c, failed_
<1>6. c.unsure = {} /\ c.open = {main.fd} \ {NoFile}
  <2>1. main.fd = fd => main.fd = NoFile
    BY <1>2 DEF MachoOpen
  <2> HIDE DEF fd
  <2>2. CASE fd = NoFile
    BY <1>4, <1>5, <2>2
  <2>3. CASE fd # NoFile
    BY <1>4, <1>5, <2>1, <2>3
  <2>4. QED
    BY <2>2, <2>3
<1>7. MachoOnly(c, kept')
  BY <1>3, <1>5 DEF MachoMayFail, MachoOnly
<1>8. MachoDone(id, Mine(c.held, id), Mine(kept', id), left', faults')
  <2>1. \E l \in Range(left') : l.id = id /\ l.from \in {"ignored", "fail"}
    <3> DEFINE x == [id |-> id, path |-> M!F.path, from |-> failed_]
    <3>1. left' = Append(left, x) /\ x.id = id /\ x.from \in {"ignored", "fail"}
      BY <1>1 DEF M!Returns, failed_
    <3> HIDE DEF x
    <3>2. IsStack(left') /\ Len(left') = Len(left) + 1 /\ left'[Len(left) + 1] = x /\ Len(left) \in Nat
      <4>1. IsStack(left)
        BY DEF MachoInv, MachoStack
      <4>2. Len(left) \in Nat
        BY <4>1, StackIs
      <4>3. QED
        BY <3>1, <4>1, <4>2, Pushed
    <3>3. DOMAIN left' = 1 .. Len(left')
      BY <3>2, StackIs
    <3>4. x \in Range(left')
      BY <3>2, <3>3 DEF Range
    <3>5. QED
      BY <3>1, <3>4
  <2>2. /\ Mine(c.held, id) = Mine(r.held, id) \ valid /\ Mine(kept', id) = Mine(kept, id)
    BY <1>3, <1>5
  <2>3. QED
    BY <2>1, <2>2 DEF MachoDone, MachoMayFail
<1>9. "symbols" \in Mine(kept', id) <=> M!F.sym
  BY <1>2 DEF MachoFrame, MachoHolds
<1>10. \A a \in added' : a.match # M!None => a.uuid = a.match
  BY DEF MachoInv, MachoLedger
<1>11. QED
  BY <1>1, <1>6, <1>7, <1>8, <1>9, <1>10, MachoReturns

\* A call, of what is not yet at work.
LEMMA MachoCalls ==
  ASSUME MachoInv, NEW path, path \in DOMAIN disk, NEW fd, fd # NoFile, NEW uuid, NEW symtab \in BOOLEAN
  PROVE  LET g == M!Call(M!NextId, path, fd, uuid, symtab)
         IN  /\ MachoCall(g) /\ MachoHolds(g.at, g.sections, g.sym, g.fd, {}, {})
             /\ g.id = M!NextId /\ g.fd = fd /\ (g.symtab <=> symtab)
<1> DEFINE g == M!Call(M!NextId, path, fd, uuid, symtab)
<1>1. M!NextId \in Nat \ {0}
  <2>1. Len(left) \in Nat /\ Len(stack) \in Nat
    BY StackIs DEF MachoInv, MachoStack
  <2>2. QED
    BY <2>1 DEF M!NextId
<1>2. /\ g = [x \in MachoFields |-> g[x]]
      /\ g.at = "header" /\ g.id = M!NextId /\ g.fd = fd /\ g.symtab = symtab /\ g.i = 1 /\ g.sections = {}
      /\ g.sym = FALSE /\ g.file = disk[path]
  BY DEF M!Call, MachoFields
<1> HIDE DEF g
<1>3. MachoFile(g.file)
  <2>1. MachoLedger
    BY DEF MachoInv
  <2>2. \A p \in DOMAIN disk : MachoFile(disk[p])
    BY <2>1 DEF MachoLedger
  <2>3. QED
    BY <1>2, <2>2
<1>4. MachoCall(g)
  <2>1. g.at \in MachoPlaces /\ g.at # "fat" /\ g.at # "commands" /\ g.i \in Nat \ {0} /\ g.id \in Nat \ {0}
    BY <1>1, <1>2 DEF MachoPlaces
  <2>2. g = [x \in MachoFields |-> g[x]] /\ ~g.sym /\ g.sym \in BOOLEAN /\ g.symtab \in BOOLEAN /\ g.sections = {}
    BY <1>2
  <2>3. QED
    BY ONLY <1>3, <2>1, <2>2 DEF MachoCall
<1>5. MachoHolds(g.at, g.sections, g.sym, g.fd, {}, {})
  BY <1>2 DEF MachoHolds
<1>6. QED
  BY <1>2, <1>4, <1>5 DEF g

\* The next call is for nothing that is held, and not on the stack.
LEMMA MachoNextId ==
  ASSUME MachoInv
  PROVE  /\ M!NextId = Len(left) + Len(stack) + 1 /\ M!NextId \in Nat \ {0}
         /\ Mine(res.held, M!NextId) = {} /\ Mine(kept, M!NextId) = {} /\ ~OnStack(stack, M!NextId)
<1>1. Len(left) \in Nat /\ Len(stack) \in Nat
  BY StackIs DEF MachoInv, MachoStack
<1>2. M!NextId = Len(left) + Len(stack) + 1 /\ M!NextId \in Nat \ {0}
  BY <1>1 DEF M!NextId
<1>3. ~OnStack(stack, M!NextId)
  <2>1. \A j \in 1 .. Len(stack) : stack[j].id <= Len(left) + Len(stack)
    BY DEF MachoInv, MachoStack
  <2>2. QED
    BY <1>1, <1>2, <2>1 DEF OnStack
<1>4. Mine(res.held, M!NextId) = {}
  <2>1. Mine(res.held, M!NextId) # {} => M!NextId <= Len(left) + Len(stack)
    BY DEF MachoInv, MachoRest
  <2>2. QED
    BY <1>1, <1>2, <2>1
<1>5. Mine(kept, M!NextId) \subseteq Mine(res.held, M!NextId)
  BY <1>3 DEF MachoInv, MachoRest, MachoDone
<1>6. QED
  BY <1>2, <1>3, <1>4, <1>5

\* The calls below one that is made.
MachoBelow(base) ==
  /\ IsStack(base) /\ Len(base) = Len(stack) /\ Distinct(base)
  /\ \A i : OnStack(base, i) <=> OnStack(stack, i)
  /\ \A j \in 1 .. Len(base) : /\ MachoFrame(base[j], Mine(res'.held, base[j].id), Mine(kept, base[j].id))
                               /\ base[j].id = stack[j].id
                               /\ base[j].at = "indsym"
                               /\ j > 1 => ~base[j].symtab

LEMMA MachoPushes ==
  ASSUME MachoInv, NEW base, MachoBelow(base), NEW g, stack' = Append(base, g),
         MachoCall(g), MachoHolds(g.at, g.sections, g.sym, g.fd, {}, {}), g.id = M!NextId,
         Len(base) > 0 => ~g.symtab,
         UNCHANGED <<disk, kept, added, left>>, MachoFaults,
         Ledger(res'), res'.unsure = {},
         \A i : ~OnStack(stack, i) => Mine(res'.held, i) = Mine(res.held, i),
         MachoMain', main'.sym <=> main.sym,
         MachoOpen(res'.open, main'.fd, g.fd)
  PROVE  MachoInv'
<1> DEFINE n == Len(stack)
<1>1. /\ M!NextId = Len(left) + n + 1 /\ M!NextId \in Nat \ {0} /\ Len(left) \in Nat /\ n \in Nat
      /\ Mine(res.held, M!NextId) = {} /\ Mine(kept, M!NextId) = {} /\ ~OnStack(stack, M!NextId)
      /\ IsStack(left)
  BY MachoNextId, StackIs DEF MachoInv, MachoStack
<1>2. IsStack(base) /\ Len(base) = n /\ Distinct(base) /\ ~OnStack(base, g.id)
  BY <1>1 DEF MachoBelow
<1>3. /\ IsStack(stack') /\ stack' # <<>> /\ Len(stack') = n + 1 /\ stack'[n + 1] = g
      /\ \A j \in 1 .. n : stack'[j] = base[j]
  BY <1>2, Pushed
<1>4. Distinct(stack') /\ \A i : OnStack(stack', i) <=> OnStack(base, i) \/ i = g.id
  BY <1>2, PushedIds
<1>5. \A i : OnStack(stack', i) <=> OnStack(stack, i) \/ i = g.id
  BY <1>4 DEF MachoBelow
<1>6. MachoLedger'
  BY DEF MachoInv, MachoLedger, MachoFaults
<1> HIDE DEF n
<1>7. MachoStack'
  <2>1. ASSUME NEW j \in 1 .. n + 1
        PROVE  /\ MachoFrame(stack'[j], Mine(res'.held, stack'[j].id), Mine(kept, stack'[j].id))
               /\ stack'[j].id <= Len(left) + (n + 1)
               /\ j < n + 1 => stack'[j].at = "indsym"
               /\ j > 1 => ~stack'[j].symtab
    <3>1. CASE j = n + 1
      <4>1. MachoFrame(g, Mine(res'.held, g.id), Mine(kept, g.id))
        BY <1>1 DEF MachoFrame
      <4>2. QED
        BY <1>1, <1>2, <1>3, <3>1, <4>1
    <3>2. CASE j \in 1 .. n
      <4>1. stack[j].id <= Len(left) + n /\ MachoCall(stack[j])
        BY <3>2 DEF MachoInv, MachoStack, MachoFrame, n
      <4>2. stack[j].id \in Nat
        BY <4>1 DEF MachoCall
      <4>3. stack[j].id <= Len(left) + (n + 1)
        BY <1>1, <4>1, <4>2
      <4>4. stack'[j] = base[j]
        BY <1>3, <3>2
      <4>5. /\ MachoFrame(base[j], Mine(res'.held, base[j].id), Mine(kept, base[j].id))
            /\ base[j].id = stack[j].id /\ base[j].at = "indsym" /\ (j > 1 => ~base[j].symtab)
        BY <1>2, <3>2 DEF MachoBelow
      <4>6. QED
        BY <4>3, <4>4, <4>5
    <3>3. j = n + 1 \/ j \in 1 .. n
      BY ONLY <1>1, j \in 1 .. n + 1
    <3>4. QED
      BY <3>1, <3>2, <3>3
  <2>2. left' = left /\ kept' = kept
    OBVIOUS
  <2>3. QED
    BY <1>1, <1>3, <1>4, <2>1, <2>2 DEF MachoStack
<1>8. MachoRest'
  <2>1. MachoRest
    BY DEF MachoInv
  <2>2. ASSUME NEW i, ~OnStack(stack', i)
        PROVE  MachoDone(i, Mine(res'.held, i), Mine(kept, i), left, faults')
    <3>1. ~OnStack(stack, i) /\ Mine(res'.held, i) = Mine(res.held, i)
      BY <1>5, <2>2
    <3>2. MachoDone(i, Mine(res.held, i), Mine(kept, i), left, faults)
      BY <2>1, <3>1 DEF MachoRest
    <3>3. QED
      BY <3>1, <3>2 DEF MachoDone, MachoFaults
  <2>3. ASSUME NEW i, Mine(res'.held, i) # {} PROVE i \in Nat /\ i <= Len(left) + (n + 1)
    <3>1. CASE OnStack(stack, i)
      <4>1. PICK j \in 1 .. n : stack[j].id = i
        BY <3>1 DEF OnStack, n
      <4>2. stack[j].id <= Len(left) + n /\ MachoCall(stack[j])
        BY <4>1 DEF MachoInv, MachoStack, MachoFrame, n
      <4>3. stack[j].id \in Nat
        BY <4>2 DEF MachoCall
      <4>4. QED
        BY <1>1, <4>1, <4>2, <4>3
    <3>2. CASE ~OnStack(stack, i)
      <4>1. i \in Nat /\ i <= Len(left) + n
        BY <2>1, <2>3, <3>2 DEF MachoRest, n
      <4>2. QED
        BY <1>1, <4>1
    <3>3. QED
      BY <3>1, <3>2
  <2>4. main'.sym <=> \E i : ~OnStack(stack', i) /\ "symbols" \in Mine(kept, i)
    <3>1. main.sym <=> \E i : ~OnStack(stack, i) /\ "symbols" \in Mine(kept, i)
      BY <2>1 DEF MachoRest
    <3>2. "symbols" \notin Mine(kept, g.id)
      BY <1>1
    <3>3. QED
      BY <1>5, <3>1, <3>2
  <2>5. left' = left /\ kept' = kept
    OBVIOUS
  <2>6. QED
    BY <1>3, <2>2, <2>3, <2>4, <2>5 DEF MachoRest
<1>9. MachoOpen(res'.open, main'.fd, MachoFd')
  BY <1>3 DEF MachoFd
<1>10. QED
  BY <1>6, <1>7, <1>8, <1>9 DEF MachoInv

LEMMA MachoAt ==
  ASSUME MachoInv, NEW place, M!Reading(place)
  PROVE  /\ stack # <<>> /\ M!F.at = place /\ MachoCall(M!F) /\ M!F = [x \in MachoFields |-> M!F[x]]
         /\ MachoHolds(place, M!F.sections, M!F.sym, M!F.fd, Mine(res.held, M!F.id), Mine(kept, M!F.id))
         /\ MachoOpen(res.open, main.fd, M!F.fd)
         /\ Ledger(res) /\ Pairs(kept) /\ MachoOnly(res, kept) /\ res.unsure = {}
         /\ faults \in Nat
<1>1. stack # <<>> /\ M!F.at = place
  BY DEF M!Reading
<1>2. MachoFrame(M!F, Mine(res.held, M!F.id), Mine(kept, M!F.id)) /\ MachoFd = M!F.fd
  BY <1>1, MachoTop
<1>3. MachoCall(M!F) /\ MachoHolds(place, M!F.sections, M!F.sym, M!F.fd, Mine(res.held, M!F.id), Mine(kept, M!F.id))
  BY <1>1, <1>2 DEF MachoFrame
<1>4. M!F = [x \in MachoFields |-> M!F[x]]
  BY <1>3 DEF MachoCall
<1>5. MachoOpen(res.open, main.fd, M!F.fd)
  BY <1>2 DEF MachoInv
<1>6. Ledger(res) /\ Pairs(kept) /\ res.unsure = {} /\ faults \in Nat
  BY DEF MachoInv, MachoLedger
<1>7. MachoOnly(res, kept)
  BY <1>6 DEF MachoOnly
<1>8. QED
  BY <1>1, <1>3, <1>4, <1>5, <1>6, <1>7

LEMMA MachoCount ==
  ASSUME faults \in Nat, NEW fault, M!Count(fault)
  PROVE  MachoFaults /\ (fault # M!None => faults' > 0)
  BY DEF M!Count, MachoFaults

LEMMA MachoPlace ==
  ASSUME NEW f, MachoCall(f), NEW p \in MachoPlaces,
         p = "fat" => f.file.is = "fat", p = "commands" => f.file.is = "thin"
  PROVE  LET g == [f EXCEPT !.at = p]
         IN  /\ MachoCall(g) /\ g.at = p /\ g.id = f.id /\ g.fd = f.fd /\ g.symtab = f.symtab
             /\ g.sections = f.sections /\ g.sym = f.sym
<1> DEFINE g == [f EXCEPT !.at = p]
<1>1. f = [x \in MachoFields |-> f[x]]
  BY DEF MachoCall
<1>2. /\ g = [x \in MachoFields |-> g[x]]
      /\ g.at = p /\ g.id = f.id /\ g.file = f.file /\ g.fd = f.fd /\ g.symtab = f.symtab
      /\ g.i = f.i /\ g.sections = f.sections /\ g.sym = f.sym
  BY <1>1 DEF MachoFields
<1> HIDE DEF g
<1>3. MachoCall(g)
  BY <1>2 DEF MachoCall
<1>4. QED
  BY <1>2, <1>3 DEF g

\* What of the ledger changes where the reader at work takes something.
LEMMA MachoTaken ==
  ASSUME NEW r, MachoOnly(r, kept), NEW whats
  PROVE  LET s == M!Taken(r, M!F.id, whats)
         IN  /\ MachoOnly(s, kept) /\ s.open = r.open /\ s.unsure = r.unsure
             /\ Mine(s.held, M!F.id) = Mine(r.held, M!F.id) \cup whats
<1> DEFINE id == M!F.id
           s == Taken(r, id, whats)
<1>1. M!Taken(r, id, whats) = s
  BY MachoResources
<1>2. /\ Ledger(s) /\ s.open = r.open /\ s.unsure = r.unsure
      /\ Mine(s.held, id) = Mine(r.held, id) \cup whats
      /\ \A i : i # id => Mine(s.held, i) = Mine(r.held, i)
  BY TakenMine DEF MachoOnly
<1> HIDE DEF s
<1>3. MachoOnly(s, kept)
  BY <1>2 DEF MachoOnly
<1>4. QED
  BY <1>1, <1>2, <1>3

LEMMA MachoReleased ==
  ASSUME NEW r, MachoOnly(r, kept), NEW whats, whats \subseteq Mine(r.held, M!F.id)
  PROVE  LET s == M!Released(r, M!F.id, whats)
         IN  /\ MachoOnly(s, kept) /\ s.open = r.open /\ s.unsure = r.unsure
             /\ Mine(s.held, M!F.id) = Mine(r.held, M!F.id) \ whats
<1> DEFINE id == M!F.id
           s == Released(r, id, whats)
<1>1. M!Released(r, id, whats) = s
  BY MachoResources
<1>2. /\ Ledger(s) /\ s.open = r.open
      /\ s.unsure = r.unsure
      /\ Mine(s.held, id) = Mine(r.held, id) \ whats
      /\ \A i : i # id => Mine(s.held, i) = Mine(r.held, i)
  BY ReleasedMine DEF MachoOnly
<1> HIDE DEF s
<1>3. MachoOnly(s, kept)
  BY <1>2 DEF MachoOnly
<1>4. QED
  BY <1>1, <1>2, <1>3

LEMMA MachoClosed ==
  ASSUME NEW r, MachoOnly(r, kept), r.open = {main.fd, M!F.fd} \ {NoFile}, r.unsure = {},
         main.fd = M!F.fd => main.fd = NoFile
  PROVE  LET s == M!Closed(r, M!F.fd)
         IN  /\ MachoOnly(s, kept) /\ s.held = r.held /\ s.unsure = {}
             /\ s.open = {main.fd} \ {NoFile}
<1> DEFINE fd == M!F.fd
           s == Closed(r, fd)
<1>1. M!Closed(r, fd) = s
  BY MachoResources
<1>2. /\ Ledger(s) /\ s.held = r.held
      /\ fd = NoFile => s = r
      /\ fd # NoFile => s.open = r.open \ {fd} /\ s.unsure = r.unsure \ {fd}
  BY ClosedIs DEF MachoOnly
<1> HIDE DEF s
<1>3. MachoOnly(s, kept)
  BY <1>2 DEF MachoOnly
<1> HIDE DEF fd
<1>4. s.unsure = {} /\ s.open = {main.fd} \ {NoFile}
  BY <1>2 DEF fd
<1>5. QED
  BY <1>1, <1>2, <1>3, <1>4 DEF fd

LEMMA MachoCloseFails ==
  ASSUME NEW r, MachoOnly(r, kept), r.open = {main.fd, M!F.fd} \ {NoFile}, r.unsure = {},
         M!F.fd # NoFile, main.fd # M!F.fd
  PROVE  LET s == M!CloseFails(r, M!F.fd)
         IN  /\ MachoOnly(s, kept) /\ s.held = r.held /\ s.unsure = {M!F.fd}
             /\ s.open = {main.fd} \ {NoFile}
<1> DEFINE fd == M!F.fd
           s == CloseFails(r, fd)
<1>1. M!CloseFails(r, fd) = s
  BY MachoResources
<1>2. Ledger(s) /\ s.held = r.held /\ s.open = r.open \ {fd} /\ s.unsure = {fd}
  BY CloseFailsIs DEF MachoOnly
<1> HIDE DEF s
<1>3. MachoOnly(s, kept)
  BY <1>2 DEF MachoOnly
<1>4. s.open = {main.fd} \ {NoFile}
  BY <1>2
<1>5. QED
  BY <1>1, <1>2, <1>3, <1>4

LEMMA MachoHeader == MachoInv /\ M!Header => MachoInv'
<1> SUFFICES ASSUME MachoInv, M!Header PROVE MachoInv'
  OBVIOUS
<1> DEFINE p == "header"
           fat == "fat"
           cmds == "commands"
           view == {"cmds"}
           none == {}
           held == Mine(res.held, M!F.id)
           refers == Mine(kept, M!F.id)
           t == M!Taken(res, M!F.id, view)
<1>1. M!Reading(p) /\ UNCHANGED <<disk, kept, added>>
  BY DEF M!Header
<1>2. PICK fault : /\ M!Count(fault)
                   /\ \/ M!Fails(none, res)
                      \/ /\ M!Goes([M!F EXCEPT !.at = fat]) /\ UNCHANGED <<main, res, left>>
                         /\ M!F.file.is = "fat"
                      \/ /\ M!Goes([M!F EXCEPT !.at = cmds]) /\ res' = t /\ UNCHANGED <<main, left>>
                         /\ M!F.file.is = "thin"
  BY DEF M!Header
<1>3. p = "header" /\ fat = "fat" /\ cmds = "commands" /\ fat \in MachoPlaces /\ cmds \in MachoPlaces
  BY DEF MachoPlaces
<1> HIDE DEF p, fat, cmds, held, refers
<1>4. /\ stack # <<>> /\ MachoCall(M!F)
      /\ MachoHolds(p, M!F.sections, M!F.sym, M!F.fd, held, refers)
      /\ MachoOpen(res.open, main.fd, M!F.fd)
      /\ MachoOnly(res, kept) /\ res.unsure = {}
      /\ faults \in Nat
  BY <1>1, MachoAt DEF held, refers
<1>5. MachoFaults
  BY <1>2, <1>4, MachoCount
<1>6. held = {} /\ refers = {} /\ M!F.sections = {} /\ ~M!F.sym /\ M!F.fd # NoFile
  BY <1>3, <1>4 DEF MachoHolds
<1>7. CASE M!Fails(none, res)
  <2>1. MachoMayFail(none, res)
    BY <1>4, <1>5, <1>6 DEF MachoMayFail, MachoOpen, MachoFaults, held, refers
  <2>2. QED
    BY <1>1, <1>4, <1>5, <1>7, <2>1, MachoFails
<1>8. CASE /\ M!Goes([M!F EXCEPT !.at = fat]) /\ UNCHANGED <<main, res, left>>
           /\ M!F.file.is = "fat"
  <2> DEFINE g == [M!F EXCEPT !.at = fat]
  <2>1. /\ MachoCall(g) /\ g.at = fat /\ g.id = M!F.id /\ g.fd = M!F.fd /\ g.symtab = M!F.symtab
        /\ g.sections = M!F.sections /\ g.sym = M!F.sym
    BY <1>3, <1>4, <1>8, MachoPlace
  <2> HIDE DEF g
  <2>2. MachoFrame(g, held, refers)
    BY <1>3, <1>6, <2>1 DEF MachoFrame, MachoHolds
  <2>3. M!Goes(g)
    BY <1>8 DEF g
  <2>4. QED
    BY <1>1, <1>4, <1>5, <1>8, <2>1, <2>2, <2>3, MachoGoes DEF held, refers, MachoFaults
<1>9. CASE /\ M!Goes([M!F EXCEPT !.at = cmds]) /\ res' = t /\ UNCHANGED <<main, left>>
           /\ M!F.file.is = "thin"
  <2> DEFINE g == [M!F EXCEPT !.at = cmds]
  <2>1. /\ MachoCall(g) /\ g.at = cmds /\ g.id = M!F.id /\ g.fd = M!F.fd /\ g.symtab = M!F.symtab
        /\ g.sections = M!F.sections /\ g.sym = M!F.sym
    BY <1>3, <1>4, <1>9, MachoPlace
  <2>5. MachoOnly(t, kept) /\ t.open = res.open /\ t.unsure = res.unsure /\ Mine(t.held, M!F.id) = held \cup view
    BY <1>4, MachoTaken DEF held
  <2> HIDE DEF g, t
  <2>2. MachoFrame(g, Mine(t.held, M!F.id), refers)
    BY <1>3, <1>6, <2>1, <2>5 DEF MachoFrame, MachoHolds
  <2>3. M!Goes(g)
    BY <1>9 DEF g
  <2>4. QED
    BY <1>1, <1>4, <1>5, <1>9, <2>1, <2>2, <2>3, <2>5, MachoGoes DEF refers, MachoFaults
<1>10. QED
  BY <1>2, <1>7, <1>8, <1>9

\* A call goes on with a file in its file.
InFile(f, place, x) == [f EXCEPT !.at = place, !.file = x]

LEMMA MachoArch ==
  ASSUME NEW f, MachoCall(f), ~f.sym, f.sections = {}, NEW p, p = "header", NEW x, MachoFile(x)
  PROVE  LET g == InFile(f, p, x)
         IN  /\ MachoCall(g) /\ g.at = p /\ g.id = f.id /\ g.fd = f.fd /\ g.symtab = f.symtab
             /\ g.sections = f.sections /\ g.sym = f.sym
<1> DEFINE g == InFile(f, p, x)
<1>1. f = [y \in MachoFields |-> f[y]]
  BY DEF MachoCall
<1>2. /\ g = [y \in MachoFields |-> g[y]]
      /\ g.at = p /\ g.id = f.id /\ g.file = x /\ g.fd = f.fd /\ g.symtab = f.symtab
      /\ g.i = f.i /\ g.sections = f.sections /\ g.sym = f.sym
  BY <1>1 DEF MachoFields, InFile
<1> HIDE DEF g
<1>3. MachoCall(g)
  BY <1>2 DEF MachoCall, MachoPlaces
<1>4. QED
  BY <1>2, <1>3 DEF g

LEMMA MachoFat == MachoInv /\ M!Fat => MachoInv'
<1> SUFFICES ASSUME MachoInv, M!Fat PROVE MachoInv'
  OBVIOUS
<1> DEFINE p == "fat"
           header == "header"
           arch == {"arch"}
           none == {}
           archs == M!F.file.archs
           held == Mine(res.held, M!F.id)
           refers == Mine(kept, M!F.id)
           t == M!Taken(res, M!F.id, arch)
           Arch(i) == InFile(M!F, header, archs[i].file)
<1>1. M!Reading(p) /\ UNCHANGED <<disk, kept, added>>
  BY DEF M!Fat
<1>2. PICK fault : /\ M!Count(fault)
                   /\ \/ M!Fails(none, res)
                      \/ M!Fails(none, t)
                      \/ /\ \E i \in DOMAIN archs : M!Goes(Arch(i))
                         /\ UNCHANGED <<main, res, left>>
  BY ONLY M!Fat DEF M!Fat, InFile
<1>3. p = "fat" /\ header = "header" /\ header \in MachoPlaces /\ arch = {"arch"}
  BY DEF MachoPlaces
<1> HIDE DEF p, header, arch, held, refers, Arch
<1>4. /\ stack # <<>> /\ M!F.at = p /\ MachoCall(M!F)
      /\ MachoHolds(p, M!F.sections, M!F.sym, M!F.fd, held, refers)
      /\ MachoOpen(res.open, main.fd, M!F.fd)
      /\ MachoOnly(res, kept) /\ res.unsure = {}
      /\ faults \in Nat
  BY <1>1, MachoAt DEF held, refers
<1>5. MachoFaults
  BY <1>2, <1>4, MachoCount
<1>6. held = {} /\ refers = {} /\ M!F.sections = {} /\ ~M!F.sym /\ M!F.fd # NoFile
  BY <1>3, <1>4 DEF MachoHolds
<1>7. CASE M!Fails(none, res)
  <2>1. MachoMayFail(none, res)
    BY <1>4, <1>5, <1>6 DEF MachoMayFail, MachoOpen, MachoFaults, held, refers
  <2>2. QED
    BY <1>1, <1>4, <1>5, <1>7, <2>1, MachoFails
<1>8. CASE M!Fails(none, t)
  <2>1. MachoOnly(t, kept) /\ t.open = res.open /\ t.unsure = res.unsure /\ Mine(t.held, M!F.id) = held \cup arch
    BY <1>4, MachoTaken DEF held
  <2> HIDE DEF t
  <2>2. MachoMayFail(none, t)
    BY <1>3, <1>4, <1>5, <1>6, <2>1 DEF MachoMayFail, MachoOpen, MachoFaults, refers
  <2>3. QED
    BY <1>1, <1>4, <1>5, <1>8, <2>2, MachoFails
<1>9. CASE (\E i \in DOMAIN archs : M!Goes(Arch(i))) /\ UNCHANGED <<main, res, left>>
  <2>0. UNCHANGED <<main, res, left>>
    BY <1>9
  <2>1. PICK i \in DOMAIN archs : M!Goes(Arch(i))
    BY <1>9
  <2>2. MachoFile(archs[i].file)
    BY <1>3, <1>4 DEF MachoCall, MachoFile
  <2> DEFINE x == archs[i].file
             g == InFile(M!F, header, x)
  <2>3. M!Goes(g) /\ MachoFile(x)
    BY <2>1, <2>2 DEF Arch
  <2> HIDE DEF x
  <2>4. /\ MachoCall(g) /\ g.at = header /\ g.id = M!F.id /\ g.fd = M!F.fd /\ g.symtab = M!F.symtab
        /\ g.sections = M!F.sections /\ g.sym = M!F.sym
    BY ONLY <1>3, <1>4, <1>6, <2>3, MachoArch
  <2> HIDE DEF g
  <2>5. MachoFrame(g, held, refers)
    BY <1>3, <1>6, <2>4 DEF MachoFrame, MachoHolds
  <2>6. QED
    BY <1>1, <1>4, <1>5, <2>0, <2>3, <2>4, <2>5, MachoGoes DEF held, refers, MachoFaults
<1> HIDE DEF none, t
<1>10. QED
  BY <1>2, <1>7, <1>8, <1>9

\* A command is read: what a call has of it.
LEMMA MachoReads ==
  ASSUME NEW f, MachoCall(f), NEW g, g = [x \in MachoFields |-> g[x]],
         g.at = f.at, g.id = f.id, g.file = f.file, g.symtab = f.symtab, g.i = f.i + 1,
         g.sym \in BOOLEAN, g.sym => f.symtab /\ HasSymtabBefore(f.file, f.i + 1),
         g.sections \subseteq TwoSections, g.sections # {} => HasSegment(f.file)
  PROVE  MachoCall(g)
<1>1. f.i + 1 \in Nat \ {0}
  BY DEF MachoCall
<1>2. QED
  BY <1>1 DEF MachoCall

LEMMA MachoBefore ==
  ASSUME NEW f, MachoCall(f), f.sym
  PROVE  f.symtab /\ HasSymtabBefore(f.file, f.i + 1)
<1>1. f.i \in Nat /\ HasSymtabBefore(f.file, f.i) /\ MachoFile(f.file) /\ f.symtab
  BY DEF MachoCall
<1>2. \A j \in 1 .. f.i - 1 : j \in 1 .. f.i + 1 - 1
  BY <1>1
<1>3. QED
  BY <1>1, <1>2 DEF HasSymtabBefore

\* A turn of the loop over the commands.
MachoTurn(c) ==
  /\ M!Reading("commands") /\ M!F.i \in DOMAIN M!F.file.cmds /\ c = M!F.file.cmds[M!F.i]
  /\ UNCHANGED <<disk, added>>

LEMMA MachoTurns ==
  ASSUME MachoInv, NEW c, MachoTurn(c)
  PROVE  /\ stack # <<>> /\ MachoCall(M!F) /\ M!F.at = "commands" /\ M!F.file.is = "thin" /\ MachoThin(M!F.file)
         /\ M!F = [x \in MachoFields |-> M!F[x]]
         /\ Mine(res.held, M!F.id) = Mine(kept, M!F.id) \cup {"cmds"} \cup M!F.sections
         /\ Mine(kept, M!F.id) \subseteq {"str", "symbols", "sdata"} /\ ("symbols" \in Mine(kept, M!F.id) <=> M!F.sym)
         /\ (~M!F.sym => Mine(kept, M!F.id) = {}) /\ M!F.sections \subseteq TwoSections
         /\ res.open = {main.fd, M!F.fd} \ {NoFile} /\ MachoOpen(res.open, main.fd, M!F.fd)
         /\ MachoOnly(res, kept) /\ res.unsure = {} /\ faults \in Nat
<1> DEFINE p == "commands"
           held == Mine(res.held, M!F.id)
           refers == Mine(kept, M!F.id)
<1>1. M!Reading(p)
  BY DEF MachoTurn
<1>2. p = "commands"
  OBVIOUS
<1> HIDE DEF p
<1>3. /\ stack # <<>> /\ M!F.at = p /\ MachoCall(M!F) /\ M!F = [x \in MachoFields |-> M!F[x]]
      /\ MachoHolds(p, M!F.sections, M!F.sym, M!F.fd, held, refers)
      /\ MachoOpen(res.open, main.fd, M!F.fd)
      /\ MachoOnly(res, kept) /\ res.unsure = {}
      /\ faults \in Nat
  BY <1>1, MachoAt
<1>4. held = refers \cup {"cmds"} \cup M!F.sections /\ refers \subseteq {"str", "symbols", "sdata"}
      /\ ("symbols" \in refers <=> M!F.sym) /\ (~M!F.sym => refers = {})
  BY <1>2, <1>3 DEF MachoHolds
<1>5. M!F.file.is = "thin" /\ MachoThin(M!F.file) /\ M!F.sections \subseteq TwoSections
  BY <1>2, <1>3 DEF MachoCall, MachoFile
<1>6. res.open = {main.fd, M!F.fd} \ {NoFile}
  BY <1>3 DEF MachoOpen
<1> HIDE DEF held, refers
<1>7. QED
  BY <1>2, <1>3, <1>4, <1>5, <1>6 DEF held, refers

\* The frame after a command, where nothing but that is read is new.
MachoRead(f, g) ==
  /\ g = [x \in MachoFields |-> g[x]]
  /\ g.at = "commands" /\ g.id = f.id /\ g.file = f.file /\ g.symtab = f.symtab /\ g.i = f.i + 1 /\ g.fd = f.fd

\* The loop goes on.
LEMMA MachoLoops ==
  ASSUME MachoInv, NEW c, MachoTurn(c), NEW g, MachoRead(M!F, g), M!Goes(g), MachoCall(g),
         UNCHANGED <<main, left>>, MachoFaults,
         MachoOnly(res', kept'), res'.open = res.open, res'.unsure = res.unsure,
         MachoHolds("commands", g.sections, g.sym, g.fd, Mine(res'.held, M!F.id), Mine(kept', M!F.id))
  PROVE  MachoInv'
<1>1. /\ stack # <<>> /\ MachoCall(M!F)
      /\ MachoOpen(res.open, main.fd, M!F.fd) /\ res.unsure = {} /\ faults \in Nat
  BY MachoTurns
<1>2. g.at = "commands" /\ g.id = M!F.id /\ g.symtab = M!F.symtab /\ g.fd = M!F.fd
  BY DEF MachoRead
<1>3. MachoFrame(g, Mine(res'.held, M!F.id), Mine(kept', M!F.id))
  BY <1>2 DEF MachoFrame
<1>4. UNCHANGED <<disk, main, added, left>> /\ res'.unsure = {} /\ MachoOpen(res'.open, main.fd, g.fd)
  BY <1>1, <1>2 DEF MachoTurn, MachoFaults
<1>5. QED
  BY <1>1, <1>2, <1>3, <1>4, MachoGoes

LEMMA MachoOther ==
  ASSUME MachoInv, NEW c, MachoTurn(c), NEW uuid,
         M!Goes([M!F EXCEPT !.i = @ + 1]) \/ M!Goes([M!F EXCEPT !.i = @ + 1, !.uuid = uuid]),
         UNCHANGED <<main, res, kept, left, faults>>
  PROVE  MachoInv'
<1>1. /\ stack # <<>> /\ MachoCall(M!F) /\ M!F.at = "commands" /\ M!F = [x \in MachoFields |-> M!F[x]]
      /\ MachoOnly(res, kept) /\ faults \in Nat
  BY MachoTurns
<1>2. PICK g : M!Goes(g) /\ (g = [M!F EXCEPT !.i = @ + 1] \/ g = [M!F EXCEPT !.i = @ + 1, !.uuid = uuid])
  OBVIOUS
<1>3. MachoRead(M!F, g) /\ g.sections = M!F.sections /\ g.sym = M!F.sym
  <2> DEFINE f == M!F
  <2>1. f = [x \in MachoFields |-> f[x]] /\ f.at = "commands"
    BY <1>1
  <2>2. g = [f EXCEPT !.i = @ + 1] \/ g = [f EXCEPT !.i = @ + 1, !.uuid = uuid]
    BY <1>2
  <2> HIDE DEF f
  <2>3. MachoRead(f, g) /\ g.sections = f.sections /\ g.sym = f.sym
    BY <2>1, <2>2 DEF MachoRead, MachoFields
  <2>4. QED
    BY <2>3 DEF f
<1>4. MachoCall(g)
  <2>1. M!F.sym => M!F.symtab /\ HasSymtabBefore(M!F.file, M!F.i + 1)
    BY <1>1, MachoBefore
  <2>2. /\ M!F.sym \in BOOLEAN /\ M!F.sections \subseteq TwoSections
        /\ M!F.sections # {} => HasSegment(M!F.file)
    BY <1>1 DEF MachoCall
  <2>3. QED
    BY <1>1, <1>3, <2>1, <2>2, MachoReads DEF MachoRead
<1>5. MachoHolds("commands", g.sections, g.sym, g.fd, Mine(res.held, M!F.id), Mine(kept, M!F.id))
  <2> DEFINE p == "commands"
  <2>1. M!Reading(p)
    BY DEF MachoTurn
  <2> HIDE DEF p
  <2>2. MachoHolds(p, M!F.sections, M!F.sym, M!F.fd, Mine(res.held, M!F.id), Mine(kept, M!F.id))
    BY <2>1, MachoAt
  <2>3. QED
    BY <1>3, <2>2 DEF MachoRead, p
<1>6. MachoFaults
  BY <1>1 DEF MachoFaults
<1>7. QED
  BY <1>1, <1>2, <1>3, <1>4, <1>5, <1>6, MachoLoops

LEMMA MachoCmdsFail ==
  ASSUME MachoInv, NEW c, MachoTurn(c), NEW valid, valid = {"cmds"}, NEW r, M!Fails(valid, r),
         UNCHANGED kept, MachoFaults, MachoOnly(r, kept), r.open = res.open, r.unsure = {},
         Mine(res.held, M!F.id) \subseteq Mine(r.held, M!F.id),
         \A w \in Mine(r.held, M!F.id) : w \in Mine(res.held, M!F.id) \/ (w = "sym" /\ faults' > 0)
  PROVE  MachoInv'
<1>1. /\ stack # <<>>
      /\ Mine(res.held, M!F.id) = Mine(kept, M!F.id) \cup {"cmds"} \cup M!F.sections
      /\ Mine(kept, M!F.id) \subseteq {"str", "symbols", "sdata"}
      /\ M!F.sections \subseteq TwoSections
      /\ res.open = {main.fd, M!F.fd} \ {NoFile}
  BY MachoTurns
<1>2. MachoMayFail(valid, r)
  BY <1>1 DEF MachoMayFail
<1>3. UNCHANGED <<disk, added>>
  BY DEF MachoTurn
<1>4. QED
  BY <1>1, <1>2, <1>3, MachoFails

\* The frame when the sections of a segment are had.
WithSections(f, place, got) == [f EXCEPT !.i = @ + 1, !.sections = @ \cup got, !.at = place]

LEMMA MachoSegment ==
  ASSUME MachoInv, NEW c, MachoTurn(c), c.cmd = "segment", M!Segment(c)
  PROVE  MachoInv'
<1> DEFINE p == "commands"
           view == {"cmds"}
           id == M!F.id
           T(got) == M!Taken(res, id, got)
           G(got) == WithSections(M!F, p, got)
<1>1. /\ stack # <<>> /\ MachoCall(M!F) /\ M!F.at = "commands" /\ M!F = [x \in MachoFields |-> M!F[x]]
      /\ M!F.file.is = "thin" /\ MachoThin(M!F.file)
      /\ Mine(res.held, id) = Mine(kept, id) \cup {"cmds"} \cup M!F.sections
      /\ MachoOnly(res, kept) /\ res.unsure = {} /\ faults \in Nat
  BY MachoTurns
<1>2. c.sections \subseteq TwoSections /\ HasSegment(M!F.file)
  BY <1>1 DEF MachoTurn, MachoThin, HasSegment, TwoSections
<1>3. PICK fault : /\ M!Count(fault) /\ UNCHANGED kept
                   /\ \/ M!Fails(view, res)
                      \/ \E got \in SUBSET c.sections :
                           M!Goes(G(got)) /\ res' = T(got) /\ UNCHANGED <<main, left>>
  <2> DEFINE some == c.sections
             had(fault) == IF c.overflow THEN {} ELSE some \ {fault}
  <2>1. \A fault : had(fault) \in SUBSET some
    OBVIOUS
  <2>2. PICK fault : /\ M!Count(fault) /\ UNCHANGED kept
                     /\ \/ M!Fails(view, res)
                        \/ M!Goes(G(had(fault))) /\ res' = T(had(fault)) /\ UNCHANGED <<main, left>>
    BY DEF M!Segment, WithSections
  <2> HIDE DEF had, G, T, view
  <2>3. QED
    BY <2>1, <2>2
<1>4. p = "commands" /\ view = {"cmds"}
  OBVIOUS
<1> HIDE DEF p, view, T, G
<1>5. MachoFaults
  BY <1>1, <1>3, MachoCount
<1>6. CASE M!Fails(view, res)
  <2>1. res.unsure = {}
    BY <1>1, <1>5 DEF MachoFaults
  <2>2. QED
    BY <1>1, <1>3, <1>4, <1>5, <1>6, <2>1, MachoCmdsFail
<1>7. ASSUME NEW got \in SUBSET c.sections, M!Goes(G(got)), res' = T(got), UNCHANGED <<main, left>>
      PROVE  MachoInv'
  <2> DEFINE g == G(got)
             t == T(got)
  <2>1. MachoOnly(t, kept) /\ t.open = res.open /\ t.unsure = res.unsure /\ Mine(t.held, id) = Mine(res.held, id) \cup got
    BY <1>1, MachoTaken DEF T
  <2> HIDE DEF t
  <2>2. MachoRead(M!F, g) /\ g.sections = M!F.sections \cup got /\ g.sym = M!F.sym
    <3> DEFINE f == M!F
    <3>1. f = [x \in MachoFields |-> f[x]] /\ f.at = "commands" /\ g = WithSections(f, p, got)
      BY <1>1 DEF G
    <3> HIDE DEF f, g
    <3>2. MachoRead(f, g) /\ g.sections = f.sections \cup got /\ g.sym = f.sym
      BY <1>4, <3>1 DEF MachoRead, MachoFields, WithSections
    <3>3. QED
      BY <3>2 DEF f
  <2> HIDE DEF g
  <2>3. MachoCall(g)
    <3>1. M!F.sym => M!F.symtab /\ HasSymtabBefore(M!F.file, M!F.i + 1)
      BY <1>1, MachoBefore
    <3>2. M!F.sym \in BOOLEAN /\ M!F.sections \subseteq TwoSections
      BY <1>1 DEF MachoCall
    <3>3. g.sections \subseteq TwoSections
      BY <1>2, <2>2, <3>2
    <3>4. QED
      BY <1>1, <1>2, <2>2, <3>1, <3>2, <3>3, MachoReads DEF MachoRead
  <2>4. MachoHolds("commands", g.sections, g.sym, g.fd, Mine(t.held, id), Mine(kept, id))
    <3>1. MachoHolds(p, M!F.sections, M!F.sym, M!F.fd, Mine(res.held, id), Mine(kept, id))
      <4>1. M!Reading(p)
        BY <1>4 DEF MachoTurn
      <4>2. QED
        BY <4>1, MachoAt
    <3>2. g.sym = M!F.sym /\ g.sections = M!F.sections \cup got /\ g.fd = M!F.fd
      BY <2>2 DEF MachoRead
    <3>3. Mine(t.held, id) = Mine(res.held, id) \cup got
      BY <2>1
    <3>4. QED
      BY ONLY <1>4, <3>1, <3>2, <3>3 DEF MachoHolds
  <2>5. M!Goes(g) /\ res' = t
    BY <1>7 DEF g, t
  <2>6. QED
    BY <1>3, <1>5, <1>7, <2>1, <2>2, <2>3, <2>4, <2>5, MachoLoops DEF id
<1>8. QED
  BY <1>3, <1>6, <1>7

\* The frame when the symbols are had.
WithSym(f, yes) == [f EXCEPT !.i = @ + 1, !.sym = yes]

LEMMA MachoSymtab ==
  ASSUME MachoInv, NEW c, MachoTurn(c), c.cmd = "symtab", M!F.symtab, M!Symtab(c)
  PROVE  MachoInv'
<1> DEFINE view == {"cmds"}
           two == {"sym", "str"}
           four == two \cup {"symbols", "sdata"}
           one == {"sym"}
           three == four \ {"sym"}
           yes == TRUE
           id == M!F.id
           r1 == M!Taken(res, id, one)
           r2 == M!Released(M!Taken(res, id, two), id, two)
           r4 == M!Released(M!Taken(res, id, four), id, one)
           g == WithSym(M!F, yes)
           more == Plus(kept, id, three)
<1>1. /\ stack # <<>> /\ MachoCall(M!F) /\ M!F.at = "commands" /\ M!F = [x \in MachoFields |-> M!F[x]]
      /\ M!F.file.is = "thin" /\ MachoThin(M!F.file)
      /\ Mine(res.held, id) = Mine(kept, id) \cup {"cmds"} \cup M!F.sections
      /\ (~M!F.sym => Mine(kept, id) = {}) /\ M!F.sections \subseteq TwoSections
      /\ MachoOnly(res, kept) /\ res.unsure = {} /\ faults \in Nat
  BY MachoTurns
<1>2. PICK fault : /\ M!Count(fault)
                   /\ \/ M!Fails(view, res) /\ UNCHANGED kept
                      \/ fault = "str" /\ M!Fails(view, r1) /\ UNCHANGED kept
                      \/ M!Fails(view, r2) /\ UNCHANGED kept
                      \/ M!Goes(g) /\ res' = r4 /\ kept' = more /\ UNCHANGED <<main, left>>
  BY DEF M!Symtab, M!Names, WithSym, Plus
<1>3. ~M!F.sym /\ Mine(kept, id) = {}
  <2>1. M!F.i \in DOMAIN M!F.file.cmds /\ M!F.file.cmds[M!F.i].cmd = "symtab" /\ M!F.i \in Nat
    BY <1>1 DEF MachoTurn, MachoCall
  <2>2. ~HasSymtabBefore(M!F.file, M!F.i)
    <3>0. M!F.file.is = "thin" /\ MachoThin(M!F.file)
      BY <1>1
    <3>1. \A j \in DOMAIN M!F.file.cmds : M!F.file.cmds[j].cmd = "symtab" => j = M!F.i
      BY ONLY <2>1, <3>0 DEF MachoThin
    <3>2. \A j \in 1 .. M!F.i - 1 : j # M!F.i
      BY <2>1
    <3>3. QED
      BY ONLY <3>1, <3>2 DEF HasSymtabBefore
  <2>3. QED
    BY <1>1, <2>2 DEF MachoCall
<1>4. MachoFaults /\ (fault # M!None => faults' > 0)
  BY <1>1, <1>2, MachoCount
<1>5. res.unsure = {}
  BY <1>1, <1>4 DEF MachoFaults
<1>6. MachoOnly(r1, kept) /\ r1.open = res.open /\ r1.unsure = res.unsure /\ Mine(r1.held, id) = Mine(res.held, id) \cup one
  BY <1>1, MachoTaken
<1>7. MachoOnly(r2, kept) /\ r2.open = res.open /\ r2.unsure = res.unsure /\ Mine(r2.held, id) = Mine(res.held, id) \ two
  <2> DEFINE t == M!Taken(res, id, two)
  <2>1. MachoOnly(t, kept) /\ t.open = res.open /\ t.unsure = res.unsure /\ Mine(t.held, id) = Mine(res.held, id) \cup two
    BY <1>1, MachoTaken
  <2> HIDE DEF t, two
  <2>2. two \subseteq Mine(t.held, id)
    BY <2>1
  <2>3. LET s == M!Released(t, M!F.id, two)
        IN  /\ MachoOnly(s, kept) /\ s.open = t.open /\ s.unsure = t.unsure
            /\ Mine(s.held, M!F.id) = Mine(t.held, M!F.id) \ two
    BY <2>1, <2>2, MachoReleased
  <2>4. QED
    BY <2>1, <2>3 DEF t
<1>8. /\ MachoOnly(r4, kept) /\ r4.open = res.open /\ r4.unsure = res.unsure
      /\ Mine(r4.held, id) = (Mine(res.held, id) \cup four) \ one
  <2> DEFINE t == M!Taken(res, id, four)
  <2>1. MachoOnly(t, kept) /\ t.open = res.open /\ t.unsure = res.unsure /\ Mine(t.held, id) = Mine(res.held, id) \cup four
    BY <1>1, MachoTaken
  <2> HIDE DEF t
  <2>2. one \subseteq Mine(t.held, id)
    BY <2>1
  <2> HIDE DEF one, four
  <2>3. LET s == M!Released(t, M!F.id, one)
        IN  /\ MachoOnly(s, kept) /\ s.open = t.open /\ s.unsure = t.unsure
            /\ Mine(s.held, M!F.id) = Mine(t.held, M!F.id) \ one
    BY <2>1, <2>2, MachoReleased
  <2>4. QED
    BY <2>1, <2>3 DEF t
<1> HIDE DEF r1, r2, r4
<1>9. CASE M!Fails(view, res) /\ UNCHANGED kept
  <2> HIDE DEF view
  <2>1. QED
    BY <1>1, <1>4, <1>5, <1>9, MachoCmdsFail DEF view
<1>10. CASE fault = "str" /\ M!Fails(view, r1) /\ UNCHANGED kept
  <2>1. faults' > 0
    BY <1>4, <1>10 DEF M!None
  <2>2. \A w \in Mine(r1.held, id) : w \in Mine(res.held, id) \/ (w = "sym" /\ faults' > 0)
    BY <1>6, <2>1
  <2>3. Mine(res.held, id) \subseteq Mine(r1.held, id)
    BY <1>6
  <2>4. view = {"cmds"}
    OBVIOUS
  <2> HIDE DEF view
  <2>5. QED
    BY <1>1, <1>4, <1>5, <1>6, <1>10, <2>2, <2>3, <2>4, MachoCmdsFail
<1>11. CASE M!Fails(view, r2) /\ UNCHANGED kept
  <2>1. Mine(r2.held, id) = Mine(res.held, id)
    BY <1>1, <1>3, <1>7 DEF TwoSections
  <2>4. view = {"cmds"}
    OBVIOUS
  <2> HIDE DEF view
  <2>5. QED
    BY <1>1, <1>4, <1>5, <1>7, <1>11, <2>1, <2>4, MachoCmdsFail
<1>12. CASE M!Goes(g) /\ res' = r4 /\ kept' = more /\ UNCHANGED <<main, left>>
  <2>1. MachoRead(M!F, g) /\ g.sections = M!F.sections /\ g.sym = yes
    <3> DEFINE f == M!F
    <3>1. f = [x \in MachoFields |-> f[x]] /\ f.at = "commands" /\ g = WithSym(f, yes)
      BY <1>1
    <3> HIDE DEF f, g, yes
    <3>2. MachoRead(f, g) /\ g.sections = f.sections /\ g.sym = yes
      BY <3>1 DEF MachoRead, MachoFields, WithSym
    <3>3. QED
      BY <3>2 DEF f
  <2> HIDE DEF g
  <2>2. MachoCall(g)
    <3>1. HasSymtabBefore(M!F.file, M!F.i + 1)
      <4>1. M!F.i \in Nat \ {0} /\ M!F.i \in DOMAIN M!F.file.cmds /\ M!F.file.cmds[M!F.i].cmd = "symtab"
        BY <1>1 DEF MachoCall, MachoTurn
      <4>2. M!F.i \in 1 .. M!F.i + 1 - 1
        BY <4>1
      <4>3. QED
        BY <4>1, <4>2 DEF HasSymtabBefore
    <3>2. M!F.sections \subseteq TwoSections /\ (M!F.sections # {} => HasSegment(M!F.file))
      BY <1>1 DEF MachoCall
    <3>3. QED
      BY <1>1, <2>1, <3>1, <3>2, MachoReads DEF MachoRead
  <2>3. Pairs(more) /\ Mine(more, id) = three /\ \A i : i # id => Mine(more, i) = Mine(kept, i)
    <3>1. Pairs(kept)
      BY <1>1 DEF MachoOnly
    <3> HIDE DEF three
    <3>2. QED
      BY <1>3, <3>1, PlusMine
  <2> HIDE DEF more
  <2>4. MachoOnly(r4, more)
    BY <1>8, <2>3 DEF MachoOnly, id
  <2>5. MachoHolds("commands", g.sections, g.sym, g.fd, Mine(r4.held, id), Mine(more, id))
    <3>1. g.fd = M!F.fd /\ M!F.fd # NoFile
      <4>1. M!Reading("commands")
        BY DEF MachoTurn
      <4>2. QED
        BY <2>1, <4>1, MachoAt DEF MachoRead, MachoHolds
    <3>2. QED
      BY <1>1, <1>3, <1>8, <2>1, <2>3, <3>1 DEF MachoHolds, TwoSections
  <2>6. QED
    BY <1>4, <1>8, <1>12, <2>1, <2>2, <2>4, <2>5, MachoLoops DEF id
<1>13. QED
  BY <1>2, <1>9, <1>10, <1>11, <1>12

LEMMA MachoCommand == MachoInv /\ M!Command => MachoInv'
<1> SUFFICES ASSUME MachoInv, M!Command PROVE MachoInv'
  OBVIOUS
<1> DEFINE c == M!F.file.cmds[M!F.i]
           p == "commands"
<1>1. MachoTurn(c)
  <2>1. M!Reading(p) /\ M!F.i <= Len(M!F.file.cmds)
    BY DEF M!Command
  <2>2. MachoCall(M!F) /\ M!F.at = p
    BY <2>1, MachoAt
  <2>3. M!F.file.cmds \in Seq(Range(M!F.file.cmds)) /\ M!F.i \in Nat \ {0}
    <3>1. M!F.file.is = "thin" /\ MachoThin(M!F.file) /\ M!F.i \in Nat \ {0}
      BY <2>2 DEF MachoCall, MachoFile
    <3>2. QED
      BY ONLY <3>1 DEF MachoThin
  <2>4. M!F.i \in DOMAIN M!F.file.cmds
    BY <2>1, <2>3
  <2>5. UNCHANGED <<disk, added>>
    BY DEF M!Command
  <2>6. QED
    BY <2>1, <2>4, <2>5 DEF MachoTurn
<1> DEFINE A == M!Segment(c)
           B == M!Symtab(c)
           G == M!Goes([M!F EXCEPT !.i = @ + 1, !.uuid = c.uuid]) /\ UNCHANGED <<main, res, kept, left, faults>>
           H == M!Goes([M!F EXCEPT !.i = @ + 1]) /\ UNCHANGED <<main, res, kept, left, faults>>
           a == c.cmd = "segment"
           b == c.cmd = "symtab" /\ M!F.symtab
           u == c.cmd = "uuid"
<1>2. \/ a /\ A
      \/ b /\ B
      \/ G
      \/ H
  <2>1. (CASE a -> A [] b -> B [] u -> G [] OTHER -> H)
    BY DEF M!Command
  <2>2. ~(a /\ b) /\ ~(a /\ u) /\ ~(b /\ u)
    OBVIOUS
  <2> HIDE DEF A, B, G, H, a, b, u
  <2>3. QED
    BY ONLY <2>1, <2>2
<1> HIDE DEF c, A, B, G, H
<1>3. CASE a /\ A
  BY <1>1, <1>3, MachoSegment DEF A
<1>4. CASE b /\ B
  BY <1>1, <1>4, MachoSymtab DEF B
<1>5. CASE G \/ H
  BY <1>1, <1>5, MachoOther DEF G, H
<1>6. QED
  BY <1>2, <1>3, <1>4, <1>5

LEMMA MachoLeft ==
  ASSUME MachoInv, stack # <<>>, NEW ret, NEW from, NEW r, M!Returns(ret, from, r)
  PROVE  \E l \in Range(left') : l.id = M!F.id /\ l.from = from
<1> DEFINE x == [id |-> M!F.id, path |-> M!F.path, from |-> from]
<1>1. x.id = M!F.id /\ x.from = from
  OBVIOUS
<1>2. left' = Append(left, x)
  BY DEF M!Returns
<1> HIDE DEF x
<1>3. IsStack(left') /\ left'[Len(left) + 1] = x /\ Len(left') = Len(left) + 1 /\ Len(left) \in Nat
  BY <1>2, Pushed, StackIs DEF MachoInv, MachoStack
<1>4. Len(left) + 1 \in DOMAIN left'
  BY <1>3, StackIs
<1>5. x \in Range(left')
  BY <1>3, <1>4 DEF Range
<1>6. QED
  BY <1>1, <1>5

\* The frame when its file is closed.
Shut(f, place, fd) == [f EXCEPT !.at = place, !.fd = fd]

LEMMA MachoShut ==
  ASSUME NEW f, MachoCall(f), NEW p, p = "dsym", NEW fd
  PROVE  LET g == Shut(f, p, fd)
         IN  /\ MachoCall(g) /\ g.at = p /\ g.id = f.id /\ g.fd = fd /\ g.symtab = f.symtab
             /\ g.sections = f.sections /\ g.sym = f.sym
<1> DEFINE g == Shut(f, p, fd)
<1>1. f = [x \in MachoFields |-> f[x]]
  BY DEF MachoCall
<1>2. /\ g = [x \in MachoFields |-> g[x]]
      /\ g.at = p /\ g.id = f.id /\ g.file = f.file /\ g.fd = fd /\ g.symtab = f.symtab
      /\ g.i = f.i /\ g.sections = f.sections /\ g.sym = f.sym
  BY <1>1 DEF MachoFields, Shut
<1> HIDE DEF g
<1>3. MachoCall(g)
  BY <1>2 DEF MachoCall, MachoPlaces
<1>4. QED
  BY <1>2, <1>3 DEF g

LEMMA MachoClose == MachoInv /\ M!Close => MachoInv'
<1> SUFFICES ASSUME MachoInv, M!Close PROVE MachoInv'
  OBVIOUS
<1> DEFINE p == "commands"
           dsym == "dsym"
           view == {"cmds"}
           ignored == "ignored"
           failed_ == "fail"
           dwarf == "dwarf"
           none == NoFile
           id == M!F.id
           held == Mine(res.held, id)
           refers == Mine(kept, id)
           some == M!F.sections
           closed == M!Closed(res, M!F.fd)
           unshut == M!CloseFails(res, M!F.fd)
           r == M!Released(closed, id, view)
           g == Shut(M!F, dsym, none)
           more == Plus(kept, id, some)
           one == [path |-> M!F.path, uuid |-> M!F.uuid, match |-> M!F.match]
<1>1. M!Reading(p) /\ UNCHANGED disk
  BY DEF M!Close
<1>2. PICK fault : /\ M!Count(fault)
                   /\ \/ fault = "close" /\ M!Fails(view, unshut) /\ UNCHANGED <<kept, added>>
                      \/ M!Returns(1, ignored, r) /\ UNCHANGED <<kept, added>>
                      \/ ~M!HaveDwarf /\ M!Goes(g) /\ res' = r /\ UNCHANGED <<main, kept, added, left>>
                      \/ M!Returns(0, failed_, r) /\ UNCHANGED <<kept, added>>
                      \/ /\ M!Returns(1, dwarf, r) /\ kept' = more /\ added' = added \cup {one}
                         /\ one.match # M!None => one.uuid = one.match
  <2>1. ~M!Ignored => (one.match # M!None => one.uuid = one.match)
    BY DEF M!Ignored
  <2>2. M!NoFile = none
    BY MachoResources
  <2> HIDE DEF none
  <2>3. QED
    BY <2>1, <2>2 DEF M!Close, Shut, Plus
<1>3. p = "commands" /\ dsym = "dsym" /\ view = {"cmds"} /\ ignored = "ignored" /\ failed_ = "fail"
  OBVIOUS
<1> HIDE DEF p, dsym, view, ignored, failed_, dwarf, none, held, refers, one
<1>4. /\ stack # <<>> /\ MachoCall(M!F)
      /\ MachoHolds(p, some, M!F.sym, M!F.fd, held, refers)
      /\ MachoOpen(res.open, main.fd, M!F.fd)
      /\ MachoOnly(res, kept) /\ res.unsure = {}
      /\ faults \in Nat
  BY <1>1, MachoAt DEF held, refers
<1>5. MachoFaults /\ (fault # M!None => faults' > 0)
  BY <1>2, <1>4, MachoCount
<1>6. /\ held = refers \cup view \cup some /\ refers \subseteq held /\ refers \subseteq {"str", "symbols", "sdata"}
      /\ ("symbols" \in refers <=> M!F.sym) /\ (~M!F.sym => refers = {}) /\ some \subseteq TwoSections
  BY <1>3, <1>4 DEF MachoHolds, MachoCall
<1>7. /\ MachoOnly(closed, kept) /\ closed.held = res.held /\ closed.unsure = res.unsure
      /\ closed.open = {main.fd} \ {NoFile}
  BY <1>4, MachoClosed DEF MachoOpen
<1>8. /\ MachoOnly(unshut, kept) /\ unshut.held = res.held /\ unshut.unsure = {M!F.fd}
       /\ unshut.open = {main.fd} \ {NoFile} /\ M!F.fd # NoFile
  <2>1. M!F.fd # NoFile
    BY <1>3, <1>4 DEF MachoHolds
  <2>2. main.fd # M!F.fd
    BY <1>4, <2>1 DEF MachoOpen
  <2>3. QED
    BY <1>4, <2>1, <2>2, MachoCloseFails DEF MachoOpen
<1> HIDE DEF closed, unshut
<1>9. /\ MachoOnly(r, kept) /\ r.open = {main.fd} \ {NoFile} /\ r.unsure = res.unsure
      /\ Mine(r.held, id) = refers \cup some
  <2>1. view \subseteq Mine(closed.held, M!F.id)
    BY <1>6, <1>7 DEF held
  <2>2. LET s == M!Released(closed, M!F.id, view)
        IN  /\ MachoOnly(s, kept) /\ s.open = closed.open /\ s.unsure = closed.unsure
            /\ Mine(s.held, M!F.id) = Mine(closed.held, M!F.id) \ view
    BY <1>7, <2>1, MachoReleased
  <2>3. held \ view = refers \cup some
    BY <1>3, <1>6 DEF TwoSections
  <2>4. QED
    BY <1>7, <2>2, <2>3 DEF held
<1> HIDE DEF r
<1>10. r.unsure = {}
  BY <1>4, <1>5, <1>9 DEF MachoFaults
<1>11. \A a \in added : a.match # M!None => a.uuid = a.match
  BY DEF MachoInv, MachoLedger
<1>12. \A w \in refers \cup some : w \in refers \/ w \in TwoSections
  BY <1>6
<1>13. CASE fault = "close" /\ M!Fails(view, unshut) /\ UNCHANGED <<kept, added>>
  <2>1. faults' > 0
    BY <1>5, <1>13 DEF M!None
  <2>2. MachoMayFail(view, unshut)
    <3>1. Mine(unshut.held, id) = held
      BY <1>8 DEF held
    <3>2. view \subseteq held /\ view \cap refers = {} /\ refers \subseteq held
      BY <1>3, <1>6
    <3>3. \A w \in held \ view : w \in refers \cup {"arch"} \cup TwoSections
      BY <1>6
    <3>4. QED
      BY <1>8, <2>1, <3>1, <3>2, <3>3 DEF MachoMayFail, refers
  <2>3. QED
    BY <1>1, <1>4, <1>5, <1>13, <2>2, MachoFails
<1>14. CASE M!Returns(1, ignored, r) /\ UNCHANGED <<kept, added>>
  <2>1. \E l \in Range(left') : l.id = id /\ l.from = ignored
    BY <1>4, <1>14, MachoLeft
  <2>2. MachoDone(id, refers \cup some, refers, left', faults')
    BY <1>3, <1>12, <2>1 DEF MachoDone
  <2>3. QED
    BY <1>1, <1>4, <1>5, <1>6, <1>9, <1>10, <1>11, <1>14, <2>2, MachoReturns DEF refers
<1>15. CASE M!Returns(0, failed_, r) /\ UNCHANGED <<kept, added>>
  <2>1. \E l \in Range(left') : l.id = id /\ l.from = failed_
    BY <1>4, <1>15, MachoLeft
  <2>2. MachoDone(id, refers \cup some, refers, left', faults')
    BY <1>3, <1>12, <2>1 DEF MachoDone
  <2>3. QED
    BY <1>1, <1>4, <1>5, <1>6, <1>9, <1>10, <1>11, <1>15, <2>2, MachoReturns DEF refers
<1>16. CASE ~M!HaveDwarf /\ M!Goes(g) /\ res' = r /\ UNCHANGED <<main, kept, added, left>>
  <2>1. some = {}
    BY <1>4, <1>16 DEF MachoCall, M!HaveDwarf, HasSegment
  <2>2. /\ MachoCall(g) /\ g.at = dsym /\ g.id = M!F.id /\ g.fd = none /\ g.symtab = M!F.symtab
        /\ g.sections = some /\ g.sym = M!F.sym
    BY <1>3, <1>4, MachoShut
  <2> HIDE DEF g
  <2>3. MachoFrame(g, Mine(r.held, M!F.id), refers)
    BY <1>3, <1>6, <1>9, <2>1, <2>2 DEF MachoFrame, MachoHolds, none
  <2>4. MachoOpen(r.open, main.fd, g.fd)
    BY <1>9, <2>2 DEF MachoOpen, none
  <2>5. M!Goes(g) /\ res' = r /\ UNCHANGED <<main, kept, added, left>>
    BY <1>16
  <2>6. QED
    BY <1>1, <1>4, <1>5, <1>9, <1>10, <2>2, <2>3, <2>4, <2>5, MachoGoes DEF refers
<1>17. CASE /\ M!Returns(1, dwarf, r) /\ kept' = more /\ added' = added \cup {one}
            /\ one.match # M!None => one.uuid = one.match
  <2>1. Pairs(more) /\ Mine(more, id) = refers \cup some /\ \A i : i # id => Mine(more, i) = Mine(kept, i)
    <3>1. Pairs(kept)
      BY <1>4 DEF MachoOnly
    <3> HIDE DEF some, id
    <3>2. QED
      BY <3>1, PlusMine DEF refers
  <2> HIDE DEF more
  <2>2. MachoOnly(r, more)
    BY <1>9, <2>1 DEF MachoOnly, id
  <2>3. MachoDone(id, refers \cup some, refers \cup some, left', faults')
    BY DEF MachoDone
  <2>4. "symbols" \in refers \cup some <=> M!F.sym
    BY <1>6 DEF TwoSections
  <2>5. \A a \in added' : a.match # M!None => a.uuid = a.match
    BY <1>11, <1>17
  <2>6. M!Returns(1, dwarf, r) /\ kept' = more
    BY <1>17
  <2>7. QED
    BY <1>1, <1>4, <1>5, <1>9, <1>10, <2>1, <2>2, <2>3, <2>4, <2>5, <2>6, MachoReturns
<1>18. QED
  BY <1>2, <1>13, <1>14, <1>15, <1>16, <1>17

\* Calls below the one at work are not touched by what it does.
LEMMA MachoLower ==
  ASSUME MachoInv, stack # <<>>, NEW g, g.id = M!F.id, g.at = "indsym", g.symtab = M!F.symtab, MachoCall(g),
         MachoFrame(g, Mine(res'.held, M!F.id), Mine(kept, M!F.id)),
         \A i : i # M!F.id => Mine(res'.held, i) = Mine(res.held, i)
  PROVE  MachoBelow(WithLast(stack, g)) /\ WithLast(stack, g) # <<>>
<1> DEFINE n == Len(stack)
           base == WithLast(stack, g)
<1>1. /\ M!F = stack[n] /\ n \in 1 .. n /\ n \in Nat /\ IsStack(stack) /\ Distinct(stack) /\ (n > 1 => ~M!F.symtab)
  BY MachoTop DEF MachoInv, MachoStack
<1>2. /\ IsStack(base) /\ base # <<>> /\ Len(base) = n /\ base[n] = g
      /\ \A j \in 1 .. n - 1 : base[j] = stack[j]
  BY <1>1, Replaced
<1>3. Distinct(base) /\ \A i : OnStack(base, i) <=> OnStack(stack, i)
  BY <1>1, ReplacedIds
<1>4. \A j \in 1 .. n - 1 : j \in 1 .. n /\ j < n /\ stack[j].id # M!F.id
  BY <1>1 DEF Distinct
<1>5. \A j \in 1 .. n : j = n \/ j \in 1 .. n - 1
  BY <1>1
<1> HIDE DEF n, base
<1>6. ASSUME NEW j \in 1 .. n
      PROVE  /\ MachoFrame(base[j], Mine(res'.held, base[j].id), Mine(kept, base[j].id))
             /\ base[j].id = stack[j].id
             /\ base[j].at = "indsym"
             /\ j > 1 => ~base[j].symtab
  <2>1. CASE j = n
    BY <1>1, <1>2, <2>1
  <2>2. CASE j \in 1 .. n - 1
    <3>1. /\ MachoFrame(stack[j], Mine(res.held, stack[j].id), Mine(kept, stack[j].id))
          /\ j < n => stack[j].at = "indsym"
          /\ j > 1 => ~stack[j].symtab
      BY DEF MachoInv, MachoStack, n
    <3>2. QED
      BY <1>2, <1>4, <2>2, <3>1
  <2>3. QED
    BY <1>5, <2>1, <2>2
<1>7. QED
  BY <1>2, <1>3, <1>6 DEF MachoBelow, base, n

\* The call is of a file that is there: the domain of the disk.
LEMMA MachoDsym == MachoInv /\ M!Dsym => MachoInv'
<1> SUFFICES ASSUME MachoInv, M!Dsym PROVE MachoInv'
  OBVIOUS
<1> DEFINE p == "dsym"
           indsym == "indsym"
           what == {"dsym"}
           none == {}
           nothing == "none"
           id == M!F.id
           held == Mine(res.held, id)
           refers == Mine(kept, id)
           f == [M!F EXCEPT !.at = indsym]
           base == WithLast(stack, f)
           d == M!DsymOf(M!F.path)
           fd == Descriptor(M!NextId)
           g == M!Call(M!NextId, d, fd, M!F.uuid, FALSE)
           t == M!Taken(res, id, what)
           r == Opened(t, fd)
<1>1. M!Reading(p) /\ UNCHANGED <<disk, kept, added>>
  BY DEF M!Dsym
<1>2. \/ M!Returns(1, nothing, res) /\ UNCHANGED faults
      \/ \E fault : /\ M!Count(fault)
                    /\ \/ M!Fails(none, res)
                       \/ M!Returns(1, nothing, res)
                       \/ d \in DOMAIN disk /\ stack' = Append(base, g) /\ res' = r /\ UNCHANGED <<main, left>>
  <2>1. M!Descriptor(M!NextId) = fd /\ M!Opened(t, fd) = r
    BY MachoResources
  <2> HIDE DEF fd
  <2>2. WithLast(stack, f) = [stack EXCEPT ![Len(stack)].at = indsym]
    BY DEF WithLast, M!F, M!Last
  <2> HIDE DEF f
  <2>3. QED
    BY <2>1, <2>2 DEF M!Dsym
<1>3. p = "dsym" /\ indsym = "indsym" /\ what = {"dsym"} /\ nothing = "none" /\ indsym \in MachoPlaces
  BY DEF MachoPlaces
<1> HIDE DEF p, indsym, what, nothing, none
<1>4. /\ stack # <<>> /\ MachoCall(M!F)
      /\ MachoHolds(p, M!F.sections, M!F.sym, M!F.fd, held, refers)
      /\ MachoOpen(res.open, main.fd, M!F.fd)
      /\ MachoOnly(res, kept) /\ res.unsure = {}
      /\ faults \in Nat
  BY <1>1, MachoAt
<1>5. /\ held = refers /\ ("symbols" \in refers <=> M!F.sym) /\ M!F.fd = NoFile
      /\ res.open = {main.fd} \ {NoFile} /\ refers \subseteq {"str", "symbols", "sdata"} /\ (~M!F.sym => refers = {})
  BY <1>3, <1>4 DEF MachoHolds, MachoOpen
<1>6. \A a \in added : a.match # M!None => a.uuid = a.match
  BY DEF MachoInv, MachoLedger
<1>7. ASSUME M!Returns(1, nothing, res), MachoFaults PROVE MachoInv'
  <2>1. MachoDone(id, held, refers, left', faults')
    BY <1>5 DEF MachoDone
  <2>2. res.unsure = {}
    BY <1>4, <1>7 DEF MachoFaults
  <2>3. MachoOnly(res, kept') /\ \A a \in added' : a.match # M!None => a.uuid = a.match
    BY <1>1, <1>4, <1>6
  <2> HIDE DEF held, refers
  <2>4. MachoDone(id, Mine(res.held, id), Mine(kept', id), left', faults') /\ ("symbols" \in Mine(kept', id) <=> M!F.sym)
    BY <1>1, <1>5, <2>1 DEF held, refers
  <2>5. QED
    BY <1>1, <1>4, <1>5, <1>7, <2>2, <2>3, <2>4, MachoReturns DEF id
<1>8. CASE M!Returns(1, nothing, res) /\ UNCHANGED faults
  <2>1. MachoFaults
    BY <1>4, <1>8 DEF MachoFaults
  <2>2. QED
    BY <1>7, <1>8, <2>1
<1>9. ASSUME NEW fault, M!Count(fault),
             \/ M!Fails(none, res)
             \/ M!Returns(1, nothing, res)
             \/ d \in DOMAIN disk /\ stack' = Append(base, g) /\ res' = r /\ UNCHANGED <<main, left>>
      PROVE  MachoInv'
  <2>1. MachoFaults
    BY <1>4, <1>9, MachoCount
  <2>2. CASE M!Fails(none, res)
    <3>1. MachoMayFail(none, res)
      BY <1>4, <1>5, <2>1 DEF MachoMayFail, MachoOpen, MachoFaults, none
    <3>2. QED
      BY <1>1, <1>4, <2>1, <2>2, <3>1, MachoFails
  <2>3. CASE M!Returns(1, nothing, res)
    BY <1>7, <2>1, <2>3
  <2>4. CASE d \in DOMAIN disk /\ stack' = Append(base, g) /\ res' = r /\ UNCHANGED <<main, left>>
    <3>1. /\ M!NextId \in Nat \ {0} /\ ~OnStack(stack, M!NextId) /\ fd # NoFile /\ fd # main.fd
          /\ OnStack(stack, id)
      <4>1. main.fd \in {NoFile, Descriptor(0)}
        BY DEF MachoInv, MachoMain
      <4>2. M!NextId # 0
        BY MachoNextId
      <4>3. QED
        BY <1>4, <4>1, <4>2, MachoNextId, MachoTop, DescriptorIs
    <3>2. /\ MachoCall(g) /\ MachoHolds(g.at, g.sections, g.sym, g.fd, {}, {})
          /\ g.id = M!NextId /\ g.fd = fd /\ (g.symtab <=> FALSE)
      <4> DEFINE no == FALSE
      <4>1. no \in BOOLEAN /\ d \in DOMAIN disk
        BY <2>4
      <4> HIDE DEF d, fd, no
      <4>2. LET k == M!Call(M!NextId, d, fd, M!F.uuid, no)
            IN  /\ MachoCall(k) /\ MachoHolds(k.at, k.sections, k.sym, k.fd, {}, {})
                /\ k.id = M!NextId /\ k.fd = fd /\ (k.symtab <=> no)
        BY <3>1, <4>1, MachoCalls
      <4>3. QED
        BY <4>2 DEF no
    <3>3. MachoOnly(t, kept) /\ t.open = res.open /\ t.unsure = res.unsure /\ Mine(t.held, id) = held \cup what
      BY <1>4, MachoTaken
    <3> HIDE DEF t, g, fd
    <3>4. Ledger(r) /\ r.held = t.held /\ r.unsure = t.unsure /\ r.open = t.open \cup {fd}
      BY <3>3, OpenedIs DEF MachoOnly
    <3> HIDE DEF r
    <3>5. /\ MachoCall(f) /\ f.at = indsym /\ f.id = M!F.id /\ f.fd = M!F.fd /\ f.symtab = M!F.symtab
          /\ f.sections = M!F.sections /\ f.sym = M!F.sym
      BY <1>3, <1>4, MachoPlace
    <3> HIDE DEF f
    <3>6. MachoFrame(f, Mine(r.held, id), Mine(kept, id))
      BY <1>3, <1>5, <3>3, <3>4, <3>5 DEF MachoFrame, MachoHolds
    <3>7. MachoBelow(base) /\ base # <<>>
      BY <1>3, <1>4, <2>4, <3>3, <3>4, <3>5, <3>6, MachoLower DEF MachoOnly
    <3> HIDE DEF base
    <3>8. stack' = Append(base, g) /\ stack' # <<>>
      BY <2>4, <3>7, Pushed DEF MachoBelow
    <3>9. MachoMain'
      BY <1>1, <2>4, <3>8, MachoTop, <1>4 DEF MachoInv, MachoMain
    <3>10. MachoOpen(res'.open, main'.fd, g.fd)
      BY <1>5, <2>4, <3>1, <3>2, <3>3, <3>4 DEF MachoOpen
    <3>11. Ledger(res') /\ res'.unsure = {}
           /\ \A i : ~OnStack(stack, i) => Mine(res'.held, i) = Mine(res.held, i)
      BY <1>4, <2>1, <2>4, <3>1, <3>3, <3>4 DEF MachoOnly, MachoFaults
    <3>12. UNCHANGED <<disk, kept, added, left>> /\ (main'.sym <=> main.sym)
      BY <1>1, <2>4
    <3>13. QED
      BY <2>1, <3>2, <3>7, <3>8, <3>9, <3>10, <3>11, <3>12, MachoPushes
  <2>5. QED
    BY <1>9, <2>2, <2>3, <2>4
<1>10. QED
  BY <1>2, <1>8, <1>9

LEMMA MachoAfterDsym == MachoInv /\ M!AfterDsym => MachoInv'
<1> SUFFICES ASSUME MachoInv, M!AfterDsym PROVE MachoInv'
  OBVIOUS
<1> DEFINE p == "indsym"
           what == {"dsym"}
           none == {}
           dsym == "dsym"
           id == M!F.id
           held == Mine(res.held, id)
           refers == Mine(kept, id)
           r == M!Released(res, id, what)
<1>1. M!Reading(p) /\ UNCHANGED <<disk, kept, added, faults>>
  BY DEF M!AfterDsym
<1>2. M!Fails(none, r) \/ M!Returns(1, dsym, r)
  BY DEF M!AfterDsym
<1>3. p = "indsym" /\ what = {"dsym"} /\ none = {}
  OBVIOUS
<1> HIDE DEF p, what, none, dsym
<1>4. /\ stack # <<>> /\ MachoCall(M!F)
      /\ MachoHolds(p, M!F.sections, M!F.sym, M!F.fd, held, refers)
      /\ MachoOpen(res.open, main.fd, M!F.fd)
      /\ MachoOnly(res, kept) /\ res.unsure = {}
      /\ faults \in Nat
  BY <1>1, MachoAt
<1>5. /\ held = refers \cup what /\ refers \subseteq {"str", "symbols", "sdata"}
      /\ ("symbols" \in refers <=> M!F.sym) /\ M!F.fd = NoFile
      /\ res.open = {main.fd} \ {NoFile}
  BY <1>3, <1>4 DEF MachoHolds, MachoOpen
<1>6. MachoOnly(r, kept) /\ r.open = res.open /\ r.unsure = res.unsure /\ Mine(r.held, id) = refers
  <2>1. what \subseteq Mine(res.held, id)
    BY <1>5
  <2>2. LET s == M!Released(res, M!F.id, what)
        IN  /\ MachoOnly(s, kept) /\ s.open = res.open /\ s.unsure = res.unsure
            /\ Mine(s.held, M!F.id) = Mine(res.held, M!F.id) \ what
    BY <1>4, <2>1, MachoReleased
  <2>3. held \ what = refers
    BY <1>3, <1>5
  <2>4. QED
    BY <2>2, <2>3
<1> HIDE DEF r
<1>7. MachoFaults /\ r.unsure = {}
  BY <1>1, <1>4, <1>6 DEF MachoFaults
<1>8. CASE M!Fails(none, r)
  <2>1. MachoMayFail(none, r)
    BY <1>3, <1>5, <1>6, <1>7 DEF MachoMayFail
  <2>2. QED
    BY <1>1, <1>4, <1>7, <1>8, <2>1, MachoFails
<1>9. CASE M!Returns(1, dsym, r)
  <2>1. \A a \in added' : a.match # M!None => a.uuid = a.match
    BY <1>1 DEF MachoInv, MachoLedger
  <2>2. MachoDone(id, refers, refers, left', faults')
    BY DEF MachoDone
  <2> HIDE DEF held, refers
  <2>3. MachoDone(id, Mine(r.held, id), Mine(kept', id), left', faults') /\ ("symbols" \in Mine(kept', id) <=> M!F.sym)
    BY <1>1, <1>5, <1>6, <2>2 DEF refers
  <2>4. QED
    BY <1>1, <1>4, <1>5, <1>6, <1>7, <1>9, <2>1, <2>3, MachoReturns DEF id
<1>10. QED
  BY <1>2, <1>8, <1>9

\* backtrace_initialize at another place, the ledger as it is but for what is open.
LEMMA MachoMainMoves ==
  ASSUME MachoInv, stack = <<>>, UNCHANGED <<disk, stack, kept, added, left, faults>>, MachoMain',
         main'.sym <=> main.sym, Ledger(res'), res'.held = res.held, res'.unsure = res.unsure,
         MachoOpen(res'.open, main'.fd, NoFile)
  PROVE  MachoInv'
<1>1. MachoLedger'
  BY DEF MachoInv, MachoLedger
<1>2. MachoStack'
  BY DEF MachoInv, MachoStack
<1>3. MachoRest'
  <2>1. MachoRest
    BY DEF MachoInv
  <2>2. QED
    BY <2>1 DEF MachoRest
<1>4. MachoFd' = NoFile
  BY DEF MachoFd
<1>5. QED
  BY <1>1, <1>2, <1>3, <1>4 DEF MachoInv

\* Between images.
LEMMA MachoBetween ==
  ASSUME MachoInv, stack = <<>>
  PROVE  /\ main = [x \in MachoMainFields |-> main[x]]
         /\ main.exe \in DOMAIN disk
         /\ main.fd \in {NoFile, Descriptor(0)} /\ main.sym \in BOOLEAN
         /\ Ledger(res) /\ MachoOpen(res.open, main.fd, NoFile) /\ res.unsure = {} /\ faults \in Nat
<1>1. MachoFd = NoFile
  BY DEF MachoFd
<1>2. QED
  BY <1>1 DEF MachoInv, MachoMain, MachoLedger

LEMMA MachoImage == MachoInv /\ M!Image => MachoInv'
<1> SUFFICES ASSUME MachoInv, M!Image PROVE MachoInv'
  OBVIOUS
<1> DEFINE name == Head(main.todo)
           rest == Tail(main.todo)
           none == NoFile
           images == "images"
           image == "image"
           fd == Descriptor(M!NextId)
           own == name = main.exe /\ main.fd # none
           Next_(place, mine) == [main EXCEPT !.todo = rest, !.fd = mine, !.at = place]
           G(x) == M!Call(M!NextId, name, x, M!None, TRUE)
<1>1. stack = <<>> /\ main.at = images /\ UNCHANGED <<disk, kept, added, left, faults>>
  BY DEF M!Image
<1>2. \/ /\ own /\ main' = Next_(image, none) /\ stack' = <<G(main.fd)>> /\ res' = res
      \/ /\ ~own /\ name \in DOMAIN disk /\ main' = Next_(image, main.fd)
         /\ stack' = <<G(fd)>> /\ res' = Opened(res, fd)
      \/ /\ ~own /\ main' = Next_(images, main.fd) /\ UNCHANGED <<stack, res>>
  <2>1. M!Descriptor(M!NextId) = fd /\ M!Opened(res, fd) = Opened(res, fd) /\ M!NoFile = none
    BY MachoResources
  <2> HIDE DEF fd, none, G, name, rest
  <2>2. QED
    BY <2>1 DEF M!Image, G, name, rest
<1>3. images = "images" /\ image = "image" /\ none = NoFile
  OBVIOUS
<1>4. /\ main = [x \in MachoMainFields |-> main[x]]
      /\ main.exe \in DOMAIN disk
      /\ main.fd \in {NoFile, Descriptor(0)} /\ main.sym \in BOOLEAN
      /\ Ledger(res) /\ MachoOpen(res.open, main.fd, NoFile) /\ res.unsure = {} /\ faults \in Nat
  BY <1>1, MachoBetween
<1>5. ASSUME NEW place, NEW mine, main' = Next_(place, mine)
      PROVE  /\ main' = [x \in MachoMainFields |-> main'[x]]
             /\ main'.exe = main.exe /\ main'.fd = mine /\ main'.sym = main.sym /\ main'.at = place
  BY <1>4, <1>5 DEF MachoMainFields
<1> HIDE DEF images, image, fd, none, G, Next_, name, rest
<1>6. /\ M!NextId \in Nat \ {0} /\ fd # NoFile /\ fd # main.fd /\ Len(stack) = 0
  BY <1>1, <1>4, MachoNextId, DescriptorIs, StackIs DEF fd, MachoInv, MachoStack
<1>7. MachoFaults
  BY <1>1, <1>4 DEF MachoFaults
<1>8. ASSUME NEW x, x # NoFile, name \in DOMAIN disk, stack' = <<G(x)>>,
             main' = Next_(image, none) \/ main' = Next_(image, main.fd),
             Ledger(res'), res'.held = res.held, res'.unsure = res.unsure,
             MachoOpen(res'.open, main'.fd, x)
      PROVE  MachoInv'
  <2>1. /\ MachoCall(G(x)) /\ MachoHolds(G(x).at, G(x).sections, G(x).sym, G(x).fd, {}, {})
        /\ G(x).id = M!NextId /\ G(x).fd = x
    <3> DEFINE yes == TRUE
               none_ == M!None
    <3>1. yes \in BOOLEAN
      OBVIOUS
    <3> HIDE DEF yes, none_
    <3>2. LET k == M!Call(M!NextId, name, x, none_, yes)
          IN  /\ MachoCall(k) /\ MachoHolds(k.at, k.sections, k.sym, k.fd, {}, {})
              /\ k.id = M!NextId /\ k.fd = x /\ (k.symtab <=> yes)
      BY <1>8, <3>1, MachoCalls
    <3>3. QED
      BY <3>2 DEF yes, none_, G
  <2>2. MachoBelow(stack)
    BY <1>1, <1>6 DEF MachoBelow, MachoInv, MachoStack
  <2>3. stack' = Append(stack, G(x)) /\ stack' # <<>>
    BY <1>1, <1>8
  <2>4. /\ main' = [y \in MachoMainFields |-> main'[y]]
        /\ main'.exe = main.exe /\ main'.fd \in {NoFile, Descriptor(0)} /\ main'.sym = main.sym
        /\ main'.at = "image"
    BY <1>3, <1>4, <1>5, <1>8
  <2>5. MachoMain'
    BY <1>1, <1>4, <2>4 DEF MachoMain
  <2>6. res'.unsure = {}
    BY <1>1, <1>4, <1>8
  <2> DEFINE g == G(x)
  <2>7. /\ MachoCall(g) /\ MachoHolds(g.at, g.sections, g.sym, g.fd, {}, {})
        /\ g.id = M!NextId /\ stack' = Append(stack, g) /\ MachoOpen(res'.open, main'.fd, g.fd)
    BY <1>8, <2>1, <2>3
  <2> HIDE DEF g
  <2>8. UNCHANGED <<disk, kept, added, left>> /\ (main'.sym <=> main.sym) /\ ~(Len(stack) > 0)
    BY <1>1, <1>6, <2>4
  <2>9. \A i : ~OnStack(stack, i) => Mine(res'.held, i) = Mine(res.held, i)
    BY <1>8
  <2>10. QED
    BY <1>7, <1>8, <2>2, <2>5, <2>6, <2>7, <2>8, <2>9, MachoPushes
<1>9. CASE own /\ main' = Next_(image, none) /\ stack' = <<G(main.fd)>> /\ res' = res
  <2>1. main.fd # NoFile /\ name \in DOMAIN disk
    BY <1>3, <1>4, <1>9
  <2>2. main'.fd = NoFile
    BY <1>3, <1>5, <1>9
  <2>3. MachoOpen(res.open, NoFile, main.fd)
    BY <1>4, <2>1 DEF MachoOpen
  <2>4. QED
    BY <1>4, <1>8, <1>9, <2>1, <2>2, <2>3
<1>10. CASE /\ ~own /\ name \in DOMAIN disk /\ main' = Next_(image, main.fd)
            /\ stack' = <<G(fd)>> /\ res' = Opened(res, fd)
  <2>1. /\ Ledger(Opened(res, fd)) /\ Opened(res, fd).held = res.held
        /\ Opened(res, fd).unsure = res.unsure /\ Opened(res, fd).open = res.open \cup {fd}
    BY <1>4, OpenedIs
  <2>2. main'.fd = main.fd
    BY <1>5, <1>10
  <2>3. MachoOpen(res'.open, main.fd, fd)
    BY <1>4, <1>6, <1>10, <2>1 DEF MachoOpen
  <2>4. QED
    BY <1>6, <1>8, <1>10, <2>1, <2>2, <2>3
<1>11. CASE ~own /\ main' = Next_(images, main.fd) /\ UNCHANGED <<stack, res>>
  <2>1. /\ main' = [x \in MachoMainFields |-> main'[x]]
        /\ main'.exe = main.exe /\ main'.fd = main.fd /\ main'.sym = main.sym /\ main'.at = images
    BY <1>5, <1>11
  <2>2. MachoMain'
    BY <1>1, <1>3, <1>4, <1>11, <2>1 DEF MachoMain
  <2>3. QED
    BY <1>1, <1>4, <1>11, <2>1, <2>2, MachoMainMoves
<1>12. QED
  BY <1>2, <1>9, <1>10, <1>11

LEMMA MachoAfterImage == MachoInv /\ M!AfterImage => MachoInv'
<1> SUFFICES ASSUME MachoInv, M!AfterImage PROVE MachoInv'
  OBVIOUS
<1> DEFINE place == IF main.ret = 0 THEN "failed" ELSE "images"
<1>1. stack = <<>> /\ main' = [main EXCEPT !.at = place] /\ UNCHANGED <<disk, stack, res, kept, added, left, faults>>
  BY DEF M!AfterImage
<1>2. place \in {"failed", "images"}
  OBVIOUS
<1> HIDE DEF place
<1>3. /\ main = [x \in MachoMainFields |-> main[x]]
      /\ main.exe \in DOMAIN disk
      /\ main.fd \in {NoFile, Descriptor(0)} /\ main.sym \in BOOLEAN
      /\ Ledger(res) /\ MachoOpen(res.open, main.fd, NoFile)
  BY <1>1, MachoBetween
<1>4. /\ main' = [x \in MachoMainFields |-> main'[x]] /\ main'.at = place
      /\ main'.exe = main.exe /\ main'.fd = main.fd /\ main'.sym = main.sym
  BY <1>1, <1>3 DEF MachoMainFields
<1>5. MachoMain'
  BY <1>1, <1>2, <1>3, <1>4 DEF MachoMain
<1>6. QED
  BY <1>1, <1>3, <1>4, <1>5, MachoMainMoves

LEMMA MachoFinish == MachoInv /\ M!Finish => MachoInv'
<1> SUFFICES ASSUME MachoInv, M!Finish PROVE MachoInv'
  OBVIOUS
<1> DEFINE none == NoFile
           syminfo_ == IF main.sym THEN "macho_syminfo" ELSE "macho_nosyms"
           r == Closed(res, main.fd)
<1>1. /\ stack = <<>> /\ main' = [main EXCEPT !.at = "done", !.fd = none, !.syminfo = syminfo_]
      /\ res' = r /\ UNCHANGED <<disk, stack, kept, added, left, faults>>
  BY MachoResources DEF M!Finish
<1>2. syminfo_ = "macho_syminfo" <=> main.sym
  OBVIOUS
<1> HIDE DEF syminfo_, none
<1>3. /\ main = [x \in MachoMainFields |-> main[x]]
      /\ main.exe \in DOMAIN disk
      /\ main.fd \in {NoFile, Descriptor(0)} /\ main.sym \in BOOLEAN
      /\ Ledger(res) /\ res.unsure = {} /\ MachoOpen(res.open, main.fd, NoFile)
  BY <1>1, MachoBetween
<1>4. /\ main' = [x \in MachoMainFields |-> main'[x]] /\ main'.at = "done"
      /\ main'.exe = main.exe /\ main'.fd = NoFile /\ main'.sym = main.sym /\ main'.syminfo = syminfo_
  BY <1>1, <1>3 DEF MachoMainFields, none
<1>5. MachoMain'
  BY <1>1, <1>2, <1>3, <1>4 DEF MachoMain
<1>6. /\ Ledger(r) /\ r.held = res.held
      /\ main.fd = NoFile => r = res
      /\ main.fd # NoFile => /\ r.open = res.open \ {main.fd}
                             /\ r.unsure = res.unsure \ {main.fd}
  <2>1. main.fd # NoFile => main.fd \in res.open
    BY <1>3 DEF MachoOpen
  <2>2. QED
    BY <1>3, <2>1, ClosedIs
<1> HIDE DEF r
<1>7. r.unsure = res.unsure /\ MachoOpen(r.open, NoFile, NoFile)
  BY <1>3, <1>6 DEF MachoOpen
<1>8. QED
  BY <1>1, <1>4, <1>5, <1>6, <1>7, MachoMainMoves

LEMMA MachoStep ==
  MachoInv /\ (M!Next \/ UNCHANGED <<disk, main, stack, res, kept, added, left, faults>>) => MachoInv'
<1>1. ASSUME MachoInv, UNCHANGED <<disk, main, stack, res, kept, added, left, faults>> PROVE MachoInv'
  <2>1. MachoFd' = MachoFd
    BY <1>1 DEF MachoFd
  <2>2. MachoLedger' /\ MachoMain' /\ MachoStack'
    BY <1>1 DEF MachoInv, MachoLedger, MachoMain, MachoStack
  <2>3. MachoRest'
    <3>1. MachoRest
      BY <1>1 DEF MachoInv
    <3>2. QED
      BY <1>1, <3>1 DEF MachoRest
  <2>4. MachoOpen(res'.open, main'.fd, MachoFd')
    BY <1>1, <2>1 DEF MachoInv
  <2>5. QED
    BY <2>2, <2>3, <2>4 DEF MachoInv
<1>2. QED
  BY <1>1, MachoHeader, MachoFat, MachoCommand, MachoClose, MachoDsym, MachoAfterDsym, MachoImage,
     MachoAfterImage, MachoFinish DEF M!Next, M!vars

LEMMA MachoGood == MachoInv => M!NothingDangles /\ M!AllReleased /\ M!RightFile
<1> SUFFICES ASSUME MachoInv PROVE M!NothingDangles /\ M!AllReleased /\ M!RightFile
  OBVIOUS
<1>1. Ledger(res) /\ Pairs(res.held) /\ Pairs(kept) /\ res.unsure = {} /\ ~res.twice
      /\ \A a \in added : a.match # M!None => a.uuid = a.match
  BY DEF MachoInv, MachoLedger, Ledger
<1>2. M!NothingDangles
  <2>1. ASSUME NEW i PROVE Mine(kept, i) \subseteq Mine(res.held, i)
    <3>1. CASE OnStack(stack, i)
      <4>1. PICK j \in 1 .. Len(stack) : stack[j].id = i
        BY <3>1 DEF OnStack
      <4>2. MachoFrame(stack[j], Mine(res.held, i), Mine(kept, i))
        BY <4>1 DEF MachoInv, MachoStack
      <4>3. QED
        BY <4>2 DEF MachoFrame, MachoHolds
    <3>2. CASE ~OnStack(stack, i)
      BY <3>2 DEF MachoInv, MachoRest, MachoDone
    <3>3. QED
      BY <3>1, <3>2
  <2>2. kept \subseteq res.held
    BY <1>1, <2>1, HeldBy
  <2>3. QED
    BY <1>1, <2>2 DEF M!NothingDangles
<1>3. ASSUME main.at \in {"done", "failed"}
      PROVE  stack = <<>> /\ MachoOpen(res.open, main.fd, NoFile) /\ \A i : ~OnStack(stack, i)
  <2>1. stack = <<>>
    BY <1>3 DEF MachoInv, MachoMain
  <2>2. MachoFd = NoFile
    BY <2>1 DEF MachoFd
  <2>3. Len(stack) = 0
    BY <2>1
  <2>4. QED
    BY <2>1, <2>2, <2>3 DEF MachoInv, OnStack
<1>4. M!AllReleased
  <2>1. ASSUME main.at \in {"done", "failed"} PROVE res.open = {} \/ (main.at = "failed" /\ res.open = {main.fd})
    BY <1>3, <2>1 DEF MachoInv, MachoMain, MachoOpen
  <2>2. ASSUME main.at \in {"done", "failed"}, NEW h \in res.held \ kept
        PROVE  \/ h[2] = "arch"
               \/ h[2] = "sym" /\ faults > 0
               \/ /\ h[2] \in TwoSections
                  /\ \E l \in Range(left) : l.id = h[1] /\ l.from \in {"ignored", "fail"}
    <3>1. h = <<h[1], h[2]>>
      BY <1>1, <2>2 DEF Pairs
    <3>2. h[2] \in Mine(res.held, h[1]) /\ h[2] \notin Mine(kept, h[1])
      BY <1>1, <2>2, <3>1, MineIs
    <3>3. MachoDone(h[1], Mine(res.held, h[1]), Mine(kept, h[1]), left, faults)
      BY <1>3, <2>2 DEF MachoInv, MachoRest
    <3>4. QED
      BY ONLY <3>2, <3>3 DEF MachoDone
  <2>3. M!Range(left) = Range(left)
    BY DEF M!Range, Range
  <2>4. QED
    BY <2>1, <2>2, <2>3 DEF M!AllReleased, M!Ended, TwoSections
<1>5. M!RightFile
  <2>1. ASSUME main.at = "done" PROVE main.syminfo = "macho_syminfo" <=> \E h \in kept : h[2] = "symbols"
    <3>1. main.syminfo = "macho_syminfo" <=> main.sym
      BY <2>1 DEF MachoInv, MachoMain
    <3>2. main.sym <=> \E i : "symbols" \in Mine(kept, i)
      BY <1>3, <2>1 DEF MachoInv, MachoRest
    <3>3. (\E i : "symbols" \in Mine(kept, i)) <=> \E h \in kept : h[2] = "symbols"
      BY DEF Mine
    <3>4. QED
      BY <3>1, <3>2, <3>3
  <2>2. QED
    BY <1>1, <2>1 DEF M!RightFile
<1>6. QED
  BY <1>2, <1>4, <1>5
-----------------------------------------------------------------------------
(* fileline.c: no thread calls a function that is not set.                 *)

Places == {"start", "unwind", "stopped", "check", "checkfn", "open", "setsym", "choose", "store",
           "fail", "initialized", "call"}

Functions == {F!NULL, "dwarf", "nodebug"}

\* A function for lines is set only after one for symbols, and never unset: what a thread
\* will store is a function.
FilelineInv ==
  /\ pc \in [Threads -> Places]
  /\ fn \in [Threads -> Functions]
  /\ fileline_fn \in Functions
  /\ fileline_fn # F!NULL => syminfo_fn # F!NULL
  /\ \A t \in Threads : /\ pc[t] \in {"choose", "store"} => syminfo_fn # F!NULL
                        /\ pc[t] = "store" => fn[t] # F!NULL
                        /\ pc[t] \in {"initialized", "call"} => fileline_fn # F!NULL

LEMMA FilelineInit == F!Init => FilelineInv
  BY DEF F!Init, FilelineInv, Places, Functions, F!NULL

LEMMA FilelineStep ==
  ASSUME FilelineInv, NEW t \in Threads, F!Step(t)
  PROVE  FilelineInv'
<1> USE DEF FilelineInv, Places, Functions, F!NULL, F!shared, F!Goes
<1>1. CASE F!Begin(t)
  BY <1>1 DEF F!Begin
<1>2. CASE F!Unwind(t)
  BY <1>2 DEF F!Unwind, F!CalledBack, F!NextFrame
<1>3. CASE F!CheckFailed(t)
  BY <1>3 DEF F!CheckFailed, F!NextFrame
<1>4. CASE F!CheckFn(t)
  BY <1>4 DEF F!CheckFn
<1>5. CASE F!Open(t)
  BY <1>5 DEF F!Open
<1>6. CASE F!SetSyminfo(t)
  BY <1>6 DEF F!SetSyminfo
<1>7. CASE F!Choose(t)
  BY <1>7, FormatAssumption DEF F!Choose, F!Chosen, F!Found
<1>8. CASE F!Store(t)
  BY <1>8 DEF F!Store
<1>9. CASE F!Fail(t)
  BY <1>9 DEF F!Fail, F!NextFrame
<1>10. CASE F!CheckAgain(t)
  BY <1>10 DEF F!CheckAgain, F!NextFrame
<1>11. CASE F!CallFileline(t)
  BY <1>11 DEF F!CallFileline, F!CalledBack, F!NextFrame
<1>12. QED
  BY <1>1, <1>2, <1>3, <1>4, <1>5, <1>6, <1>7, <1>8, <1>9, <1>10, <1>11 DEF F!Step

-----------------------------------------------------------------------------
(* backtrace.c: the frames are reported in order, and none is left out.    *)

Counting == {"check", "checkfn", "open", "setsym", "choose", "store", "fail", "initialized", "call"}

Whats   == {"error", "nothing", "line", "symbol", "address"}
Reports == Seq([frame : Nat, what : Whats])

\* The frame f a thread is at is the one after what it was told to skip, itself and what it
\* has reported, where it has skipped them.
FrameOk(p, f, s, a, o) ==
  /\ f \in Nat /\ s \in Nat /\ a \in Nat /\ o \in Reports
  /\ f <= Depth + 1
  /\ p \in Counting => f <= Depth /\ s = 0
  /\ s > 0 => o = <<>>
  /\ p = "start" => f = 1 /\ o = <<>>
  /\ p \in Counting \cup {"unwind"} => f + s = a + 2 + Len(o)
  /\ \A i \in DOMAIN o : o[i].frame = a + 1 + i

FramesInv ==
  /\ pc \in [Threads -> Places]
  /\ frame \in [Threads -> Nat] /\ skip \in [Threads -> Nat] /\ asked \in [Threads -> Nat]
  /\ out \in [Threads -> Reports]
  /\ \A t \in Threads : FrameOk(pc[t], frame[t], skip[t], asked[t], out[t])

LEMMA FramesInit == F!Init => FramesInv
  BY BacktraceAssumption DEF F!Init, FramesInv, FrameOk, Places, Counting, Reports

LEMMA Unchanged ==
  ASSUME NEW T, NEW g \in [Threads -> T], NEW t \in Threads
  PROVE  g = [g EXCEPT ![t] = g[t]]
  OBVIOUS

\* A step of a thread leaves those of the others alone.
Moved(t, p, f, s, a, o) ==
  /\ pc' = [pc EXCEPT ![t] = p] /\ frame' = [frame EXCEPT ![t] = f] /\ skip' = [skip EXCEPT ![t] = s]
  /\ asked' = [asked EXCEPT ![t] = a] /\ out' = [out EXCEPT ![t] = o]
  /\ p \in Places /\ FrameOk(p, f, s, a, o)

LEMMA OneFrame ==
  ASSUME FramesInv, NEW t \in Threads, NEW p, NEW f, NEW s, NEW a, NEW o, Moved(t, p, f, s, a, o)
  PROVE  FramesInv'
<1>1. f \in Nat /\ s \in Nat /\ a \in Nat /\ o \in Reports
  BY DEF FrameOk, Moved
<1>2. QED
  BY <1>1 DEF FramesInv, Moved

\* A thread that has counted its frame may report it.
LEMMA ReportedOk ==
  ASSUME NEW p, NEW f, NEW s, NEW a, NEW o, FrameOk(p, f, s, a, o),
         p \in Counting \/ (p = "unwind" /\ s = 0 /\ f <= Depth),
         NEW what \in Whats
  PROVE  /\ FrameOk("unwind", f + 1, s, a, Append(o, [frame |-> f, what |-> what]))
         /\ FrameOk("stopped", f, s, a, Append(o, [frame |-> f, what |-> what]))
<1> DEFINE r == [frame |-> f, what |-> what]
           q == Append(o, r)
<1>1. /\ f \in Nat /\ s = 0 /\ a \in Nat /\ f <= Depth
      /\ o \in Reports
      /\ f = a + 2 + Len(o)
      /\ \A i \in DOMAIN o : o[i].frame = a + 1 + i
  BY DEF FrameOk
<1>2. r \in [frame : Nat, what : Whats] /\ r.frame = f
  BY <1>1
<1> HIDE DEF r
<1>3. /\ q \in Reports
      /\ Len(q) = Len(o) + 1 /\ Len(o) \in Nat
      /\ DOMAIN q = 1 .. Len(o) + 1 /\ DOMAIN o = 1 .. Len(o)
      /\ \A i \in 1 .. Len(o) : q[i] = o[i]
      /\ q[Len(o) + 1] = r
  BY <1>1, <1>2 DEF Reports
<1> HIDE DEF q
<1>4. ASSUME NEW i \in DOMAIN q PROVE q[i].frame = a + 1 + i
  <2>1. CASE i \in 1 .. Len(o)
    BY <1>1, <1>3, <2>1
  <2>2. CASE i = Len(o) + 1
    BY <1>1, <1>2, <1>3, <2>2
  <2>3. QED
    BY <1>3, <2>1, <2>2
<1>5. FrameOk("unwind", f + 1, s, a, q) /\ FrameOk("stopped", f, s, a, q)
  BY <1>1, <1>3, <1>4, BacktraceAssumption DEF FrameOk, Counting
<1>6. QED
  BY <1>5 DEF q, r

Tells(t, what) ==
  /\ what \in Whats /\ F!Reported(t, what) /\ UNCHANGED <<skip, asked>>
  /\ pc[t] \in Counting \/ (pc[t] = "unwind" /\ skip[t] = 0 /\ frame[t] <= Depth)
  /\ F!NextFrame(t) \/ (F!Goes(t, "stopped") /\ UNCHANGED frame)

LEMMA ReportedFrame ==
  ASSUME FramesInv, NEW t \in Threads, \E what \in Whats : Tells(t, what)
  PROVE  FramesInv'
<1> PICK what \in Whats : Tells(t, what)
  OBVIOUS
<1> DEFINE o == Append(out[t], [frame |-> frame[t], what |-> what])
<1>1. /\ FrameOk("unwind", frame[t] + 1, skip[t], asked[t], o)
      /\ FrameOk("stopped", frame[t], skip[t], asked[t], o)
  BY ReportedOk DEF FramesInv, Tells
<1>2. out' = [out EXCEPT ![t] = o]
  BY DEF F!Reported, Tells
<1> HIDE DEF o
<1>3. /\ skip' = [skip EXCEPT ![t] = skip[t]] /\ asked' = [asked EXCEPT ![t] = asked[t]]
      /\ UNCHANGED frame => frame' = [frame EXCEPT ![t] = frame[t]]
  BY Unchanged DEF FramesInv, Tells
<1>7. "unwind" \in Places /\ "stopped" \in Places
  BY DEF Places
<1>4. CASE F!NextFrame(t)
  <2>1. Moved(t, "unwind", frame[t] + 1, skip[t], asked[t], o)
    BY <1>1, <1>2, <1>3, <1>4, <1>7 DEF F!NextFrame, F!Goes, Moved
  <2>2. QED
    BY <2>1, OneFrame
<1>5. CASE F!Goes(t, "stopped") /\ UNCHANGED frame
  <2>1. Moved(t, "stopped", frame[t], skip[t], asked[t], o)
    BY <1>1, <1>2, <1>3, <1>5, <1>7 DEF F!Goes, Moved
  <2>2. QED
    BY <2>1, OneFrame
<1>6. QED
  BY <1>4, <1>5 DEF Tells

LEMMA FramesStep ==
  ASSUME FramesInv, NEW t \in Threads, F!Step(t)
  PROVE  FramesInv'
<1> USE DEF F!shared
<1> DEFINE Same(v) == v = [v EXCEPT ![t] = v[t]]
<1>1. /\ Same(frame) /\ Same(skip) /\ Same(asked) /\ Same(out)
      /\ FrameOk(pc[t], frame[t], skip[t], asked[t], out[t])
  BY Unchanged DEF FramesInv
<1> HIDE DEF Same
<1>0. /\ \A p \in Counting : p \in Places
      /\ "unwind" \in Places /\ "check" \in Counting
  BY DEF Places, Counting
<1>2. CASE F!Begin(t)
  <2>1. PICK s \in Skips : /\ skip' = [skip EXCEPT ![t] = s + 1]
                           /\ asked' = [asked EXCEPT ![t] = s]
                           /\ pc[t] = "start" /\ pc' = [pc EXCEPT ![t] = "unwind"]
                           /\ UNCHANGED <<frame, out>>
    BY <1>2 DEF F!Begin, F!Skipped, F!Goes
  <2>2. s \in Nat
    BY BacktraceAssumption
  <2>3. FrameOk("unwind", frame[t], s + 1, s, out[t])
    <3>1. FrameOk("start", frame[t], skip[t], asked[t], out[t])
      BY <1>1, <2>1
    <3>2. frame[t] = 1 /\ out[t] = <<>> /\ 1 <= Depth + 1 /\ <<>> \in Reports /\ Len(<<>>) = 0
      BY <3>1, BacktraceAssumption DEF FrameOk, Reports
    <3>3. QED
      BY ONLY <2>2, <3>2 DEF FrameOk, Counting
  <2>4. Moved(t, "unwind", frame[t], s + 1, s, out[t])
    BY <1>0, <1>1, <2>1, <2>3 DEF Same, Moved
  <2>5. QED
    BY <2>4, OneFrame
<1>3. CASE F!Unwind(t)
  <2>1. CASE skip[t] > 0
    <3>1. /\ skip' = [skip EXCEPT ![t] = @ - 1] /\ frame' = [frame EXCEPT ![t] = @ + 1]
          /\ UNCHANGED <<pc, out, asked>> /\ frame[t] <= Depth /\ pc[t] = "unwind"
      BY <1>3, <2>1 DEF F!Unwind
    <3>2. FrameOk("unwind", frame[t], skip[t], asked[t], out[t])
      BY <1>1, <3>1
    <3>3. /\ frame[t] \in Nat /\ skip[t] \in Nat /\ asked[t] \in Nat /\ out[t] = <<>>
          /\ frame[t] + skip[t] = asked[t] + 2 + Len(out[t]) /\ out[t] \in Reports
          /\ \A i \in DOMAIN out[t] : out[t][i].frame = asked[t] + 1 + i
      BY ONLY <2>1, <3>2 DEF FrameOk
    <3>4. Len(out[t]) = 0
      BY <3>3
    <3>5. FrameOk("unwind", frame[t] + 1, skip[t] - 1, asked[t], out[t])
      BY ONLY <2>1, <3>1, <3>3, <3>4, BacktraceAssumption DEF FrameOk, Counting
    <3>6. pc' = [pc EXCEPT ![t] = "unwind"]
      BY <3>1 DEF FramesInv
    <3>7. Moved(t, "unwind", frame[t] + 1, skip[t] - 1, asked[t], out[t])
      BY <1>0, <1>1, <3>1, <3>5, <3>6 DEF Same, Moved
    <3>8. QED
      BY <3>7, OneFrame
  <2>2. CASE ~(skip[t] > 0) /\ ~alloc[t]
    <3>1. F!CalledBack(t, "address") /\ UNCHANGED <<skip, asked>> /\ pc[t] = "unwind" /\ frame[t] <= Depth
      BY <1>3, <2>2 DEF F!Unwind
    <3>2. skip[t] = 0
      BY <1>1, <2>2 DEF FrameOk
    <3>3. \E what \in Whats : Tells(t, what)
      BY <3>1, <3>2 DEF F!CalledBack, Tells, F!Reported, Whats
    <3>4. QED
      BY <3>3, ReportedFrame
  <2>3. CASE ~(skip[t] > 0) /\ alloc[t]
    <3>1. /\ pc' = [pc EXCEPT ![t] = "check"] /\ UNCHANGED <<skip, frame, out, asked>>
          /\ frame[t] <= Depth /\ pc[t] = "unwind"
      BY <1>3, <2>3 DEF F!Unwind, F!Goes
    <3>2. FrameOk("unwind", frame[t], skip[t], asked[t], out[t])
      BY <1>1, <3>1
    <3>3. FrameOk("check", frame[t], skip[t], asked[t], out[t])
      BY ONLY <2>3, <3>1, <3>2 DEF FrameOk, Counting
    <3>4. Moved(t, "check", frame[t], skip[t], asked[t], out[t])
      BY <1>0, <1>1, <3>1, <3>3 DEF Same, Moved
    <3>5. QED
      BY <3>4, OneFrame
  <2>4. QED
    BY <2>1, <2>2, <2>3
<1>4. ASSUME pc[t] \in Counting, NEW to \in Counting, F!Goes(t, to), UNCHANGED <<frame, skip, asked, out>>
      PROVE  FramesInv'
  <2>1. FrameOk(to, frame[t], skip[t], asked[t], out[t])
    <3>1. \A p : p \in Counting => p # "start"
      BY DEF Counting
    <3>2. QED
      BY ONLY <1>1, <1>4, <3>1 DEF FrameOk
  <2>2. Moved(t, to, frame[t], skip[t], asked[t], out[t])
    BY <1>0, <1>1, <1>4, <2>1 DEF Same, Moved, F!Goes
  <2>3. QED
    BY <2>2, OneFrame
<1>5. ASSUME \E what \in Whats : Tells(t, what) PROVE FramesInv'
  BY <1>5, ReportedFrame
<1>6. CASE F!CheckFailed(t)
  <2>1. \/ (\E what \in Whats : Tells(t, what))
        \/ pc[t] \in Counting /\ F!Goes(t, "checkfn") /\ UNCHANGED <<frame, skip, asked, out>>
    BY <1>6 DEF F!CheckFailed, Tells, F!Reported, Counting, Whats
  <2>2. "checkfn" \in Counting
    BY DEF Counting
  <2>3. QED
    BY <1>4, <1>5, <2>1, <2>2
<1>7. CASE F!CheckFn(t)
  BY ONLY <1>4, <1>7 DEF F!CheckFn, Counting, F!shared
<1>8. CASE F!SetSyminfo(t) \/ F!Choose(t) \/ F!Store(t)
  BY ONLY <1>4, <1>8 DEF F!SetSyminfo, F!Choose, F!Store, Counting, F!shared
<1>9. CASE F!Open(t)
  BY ONLY <1>4, <1>9 DEF F!Open, Counting, F!shared
<1>10. CASE F!Fail(t)
  <2>1. \E what \in Whats : Tells(t, what)
    BY <1>10 DEF F!Fail, Tells, F!Reported, Counting, Whats
  <2>2. QED
    BY <2>1, ReportedFrame
<1>11. CASE F!CheckAgain(t)
  <2>1. \/ (\E what \in Whats : Tells(t, what))
        \/ pc[t] \in Counting /\ F!Goes(t, "call") /\ UNCHANGED <<frame, skip, asked, out>>
    BY <1>11 DEF F!CheckAgain, Tells, F!Reported, Counting, Whats
  <2>2. "call" \in Counting
    BY DEF Counting
  <2>3. QED
    BY <1>4, <1>5, <2>1, <2>2
<1>12. CASE F!CallFileline(t)
  <2>1. \E what \in Whats : Tells(t, what)
    BY <1>12 DEF F!CallFileline, F!CalledBack, Tells, F!Reported, Counting, Whats
  <2>2. QED
    BY <2>1, ReportedFrame
<1>13. QED
  BY ONLY F!Step(t), <1>2, <1>3, <1>6, <1>7, <1>8, <1>9, <1>10, <1>11, <1>12 DEF F!Step

LEMMA FramesRightOrder == FramesInv => F!FramesInOrder
<1> SUFFICES ASSUME FramesInv, NEW t \in Threads
             PROVE  /\ \A i \in DOMAIN out[t] : out[t][i].frame = asked[t] + 1 + i
                    /\ F!Done(t) => Len(out[t]) = IF asked[t] + 1 >= Depth THEN 0 ELSE Depth - asked[t] - 1
  BY DEF F!FramesInOrder
<1> DEFINE o == out[t]
           a == asked[t]
           f == frame[t]
           s == skip[t]
           p == pc[t]
<1>1. FrameOk(p, f, s, a, o)
  BY DEF FramesInv
<1>2. F!Done(t) => p = "unwind" /\ f > Depth
  BY DEF F!Done
<1> HIDE DEF o, a, f, s, p
<1>3. Len(o) \in Nat
  BY <1>1 DEF FrameOk, Reports
<1>4. s > 0 => Len(o) = 0
  BY <1>1 DEF FrameOk
<1>5. p = "unwind" /\ f > Depth => Len(o) = IF a + 1 >= Depth THEN 0 ELSE Depth - a - 1
  BY <1>1, <1>3, <1>4, BacktraceAssumption DEF FrameOk, Counting
<1>6. QED
  BY <1>1, <1>2, <1>5 DEF FrameOk, o, a

-----------------------------------------------------------------------------
(* dwarf.c: what a unit's tables are set to, and the list of the modules.  *)

\* The tables any thread reads of a unit.
Tables(mu) ==
  D!TablesOf(D!Unit(mu), info[mu[1]].base, D!LineTable(D!Unit(mu), info[mu[1]].base))

\* A record with the fields of at[t], or of cache[mu], and no others.
AtFields    == {"ddata", "m", "e", "pc", "lines", "functions", "late", "tail", "out"}
CacheFields == {"count", "functions", "fcount", "lines"}
IsAt(a)     == a = [f \in AtFields |-> a[f]]
IsCached(c) == c = [f \in CacheFields |-> c[f]]

\* The three fields of a unit that are stored before its lines.
Counted(mu, c)  == c.count = Len(Tables(mu).lines.rows)
Listed(mu, c)   == c.functions = Tables(mu).functions
Numbered(mu, c) == c.fcount = Len(Tables(mu).functions)

Whole(mu, c) ==
  /\ IsCached(c)
  /\ c.lines # D!Unread => /\ c.lines = Tables(mu).lines
                           /\ Counted(mu, c) /\ Listed(mu, c) /\ Numbered(mu, c)

\* The unit of a thread with a, in list l.
Of(a, l) == <<l[a.m].m, l[a.m].map[a.e].of>>

Storing == {"count", "functions", "fcount", "lines"}

\* A thread that stores the tables of a unit has what every other would store, and has
\* stored some.
StoresOk(p, a, l, c) ==
  /\ p \in Storing \cup {"skip", "load"} => a.m \in 1 .. Len(l)
  /\ p \in Storing =>
       /\ a.lines = Tables(Of(a, l)).lines
       /\ a.functions = Tables(Of(a, l)).functions
       /\ Of(a, l) \in D!Units =>
            /\ p \in Storing \ {"count"} => Counted(Of(a, l), c[Of(a, l)])
            /\ p \in {"fcount", "lines"} => Listed(Of(a, l), c[Of(a, l)])
            /\ p = "lines" => Numbered(Of(a, l), c[Of(a, l)])

AddedModules == {D!Built(m) : m \in DOMAIN info}

UnitsType ==
  /\ pc = [t \in Threads |-> pc[t]]
  /\ at = [t \in Threads |-> at[t]] /\ \A t \in Threads : IsAt(at[t])
  /\ cache = [mu \in D!Units |-> cache[mu]]
  /\ list \in Seq(AddedModules) /\ todo \subseteq DOMAIN info
  /\ \A t \in Threads : pc[t] = "swap" => at[t].ddata[1] \in AddedModules
  /\ \A t \in Threads : pc[t] = "walk" => at[t].ddata[1] \in AddedModules
  /\ \A t \in Threads : pc[t] = "module" => at[t].m \in Nat \ {0}

TablesInv ==
  /\ UnitsType
  /\ \A mu \in D!Units : Whole(mu, cache[mu])
  /\ \A t \in Threads : StoresOk(pc[t], at[t], list, cache)

LEMMA TablesInit ==
  ASSUME NEW i, D!InitWith(i)
  PROVE  TablesInv
<1>1. UnitsType
  <2>1. IsAt(D!Start)
    BY DEF IsAt, AtFields, D!Start
  <2>2. pc = [t \in Threads |-> pc[t]] /\ \A t \in Threads : pc[t] = "idle"
    BY DEF D!InitWith
  <2>3. at = [t \in Threads |-> at[t]] /\ \A t \in Threads : at[t] = D!Start
    BY DEF D!InitWith
  <2>4. cache = [mu \in D!Units |-> cache[mu]]
    BY DEF D!InitWith
  <2>5. list \in Seq(AddedModules) /\ todo \subseteq DOMAIN info
    BY DEF D!InitWith
  <2>6. QED
    BY <2>1, <2>2, <2>3, <2>4, <2>5 DEF UnitsType
<1>2. ASSUME NEW mu \in D!Units PROVE Whole(mu, cache[mu])
  BY DEF D!InitWith, Whole, IsCached, CacheFields
<1>3. ASSUME NEW t \in Threads PROVE StoresOk(pc[t], at[t], list, cache)
  BY DEF D!InitWith, StoresOk, Storing
<1>4. QED
  BY <1>1, <1>2, <1>3 DEF TablesInv

\* What is said of a unit depends on the modules only, which stay as they are.
LEMMA SameTables ==
  ASSUME UNCHANGED info
  PROVE  /\ D!Units' = D!Units /\ AddedModules' = AddedModules
         /\ \A mu, c : /\ Whole(mu, c)' <=> Whole(mu, c)
                       /\ Counted(mu, c)' <=> Counted(mu, c)
                       /\ Listed(mu, c)' <=> Listed(mu, c)
                       /\ Numbered(mu, c)' <=> Numbered(mu, c)
         /\ \A p, a, l, c : StoresOk(p, a, l, c)' <=> StoresOk(p, a, l, c)
<1>1. D!Units' = D!Units /\ AddedModules' = AddedModules
  BY DEF D!Units, AddedModules, D!Built
<1>2. \A mu : Tables(mu)' = Tables(mu)
  BY DEF Tables, D!Unit
<1>3. \A mu, c : /\ Counted(mu, c)' <=> Counted(mu, c)
                 /\ Listed(mu, c)' <=> Listed(mu, c)
                 /\ Numbered(mu, c)' <=> Numbered(mu, c)
  BY <1>2 DEF Counted, Listed, Numbered
<1>4. \A mu, c : Whole(mu, c)' <=> Whole(mu, c)
  BY <1>2, <1>3 DEF Whole
<1>5. \A p, a, l, c : StoresOk(p, a, l, c)' <=> StoresOk(p, a, l, c)
  BY <1>1, <1>2, <1>3 DEF StoresOk
<1>6. QED
  BY <1>1, <1>3, <1>4, <1>5

\* The list is the same or one module longer.
Longer(l, k) == l = k \/ \E b \in AddedModules : k = Append(l, b)

\* A unit that is whole stays so, and what was stored of it.
Fuller(c, d) ==
  /\ d = [mu \in D!Units |-> d[mu]]
  /\ \A mu \in D!Units : /\ Whole(mu, d[mu])
                         /\ Counted(mu, c[mu]) => Counted(mu, d[mu])
                         /\ Listed(mu, c[mu]) => Listed(mu, d[mu])
                         /\ Numbered(mu, c[mu]) => Numbered(mu, d[mu])

LEMMA LongerKeeps ==
  ASSUME NEW l \in Seq(AddedModules), NEW k, Longer(l, k)
  PROVE  /\ k \in Seq(AddedModules)
         /\ \A i \in 1 .. Len(l) : i \in 1 .. Len(k) /\ k[i] = l[i]
  BY DEF Longer

LEMMA StoresKept ==
  ASSUME NEW p, NEW a, NEW l \in Seq(AddedModules), NEW k, NEW c, NEW d,
         StoresOk(p, a, l, c), Longer(l, k), Fuller(c, d)
  PROVE  StoresOk(p, a, k, d)
<1>1. CASE p \in Storing \cup {"skip", "load"}
  <2>1. a.m \in 1 .. Len(k) /\ k[a.m] = l[a.m]
    BY <1>1, LongerKeeps DEF StoresOk
  <2>2. Of(a, k) = Of(a, l)
    BY <2>1 DEF Of
  <2>3. QED
    BY <2>1, <2>2 DEF StoresOk, Fuller
<1>2. CASE p \notin Storing \cup {"skip", "load"}
  BY <1>2 DEF StoresOk
<1>3. QED
  BY <1>1, <1>2

\* A thread goes to p with a, and those that add or look for a module have one.
Turns(t, p, a) ==
  /\ pc' = [pc EXCEPT ![t] = p] /\ at' = [at EXCEPT ![t] = a]
  /\ UNCHANGED info /\ todo' \subseteq todo
  /\ IsAt(a)
  /\ p \in {"walk", "swap"} => a.ddata[1] \in AddedModules
  /\ p = "module" => a.m \in Nat \ {0}

LEMMA OneUnit ==
  ASSUME TablesInv, NEW t \in Threads, NEW p, NEW a, Turns(t, p, a),
         Longer(list, list'), Fuller(cache, cache'), StoresOk(p, a, list', cache')
  PROVE  TablesInv'
<1>1. list \in Seq(AddedModules) /\ UNCHANGED info
  BY DEF TablesInv, UnitsType, Turns
<1>2. ASSUME NEW s \in Threads PROVE StoresOk(pc'[s], at'[s], list', cache')
  <2>1. CASE s = t
    BY <2>1 DEF Turns, TablesInv, UnitsType
  <2>2. CASE s # t
    <3>1. pc'[s] = pc[s] /\ at'[s] = at[s]
      BY <2>2 DEF Turns, TablesInv, UnitsType
    <3>2. StoresOk(pc[s], at[s], list, cache)
      BY DEF TablesInv
    <3>3. QED
      BY <1>1, <3>1, <3>2, StoresKept
  <2>3. QED
    BY <2>1, <2>2
<1>3. \A mu \in D!Units : Whole(mu, cache'[mu])
  BY DEF Fuller
<1>4. UnitsType'
  <2>1. list' \in Seq(AddedModules) /\ todo' \subseteq DOMAIN info
    BY <1>1, LongerKeeps DEF Turns, TablesInv, UnitsType
  <2>2. /\ pc' = [s \in Threads |-> pc'[s]]
        /\ at' = [s \in Threads |-> at'[s]] /\ \A s \in Threads : IsAt(at'[s])
        /\ \A s \in Threads : pc'[s] = "swap" => at'[s].ddata[1] \in AddedModules
        /\ \A s \in Threads : pc'[s] = "walk" => at'[s].ddata[1] \in AddedModules
        /\ \A s \in Threads : pc'[s] = "module" => at'[s].m \in Nat \ {0}
    BY DEF Turns, TablesInv, UnitsType
  <2>3. cache' = [mu \in D!Units |-> cache'[mu]]
    BY DEF Fuller
  <2>4. QED
    BY <1>1, <2>1, <2>2, <2>3, SameTables DEF UnitsType, IsAt
<1>5. QED
  BY <1>1, <1>2, <1>3, <1>4, SameTables DEF TablesInv

\* A store to unit u.
LEMMA OneStore ==
  ASSUME TablesInv, NEW u, NEW d, cache' = [cache EXCEPT ![u] = d],
         u \in D!Units => /\ Whole(u, d)
                          /\ Counted(u, cache[u]) => Counted(u, d)
                          /\ Listed(u, cache[u]) => Listed(u, d)
                          /\ Numbered(u, cache[u]) => Numbered(u, d)
  PROVE  Fuller(cache, cache') /\ (u \in D!Units => cache'[u] = d)
<1>1. cache = [mu \in D!Units |-> cache[mu]] /\ \A mu \in D!Units : Whole(mu, cache[mu])
  BY DEF TablesInv, UnitsType
<1>2. cache' = [mu \in D!Units |-> cache'[mu]]
  BY <1>1
<1>3. ASSUME NEW mu \in D!Units PROVE cache'[mu] = IF mu = u THEN d ELSE cache[mu]
  BY <1>1
<1>4. QED
  BY <1>1, <1>2, <1>3 DEF Fuller

LEMMA TablesStep ==
  ASSUME TablesInv, NEW t \in Threads, D!Step(t)
  PROVE  TablesInv'
<1> DEFINE a == at[t]
           u == Of(a, list)
<1>1. /\ IsAt(a) /\ list \in Seq(AddedModules) /\ StoresOk(pc[t], a, list, cache)
      /\ \A mu \in D!Units : Whole(mu, cache[mu])
      /\ pc[t] \in {"walk", "swap"} => a.ddata[1] \in AddedModules
      /\ pc[t] = "module" => a.m \in Nat \ {0}
      /\ pc = [pc EXCEPT ![t] = pc[t]] /\ at = [at EXCEPT ![t] = a]
      /\ todo \subseteq DOMAIN info
  BY DEF TablesInv, UnitsType
<1>5. D!UnitOf(t) = u
  BY DEF D!UnitOf, Of
<1> HIDE DEF a, u
<1>0. IsAt(a)
  BY <1>1
<1>2. UNCHANGED list => Longer(list, list')
  BY DEF Longer
<1>3. UNCHANGED cache => Fuller(cache, cache')
  BY <1>1 DEF Fuller, TablesInv, UnitsType
<1>4. ASSUME NEW p, NEW b, Turns(t, p, b), p \notin Storing \cup {"skip", "load"},
             Longer(list, list'), UNCHANGED cache
      PROVE  TablesInv'
  <2>1. StoresOk(p, b, list', cache')
    BY <1>4 DEF StoresOk
  <2>2. QED
    BY <1>3, <1>4, <2>1, OneUnit
<1>6. ASSUME NEW m \in todo, D!Add(t, m) PROVE TablesInv'
  <2> DEFINE b == [D!Start EXCEPT !.ddata = <<D!Built(m)>>]
  <2>1. IsAt(D!Start)
    BY DEF IsAt, AtFields, D!Start
  <2>2. IsAt(b) /\ b.ddata[1] = D!Built(m)
    BY <2>1 DEF IsAt, AtFields
  <2>3. D!Built(m) \in AddedModules
    BY <1>1 DEF AddedModules
  <2>4. /\ pc' = [pc EXCEPT ![t] = "walk"] /\ at' = [at EXCEPT ![t] = b]
        /\ UNCHANGED <<info, list, cache>> /\ todo' \subseteq todo
    BY <1>6 DEF D!Add, D!Goto
  <2> HIDE DEF b
  <2>5. Turns(t, "walk", b)
    BY <2>2, <2>3, <2>4 DEF Turns
  <2>6. QED
    BY <1>2, <1>4, <2>4, <2>5 DEF Storing
<1>7. CASE D!Walk(t)
  <2> DEFINE b == [a EXCEPT !.tail = Len(list)]
  <2>1. /\ pc[t] = "walk" /\ pc' = [pc EXCEPT ![t] = "swap"] /\ at' = [at EXCEPT ![t] = b]
        /\ UNCHANGED <<info, list, cache, todo>>
    BY <1>7 DEF D!Walk, D!Goto, a
  <2>2. IsAt(b) /\ b.ddata = a.ddata
    BY <1>0 DEF IsAt, AtFields
  <2> HIDE DEF b
  <2>3. Turns(t, "swap", b)
    BY <1>1, <2>1, <2>2 DEF Turns
  <2>4. QED
    BY <1>2, <1>4, <2>1, <2>3 DEF Storing
<1>8. CASE D!Swap(t)
  <2>1. /\ pc[t] = "swap" /\ UNCHANGED <<info, cache, at, todo>>
        /\ \/ pc' = [pc EXCEPT ![t] = "idle"] /\ list' = Append(list, a.ddata[1])
           \/ pc' = [pc EXCEPT ![t] = "walk"] /\ UNCHANGED list
    BY <1>8 DEF D!Swap, D!Goto, a
  <2>2. Longer(list, list')
    BY <1>1, <2>1 DEF Longer
  <2>3. Turns(t, "idle", a) \/ Turns(t, "walk", a)
    BY <1>1, <2>1 DEF Turns
  <2>4. QED
    BY <1>4, <2>1, <2>2, <2>3 DEF Storing
<1>9. ASSUME NEW x \in PCs, D!Look(t, x) PROVE TablesInv'
  <2> DEFINE b == [D!Start EXCEPT !.m = 1, !.pc = x]
  <2>1. IsAt(D!Start)
    BY DEF IsAt, AtFields, D!Start
  <2>2. IsAt(b) /\ b.m = 1
    BY <2>1 DEF IsAt, AtFields
  <2>3. /\ pc' = [pc EXCEPT ![t] = "module"] /\ at' = [at EXCEPT ![t] = b]
        /\ UNCHANGED <<info, list, cache, todo>>
    BY <1>9 DEF D!Look, D!Goto
  <2> HIDE DEF b
  <2>4. Turns(t, "module", b)
    BY <2>2, <2>3 DEF Turns
  <2>5. QED
    BY <1>2, <1>4, <2>3, <2>4 DEF Storing
<1>10. ASSUME NEW frames, D!Returns(t, frames), UNCHANGED <<info, list, cache, todo>>
       PROVE  TablesInv'
  <2> DEFINE b == [a EXCEPT !.out = frames, !.lines = D!Unread, !.functions = <<>>]
  <2>1. pc' = [pc EXCEPT ![t] = "idle"] /\ at' = [at EXCEPT ![t] = b]
    BY <1>10 DEF D!Returns, a
  <2>2. IsAt(b)
    BY <1>0 DEF IsAt, AtFields
  <2> HIDE DEF b
  <2>3. Turns(t, "idle", b)
    BY <1>10, <2>1, <2>2 DEF Turns
  <2>4. QED
    BY <1>2, <1>4, <1>10, <2>3 DEF Storing
<1>11. CASE D!Module(t)
  <2> DEFINE b == [a EXCEPT !.m = a.m + 1]
             e == D!Find(list[a.m].map, a.pc)
             c == [a EXCEPT !.e = e]
  <2>1. /\ pc[t] = "module" /\ UNCHANGED <<info, list, cache, todo>>
        /\ \/ D!Returns(t, D!Nothing)
           \/ UNCHANGED pc /\ at' = [at EXCEPT ![t] = b]
           \/ /\ ~(a.m > Len(list))
              /\ pc' = [pc EXCEPT ![t] = "skip"] /\ at' = [at EXCEPT ![t] = c]
    BY <1>11 DEF D!Module, a
  <2>2. a.m \in Nat \ {0}
    BY <1>1, <2>1
  <2>3. IsAt(b) /\ b.m = a.m + 1 /\ IsAt(c) /\ c.m = a.m
    BY <1>0 DEF IsAt, AtFields
  <2> HIDE DEF b, c
  <2>4. CASE UNCHANGED pc /\ at' = [at EXCEPT ![t] = b]
    <3>1. Turns(t, "module", b)
      BY <1>1, <2>1, <2>2, <2>3, <2>4 DEF Turns
    <3>2. QED
      BY <1>2, <1>4, <2>1, <3>1 DEF Storing
  <2>5. CASE /\ ~(a.m > Len(list))
             /\ pc' = [pc EXCEPT ![t] = "skip"] /\ at' = [at EXCEPT ![t] = c]
    <3>1. Turns(t, "skip", c)
      BY <2>1, <2>3, <2>5 DEF Turns
    <3>2. Len(list) \in Nat
      BY <1>1
    <3>3. StoresOk("skip", c, list', cache')
      BY <2>1, <2>2, <2>3, <2>5, <3>2 DEF StoresOk, Storing
    <3>4. QED
      BY <1>2, <1>3, <2>1, <3>1, <3>3, OneUnit
  <2>6. QED
    BY <1>10, <2>1, <2>4, <2>5
<1>12. CASE D!Skip(t)
  <2> DEFINE b == [a EXCEPT !.e = a.e - 1]
  <2>1. /\ pc[t] = "skip" /\ UNCHANGED <<info, list, cache, todo>>
        /\ \/ UNCHANGED pc /\ at' = [at EXCEPT ![t] = b]
           \/ pc' = [pc EXCEPT ![t] = "load"] /\ UNCHANGED at
    BY <1>12 DEF D!Skip, D!Goto, a
  <2>2. IsAt(b) /\ b.m = a.m
    BY <1>0 DEF IsAt, AtFields
  <2>3. a.m \in 1 .. Len(list)
    BY <1>1, <2>1 DEF StoresOk
  <2> HIDE DEF b
  <2>4. StoresOk("skip", b, list', cache') /\ StoresOk("load", a, list', cache')
    BY <2>1, <2>2, <2>3 DEF StoresOk, Storing
  <2>5. Turns(t, "skip", b) \/ Turns(t, "load", a)
    BY <1>1, <2>1, <2>2 DEF Turns
  <2>6. QED
    BY <1>2, <1>3, <2>1, <2>4, <2>5, OneUnit
<1>13. CASE D!Load(t)
  <2> DEFINE b == [a EXCEPT !.lines = cache[D!UnitOf(t)].lines,
                            !.late = cache[D!UnitOf(t)].lines = D!Useless /\ D!Back(t)]
  <2>1. /\ pc' = [pc EXCEPT ![t] = "report"] /\ at' = [at EXCEPT ![t] = b]
        /\ UNCHANGED <<info, list, cache, todo>>
    BY <1>13 DEF D!Load, D!Goto, a
  <2>2. IsAt(b)
    BY <1>0 DEF IsAt, AtFields
  <2> HIDE DEF b
  <2>3. Turns(t, "report", b)
    BY <2>1, <2>2 DEF Turns
  <2>4. QED
    BY <1>2, <1>4, <2>1, <2>3 DEF Storing
<1>14. CASE D!ReadUnit(t)
  <2> DEFINE b == [a EXCEPT !.lines = Tables(u).lines, !.functions = Tables(u).functions,
                            !.late = Tables(u).lines = D!Useless]
  <2>1. /\ pc[t] = "load" /\ pc' = [pc EXCEPT ![t] = "count"] /\ at' = [at EXCEPT ![t] = b]
        /\ UNCHANGED <<info, list, cache, todo>>
    BY <1>5, <1>14 DEF D!ReadUnit, D!Goto, Tables, a
  <2>2. /\ IsAt(b) /\ b.m = a.m /\ b.e = a.e
        /\ b.lines = Tables(u).lines /\ b.functions = Tables(u).functions
    BY <1>0 DEF IsAt, AtFields
  <2> HIDE DEF b
  <2>3. Turns(t, "count", b)
    BY <2>1, <2>2 DEF Turns
  <2>4. a.m \in 1 .. Len(list)
    BY <1>1, <2>1 DEF StoresOk
  <2>5. Of(b, list') = u
    BY <2>1, <2>2 DEF Of, u
  <2>6. StoresOk("count", b, list', cache')
    BY <2>1, <2>2, <2>4, <2>5 DEF StoresOk, Storing
  <2>7. QED
    BY <1>2, <1>3, <2>1, <2>3, <2>6, OneUnit
\* The stores.
<1>15. ASSUME pc[t] \in Storing
       PROVE  /\ a.m \in 1 .. Len(list)
              /\ a.lines = Tables(u).lines /\ a.functions = Tables(u).functions
              /\ u \in D!Units => /\ IsCached(cache[u]) /\ Whole(u, cache[u])
                                  /\ pc[t] # "count" => Counted(u, cache[u])
                                  /\ pc[t] \in {"fcount", "lines"} => Listed(u, cache[u])
                                  /\ pc[t] = "lines" => Numbered(u, cache[u])
  BY <1>1, <1>15 DEF StoresOk, Whole, u
<1>16. ASSUME NEW p \in Storing \cup {"report"}, NEW d, cache' = [cache EXCEPT ![u] = d],
              pc[t] \in Storing, pc' = [pc EXCEPT ![t] = p], UNCHANGED <<info, list, at, todo>>,
              u \in D!Units => /\ Whole(u, d)
                               /\ Counted(u, cache[u]) => Counted(u, d)
                               /\ Listed(u, cache[u]) => Listed(u, d)
                               /\ Numbered(u, cache[u]) => Numbered(u, d)
                               /\ p \in Storing \ {"count"} => Counted(u, d)
                               /\ p \in {"fcount", "lines"} => Listed(u, d)
                               /\ p = "lines" => Numbered(u, d)
       PROVE  TablesInv'
  <2>1. Fuller(cache, cache') /\ (u \in D!Units => cache'[u] = d)
    BY ONLY <1>16, TablesInv, OneStore
  <2>2. Turns(t, p, a)
    BY <1>1, <1>16 DEF Turns, Storing
  <2>3. StoresOk(p, a, list', cache')
    BY <1>15, <1>16, <2>1 DEF StoresOk, u
  <2>4. QED
    BY <1>2, <1>16, <2>1, <2>2, <2>3, OneUnit
<1>17. CASE D!StoreCount(t)
  <2> DEFINE d == [cache[u] EXCEPT !.count = Len(a.lines.rows)]
  <2>1. /\ pc[t] = "count" /\ pc' = [pc EXCEPT ![t] = "functions"]
        /\ cache' = [cache EXCEPT ![u] = d] /\ UNCHANGED <<info, list, at, todo>>
    BY <1>5, <1>17 DEF D!StoreCount, D!Goto, a
  <2>2. u \in D!Units => /\ IsCached(d) /\ d.count = Len(Tables(u).lines.rows)
                         /\ d.functions = cache[u].functions /\ d.fcount = cache[u].fcount
                         /\ d.lines = cache[u].lines /\ Whole(u, cache[u])
    BY <1>15, <2>1 DEF Storing, IsCached, CacheFields
  <2> HIDE DEF d
  <2>3. u \in D!Units => /\ Whole(u, d) /\ Counted(u, d)
                         /\ Listed(u, cache[u]) => Listed(u, d)
                         /\ Numbered(u, cache[u]) => Numbered(u, d)
    BY <2>2 DEF Whole, Counted, Listed, Numbered
  <2>4. QED
    BY <1>16, <2>1, <2>3 DEF Storing
<1>18. CASE D!StoreFunctions(t)
  <2> DEFINE d == [cache[u] EXCEPT !.functions = a.functions]
  <2>1. /\ pc[t] = "functions" /\ pc' = [pc EXCEPT ![t] = "fcount"]
        /\ cache' = [cache EXCEPT ![u] = d] /\ UNCHANGED <<info, list, at, todo>>
    BY <1>5, <1>18 DEF D!StoreFunctions, D!Goto, a
  <2>2. u \in D!Units => /\ IsCached(d) /\ d.functions = Tables(u).functions
                         /\ d.count = cache[u].count /\ d.fcount = cache[u].fcount
                         /\ d.lines = cache[u].lines /\ Whole(u, cache[u]) /\ Counted(u, cache[u])
    BY <1>15, <2>1 DEF Storing, IsCached, CacheFields
  <2> HIDE DEF d
  <2>3. u \in D!Units => /\ Whole(u, d) /\ Counted(u, d) /\ Listed(u, d)
                         /\ Numbered(u, cache[u]) => Numbered(u, d)
    BY <2>2 DEF Whole, Counted, Listed, Numbered
  <2>4. QED
    BY <1>16, <2>1, <2>3 DEF Storing
<1>19. CASE D!StoreFcount(t)
  <2> DEFINE d == [cache[u] EXCEPT !.fcount = Len(a.functions)]
  <2>1. /\ pc[t] = "fcount" /\ pc' = [pc EXCEPT ![t] = "lines"]
        /\ cache' = [cache EXCEPT ![u] = d] /\ UNCHANGED <<info, list, at, todo>>
    BY <1>5, <1>19 DEF D!StoreFcount, D!Goto, a
  <2>2. u \in D!Units => /\ IsCached(d) /\ d.fcount = Len(Tables(u).functions)
                         /\ d.count = cache[u].count /\ d.functions = cache[u].functions
                         /\ d.lines = cache[u].lines /\ Whole(u, cache[u])
                         /\ Counted(u, cache[u]) /\ Listed(u, cache[u])
    BY <1>15, <2>1 DEF Storing, IsCached, CacheFields
  <2> HIDE DEF d
  <2>3. u \in D!Units => Whole(u, d) /\ Counted(u, d) /\ Listed(u, d) /\ Numbered(u, d)
    BY <2>2 DEF Whole, Counted, Listed, Numbered
  <2>4. QED
    BY <1>16, <2>1, <2>3 DEF Storing
<1>20. CASE D!StoreLines(t)
  <2> DEFINE d == [cache[u] EXCEPT !.lines = a.lines]
  <2>1. /\ pc[t] = "lines" /\ pc' = [pc EXCEPT ![t] = "report"]
        /\ cache' = [cache EXCEPT ![u] = d] /\ UNCHANGED <<info, list, at, todo>>
    BY <1>5, <1>20 DEF D!StoreLines, D!Goto, a
  <2>2. u \in D!Units => /\ IsCached(d) /\ d.lines = Tables(u).lines
                         /\ d.count = cache[u].count /\ d.functions = cache[u].functions
                         /\ d.fcount = cache[u].fcount
                         /\ Counted(u, cache[u]) /\ Listed(u, cache[u]) /\ Numbered(u, cache[u])
    BY <1>15, <2>1 DEF Storing, IsCached, CacheFields
  <2> HIDE DEF d
  <2>3. u \in D!Units => Whole(u, d) /\ Counted(u, d) /\ Listed(u, d) /\ Numbered(u, d)
    BY <2>2 DEF Whole, Counted, Listed, Numbered
  <2>4. QED
    BY <1>16, <2>1, <2>3 DEF Storing
<1>21. CASE D!ReportPC(t)
  <2>1. \E frames : D!Returns(t, frames) /\ UNCHANGED <<info, list, cache, todo>>
    BY <1>21 DEF D!ReportPC
  <2>2. QED
    BY <1>10, <2>1
<1>22. QED
  BY <1>6, <1>7, <1>8, <1>9, <1>11, <1>12, <1>13, <1>14, <1>17, <1>18, <1>19, <1>20, <1>21 DEF D!Step

LEMMA TablesLinesLast == TablesInv => D!LinesLast
<1> SUFFICES ASSUME TablesInv, NEW mu \in D!Units, cache[mu].lines.is = "table"
             PROVE  /\ cache[mu].count = Len(cache[mu].lines.rows)
                    /\ cache[mu].fcount = Len(cache[mu].functions)
                    /\ cache[mu].functions = D!FunctionTable(D!Unit(mu), info[mu[1]].base)
  BY DEF D!LinesLast
<1>1. cache[mu].lines # D!Unread
  BY DEF D!Unread
<1>2. Whole(mu, cache[mu])
  BY DEF TablesInv
<1>3. Tables(mu).lines.is = "table"
  BY <1>1, <1>2 DEF Whole
<1>4. Tables(mu).functions = D!FunctionTable(D!Unit(mu), info[mu[1]].base)
  BY <1>3 DEF Tables, D!TablesOf, D!Read, D!Useless
<1>5. QED
  BY <1>1, <1>2, <1>4 DEF Whole, Counted, Listed, Numbered

\* Thread t is adding module m.
Adds(t, m) == pc[t] \in {"walk", "swap"} /\ at[t].ddata[1].m = m

\* A module is either to be added, or being added by one thread, or in the list, once.
AddedInv ==
  /\ \A i \in DOMAIN list : list[i].m \in DOMAIN info \ todo
  /\ \A i, k \in DOMAIN list : list[i].m = list[k].m => i = k
  /\ \A t \in Threads : \A m : Adds(t, m) => /\ m \in DOMAIN info \ todo
                                             /\ \A i \in DOMAIN list : list[i].m # m
  /\ \A s, t \in Threads : \A m : Adds(s, m) /\ Adds(t, m) => s = t
  /\ \A m \in DOMAIN info \ todo : \/ \E i \in DOMAIN list : list[i].m = m
                                   \/ \E t \in Threads : Adds(t, m)

LEMMA AddedInit ==
  ASSUME NEW i, D!InitWith(i)
  PROVE  AddedInv
<1>1. /\ list = <<>> /\ todo = DOMAIN info /\ \A t \in Threads : pc[t] = "idle"
  BY DEF D!InitWith
<1>2. DOMAIN list = {}
  BY <1>1
<1>3. QED
  BY <1>1, <1>2 DEF AddedInv, Adds

LEMMA AddedStep ==
  ASSUME TablesInv, AddedInv, NEW t \in Threads, D!Step(t)
  PROVE  AddedInv'
<1>1. /\ list \in Seq(AddedModules)
      /\ pc = [s \in Threads |-> pc[s]] /\ at = [s \in Threads |-> at[s]] /\ IsAt(at[t])
      /\ pc[t] \in {"walk", "swap"} => at[t].ddata[1] \in AddedModules
      /\ todo \subseteq DOMAIN info
  BY DEF TablesInv, UnitsType
<1>2. ASSUME NEW m \in todo, D!Add(t, m) PROVE AddedInv'
  <2>1. /\ pc[t] = "idle" /\ pc' = [pc EXCEPT ![t] = "walk"]
        /\ at' = [at EXCEPT ![t] = [D!Start EXCEPT !.ddata = <<D!Built(m)>>]]
        /\ UNCHANGED <<info, list>> /\ todo' = todo \ {m}
    BY <1>2 DEF D!Add, D!Goto
  <2>2. [D!Start EXCEPT !.ddata = <<D!Built(m)>>].ddata[1].m = m
    BY DEF D!Start, D!Built
  <2>3. \A s \in Threads : \A k : Adds(s, k)' <=> Adds(s, k) \/ (s = t /\ k = m)
    BY <1>1, <2>1, <2>2 DEF Adds
  <2>4. /\ \A i \in DOMAIN list : list[i].m # m
        /\ \A s \in Threads : ~Adds(s, m)
        /\ m \in DOMAIN info
    BY <1>1 DEF AddedInv
  <2>5. QED
    BY ONLY AddedInv, <2>1, <2>3, <2>4, t \in Threads DEF AddedInv
<1>3. ASSUME pc[t] = "swap", pc' = [pc EXCEPT ![t] = "idle"], list' = Append(list, at[t].ddata[1]),
             UNCHANGED <<info, at, todo>>
      PROVE  AddedInv'
  <2> DEFINE b == at[t].ddata[1]
             n == Len(list)
  <2>1. b \in AddedModules /\ Adds(t, b.m)
    BY <1>1, <1>3 DEF Adds
  <2>2. \A s \in Threads : \A k : Adds(s, k)' <=> Adds(s, k) /\ s # t
    BY <1>1, <1>3 DEF Adds
  <2>3. UNCHANGED <<info, todo>> /\ list' = Append(list, b)
    BY <1>3
  <2>7. Adds(t, b.m) /\ \A k : Adds(t, k) => k = b.m
    BY <2>1 DEF Adds
  <2> HIDE DEF b
  <2>4. /\ n \in Nat /\ DOMAIN list = 1 .. n /\ DOMAIN list' = 1 .. n + 1
        /\ \A i \in 1 .. n : list'[i] = list[i]
        /\ list'[n + 1] = b
    BY <1>1, <2>1, <2>3
  <2> HIDE DEF n
  <2>5. DOMAIN list' = DOMAIN list \cup {n + 1} /\ n + 1 \notin DOMAIN list
    BY <2>4
  <2>6. QED
    BY ONLY AddedInv, <2>2, <2>3, <2>4, <2>5, <2>7, t \in Threads DEF AddedInv
<1>4. ASSUME UNCHANGED <<info, list, todo>>, \A s \in Threads : \A m : Adds(s, m)' <=> Adds(s, m)
      PROVE  AddedInv'
  BY ONLY AddedInv, <1>4 DEF AddedInv
<1>5. CASE D!Walk(t)
  <2>1. /\ pc[t] = "walk" /\ pc' = [pc EXCEPT ![t] = "swap"] /\ at' = [at EXCEPT ![t].tail = Len(list)]
        /\ UNCHANGED <<info, list, todo>>
    BY <1>5 DEF D!Walk, D!Goto
  <2>2. [at[t] EXCEPT !.tail = Len(list)].ddata = at[t].ddata
    BY <1>1 DEF IsAt, AtFields
  <2>3. \A s \in Threads : \A m : Adds(s, m)' <=> Adds(s, m)
    BY <1>1, <2>1, <2>2 DEF Adds
  <2>4. QED
    BY <1>4, <2>1, <2>3
<1>6. CASE D!Swap(t)
  <2>1. /\ pc[t] = "swap" /\ UNCHANGED <<info, at, todo>>
        /\ \/ pc' = [pc EXCEPT ![t] = "idle"] /\ list' = Append(list, at[t].ddata[1])
           \/ pc' = [pc EXCEPT ![t] = "walk"] /\ UNCHANGED list
    BY <1>6 DEF D!Swap, D!Goto
  <2>2. CASE pc' = [pc EXCEPT ![t] = "walk"] /\ UNCHANGED list
    <3>1. \A s \in Threads : \A m : Adds(s, m)' <=> Adds(s, m)
      BY <1>1, <2>1, <2>2 DEF Adds
    <3>2. QED
      BY <1>4, <2>1, <2>2, <3>1
  <2>3. QED
    BY <1>3, <2>1, <2>2
\* The others add nothing.
<1>7. ASSUME NEW p, NEW a, pc[t] \notin {"walk", "swap"}, p \notin {"walk", "swap"},
             pc' = [pc EXCEPT ![t] = p], at' = [at EXCEPT ![t] = a], UNCHANGED <<info, list, todo>>
      PROVE  AddedInv'
  <2>1. \A s \in Threads : \A m : Adds(s, m)' <=> Adds(s, m)
    BY <1>1, <1>7 DEF Adds
  <2>2. QED
    BY <1>4, <1>7, <2>1
<1>8. pc = [pc EXCEPT ![t] = pc[t]] /\ at = [at EXCEPT ![t] = at[t]]
  BY <1>1
<1>9. CASE \E x \in PCs : D!Look(t, x)
  BY <1>7, <1>9 DEF D!Look, D!Goto
<1>10. CASE D!Module(t)
  <2>1. /\ pc[t] = "module" /\ UNCHANGED <<info, list, todo>>
        /\ \/ D!Returns(t, D!Nothing)
           \/ UNCHANGED pc /\ \E a : at' = [at EXCEPT ![t] = a]
           \/ pc' = [pc EXCEPT ![t] = "skip"] /\ \E a : at' = [at EXCEPT ![t] = a]
    BY <1>10 DEF D!Module
  <2>2. CASE D!Returns(t, D!Nothing)
    BY <1>7, <2>1, <2>2 DEF D!Returns
  <2>3. CASE UNCHANGED pc /\ \E a : at' = [at EXCEPT ![t] = a]
    BY <1>7, <1>8, <2>1, <2>3
  <2>4. CASE pc' = [pc EXCEPT ![t] = "skip"] /\ \E a : at' = [at EXCEPT ![t] = a]
    BY <1>7, <2>1, <2>4
  <2>5. QED
    BY <2>1, <2>2, <2>3, <2>4
<1>11. CASE D!Skip(t)
  BY <1>7, <1>8, <1>11 DEF D!Skip, D!Goto
<1>12. CASE D!Load(t)
  BY <1>7, <1>12 DEF D!Load, D!Goto
<1>13. CASE D!ReadUnit(t)
  BY <1>7, <1>13 DEF D!ReadUnit, D!Goto
<1>14. CASE D!StoreCount(t) \/ D!StoreFunctions(t) \/ D!StoreFcount(t) \/ D!StoreLines(t)
  BY <1>7, <1>8, <1>14 DEF D!StoreCount, D!StoreFunctions, D!StoreFcount, D!StoreLines, D!Goto
<1>15. CASE D!ReportPC(t)
  BY <1>7, <1>15 DEF D!ReportPC, D!Returns
<1>16. QED
  BY <1>2, <1>5, <1>6, <1>9, <1>10, <1>11, <1>12, <1>13, <1>14, <1>15 DEF D!Step

LEMMA AddedModulesKept == AddedInv => D!ModulesKept
  BY DEF AddedInv, Adds, D!ModulesKept

-----------------------------------------------------------------------------

\* Every thread of both parts.
ThreadsInv ==
  /\ part = "dwarf" => TablesInv /\ AddedInv
  /\ part = "fileline" => FilelineInv /\ FramesInv

LEMMA ThreadsInit == Init => ThreadsInv
<1> SUFFICES ASSUME Init PROVE ThreadsInv
  OBVIOUS
<1>1. ASSUME part = "dwarf" PROVE TablesInv /\ AddedInv
  <2>1. \E i \in Modules : D!InitWith(i)
    BY <1>1 DEF Init, ReadersInit
  <2>2. QED
    BY <2>1, TablesInit, AddedInit
<1>2. ASSUME part = "fileline" PROVE FilelineInv /\ FramesInv
  BY <1>2, FilelineInit, FramesInit DEF Init, ReadersInit
<1>3. QED
  BY <1>1, <1>2 DEF ThreadsInv

LEMMA ThreadsStep ==
  ASSUME ThreadsInv, [Next]_vars
  PROVE  ThreadsInv'
<1>1. CASE FindsFrames /\ UNCHANGED part
  <2>1. PICK t \in Threads : D!Step(t)
    BY <1>1 DEF FindsFrames
  <2>2. part = "dwarf" /\ TablesInv /\ AddedInv
    BY <1>1 DEF FindsFrames, ThreadsInv
  <2>3. TablesInv' /\ AddedInv'
    BY <2>1, <2>2, TablesStep, AddedStep
  <2>4. QED
    BY <1>1, <2>2, <2>3 DEF ThreadsInv
<1>2. CASE WalksStack /\ UNCHANGED part
  <2>1. part = "fileline" /\ FilelineInv /\ FramesInv
    BY <1>2 DEF WalksStack, ThreadsInv
  <2>2. CASE \E t \in Threads : F!Step(t)
    BY <1>2, <2>1, <2>2, FilelineStep, FramesStep DEF ThreadsInv
  <2>3. CASE UNCHANGED F!vars
    BY <1>2, <2>1, <2>3 DEF ThreadsInv, FilelineInv, FramesInv, F!vars
  <2>4. QED
    BY <1>2, <2>2, <2>3 DEF WalksStack, F!Next
<1>3. CASE UNCHANGED part /\ part \notin {"dwarf", "fileline"}
  BY <1>3 DEF ThreadsInv
<1>4. CASE UNCHANGED vars
  <2>1. /\ UNCHANGED <<part, units, pc, fn, fileline_fn, syminfo_fn>>
        /\ UNCHANGED <<frame, skip, asked, out>>
    BY <1>4 DEF vars, pcinfo
  <2>2. UnitsType => UnitsType'
    BY <2>1, SameTables DEF UnitsType, IsAt, units
  <2>3. TablesInv => TablesInv'
    BY <2>1, <2>2, SameTables DEF TablesInv, units
  <2>4. AddedInv => AddedInv'
    BY <2>1 DEF AddedInv, Adds, units
  <2>5. FilelineInv => FilelineInv'
    BY <2>1 DEF FilelineInv
  <2>6. FramesInv => FramesInv'
    BY <2>1 DEF FramesInv
  <2>7. QED
    BY <2>1, <2>3, <2>4, <2>5, <2>6 DEF ThreadsInv
<1>5. QED
  BY <1>1, <1>2, <1>3, <1>4 DEF Next, Ended, Reads, ReadersNext, ReadsElf, ReadsMacho, ReadsPecoff, ReadsXcoff,
                                FindsSymbol, FindsLine, FindsFrames, WalksStack

\* Whoever finds the lines of a unit set finds the rest of its tables set, no module is lost
\* from the list (dwarf.c), and no thread calls a function that is not set (fileline.c).
THEOREM LoaderSeenWhole == Spec => []SeenWhole
<1>1. ThreadsInv => SeenWhole
  BY TablesLinesLast, AddedModulesKept DEF ThreadsInv, SeenWhole, FilelineInv, F!NeverCallsNull
<1>2. QED
  BY <1>1, ThreadsInit, ThreadsStep, PTL DEF Spec

\* Every frame of the stack is reported once, in order, and to the last unless the callback
\* says so (backtrace.c): of ReportsRight, what is about the order of the frames.
THEOREM LoaderFramesInOrder == Spec => [](part = "fileline" => F!FramesInOrder)
<1>1. ThreadsInv => (part = "fileline" => F!FramesInOrder)
  BY FramesRightOrder DEF ThreadsInv
<1>2. QED
  BY <1>1, ThreadsInit, ThreadsStep, PTL DEF Spec

-----------------------------------------------------------------------------
(* The readers: what they take and refer to.                               *)

\* The inductive invariant of the reader that is at work.
ReadersInv ==
  /\ part = "elf"    => ElfInv
  /\ part = "macho"  => MachoInv
  /\ part = "pecoff" => PecoffInv
  /\ part = "xcoff"  => XcoffInv

LEMMA ReadersStart == Init => ReadersInv
<1>1. ASSUME NEW r \in Elfs, part = "elf", E!InitWith(r.disk, r.libraries, r.exe) PROVE ReadersInv
  BY <1>1, ElfInit DEF ReadersInv
<1>2. ASSUME NEW r \in Machos, part = "macho", M!InitWith(r.disk, r.images, r.exe) PROVE ReadersInv
  BY <1>2, MachoInit DEF ReadersInv
<1>3. ASSUME NEW f \in Pecoffs, part = "pecoff", P!InitWith(f) PROVE ReadersInv
  BY <1>3, PecoffInit DEF ReadersInv
<1>4. ASSUME NEW r \in Xcoffs, part = "xcoff", X!InitWith(r.disk, r.libraries, r.exe) PROVE ReadersInv
  BY <1>4, XcoffInit DEF ReadersInv
<1>5. ASSUME part \notin {"elf", "macho", "pecoff", "xcoff"} PROVE ReadersInv
  BY <1>5 DEF ReadersInv
<1>6. QED
  BY <1>1, <1>2, <1>3, <1>4, <1>5 DEF Init, ReadersInit

LEMMA ReadersStep ==
  ASSUME ReadersInv, [Next]_vars
  PROVE  ReadersInv'
<1>1. CASE ReadsElf /\ UNCHANGED part
  <2>1. part = "elf" /\ ElfInv /\ E!Next
    BY <1>1 DEF ReadsElf, ReadersInv
  <2>2. ElfInv'
    BY <2>1, ElfStep
  <2>3. QED
    BY <1>1, <2>1, <2>2 DEF ReadersInv
<1>2. CASE ReadsMacho /\ UNCHANGED part
  <2>1. part = "macho" /\ MachoInv /\ M!Next
    BY <1>2 DEF ReadsMacho, ReadersInv
  <2>2. MachoInv'
    BY <2>1, MachoStep
  <2>3. QED
    BY <1>2, <2>1, <2>2 DEF ReadersInv
<1>3. CASE ReadsPecoff /\ UNCHANGED part
  <2>1. part = "pecoff" /\ PecoffInv /\ P!Next
    BY <1>3 DEF ReadsPecoff, ReadersInv
  <2>2. PecoffInv'
    BY <2>1, PecoffStep
  <2>3. QED
    BY <1>3, <2>1, <2>2 DEF ReadersInv
<1>4. CASE ReadsXcoff /\ UNCHANGED part
  <2>1. part = "xcoff" /\ XcoffInv /\ X!Next
    BY <1>4 DEF ReadsXcoff, ReadersInv
  <2>2. XcoffInv'
    BY <2>1, XcoffStep
  <2>3. QED
    BY <1>4, <2>1, <2>2 DEF ReadersInv
<1>5. CASE UNCHANGED part /\ part \notin {"elf", "macho", "pecoff", "xcoff"}
  BY <1>5 DEF ReadersInv
<1>6. CASE UNCHANGED vars
  <2>1. UNCHANGED part /\ UNCHANGED readers
    BY <1>6 DEF vars
  <2>2. /\ UNCHANGED <<disk, main, stack, res, kept, added, left, faults>>
        /\ UNCHANGED <<file, main, views, res, kept, faults>>
        /\ UNCHANGED <<disk, main, stack, res, kept, left, faults>>
    BY <2>1 DEF readers
  <2>3. ElfInv => ElfInv'
    BY <2>2, ElfStep
  <2>4. MachoInv => MachoInv'
    BY <2>2, MachoStep
  <2>5. PecoffInv => PecoffInv'
    BY <2>2, PecoffStep
  <2>6. XcoffInv => XcoffInv'
    BY <2>2, XcoffStep
  <2>7. QED
    BY <2>1, <2>3, <2>4, <2>5, <2>6 DEF ReadersInv
<1>7. QED
  BY <1>1, <1>2, <1>3, <1>4, <1>5, <1>6 DEF Next, Ended, Reads, ReadersNext,
     FindsSymbol, FindsLine, FindsFrames, WalksStack

\* Whatever the files on the disk are like and however many system calls and allocations fail:
\* nothing is given back that is not held or open, but a descriptor whose close has failed; and
\* what the symbols, the lines and the debug information that were found refer to is held
\* (elf_add, macho_add), but for the string table of coff_add where it fails with the symbols
\* added, and the names, sections and lines of a call of xcoff_add that fails with them added.
THEOREM LoaderNothingDangles == Spec => []NothingDangles
<1>1. ReadersInv => NothingDangles
  BY ElfGood, MachoGood, PecoffGood, XcoffGood DEF ReadersInv, NothingDangles
<1>2. QED
  BY <1>1, ReadersStart, ReadersStep, PTL DEF Spec

\* When a reader has ended every descriptor is closed, and everything given back that nothing
\* refers to, but for what the readers are known to leave: the comments on AllReleased in their
\* modules say what, and where.
THEOREM LoaderAllReleased == Spec => []AllReleased
<1>1. ReadersInv => AllReleased
  BY ElfGood, MachoGood, PecoffGood, XcoffGood DEF ReadersInv, AllReleased
<1>2. QED
  BY <1>1, ReadersStart, ReadersStep, PTL DEF Spec

\* The debug information that is used is that of the file it was looked for (the checks of the
\* CRC and the build ID in elf_add, of the UUID in macho_add), and the functions that are
\* installed find what they look at (coff, Mach-O and XCOFF).
THEOREM LoaderRightFile == Spec => []RightFile
<1>1. ReadersInv => RightFile
  BY ElfGood, MachoGood, PecoffGood, XcoffGood DEF ReadersInv, RightFile
<1>2. QED
  BY <1>1, ReadersStart, ReadersStep, PTL DEF Spec
=============================================================================

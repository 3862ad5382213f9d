----------------------------- MODULE ReaderProofs -----------------------------
(***************************************************************************)
(* Proofs about the readers of pkg/rbase/backtrace, for every file on the  *)
(* disk and every number of faults: the ledger and the stack of calls that *)
(* they share, pecoff.c, elf.c and xcoff.c.  LoaderProofs has macho.c and  *)
(* the theorems about all of them.                                         *)
(***************************************************************************)
EXTENDS Readers, Resources, SequenceTheorems, TLAPS

-----------------------------------------------------------------------------
(* The ledger.                                                             *)

\* What of a set of things, each with its reader, is that of reader id.
Mine(things, id) == {h[2] : h \in {k \in things : k[1] = id}}

Pairs(things) == \A h \in things : h = <<h[1], h[2]>>

\* Nothing was given back that was not there.
Ledger(r) ==
  /\ r = [f \in {"open", "unsure", "held", "twice"} |-> r[f]]
  /\ r.twice = FALSE
  /\ Pairs(r.held)

LEMMA MineIs ==
  ASSUME NEW things, Pairs(things), NEW id, NEW w
  PROVE  w \in Mine(things, id) <=> <<id, w>> \in things
  BY DEF Mine, Pairs

LEMMA MineMore ==
  ASSUME NEW things, Pairs(things), NEW id, NEW whats
  PROVE  LET more == things \cup ({id} \X whats)
             less == things \ ({id} \X whats)
         IN  /\ Pairs(more) /\ Pairs(less)
             /\ Mine(more, id) = Mine(things, id) \cup whats
             /\ Mine(less, id) = Mine(things, id) \ whats
             /\ \A i : i # id => Mine(more, i) = Mine(things, i) /\ Mine(less, i) = Mine(things, i)
             /\ ({id} \X whats) \subseteq things <=> whats \subseteq Mine(things, id)
<1> DEFINE more == things \cup ({id} \X whats)
           less == things \ ({id} \X whats)
<1>1. Pairs(more) /\ Pairs(less)
  BY DEF Pairs
<1>2. \A i, w : /\ <<i, w>> \in more <=> <<i, w>> \in things \/ (i = id /\ w \in whats)
                /\ <<i, w>> \in less <=> <<i, w>> \in things /\ ~(i = id /\ w \in whats)
  OBVIOUS
<1>3. \A i, w : /\ w \in Mine(more, i) <=> <<i, w>> \in more
                /\ w \in Mine(less, i) <=> <<i, w>> \in less
                /\ w \in Mine(things, i) <=> <<i, w>> \in things
  BY <1>1, MineIs
<1>4. ({id} \X whats) \subseteq things <=> whats \subseteq Mine(things, id)
  <2>1. \A w : w \in Mine(things, id) <=> <<id, w>> \in things
    BY <1>3
  <2>2. \A h : h \in {id} \X whats <=> \E w \in whats : h = <<id, w>>
    OBVIOUS
  <2>3. QED
    BY ONLY <2>1, <2>2
<1> HIDE DEF more, less
<1>5. /\ Mine(more, id) = Mine(things, id) \cup whats
      /\ Mine(less, id) = Mine(things, id) \ whats
      /\ \A i : i # id => Mine(more, i) = Mine(things, i) /\ Mine(less, i) = Mine(things, i)
  <2>1. ASSUME NEW i PROVE \A w : /\ w \in Mine(more, i) <=> w \in Mine(things, i) \/ (i = id /\ w \in whats)
                                  /\ w \in Mine(less, i) <=> w \in Mine(things, i) /\ ~(i = id /\ w \in whats)
    BY <1>2, <1>3
  <2>2. QED
    BY <2>1
<1>6. QED
  BY <1>1, <1>4, <1>5 DEF more, less

\* A set of things to which the things whats of reader id are added.
Plus(things, id, whats) == things \cup ({id} \X whats)

LEMMA PlusMine ==
  ASSUME NEW things, Pairs(things), NEW id, NEW whats
  PROVE  LET more == Plus(things, id, whats)
         IN  /\ Pairs(more) /\ Mine(more, id) = Mine(things, id) \cup whats
             /\ \A i : i # id => Mine(more, i) = Mine(things, i)
<1>1. LET more == things \cup ({id} \X whats)
          less == things \ ({id} \X whats)
      IN  /\ Pairs(more) /\ Pairs(less)
          /\ Mine(more, id) = Mine(things, id) \cup whats
          /\ Mine(less, id) = Mine(things, id) \ whats
          /\ \A i : i # id => Mine(more, i) = Mine(things, i) /\ Mine(less, i) = Mine(things, i)
          /\ ({id} \X whats) \subseteq things <=> whats \subseteq Mine(things, id)
  BY MineMore
<1> DEFINE more == things \cup ({id} \X whats)
           less == things \ ({id} \X whats)
<1>2. QED
  BY <1>1 DEF Plus

LEMMA TakenMine ==
  ASSUME NEW r, Ledger(r), NEW id, NEW whats
  PROVE  LET s == Taken(r, id, whats)
         IN  /\ Ledger(s) /\ s.open = r.open /\ s.unsure = r.unsure
             /\ s.held = r.held \cup ({id} \X whats)
             /\ Mine(s.held, id) = Mine(r.held, id) \cup whats
             /\ \A i : i # id => Mine(s.held, i) = Mine(r.held, i)
<1>0. LET more == r.held \cup ({id} \X whats)
          less == r.held \ ({id} \X whats)
      IN  /\ Pairs(more) /\ Pairs(less)
          /\ Mine(more, id) = Mine(r.held, id) \cup whats
          /\ Mine(less, id) = Mine(r.held, id) \ whats
          /\ \A i : i # id => Mine(more, i) = Mine(r.held, i) /\ Mine(less, i) = Mine(r.held, i)
          /\ ({id} \X whats) \subseteq r.held <=> whats \subseteq Mine(r.held, id)
  BY MineMore DEF Ledger
<1> DEFINE s == Taken(r, id, whats)
<1>1. /\ s = [f \in {"open", "unsure", "held", "twice"} |-> s[f]]
      /\ s.open = r.open /\ s.unsure = r.unsure /\ s.held = r.held \cup ({id} \X whats)
      /\ s.twice = FALSE
  BY DEF Taken, Ledger
<1> HIDE DEF s
<1>2. QED
  BY ONLY <1>0, <1>1 DEF Ledger, s

LEMMA ReleasedMine ==
  ASSUME NEW r, Ledger(r), NEW id, NEW whats
  PROVE  LET s == Released(r, id, whats)
         IN  /\ whats \subseteq Mine(r.held, id) => Ledger(s)
             /\ s.open = r.open /\ s.unsure = r.unsure
             /\ s.held = r.held \ ({id} \X whats)
             /\ Mine(s.held, id) = Mine(r.held, id) \ whats
             /\ \A i : i # id => Mine(s.held, i) = Mine(r.held, i)
<1>2. LET more == r.held \cup ({id} \X whats)
          less == r.held \ ({id} \X whats)
      IN  /\ Pairs(more) /\ Pairs(less)
          /\ Mine(more, id) = Mine(r.held, id) \cup whats
          /\ Mine(less, id) = Mine(r.held, id) \ whats
          /\ \A i : i # id => Mine(more, i) = Mine(r.held, i) /\ Mine(less, i) = Mine(r.held, i)
          /\ ({id} \X whats) \subseteq r.held <=> whats \subseteq Mine(r.held, id)
  BY MineMore DEF Ledger
<1> DEFINE s == Released(r, id, whats)
           lost == ~(({id} \X whats) \subseteq r.held)
<1>0. lost \in BOOLEAN
  OBVIOUS
<1> HIDE DEF lost
<1>1. /\ s = [f \in {"open", "unsure", "held", "twice"} |-> s[f]]
      /\ s.open = r.open /\ s.unsure = r.unsure /\ s.held = r.held \ ({id} \X whats)
      /\ ~lost => s.twice = FALSE
  BY <1>0 DEF Released, Ledger, lost
<1> HIDE DEF s
<1>3. QED
  BY ONLY <1>0, <1>1, <1>2 DEF Ledger, s, lost

LEMMA ClosedIs ==
  ASSUME NEW r, Ledger(r), NEW fd
  PROVE  LET s == Closed(r, fd)
         IN  /\ s.held = r.held
             /\ fd = NoFile => s = r
             /\ fd # NoFile => /\ fd \in r.open \cup r.unsure => Ledger(s)
                               /\ s.open = r.open \ {fd}
                               /\ s.unsure = r.unsure \ {fd}
<1>1. CASE fd = NoFile
  BY <1>1 DEF Closed
<1>2. CASE fd # NoFile
  <2> DEFINE lost == fd \notin r.open \cup r.unsure
             s == [r EXCEPT !.open = @ \ {fd}, !.unsure = @ \ {fd}, !.twice = @ \/ lost]
  <2>0. lost \in BOOLEAN
    OBVIOUS
  <2>1. Closed(r, fd) = s
    BY <1>2 DEF Closed
  <2> HIDE DEF lost
  <2>2. /\ s = [f \in {"open", "unsure", "held", "twice"} |-> s[f]]
        /\ s.open = r.open \ {fd} /\ s.unsure = r.unsure \ {fd} /\ s.held = r.held
        /\ ~lost => s.twice = FALSE
    BY <2>0 DEF Ledger
  <2> HIDE DEF s
  <2>3. QED
    BY <1>2, <2>0, <2>1, <2>2 DEF Ledger, lost
<1>3. QED
  BY <1>1, <1>2

\* A close that fails of a descriptor that was open.
LEMMA CloseFailsIs ==
  ASSUME NEW r, Ledger(r), r.unsure = {}, NEW fd, fd # NoFile, fd \in r.open
  PROVE  LET s == CloseFails(r, fd)
         IN  /\ Ledger(s) /\ s.held = r.held
             /\ s.open = r.open \ {fd} /\ s.unsure = {fd}
<1> DEFINE c == Closed(r, fd)
           s == CloseFails(r, fd)
<1>1. Ledger(c) /\ c.held = r.held /\ c.open = r.open \ {fd} /\ c.unsure = {}
  BY ClosedIs
<1>2. s = [c EXCEPT !.unsure = @ \cup {fd}]
  BY DEF CloseFails
<1> HIDE DEF c, s
<1>3. /\ s = [f \in {"open", "unsure", "held", "twice"} |-> s[f]]
      /\ s.open = c.open /\ s.unsure = {fd} /\ s.held = c.held /\ s.twice = FALSE
  BY <1>1, <1>2 DEF Ledger
<1>4. QED
  BY <1>1, <1>3 DEF Ledger, s

LEMMA OpenedIs ==
  ASSUME NEW r, Ledger(r), NEW fd
  PROVE  LET s == Opened(r, fd)
         IN  Ledger(s) /\ s.held = r.held /\ s.unsure = r.unsure /\ s.open = r.open \cup {fd}
<1> DEFINE s == Opened(r, fd)
<1>1. /\ s = [f \in {"open", "unsure", "held", "twice"} |-> s[f]]
      /\ s.held = r.held /\ s.unsure = r.unsure /\ s.open = r.open \cup {fd} /\ s.twice = FALSE
  BY DEF Opened, Ledger
<1> HIDE DEF s
<1>2. QED
  BY <1>1 DEF Ledger, s

LEMMA NothingHeld ==
  Ledger(NoResources) /\ NoResources.held = {} /\ NoResources.open = {} /\ NoResources.unsure = {}
  BY DEF NoResources, Ledger, Pairs

LEMMA MineNone == \A id : Mine({}, id) = {}
  BY DEF Mine

-----------------------------------------------------------------------------
(* The stack of calls.                                                     *)

IsStack(s) == \E Items : s \in Seq(Items)

LEMMA StackIs ==
  ASSUME NEW s, IsStack(s)
  PROVE  /\ Len(s) \in Nat /\ DOMAIN s = 1 .. Len(s)
         /\ s = <<>> <=> Len(s) = 0
         /\ s # <<>> => Len(s) \in 1 .. Len(s) /\ Last(s) = s[Len(s)]
  BY DEF IsStack, Last

LEMMA Pushed ==
  ASSUME NEW s, IsStack(s), NEW x
  PROVE  LET t == Append(s, x)
         IN  /\ IsStack(t) /\ t # <<>> /\ Len(t) = Len(s) + 1 /\ t[Len(s) + 1] = x
             /\ \A j \in 1 .. Len(s) : t[j] = s[j]
<1>1. PICK Items : s \in Seq(Items)
  BY DEF IsStack
<1> DEFINE T == Items \cup {x}
<1>2. s \in Seq(T) /\ x \in T
  BY <1>1
<1>3. Append(s, x) \in Seq(T)
  BY <1>2
<1>4. IsStack(Append(s, x))
  BY <1>3 DEF IsStack
<1>5. QED
  BY <1>1, <1>4

\* The last call is at another place.
WithLast(s, x) == [s EXCEPT ![Len(s)] = x]

LEMMA Replaced ==
  ASSUME NEW s, IsStack(s), s # <<>>, NEW x
  PROVE  LET t == WithLast(s, x)
         IN  /\ IsStack(t) /\ t # <<>> /\ Len(t) = Len(s) /\ t[Len(s)] = x
             /\ \A j \in 1 .. Len(s) - 1 : t[j] = s[j]
<1>1. PICK Items : s \in Seq(Items)
  BY DEF IsStack
<1> DEFINE T == Items \cup {x}
<1>2. s \in Seq(T) /\ x \in T
  BY <1>1
<1>3. [s EXCEPT ![Len(s)] = x] \in Seq(T)
  BY <1>2
<1>4. IsStack([s EXCEPT ![Len(s)] = x])
  BY <1>3 DEF IsStack
<1>5. QED
  BY <1>1, <1>3, <1>4 DEF WithLast

LEMMA Popped ==
  ASSUME NEW s, IsStack(s), s # <<>>
  PROVE  LET t == Front(s)
         IN  /\ IsStack(t) /\ Len(t) = Len(s) - 1
             /\ \A j \in 1 .. Len(s) - 1 : t[j] = s[j]
<1>1. PICK Items : s \in Seq(Items)
  BY DEF IsStack
<1> DEFINE t == SubSeq(s, 1, Len(s) - 1)
<1>2. t \in Seq(Items) /\ Len(t) = Len(s) - 1 /\ \A j \in 1 .. Len(s) - 1 : t[j] = s[j]
  <2> DEFINE n == Len(s) - 1
  <2>1. n \in Int /\ n >= 0 /\ \A i \in 1 .. n : s[i] \in Items
    BY <1>1
  <2> HIDE DEF n
  <2>2. /\ SubSeq(s, 1, n) \in Seq(Items)
        /\ Len(SubSeq(s, 1, n)) = IF 1 <= n THEN n - 1 + 1 ELSE 0
        /\ \A i \in 1 .. n - 1 + 1 : SubSeq(s, 1, n)[i] = s[1 + i - 1]
    BY <2>1, SubSeqProperties
  <2>3. \A i \in 1 .. n : i \in 1 .. n - 1 + 1 /\ 1 + i - 1 = i
    BY <2>1
  <2>4. Len(SubSeq(s, 1, n)) = n
    BY <2>1, <2>2
  <2>5. ASSUME NEW j \in 1 .. n PROVE SubSeq(s, 1, n)[j] = s[j]
    <3>1. SubSeq(s, 1, n)[j] = s[1 + j - 1]
      BY <2>2, <2>3
    <3>2. QED
      BY <2>3, <3>1
  <2>6. QED
    BY <2>2, <2>4, <2>5 DEF n
<1>3. Front(s) = t
  BY DEF Front
<1> HIDE DEF t
<1>4. QED
  BY <1>2, <1>3 DEF IsStack

LEMMA Single ==
  ASSUME NEW s, IsStack(s), Len(s) = 1
  PROVE  s = <<s[1]>>
<1>1. PICK Items : s \in Seq(Items)
  BY DEF IsStack
<1> DEFINE t == <<s[1]>>
<1>2. s[1] \in Items
  BY <1>1
<1>3. t \in Seq(Items) /\ Len(t) = 1 /\ t[1] = s[1]
  <2>1. t \in Seq(Items)
    BY ONLY <1>2
  <2>2. Len(t) = 1 /\ t[1] = s[1]
    OBVIOUS
  <2>3. QED
    BY <2>1, <2>2
<1> HIDE DEF t
<1>4. Len(s) = Len(t) /\ \A i \in 1 .. Len(s) : s[i] = t[i]
  BY <1>3
<1>5. s = t
  BY ONLY <1>1, <1>3, <1>4, SeqEqual
<1>6. QED
  BY <1>5 DEF t

LEMMA FrontTwo ==
  ASSUME NEW x, NEW y
  PROVE  Front(<<x, y>>) = <<x>>
<1> DEFINE s == <<x, y>>
<1>1. IsStack(s) /\ s # <<>> /\ Len(s) = 2 /\ s[1] = x
  <2>1. s \in Seq({x, y})
    OBVIOUS
  <2>2. QED
    BY <2>1 DEF IsStack
<1> HIDE DEF s
<1>2. IsStack(Front(s)) /\ Len(Front(s)) = Len(s) - 1 /\ \A j \in 1 .. Len(s) - 1 : Front(s)[j] = s[j]
  BY <1>1, Popped
<1>3. Len(Front(s)) = 1 /\ Front(s)[1] = x
  BY <1>1, <1>2
<1>4. Front(s) = <<Front(s)[1]>>
  BY <1>2, <1>3, Single
<1>5. QED
  BY ONLY <1>3, <1>4 DEF s

\* A call with id i is on the stack.
OnStack(s, i) == \E j \in 1 .. Len(s) : s[j].id = i

Distinct(s) == \A j, k \in 1 .. Len(s) : s[j].id = s[k].id => j = k

\* The stack when the last call has returned to another.
Returned(s, ret) == [Front(s) EXCEPT ![Len(s) - 1].ret = ret]

Pop(s, ret) == IF Len(s) = 1 THEN <<>> ELSE Returned(s, ret)

LEMMA PushedIds ==
  ASSUME NEW s, IsStack(s), Distinct(s), NEW x, ~OnStack(s, x.id)
  PROVE  LET t == Append(s, x)
         IN  Distinct(t) /\ \A i : OnStack(t, i) <=> OnStack(s, i) \/ i = x.id
<1> DEFINE t == Append(s, x)
<1>1. /\ Len(s) \in Nat /\ Len(t) = Len(s) + 1 /\ t[Len(s) + 1] = x
      /\ \A j \in 1 .. Len(s) : t[j] = s[j]
  BY Pushed, StackIs
<1> HIDE DEF t
<1>2. \A j \in 1 .. Len(t) : (j \in 1 .. Len(s) /\ t[j] = s[j]) \/ (j = Len(s) + 1 /\ t[j] = x)
  BY <1>1
<1>3. Distinct(t)
  BY <1>1, <1>2 DEF Distinct, OnStack
<1>4. \A i : OnStack(t, i) <=> OnStack(s, i) \/ i = x.id
  BY <1>1, <1>2 DEF OnStack
<1>5. QED
  BY <1>3, <1>4 DEF t

LEMMA ReplacedIds ==
  ASSUME NEW s, IsStack(s), s # <<>>, NEW x, x.id = s[Len(s)].id
  PROVE  LET t == WithLast(s, x)
         IN  (Distinct(s) => Distinct(t)) /\ \A i : OnStack(t, i) <=> OnStack(s, i)
<1> DEFINE t == WithLast(s, x)
<1>1. /\ Len(s) \in Nat /\ Len(t) = Len(s) /\ t[Len(s)] = x
      /\ \A j \in 1 .. Len(s) - 1 : t[j] = s[j]
  BY Replaced, StackIs
<1> HIDE DEF t
<1>2. \A j \in 1 .. Len(s) : t[j].id = s[j].id
  BY <1>1
<1>3. QED
  BY <1>1, <1>2 DEF Distinct, OnStack, t

LEMMA PoppedIds ==
  ASSUME NEW s, IsStack(s), s # <<>>, Distinct(s), NEW ret
  PROVE  LET t == Pop(s, ret)
         IN  /\ IsStack(t) /\ Len(t) = Len(s) - 1 /\ Distinct(t)
             /\ \A j \in 1 .. Len(s) - 2 : t[j] = s[j]
             /\ Len(s) # 1 => Len(s) - 1 \in 1 .. Len(s) /\ t[Len(s) - 1] = [s[Len(s) - 1] EXCEPT !.ret = ret]
             /\ \A j \in 1 .. Len(s) - 1 : t[j].id = s[j].id
             /\ \A i : OnStack(t, i) <=> OnStack(s, i) /\ i # s[Len(s)].id
<1> DEFINE u == Front(s)
           n == Len(s)
           t == Pop(s, ret)
<1>1. n \in Nat /\ n > 0
  BY StackIs
<1>2. /\ IsStack(u) /\ Len(u) = n - 1 /\ \A j \in 1 .. n - 1 : u[j] = s[j]
  BY Popped
<1> HIDE DEF u
<1>3. CASE n = 1
  <2>1. t = <<>> /\ Len(t) = 0 /\ IsStack(t)
    BY <1>3 DEF IsStack, Pop
  <2> HIDE DEF t, n
  <2>2. /\ \A j \in 1 .. n - 2 : FALSE
        /\ \A j \in 1 .. n - 1 : FALSE
        /\ Distinct(t) /\ \A i : ~OnStack(t, i)
    BY <1>3, <2>1 DEF Distinct, OnStack
  <2>3. \A i : ~(OnStack(s, i) /\ i # s[n].id)
    BY <1>3 DEF OnStack, n
  <2>4. QED
    BY <1>3, <2>1, <2>2, <2>3 DEF t, n
<1>4. CASE n # 1
  <2> DEFINE y == [u[n - 1] EXCEPT !.ret = ret]
  <2>1. t = WithLast(u, y) /\ u # <<>>
    <3>1. t = [u EXCEPT ![n - 1] = y]
      BY <1>4 DEF Returned, Pop, u
    <3>2. u # <<>>
      BY <1>1, <1>2, <1>4, StackIs
    <3>3. QED
      BY <1>2, <3>1, <3>2 DEF WithLast
  <2>2. y.id = u[n - 1].id
    OBVIOUS
  <2> HIDE DEF y, t
  <2>3. /\ IsStack(t) /\ Len(t) = Len(u) /\ t[Len(u)] = y
        /\ \A j \in 1 .. Len(u) - 1 : t[j] = u[j]
    BY <1>2, <2>1, Replaced
  <2>4. Len(u) = n - 1 /\ n - 1 \in Nat /\ n - 1 > 0
    BY <1>1, <1>2, <1>4
  <2>5. \A j \in 1 .. n - 2 : t[j] = s[j]
    BY <1>1, <1>2, <2>3, <2>4
  <2>6. t[n - 1] = [s[n - 1] EXCEPT !.ret = ret]
    BY <1>1, <1>2, <2>3, <2>4 DEF y
  <2>7. \A j \in 1 .. n - 1 : t[j].id = s[j].id
    BY <1>2, <2>2, <2>3, <2>4, <2>5
  <2>8. Distinct(t) /\ \A i : OnStack(t, i) <=> OnStack(s, i) /\ i # s[n].id
    <3>1. Len(t) = n - 1 /\ \A j \in 1 .. n : j = n \/ j \in 1 .. n - 1
      BY <1>1, <2>3, <2>4
    <3>2. \A j \in 1 .. n - 1 : j \in 1 .. n /\ j # n
      BY <1>1
    <3>3. n \in 1 .. n
      BY <1>1
    <3> HIDE DEF n
    <3>4. Distinct(t)
      BY <2>7, <3>1, <3>2 DEF Distinct, n
    <3>5. ASSUME NEW i PROVE OnStack(t, i) <=> OnStack(s, i) /\ i # s[n].id
      BY <2>7, <3>1, <3>2, <3>3 DEF Distinct, OnStack, n
    <3>6. QED
      BY <3>4, <3>5
  <2>9. n - 1 \in 1 .. n
    BY <1>1, <2>4
  <2>11. Len(t) = n - 1
    BY <2>3, <2>4
  <2> HIDE DEF n
  <2>10. QED
    BY ONLY <2>3, <2>5, <2>6, <2>7, <2>8, <2>9, <2>11 DEF t, n
<1>5. QED
  BY <1>3, <1>4
\* What is held, reader by reader, is all that is held.
LEMMA HeldBy ==
  ASSUME NEW a, Pairs(a), NEW b, Pairs(b), NEW c, Pairs(c)
  PROVE  /\ (\A i : Mine(a, i) \subseteq Mine(b, i)) => a \subseteq b
         /\ (\A i : Mine(a, i) \subseteq Mine(b, i) \cup Mine(c, i)) => a \subseteq b \cup c
<1>1. \A i, w : /\ w \in Mine(a, i) <=> <<i, w>> \in a
                /\ w \in Mine(b, i) <=> <<i, w>> \in b
                /\ w \in Mine(c, i) <=> <<i, w>> \in c
  BY MineIs
<1>2. QED
  BY <1>1 DEF Pairs

LEMMA DescriptorIs ==
  \A i, j : Descriptor(i) # NoFile /\ (Descriptor(i) = Descriptor(j) => i = j)
  BY DEF Descriptor, NoFile

-----------------------------------------------------------------------------
(* pecoff.c                                                                *)

\* The views of the tables that program f has, the blocks its symbols are kept in, and what
\* the state refers to of them.
PecoffTables(f) ==
  (IF f.syms.is # P!None THEN {"syms"} ELSE {})
    \cup (IF f.syms.is # P!None /\ f.syms.strings THEN {"str"} ELSE {})

PecoffOwn(f) ==
  IF f.syms.is # P!None THEN {"sdata", "symbols"} \cup (IF f.syms.short THEN {"symstr"} ELSE {}) ELSE {}

PecoffRefers(f) ==
  PecoffOwn(f) \cup (IF f.syms.is # P!None /\ f.syms.long THEN {"str"} ELSE {})

PecoffFields == {"at", "open", "debug", "sym", "dwarf", "syminfo", "fileline"}

\* At every place: the views that are marked valid, what is held and what the state refers to.
PecoffHolds(place, f, valid, held, refers) ==
  /\ place # "failed" => refers \subseteq held
  /\ place \in {"header", "sections", "tables", "names", "symbols"} => held = valid /\ refers = {}
  /\ place \in {"header", "sections"} => valid = {}
  /\ place = "tables" => valid = {"sects"}
  /\ place \in {"names", "symbols"} => valid = {"sects"} \cup PecoffTables(f)
  /\ place \in {"debug", "dwarf"} => held = valid \cup PecoffOwn(f) /\ refers = PecoffRefers(f)
  /\ place = "debug" => valid = PecoffTables(f) \cap {"str"}
  /\ place = "dwarf" => valid = (PecoffTables(f) \cap {"str"}) \cup {"debug"}
  /\ place \in {"set", "done"} => held \subseteq refers \cup {"str"} /\ refers \ {"debug"} = PecoffRefers(f)
  /\ place = "failed" => held \subseteq refers

PecoffMain ==
  /\ main = [f \in PecoffFields |-> main[f]]
  /\ main.at \in {"header", "sections", "tables", "names", "symbols", "debug"} =>
       main.open /\ res.open = {P!Fd} /\ ~main.dwarf
  /\ main.at = "dwarf" => ~main.open /\ res.open = {} /\ ~main.dwarf
  /\ main.at \in {"set", "done", "failed"} => res.open = {}
  /\ main.at \in {"debug", "dwarf", "set", "done"} => (main.sym <=> P!HasSymbols)
  /\ main.at \in {"set", "done"} => (main.dwarf <=> <<1, "debug">> \in kept)
  /\ main.at = "done" => /\ main.syminfo = "coff_syminfo" <=> main.sym
                         /\ main.fileline = "dwarf" <=> main.dwarf

\* What the state refers to in vain where coff_add has failed.
PecoffFailed ==
  main.at = "failed" =>
    /\ Mine(kept, 1) \ Mine(res.held, 1) \subseteq {"str"}
    /\ Mine(kept, 1) \subseteq Mine(res.held, 1) \/ faults > 0

PecoffInv ==
  /\ file \in Pecoffs /\ faults \in Nat
  /\ Ledger(res) /\ Pairs(kept)
  /\ \A i : i # 1 => Mine(res.held, i) = {} /\ Mine(kept, i) = {}
  /\ res.unsure = {}
  /\ PecoffMain /\ PecoffFailed
  /\ PecoffHolds(main.at, file, views, Mine(res.held, 1), Mine(kept, 1))

LEMMA MineJust ==
  ASSUME NEW id, NEW whats
  PROVE  LET just == {id} \X whats
         IN  /\ Pairs(just) /\ Mine(just, id) = whats
             /\ \A i : i # id => Mine(just, i) = {}
<1> DEFINE just == {id} \X whats
<1>1. Pairs(just)
  BY DEF Pairs
<1>2. \A i, w : <<i, w>> \in just <=> i = id /\ w \in whats
  OBVIOUS
<1>3. \A i, w : w \in Mine(just, i) <=> <<i, w>> \in just
  BY <1>1, MineIs
<1> HIDE DEF just
<1>4. Mine(just, id) = whats /\ \A i : i # id => Mine(just, i) = {}
  BY <1>2, <1>3
<1>5. QED
  BY <1>1, <1>4 DEF just

LEMMA PecoffInit ==
  ASSUME NEW f \in Pecoffs, P!InitWith(f)
  PROVE  PecoffInv
<1>1. Opened(NoResources, P!Fd) = res
  BY DEF P!InitWith, P!Opened, Opened, P!NoResources, NoResources
<1>2. Ledger(res) /\ res.held = {} /\ res.unsure = {} /\ res.open = {P!Fd}
  BY <1>1, NothingHeld, OpenedIs
<1>3. Pairs(kept) /\ kept = {} /\ file \in Pecoffs /\ faults = 0 /\ views = {}
  BY DEF P!InitWith, Pairs
<1>4. PecoffMain /\ main.at = "header"
  BY <1>2 DEF P!InitWith, PecoffMain, PecoffFields
<1>5. \A i : Mine(res.held, i) = {} /\ Mine(kept, i) = {}
  BY <1>2, <1>3, MineNone
<1>6. QED
  BY <1>2, <1>3, <1>4, <1>5 DEF PecoffInv, PecoffHolds, PecoffFailed

\* The instances of Resources are one.
LEMMA PecoffResources ==
  \A r, id, whats : /\ P!Taken(r, id, whats) = Taken(r, id, whats)
                    /\ P!Released(r, id, whats) = Released(r, id, whats)
                    /\ P!Closed(r, id) = Closed(r, id)
                    /\ P!CloseFails(r, id) = CloseFails(r, id)
  BY DEF P!CloseFails, CloseFails, P!Taken, Taken, P!Released, Released, P!Closed, Closed, P!NoFile, NoFile

LEMMA PecoffTaken ==
  ASSUME NEW r, Ledger(r), \A i : i # 1 => Mine(r.held, i) = {}, NEW whats
  PROVE  LET s == P!Taken(r, 1, whats)
         IN  /\ Ledger(s) /\ s.open = r.open /\ s.unsure = r.unsure
             /\ Mine(s.held, 1) = Mine(r.held, 1) \cup whats
             /\ \A i : i # 1 => Mine(s.held, i) = {}
<1>1. P!Taken(r, 1, whats) = Taken(r, 1, whats)
  BY PecoffResources
<1>2. QED
  BY <1>1, TakenMine

LEMMA PecoffReleased ==
  ASSUME NEW r, Ledger(r), \A i : i # 1 => Mine(r.held, i) = {},
         NEW whats, whats \subseteq Mine(r.held, 1)
  PROVE  LET s == P!Released(r, 1, whats)
         IN  /\ Ledger(s) /\ s.open = r.open /\ s.unsure = r.unsure
             /\ Mine(s.held, 1) = Mine(r.held, 1) \ whats
             /\ \A i : i # 1 => Mine(s.held, i) = {}
<1> DEFINE s == Released(r, 1, whats)
<1>1. P!Released(r, 1, whats) = s
  BY PecoffResources
<1>2. /\ Ledger(s) /\ s.open = r.open
      /\ s.unsure = r.unsure
      /\ Mine(s.held, 1) = Mine(r.held, 1) \ whats
      /\ \A i : i # 1 => Mine(s.held, i) = Mine(r.held, i)
  BY ReleasedMine
<1> HIDE DEF s
<1>3. QED
  BY <1>1, <1>2

LEMMA PecoffCount ==
  ASSUME faults \in Nat, NEW fault, P!Count(fault)
  PROVE  /\ faults' \in Nat
         /\ fault # P!None => faults' > 0
         /\ faults > 0 => faults' > 0
  BY DEF P!Count

\* What fail needs.
PecoffMayFail(valid, r) ==
  /\ Ledger(r) /\ \A i : i # 1 => Mine(r.held, i) = {}
  /\ valid \subseteq Mine(r.held, 1) /\ Mine(r.held, 1) \subseteq valid \cup Mine(kept, 1)
  /\ Mine(kept, 1) \subseteq Mine(r.held, 1) /\ valid \cap Mine(kept, 1) \subseteq {"str"}
  /\ valid \cap Mine(kept, 1) = {} \/ faults' > 0
  /\ main.open => (r.open = {P!Fd} /\ r.unsure = {}) \/ (r.open = {} /\ r.unsure = {P!Fd})
  /\ ~main.open => r.open = {} /\ r.unsure = {}
  /\ faults' \in Nat

LEMMA PecoffFails ==
  ASSUME PecoffInv, NEW valid, NEW r, P!Fails(valid, r), PecoffMayFail(valid, r), UNCHANGED <<file, kept>>
  PROVE  PecoffInv'
<1> DEFINE s == Released(r, 1, valid)
<1>1. /\ Ledger(s) /\ s.open = r.open /\ s.unsure = r.unsure
      /\ Mine(s.held, 1) = Mine(r.held, 1) \ valid
      /\ Mine(s.held, 1) \subseteq Mine(kept, 1)
      /\ \A i : i # 1 => Mine(s.held, i) = {}
  BY ReleasedMine DEF PecoffMayFail
<1> HIDE DEF s
<1>2. res' = IF main.open THEN Closed(s, P!Fd) ELSE s
  BY PecoffResources DEF P!Fails, s
<1>3. P!Fd # NoFile
  BY DEF P!Fd, P!Descriptor, NoFile
<1>4. /\ Ledger(res') /\ res'.held = s.held /\ res'.open = {}
      /\ res'.unsure = {}
  <2>1. CASE main.open
    <3>2. P!Fd \in s.open \cup s.unsure
      BY <1>1, <2>1 DEF PecoffMayFail
    <3>1. /\ Ledger(res') /\ res'.held = s.held /\ res'.open = s.open \ {P!Fd}
          /\ res'.unsure = s.unsure \ {P!Fd}
      BY <1>1, <1>2, <1>3, <2>1, <3>2, ClosedIs
    <3>3. QED
      BY ONLY <1>1, <2>1, <3>1, PecoffMayFail(valid, r) DEF PecoffMayFail
  <2>2. CASE ~main.open
    BY <1>1, <1>2, <2>2 DEF PecoffMayFail
  <2>3. QED
    BY <2>1, <2>2
<1>9. PecoffFailed'
  BY <1>1, <1>4 DEF PecoffMayFail, PecoffFailed
<1>5. main' = [f \in PecoffFields |-> main'[f]] /\ main'.at = "failed"
  BY DEF P!Fails, PecoffInv, PecoffMain, PecoffFields
<1>6. PecoffMain'
  BY <1>4, <1>5 DEF PecoffMain, PecoffFields
<1>7. PecoffHolds(main'.at, file', views', Mine(res'.held, 1), Mine(kept', 1))
  BY <1>1, <1>4, <1>5 DEF PecoffHolds
<1>8. QED
  BY <1>1, <1>4, <1>6, <1>7, <1>9 DEF PecoffInv, PecoffMayFail

\* A step to another place, of what is read.
PecoffReading == {"header", "sections", "tables", "names", "symbols"}

LEMMA PecoffGoes ==
  ASSUME PecoffInv, NEW p \in PecoffReading, NEW more, P!Goes(p, more),
         main.at \in PecoffReading, UNCHANGED <<file, kept>>,
         faults' \in Nat, faults > 0 => faults' > 0,
         PecoffHolds(p, file, views \cup more, Mine(res.held, 1) \cup more, Mine(kept, 1))
  PROVE  PecoffInv'
<1>1. /\ main' = [main EXCEPT !.at = p] /\ views' = views \cup more
      /\ res' = P!Taken(res, 1, more)
  BY DEF P!Goes
<1>2. main = [f \in PecoffFields |-> main[f]]
  BY DEF PecoffInv, PecoffMain
<1>3. /\ main' = [f \in PecoffFields |-> main'[f]] /\ main'.at = p
      /\ main'.open = main.open /\ main'.dwarf = main.dwarf
  BY <1>1, <1>2 DEF PecoffFields
<1>4. /\ Ledger(res') /\ res'.open = res.open /\ res'.unsure = res.unsure
      /\ Mine(res'.held, 1) = Mine(res.held, 1) \cup more
      /\ \A i : i # 1 => Mine(res'.held, i) = {}
  BY <1>1, PecoffTaken DEF PecoffInv
<1>5. PecoffMain'
  <2>1. main.open /\ res.open = {P!Fd} /\ ~main.dwarf
    BY DEF PecoffInv, PecoffMain, PecoffReading
  <2>2. p \notin {"debug", "dwarf", "set", "done", "failed"}
    BY DEF PecoffReading
  <2>3. QED
    BY ONLY <1>3, <1>4, <2>1, <2>2 DEF PecoffMain
<1>6. p # "failed"
  BY DEF PecoffReading
<1>7. QED
  BY <1>1, <1>3, <1>4, <1>5, <1>6 DEF PecoffInv, PecoffFailed

LEMMA PecoffHeader == PecoffInv /\ P!Header => PecoffInv'
<1> SUFFICES ASSUME PecoffInv, P!Header PROVE PecoffInv'
  OBVIOUS
<1> DEFINE p == "sections"
<1>1. p \in PecoffReading /\ p = "sections"
  BY DEF PecoffReading
<1> HIDE DEF p
<1>2. PICK fault : P!Count(fault) /\ (P!Fails({}, res) \/ P!Goes(p, {}))
  BY <1>1 DEF P!Header
<1>3. faults' \in Nat /\ (faults > 0 => faults' > 0) /\ UNCHANGED <<file, kept>> /\ main.at = "header"
  BY <1>2, PecoffCount DEF P!Header, P!At, PecoffInv
<1>4. /\ Mine(res.held, 1) = {} /\ Mine(kept, 1) = {} /\ views = {}
      /\ main.open /\ res.open = {P!Fd}
  BY <1>3 DEF PecoffInv, PecoffHolds, PecoffMain
<1>5. CASE P!Fails({}, res)
  <2>1. PecoffMayFail({}, res)
    BY <1>3, <1>4 DEF PecoffMayFail, PecoffInv
  <2>2. QED
    BY <1>3, <1>5, <2>1, PecoffFails
<1>6. CASE P!Goes(p, {})
  <2>1. PecoffHolds(p, file, views \cup {}, Mine(res.held, 1) \cup {}, Mine(kept, 1))
    BY ONLY <1>1, <1>4 DEF PecoffHolds
  <2>2. QED
    BY <1>1, <1>3, <1>6, <2>1, PecoffGoes DEF PecoffReading
<1>7. QED
  BY <1>2, <1>5, <1>6

LEMMA PecoffHeaders == PecoffInv /\ P!Headers => PecoffInv'
<1> SUFFICES ASSUME PecoffInv, P!Headers PROVE PecoffInv'
  OBVIOUS
<1> DEFINE p == "tables"
           sects == {"sects"}
           r == P!Taken(res, 1, sects)
<1>1. p \in PecoffReading /\ p = "tables"
  BY DEF PecoffReading
<1>0. UNCHANGED <<file, kept>> /\ main.at = "sections"
  BY DEF P!Headers, P!At
<1>2. PICK fault : P!Count(fault) /\ (P!Fails({}, res) \/ P!Fails(sects, r) \/ P!Goes(p, sects))
  BY <1>1 DEF P!Headers
<1>3. faults' \in Nat /\ (faults > 0 => faults' > 0)
  BY <1>2, PecoffCount DEF PecoffInv
<1>4. /\ Mine(res.held, 1) = {} /\ Mine(kept, 1) = {} /\ views = {}
      /\ main.open /\ res.open = {P!Fd}
  BY <1>0 DEF PecoffInv, PecoffHolds, PecoffMain
<1>8. /\ Ledger(r) /\ r.open = res.open /\ r.unsure = res.unsure
      /\ Mine(r.held, 1) = Mine(res.held, 1) \cup sects
      /\ \A i : i # 1 => Mine(r.held, i) = {}
  BY PecoffTaken DEF PecoffInv
<1>9. sects = {"sects"}
  OBVIOUS
<1> HIDE DEF p, sects, r
<1>5. CASE P!Fails({}, res)
  <2>1. PecoffMayFail({}, res)
    BY <1>3, <1>4 DEF PecoffMayFail, PecoffInv
  <2>2. QED
    BY <1>0, <1>5, <2>1, PecoffFails
<1>6. CASE P!Fails(sects, r)
  <2>1. PecoffMayFail(sects, r)
    BY <1>3, <1>4, <1>8 DEF PecoffMayFail, PecoffInv
  <2>2. QED
    BY <1>0, <1>6, <2>1, PecoffFails
<1>7. CASE P!Goes(p, sects)
  <2>1. PecoffHolds(p, file, views \cup sects, Mine(res.held, 1) \cup sects, Mine(kept, 1))
    BY ONLY <1>1, <1>4, <1>9 DEF PecoffHolds
  <2>2. QED
    BY <1>0, <1>1, <1>3, <1>7, <2>1, PecoffGoes DEF PecoffReading
<1>10. QED
  BY <1>2, <1>5, <1>6, <1>7

LEMMA PecoffTablesRead == PecoffInv /\ P!Tables => PecoffInv'
<1> SUFFICES ASSUME PecoffInv, P!Tables PROVE PecoffInv'
  OBVIOUS
<1> DEFINE p == "names"
           syms == {"syms"}
           r == P!Taken(res, 1, syms)
           valid == views \cup syms
           tables == PecoffTables(file)
<1>1. p \in PecoffReading /\ p = "names"
  BY DEF PecoffReading
<1>0. UNCHANGED <<file, kept>> /\ main.at = "tables"
  BY DEF P!Tables, P!At
<1> HIDE DEF p
<1>2. PICK fault : P!Count(fault) /\ (P!Fails(views, res) \/ P!Fails(valid, r) \/ P!Goes(p, tables))
  BY <1>1 DEF P!Tables, PecoffTables, P!HasSymbols, P!HasStrings
<1>3. faults' \in Nat /\ (faults > 0 => faults' > 0)
  BY <1>2, PecoffCount DEF PecoffInv
<1>4. /\ Mine(res.held, 1) = views /\ Mine(kept, 1) = {} /\ views = {"sects"}
      /\ main.open /\ res.open = {P!Fd}
  BY <1>0 DEF PecoffInv, PecoffHolds, PecoffMain
<1>8. /\ Ledger(r) /\ r.open = res.open /\ r.unsure = res.unsure
      /\ Mine(r.held, 1) = Mine(res.held, 1) \cup syms
      /\ \A i : i # 1 => Mine(r.held, i) = {}
  BY PecoffTaken DEF PecoffInv
<1> HIDE DEF syms, r
<1>5. CASE P!Fails(views, res)
  <2>1. PecoffMayFail(views, res)
    BY <1>3, <1>4 DEF PecoffMayFail, PecoffInv
  <2>2. QED
    BY <1>0, <1>5, <2>1, PecoffFails
<1>6. CASE P!Fails(valid, r)
  <2>1. PecoffMayFail(valid, r)
    BY <1>3, <1>4, <1>8 DEF PecoffMayFail, PecoffInv
  <2>2. QED
    BY <1>0, <1>6, <2>1, PecoffFails
<1>7. CASE P!Goes(p, tables)
  <2>1. PecoffHolds(p, file, views \cup tables, Mine(res.held, 1) \cup tables, Mine(kept, 1))
    BY ONLY <1>1, <1>4 DEF PecoffHolds
  <2>2. main.at \in PecoffReading
    BY <1>0 DEF PecoffReading
  <2> HIDE DEF tables
  <2>3. QED
    BY <1>0, <1>1, <1>3, <1>7, <2>1, <2>2, PecoffGoes
<1>10. QED
  BY <1>2, <1>5, <1>6, <1>7

LEMMA PecoffNames == PecoffInv /\ P!SectionNames => PecoffInv'
<1> SUFFICES ASSUME PecoffInv, P!SectionNames PROVE PecoffInv'
  OBVIOUS
<1>1. /\ main.at = "names" /\ UNCHANGED <<file, views, res, kept, faults>>
      /\ main' = [main EXCEPT !.at = "crashed"] \/ \E d : main' = [main EXCEPT !.at = "symbols", !.debug = d]
  BY DEF P!SectionNames, P!At
<1>2. main = [f \in PecoffFields |-> main[f]]
  BY DEF PecoffInv, PecoffMain
<1>3. /\ main' = [f \in PecoffFields |-> main'[f]] /\ main'.at \in {"symbols", "crashed"}
      /\ main'.open = main.open /\ main'.dwarf = main.dwarf
  BY <1>1, <1>2 DEF PecoffFields
<1>4. PecoffMain'
  <2>1. main.open /\ res.open = {P!Fd} /\ ~main.dwarf
    BY <1>1 DEF PecoffInv, PecoffMain
  <2>2. QED
    BY ONLY <1>1, <1>3, <2>1 DEF PecoffMain
<1>5. PecoffHolds(main'.at, file, views, Mine(res.held, 1), Mine(kept, 1))
  <2>1. PecoffHolds("names", file, views, Mine(res.held, 1), Mine(kept, 1))
    BY <1>1 DEF PecoffInv
  <2>2. QED
    BY ONLY <1>3, <2>1 DEF PecoffHolds
<1>6. QED
  BY <1>1, <1>3, <1>4, <1>5 DEF PecoffInv, PecoffFailed

LEMMA PecoffSymbols == PecoffInv /\ P!Symbols => PecoffInv'
<1> SUFFICES ASSUME PecoffInv, P!Symbols PROVE PecoffInv'
  OBVIOUS
<1> DEFINE own == PecoffOwn(file)
           refers == PecoffRefers(file)
           tmp == {"sects", "syms"}
           v == views \cap tmp
           r == P!Taken(res, 1, own)
           s == P!Released(r, 1, v)
<1>0. UNCHANGED file /\ main.at = "symbols"
  BY DEF P!Symbols, P!At
<1>1. /\ views = {"sects"} \cup PecoffTables(file) /\ Mine(res.held, 1) = views /\ Mine(kept, 1) = {}
      /\ main.open /\ res.open = {P!Fd} /\ ~main.dwarf /\ faults \in Nat
      /\ main = [f \in PecoffFields |-> main[f]] /\ res.unsure = {}
  BY <1>0 DEF PecoffInv, PecoffHolds, PecoffMain
<1>2. kept = {}
  <2>1. \A i : Mine(kept, i) = {}
    BY <1>1 DEF PecoffInv
  <2>2. \A h : h \notin kept
    BY <2>1, MineIs DEF PecoffInv, Pairs
  <2>3. QED
    BY <2>2
<1>3. \/ /\ P!Fails(views, res) /\ UNCHANGED kept
         /\ \E fault : P!Count(fault)
      \/ /\ main' = [main EXCEPT !.at = "debug", !.sym = P!HasSymbols] /\ views' = views \ tmp /\ res' = s
         /\ kept' = {1} \X refers
         /\ refers \subseteq own \cup {"str"}
         /\ "str" \in refers => "str" \in views
         /\ UNCHANGED faults \/ \E fault : P!Count(fault)
  <2>1. CASE ~P!HasSymbols
    <3>1. own = {} /\ refers = {}
      BY <2>1 DEF PecoffOwn, PecoffRefers, P!HasSymbols
    <3>2. QED
      BY <1>2, <2>1, <3>1 DEF P!Symbols, P!Temporary
  <2>2. CASE P!HasSymbols
    <3> DEFINE names == (IF file.syms.short THEN {"symstr"} ELSE {}) \cup (IF file.syms.long THEN {"str"} ELSE {})
               mine == {"sdata", "symbols"} \cup (names \ {"str"})
    <3>1. mine = own /\ {"sdata", "symbols"} \cup names = refers
      BY <2>2 DEF PecoffOwn, PecoffRefers, P!HasSymbols
    <3>2. PICK fault : /\ P!Count(fault)
                       /\ IF fault # P!None \/ ~file.syms.valid
                            THEN P!Fails(views, res) /\ UNCHANGED kept
                            ELSE /\ main' = [main EXCEPT !.at = "debug", !.sym = P!HasSymbols]
                                 /\ views' = views \ tmp /\ res' = s
                                 /\ kept' = {1} \X refers
      BY <2>2, <3>1 DEF P!Symbols, P!Temporary
    <3> HIDE DEF names, mine
    <3>3. refers \subseteq own \cup {"str"}
      BY DEF PecoffRefers
    <3>4. file.syms.valid /\ "str" \in refers => "str" \in views
      <4>1. "str" \notin own
        BY DEF PecoffOwn
      <4>2. "str" \in refers => file.syms.long
        BY <4>1 DEF PecoffRefers
      <4>3. file.syms.valid /\ file.syms.long => file.syms.strings
        BY <2>2, PecoffsAssumption DEF PecoffInv, P!HasSymbols
      <4>4. QED
        BY <1>1, <2>2, <4>2, <4>3 DEF PecoffTables, P!HasSymbols
    <3>5. QED
      BY <3>2, <3>3, <3>4
  <2>3. QED
    BY <2>1, <2>2
<1>4. CASE P!Fails(views, res) /\ UNCHANGED kept /\ \E fault : P!Count(fault)
  <2>1. faults' \in Nat /\ (faults > 0 => faults' > 0)
    BY <1>1, <1>4, PecoffCount
  <2>2. PecoffMayFail(views, res)
    BY <1>1, <2>1 DEF PecoffMayFail, PecoffInv
  <2>3. QED
    BY <1>0, <1>4, <2>2, PecoffFails
<1>5. CASE /\ main' = [main EXCEPT !.at = "debug", !.sym = P!HasSymbols] /\ views' = views \ tmp /\ res' = s
           /\ kept' = {1} \X refers
           /\ refers \subseteq own \cup {"str"}
           /\ "str" \in refers => "str" \in views
           /\ UNCHANGED faults \/ \E fault : P!Count(fault)
  <2>1. faults' \in Nat /\ (faults > 0 => faults' > 0)
    BY <1>1, <1>5, PecoffCount
  <2>2. /\ Ledger(r) /\ r.open = res.open /\ r.unsure = res.unsure
        /\ Mine(r.held, 1) = views \cup own
        /\ \A i : i # 1 => Mine(r.held, i) = {}
    BY <1>1, PecoffTaken DEF PecoffInv
  <2> HIDE DEF r, own, refers
  <2>3. v \subseteq Mine(r.held, 1)
    BY <2>2
  <2> HIDE DEF v
  <2>4. /\ Ledger(s) /\ s.open = r.open /\ s.unsure = r.unsure
        /\ Mine(s.held, 1) = Mine(r.held, 1) \ v
        /\ \A i : i # 1 => Mine(s.held, i) = {}
    BY <2>2, <2>3, PecoffReleased
  <2> HIDE DEF s
  <2>5. Pairs(kept') /\ Mine(kept', 1) = refers /\ \A i : i # 1 => Mine(kept', i) = {}
    BY <1>5, MineJust
  <2>6. own \cap tmp = {}
    BY DEF own, PecoffOwn
  <2>7. PecoffHolds("debug", file, views', Mine(res'.held, 1), Mine(kept', 1))
    <3>1. views' = PecoffTables(file) \cap {"str"}
      BY <1>1, <1>5 DEF PecoffTables
    <3>2. Mine(res'.held, 1) = views' \cup own
      BY <1>5, <2>2, <2>4, <2>6 DEF v
    <3>4. refers \subseteq views' \cup own
      BY <1>5
    <3>3. QED
      BY ONLY <2>5, <3>1, <3>2, <3>4 DEF PecoffHolds, own, refers
  <2> DEFINE has == P!HasSymbols
  <2>12. main' = [main EXCEPT !.at = "debug", !.sym = has]
    BY <1>5
  <2>13. main = [f \in PecoffFields |-> main[f]]
    BY DEF PecoffInv, PecoffMain
  <2> HIDE DEF has
  <2>8. /\ main' = [f \in PecoffFields |-> main'[f]] /\ main'.at = "debug"
        /\ main'.open = main.open /\ main'.dwarf = main.dwarf /\ main'.sym = has
    BY <2>13, <2>12 DEF PecoffFields
  <2>9. P!HasSymbols' <=> has
    BY <1>0 DEF P!HasSymbols, has
  <2>10. PecoffMain'
    BY ONLY <1>1, <1>5, <2>2, <2>4, <2>8, <2>9 DEF PecoffMain
  <2>11. QED
    BY <1>0, <1>1, <1>5, <2>1, <2>2, <2>4, <2>5, <2>7, <2>8, <2>10 DEF PecoffInv, PecoffFailed
<1>6. QED
  BY <1>3, <1>4, <1>5

LEMMA PecoffDebug == PecoffInv /\ P!Debug => PecoffInv'
<1> SUFFICES ASSUME PecoffInv, P!Debug PROVE PecoffInv'
  OBVIOUS
<1> DEFINE view == IF main.debug = {} THEN {} ELSE {"debug"}
           valid == views \cup view
           next == IF view = {} THEN "set" ELSE "dwarf"
           t == P!Taken(res, 1, view)
           r == P!Closed(t, P!Fd)
           c == P!CloseFails(t, P!Fd)
<1>0. UNCHANGED <<file, kept>> /\ main.at = "debug"
  BY DEF P!Debug, P!At
<1>1. PICK fault : /\ P!Count(fault)
                   /\ \/ fault # P!None /\ P!Fails(views, res)
                      \/ fault # P!None /\ P!Fails(valid, c)
                      \/ main' = [main EXCEPT !.at = next, !.open = FALSE] /\ views' = valid /\ res' = r
  <2>1. PICK fault : /\ P!Count(fault)
                     /\ IF fault = "debug" THEN P!Fails(views, res)
                        ELSE IF fault = "close" THEN P!Fails(valid, c)
                        ELSE /\ main' = [main EXCEPT !.at = next, !.open = FALSE]
                             /\ views' = valid /\ res' = r
    BY DEF P!Debug
  <2>2. "close" # P!None /\ "debug" # P!None
    BY DEF P!None
  <2>3. QED
    BY <2>1, <2>2
<1>2. faults' \in Nat /\ (faults > 0 => faults' > 0) /\ (fault # P!None => faults' > 0)
  BY <1>1, PecoffCount DEF PecoffInv
<1>3. view = {} \/ view = {"debug"}
  OBVIOUS
<1>4. next = (IF view = {} THEN "set" ELSE "dwarf")
  OBVIOUS
<1> HIDE DEF view
<1>5. /\ Ledger(t) /\ t.open = res.open /\ t.unsure = res.unsure
      /\ Mine(t.held, 1) = Mine(res.held, 1) \cup view
      /\ \A i : i # 1 => Mine(t.held, i) = {}
  BY PecoffTaken DEF PecoffInv
<1>6. /\ main.open /\ res.open = {P!Fd} /\ ~main.dwarf /\ (main.sym <=> P!HasSymbols)
      /\ Mine(res.held, 1) = views \cup PecoffOwn(file) /\ Mine(kept, 1) = PecoffRefers(file)
      /\ views = PecoffTables(file) \cap {"str"}
      /\ Mine(kept, 1) \subseteq Mine(res.held, 1)
      /\ res.unsure = {}
  BY <1>0 DEF PecoffInv, PecoffHolds, PecoffMain
<1> HIDE DEF t
<1>7. /\ Ledger(r) /\ r.held = t.held /\ r.open = {} /\ r.unsure = {}
      /\ Ledger(c) /\ c.held = t.held /\ c.open = {} /\ c.unsure = {P!Fd}
  <2>1. P!Fd # NoFile
    BY DEF P!Fd, P!Descriptor, NoFile
  <2>2. r = Closed(t, P!Fd) /\ c = CloseFails(t, P!Fd)
    BY PecoffResources
  <2>3. P!Fd \in t.open
    BY <1>5, <1>6
  <2> HIDE DEF r, c
  <2>4. /\ Ledger(r) /\ r.held = t.held /\ r.open = t.open \ {P!Fd}
        /\ r.unsure = t.unsure \ {P!Fd}
    BY <1>5, <2>1, <2>2, <2>3, ClosedIs
  <2>6. Ledger(c) /\ c.held = t.held /\ c.open = t.open \ {P!Fd} /\ c.unsure = {P!Fd}
    BY <1>5, <1>6, <2>1, <2>2, <2>3, CloseFailsIs
  <2>5. QED
    BY <1>5, <1>6, <2>4, <2>6
<1> HIDE DEF r, c, next
<1>8. PecoffOwn(file) \subseteq Mine(kept, 1) /\ "debug" \notin Mine(kept, 1)
  BY <1>6 DEF PecoffRefers, PecoffOwn
<1>9. CASE fault # P!None /\ P!Fails(views, res)
  <2>1. PecoffMayFail(views, res)
    BY <1>2, <1>6, <1>8, <1>9 DEF PecoffMayFail, PecoffInv
  <2>2. QED
    BY <1>0, <1>9, <2>1, PecoffFails
<1>10. CASE fault # P!None /\ P!Fails(valid, c)
  <2>1. PecoffMayFail(valid, c)
    BY <1>2, <1>3, <1>5, <1>6, <1>7, <1>8, <1>10 DEF PecoffMayFail
  <2>2. QED
    BY <1>0, <1>10, <2>1, PecoffFails
<1>11. CASE main' = [main EXCEPT !.at = next, !.open = FALSE] /\ views' = valid /\ res' = r
  <2>1. main = [f \in PecoffFields |-> main[f]]
    BY DEF PecoffInv, PecoffMain
  <2>2. /\ main' = [f \in PecoffFields |-> main'[f]] /\ main'.at = next
        /\ ~main'.open /\ main'.dwarf = main.dwarf /\ main'.sym = main.sym
    BY <2>1, <1>11 DEF PecoffFields
  <2>3. <<1, "debug">> \notin kept
    <3>1. "debug" \notin Mine(kept, 1)
      BY <1>6 DEF PecoffRefers, PecoffOwn
    <3>2. QED
      BY <3>1, MineIs DEF PecoffInv
  <2>4. P!HasSymbols' <=> P!HasSymbols
    BY <1>0 DEF P!HasSymbols
  <2>5. PecoffMain'
    <3>1. res'.open = {} /\ next \in {"set", "dwarf"} /\ kept' = kept
      BY <1>0, <1>4, <1>7, <1>11
    <3>2. QED
      BY ONLY <1>6, <2>2, <2>3, <2>4, <3>1 DEF PecoffMain
  <2>6. PecoffHolds(next, file, valid, Mine(r.held, 1), Mine(kept, 1))
    <3>1. Mine(r.held, 1) = valid \cup PecoffOwn(file)
      BY <1>5, <1>6, <1>7
    <3>2. CASE view = {}
      <4>1. next = "set" /\ valid = PecoffTables(file) \cap {"str"}
        BY <1>4, <1>6, <3>2
      <4>2. Mine(r.held, 1) \subseteq Mine(kept, 1) \cup {"str"}
        BY <1>8, <3>1, <4>1
      <4>3. Mine(kept, 1) \subseteq Mine(r.held, 1) /\ Mine(kept, 1) \ {"debug"} = PecoffRefers(file)
        <5>1. "debug" \notin PecoffRefers(file)
          BY DEF PecoffRefers, PecoffOwn
        <5>2. QED
          BY <1>6, <3>1, <4>1, <5>1
      <4>4. QED
        BY ONLY <4>1, <4>2, <4>3 DEF PecoffHolds
    <3>3. CASE view = {"debug"}
      <4>1. next = "dwarf" /\ valid = (PecoffTables(file) \cap {"str"}) \cup {"debug"}
        BY <1>4, <1>6, <3>3
      <4>2. QED
        BY ONLY <1>6, <3>1, <4>1 DEF PecoffHolds
    <3>4. QED
      BY <1>3, <3>2, <3>3
  <2>7. next # "failed"
    BY <1>4
  <2>8. QED
    BY <1>0, <1>2, <1>5, <1>7, <1>11, <2>2, <2>5, <2>6, <2>7 DEF PecoffInv, PecoffFailed
<1>12. QED
  BY <1>1, <1>9, <1>10, <1>11

LEMMA PecoffDwarf == PecoffInv /\ P!Dwarf => PecoffInv'
<1> SUFFICES ASSUME PecoffInv, P!Dwarf PROVE PecoffInv'
  OBVIOUS
<1>0. UNCHANGED file /\ main.at = "dwarf"
  BY DEF P!Dwarf, P!At
<1> DEFINE debug == {"debug"}
           more == Plus(kept, 1, debug)
<1>1. PICK fault : /\ P!Count(fault)
                   /\ \/ fault # P!None /\ P!Fails(views, res) /\ UNCHANGED kept
                      \/ main' = [main EXCEPT !.at = "set", !.dwarf = TRUE] /\ kept' = more
                         /\ UNCHANGED <<views, res>>
  <2>1. more = kept \cup {<<1, "debug">>}
    BY DEF Plus
  <2>2. QED
    BY <2>1 DEF P!Dwarf
<1>2. faults' \in Nat /\ (faults > 0 => faults' > 0) /\ (fault # P!None => faults' > 0)
  BY <1>1, PecoffCount DEF PecoffInv
<1>3. /\ ~main.open /\ res.open = {} /\ (main.sym <=> P!HasSymbols)
      /\ Mine(res.held, 1) = views \cup PecoffOwn(file) /\ Mine(kept, 1) = PecoffRefers(file)
      /\ views = (PecoffTables(file) \cap {"str"}) \cup {"debug"}
      /\ Mine(kept, 1) \subseteq Mine(res.held, 1)
      /\ res.unsure = {}
      /\ main = [f \in PecoffFields |-> main[f]]
  BY <1>0 DEF PecoffInv, PecoffHolds, PecoffMain
<1>4. PecoffOwn(file) \subseteq PecoffRefers(file) /\ "debug" \notin PecoffRefers(file)
  BY DEF PecoffRefers, PecoffOwn
<1>5. CASE fault # P!None /\ P!Fails(views, res) /\ UNCHANGED kept
  <2>1. PecoffMayFail(views, res)
    BY <1>2, <1>3, <1>4, <1>5 DEF PecoffMayFail, PecoffInv
  <2>2. QED
    BY <1>0, <1>5, <2>1, PecoffFails
<1>6. CASE main' = [main EXCEPT !.at = "set", !.dwarf = TRUE] /\ kept' = more /\ UNCHANGED <<views, res>>
  <2>1. /\ main' = [f \in PecoffFields |-> main'[f]] /\ main'.at = "set"
        /\ main'.dwarf /\ main'.sym = main.sym
    BY <1>3, <1>6 DEF PecoffFields
  <2>2. /\ Pairs(more) /\ Mine(more, 1) = Mine(kept, 1) \cup debug
        /\ \A i : i # 1 => Mine(more, i) = Mine(kept, i)
    <3>1. Pairs(kept)
      BY DEF PecoffInv
    <3> HIDE DEF debug
    <3>2. QED
      BY ONLY <3>1, PlusMine
  <2>3. <<1, "debug">> \in more
    BY <2>2, MineIs
  <2> HIDE DEF more
  <2>4. P!HasSymbols' <=> P!HasSymbols
    BY <1>0 DEF P!HasSymbols
  <2>5. PecoffMain'
    BY ONLY <1>3, <1>6, <2>1, <2>3, <2>4 DEF PecoffMain
  <2>6. PecoffHolds("set", file, views, Mine(res.held, 1), Mine(more, 1))
    BY ONLY <1>3, <1>4, <2>2 DEF PecoffHolds
  <2>7. QED
    BY <1>0, <1>2, <1>6, <2>1, <2>2, <2>5, <2>6 DEF PecoffInv, PecoffFailed
<1>7. QED
  BY <1>1, <1>5, <1>6

LEMMA PecoffFinish == PecoffInv /\ P!Finish => PecoffInv'
<1> SUFFICES ASSUME PecoffInv, P!Finish PROVE PecoffInv'
  OBVIOUS
<1> DEFINE sym  == IF main.sym THEN "coff_syminfo" ELSE "coff_nosyms"
           line == IF main.dwarf THEN "dwarf" ELSE "coff_nodebug"
<1>1. /\ main.at = "set" /\ UNCHANGED <<file, views, res, kept, faults>>
      /\ main' = [main EXCEPT !.at = "done", !.syminfo = sym, !.fileline = line]
  BY DEF P!Finish, P!At
<1>2. main = [f \in PecoffFields |-> main[f]]
  BY DEF PecoffInv, PecoffMain
<1>3. (sym = "coff_syminfo" <=> main.sym) /\ (line = "dwarf" <=> main.dwarf)
  OBVIOUS
<1> HIDE DEF sym, line
<1>4. /\ main' = [f \in PecoffFields |-> main'[f]] /\ main'.at = "done"
      /\ main'.dwarf = main.dwarf /\ main'.sym = main.sym /\ main'.syminfo = sym /\ main'.fileline = line
  BY <1>1, <1>2 DEF PecoffFields
<1>5. P!HasSymbols' <=> P!HasSymbols
  BY <1>1 DEF P!HasSymbols
<1>6. PecoffMain'
  <2>1. res.open = {} /\ (main.sym <=> P!HasSymbols) /\ (main.dwarf <=> <<1, "debug">> \in kept)
    BY <1>1 DEF PecoffInv, PecoffMain
  <2>2. QED
    BY ONLY <1>1, <1>3, <1>4, <1>5, <2>1 DEF PecoffMain
<1>7. PecoffHolds("done", file, views, Mine(res.held, 1), Mine(kept, 1))
  <2>1. PecoffHolds("set", file, views, Mine(res.held, 1), Mine(kept, 1))
    BY <1>1 DEF PecoffInv
  <2>2. QED
    BY ONLY <2>1 DEF PecoffHolds
<1>8. QED
  BY <1>1, <1>4, <1>6, <1>7 DEF PecoffInv, PecoffFailed

LEMMA PecoffStep ==
  PecoffInv /\ (P!Next \/ UNCHANGED <<file, main, views, res, kept, faults>>) => PecoffInv'
<1>1. ASSUME PecoffInv, UNCHANGED <<file, main, views, res, kept, faults>> PROVE PecoffInv'
  BY <1>1 DEF PecoffInv, PecoffMain, PecoffFailed, P!HasSymbols
<1>2. QED
  BY <1>1, PecoffHeader, PecoffHeaders, PecoffTablesRead, PecoffNames, PecoffSymbols, PecoffDebug,
     PecoffDwarf, PecoffFinish DEF P!Next, P!vars

LEMMA PecoffGood == PecoffInv => P!NothingDangles /\ P!AllReleased /\ P!RightFile
<1> SUFFICES ASSUME PecoffInv PROVE P!NothingDangles /\ P!AllReleased /\ P!RightFile
  OBVIOUS
<1>1. Ledger(res) /\ Pairs(res.held) /\ Pairs(kept)
  BY DEF PecoffInv, Ledger
<1>2. P!NothingDangles
  <2>1. CASE Mine(kept, 1) \subseteq Mine(res.held, 1)
    <3>1. \A i : Mine(kept, i) \subseteq Mine(res.held, i)
      BY <2>1 DEF PecoffInv
    <3>2. kept \subseteq res.held
      BY <1>1, <3>1, HeldBy
    <3>3. QED
      BY <3>2 DEF P!NothingDangles, PecoffInv, Ledger
  <2>2. CASE ~(Mine(kept, 1) \subseteq Mine(res.held, 1))
    <3>1. main.at = "failed"
      BY <2>2 DEF PecoffInv, PecoffHolds
    <3>2. faults > 0 /\ Mine(kept, 1) \ Mine(res.held, 1) = {"str"}
      BY <2>2, <3>1 DEF PecoffInv, PecoffFailed
    <3>3. \A i, w : <<i, w>> \in kept \ res.held <=> i = 1 /\ w = "str"
      <4>1. \A i, w : <<i, w>> \in kept \ res.held <=> w \in Mine(kept, i) \ Mine(res.held, i)
        BY <1>1, MineIs
      <4>2. \A i : i # 1 => Mine(kept, i) = {}
        BY DEF PecoffInv
      <4>3. QED
        BY ONLY <3>2, <4>1, <4>2
    <3>4. \A h \in kept : h = <<h[1], h[2]>>
      BY <1>1 DEF Pairs
    <3>5. kept \ res.held = {<<1, "str">>}
      BY ONLY <3>3, <3>4
    <3>6. QED
      BY <3>1, <3>2, <3>5 DEF P!NothingDangles, PecoffInv, Ledger
  <2>3. QED
    BY <2>1, <2>2
<1>3. P!AllReleased
  <2>1. ASSUME main.at \in {"done", "failed"} PROVE res.open = {}
    BY <2>1 DEF PecoffInv, PecoffMain
  <2>2. ASSUME main.at \in {"done", "failed"}, NEW h \in res.held \ kept
        PROVE  h[2] = "str" /\ main.at = "done"
    <3>1. h = <<h[1], h[2]>>
      BY <1>1, <2>2 DEF Pairs
    <3>2. h[2] \in Mine(res.held, h[1]) /\ h[2] \notin Mine(kept, h[1])
      BY <1>1, <2>2, <3>1, MineIs
    <3>3. h[1] = 1
      BY <3>2 DEF PecoffInv
    <3>4. h[2] \in Mine(res.held, 1) /\ h[2] \notin Mine(kept, 1)
      BY <3>2, <3>3
    <3>5. PecoffHolds(main.at, file, views, Mine(res.held, 1), Mine(kept, 1))
      BY DEF PecoffInv
    <3>6. QED
      BY ONLY <2>2, <3>4, <3>5 DEF PecoffHolds
  <2>3. QED
    BY <2>1, <2>2 DEF P!AllReleased
<1>4. P!RightFile
  BY DEF PecoffInv, PecoffMain, P!RightFile, P!HasSymbols
<1>5. QED
  BY <1>2, <1>3, <1>4

-----------------------------------------------------------------------------
(* elf.c                                                                   *)

ElfFields == {"at", "path", "file", "fd", "memory", "exe", "debuginfo", "asked", "id", "i", "views",
              "debug", "zdebug", "sym", "buildid", "link", "alt", "ret"}

ElfMainFields == {"at", "exe", "fd", "todo", "ret", "fn", "fileline", "syminfo", "dwarf"}

ElfPlaces == {"header", "scan", "symbols", "separate", "debuglink", "instead", "altlink", "shared",
              "minidebug", "inmemory", "extent", "zdebug", "gabi", "dwarf"}

\* Before the symbols are read, while another file is, and with the debug sections.
ElfEarly == {"header", "scan", "symbols"}
ElfAside == {"instead", "shared", "inmemory"}
ElfLate  == {"zdebug", "gabi", "dwarf"}

\* What there is a view of.
ElfViews(place, views_) ==
  /\ place \in {"header", "inmemory", "extent"} => views_ = {}
  /\ place \in {"scan", "symbols"} =>
       /\ {"shdrs", "names"} \subseteq views_
       /\ views_ \subseteq {"shdrs", "names", "buildid", "debuglink", "debugaltlink", "gnu_debugdata", "opd"}
  /\ place \in {"separate", "instead"} =>
       views_ \subseteq {"buildid", "debuglink", "debugaltlink", "gnu_debugdata", "opd"}
  /\ place = "debuglink" => views_ \subseteq {"debuglink", "debugaltlink", "gnu_debugdata"}
  /\ place \in {"altlink", "shared"} => views_ \subseteq {"debugaltlink", "gnu_debugdata"}
  /\ place = "minidebug" => views_ \subseteq {"gnu_debugdata"}
  /\ place \in ElfLate => views_ \subseteq {"debug", "split1", "split2"}

\* What may be held besides the views and what is referred to; n is the number of faults.
ElfSpare(place, w, n) ==
  \/ w \in {"probs", "image"}
  \/ w = "new_buf" /\ n > 0
  \/ place = "instead" /\ w \in {"gnu_debugdata", "opd"}
  \/ place \in ElfLate /\ w \in {"table", "data1", "data2"}

\* The views a call holds: none of a file in memory, and none that were given back.
ElfOwn(place, memory, views_) == IF memory = 0 /\ place # "instead" THEN views_ ELSE {}

\* What a call at its place holds, and what the state refers to of it.
ElfHolds(place, memory, views_, held, refers, n) ==
  /\ ElfViews(place, views_)
  /\ refers \subseteq held /\ refers \subseteq {"sdata", "symbols", "strtab", "image"}
  /\ place \in ElfEarly => refers = {}
  /\ ElfOwn(place, memory, views_) \subseteq held
  /\ \A w \in held : w \in ElfOwn(place, memory, views_) \/ w \in refers \/ ElfSpare(place, w, n)

\* A file has a section of this kind among its first ones.
ElfHas(sections, kind, n) == \E k \in DOMAIN sections : k < n /\ sections[k].is = kind

\* The build ID asked for is that of the section, if that is the first of its kind.
ElfMatches(sections, k, asked_) ==
  asked_.id # E!None /\ E!FirstBuildId(sections, k) => sections[k].gnu /\ sections[k].id = asked_.id

\* What a call knows of its file.
ElfKnows(place, k, asked_, views_, link, alt, f) ==
  /\ asked_.crc # 0 => f.crc = asked_.crc
  /\ "gnu_debugdata" \in views_ => \E j \in DOMAIN f.sections : f.sections[j].is = "gnu_debugdata"
  /\ place = "scan" /\ "buildid" \in views_ => ElfHas(f.sections, "buildid", k)
  /\ place = "scan" => \A j \in DOMAIN f.sections : j < k => ElfMatches(f.sections, j, asked_)
  /\ place \notin {"header", "scan"} => \A j \in DOMAIN f.sections : ElfMatches(f.sections, j, asked_)
  /\ place \in {"scan", "symbols", "separate", "debuglink"} /\ link.is # E!None => "debuglink" \in views_
  /\ place \in {"scan", "symbols", "separate", "debuglink", "altlink", "shared"} /\ alt.is # E!None =>
       "debugaltlink" \in views_
  /\ place = "shared" => "debugaltlink" \in views_
  /\ place = "header" => k = 1 /\ link.is = E!None /\ alt.is = E!None

\* A debug section of the file is corrupt.
ElfCorrupt(f, n) ==
  \E j \in DOMAIN f.sections :
    f.sections[j].is \in {"debug", "zdebug"} /\ f.sections[j].as = "corrupt" /\ f.sections[j].n = n

ElfPacked == {"zlib", "header", "corrupt"}

\* The debug sections of a file, by number, each as one of some.
ElfTable(table, some, f) ==
  \A n \in DOMAIN table :
    /\ n \in 1 .. 2 /\ table[n] = [x \in {"is", "n", "as"} |-> table[n][x]] /\ table[n].n = n
    /\ table[n].as \in some /\ (table[n].as = "corrupt" => ElfCorrupt(f, n))

ElfTables_(place, debug, zdebug, f) ==
  /\ ElfTable(zdebug, ElfPacked, f)
  /\ ElfTable(debug, {"plain", "data", "gone"} \cup ElfPacked, f)
  /\ place \notin ElfLate => ElfTable(debug, {"plain"} \cup ElfPacked, f)

\* The sections that are in views of their own.
ElfWhole(debug, zdebug) ==
  {n \in DOMAIN debug : debug[n].as \in {"plain"} \cup ElfPacked} \cup (DOMAIN zdebug \ DOMAIN debug)

ElfSplit(n) == IF n = 1 THEN "split1" ELSE "split2"
ElfData(n)  == IF n = 1 THEN "data1" ELSE "data2"

\* How far the debug sections are uncompressed.
ElfUncompresses(place, k, views_, debug, zdebug, near, f, held) ==
  place \in ElfLate =>
    /\ views_ = IF near THEN {"debug"} ELSE {ElfSplit(n) : n \in ElfWhole(debug, zdebug)}
    /\ \A n \in 1 .. 2 : ElfData(n) \in held =>
         (n \in DOMAIN debug /\ debug[n].as = "data") \/ ElfCorrupt(f, n)
    /\ \A n \in DOMAIN debug : debug[n].as = "data" => ElfData(n) \in held
    /\ \A n \in DOMAIN zdebug \ DOMAIN debug : place = "zdebug" /\ k <= n
    /\ \A n \in DOMAIN debug :
         (place = "gabi" /\ n < k) \/ place = "dwarf" => debug[n].as \in {"plain", "data", "gone"}

\* A call of elf_add; d is what is on the disk.
ElfCall(f, d) ==
  /\ f = [x \in ElfFields |-> f[x]]
  /\ f.at \in ElfPlaces /\ f.id \in Nat \ {0} /\ f.i \in Nat \ {0} /\ f.ret \in {0, 1}
  /\ f.file \in DOMAIN d /\ d[f.file].to = <<>> /\ f.memory # f.id
  /\ f.fd \in {NoFile, Descriptor(f.id), Descriptor(0)}
  /\ f.exe \in BOOLEAN
  /\ f.exe /\ f.at = "header" => f.fd = Descriptor(0)
  /\ f.at \in ElfLate => f.fd = NoFile
  /\ ElfKnows(f.at, f.i, f.asked, f.views, f.link, f.alt, d[f.file])
  /\ ElfTables_(f.at, f.debug, f.zdebug, d[f.file])

ElfFrame(f, d, held, refers, n) ==
  /\ ElfCall(f, d)
  /\ ElfHolds(f.at, f.memory, f.views, held, refers, n)
  /\ ElfUncompresses(f.at, f.i, f.views, f.debug, f.zdebug, d[f.file].near, d[f.file], held)

ElfFrom(calls, i, from) == \E l \in Range(calls) : l.id = i /\ l.from = from

\* What is left of a call that has returned, where all those of calls have, with n faults.
ElfDone(i, d, held, refers, calls, n) ==
  /\ refers \subseteq held
  /\ \A w \in held \ refers :
       \/ w \in {"gnu_debugdata", "opd"} /\ ElfFrom(calls, i, "instead")
       \/ w \in {"probs", "image"}
       \/ w = "new_buf" /\ n > 0
       \/ w \in {"table", "data1", "data2"} /\ ElfFrom(calls, i, "fail")
       \/ \E l \in Range(calls) : \E k \in 1 .. 2 : l.id = i /\ ElfCorrupt(d[l.file], k) /\ w = ElfData(k)

\* What the calls have open.
Fds(s) == {s[j].fd : j \in 1 .. Len(s)} \ {NoFile}

\* What backtrace_initialize has open.
ElfMainOpen ==
  IF main.at = "program" THEN (IF stack = <<>> /\ main.ret < 0 THEN {Descriptor(0)} ELSE {})
                         ELSE {main.fd} \ {NoFile}

ElfLedger ==
  /\ \A p \in DOMAIN disk : disk[p].to = <<>> => ElfFile(disk, disk[p])
  /\ faults \in Nat
  /\ Ledger(res) /\ Pairs(kept)
  /\ res.unsure = {}
  /\ E!RightFile

ElfMain ==
  /\ main = [x \in ElfMainFields |-> main[x]]
  /\ main.at \in {"program", "libraries", "library", "failed", "done"}
  /\ main.fd \in {NoFile, Descriptor(0)} /\ main.ret \in {-1, 0, 1}
  /\ E!Exists(E!Resolved(main.exe))
  /\ main.at = "program" => main.fd = Descriptor(0)
  /\ main.at \in {"library", "failed", "done"} => main.fd = NoFile
  /\ main.fd # NoFile => main.todo # <<>>
  /\ stack # <<>> => main.at \in {"program", "library"}

ElfStack ==
  /\ IsStack(stack) /\ IsStack(left) /\ Distinct(stack)
  /\ \A j \in 1 .. Len(stack) :
       /\ ElfFrame(stack[j], disk, Mine(res.held, stack[j].id), Mine(kept, stack[j].id), faults)
       /\ stack[j].id <= Len(left) + Len(stack)
       /\ j < Len(stack) => stack[j].at \in ElfAside
       /\ j > 1 => stack[j].fd # Descriptor(0) /\ ~stack[j].exe
       /\ stack[j].exe => main.at = "program"
       /\ stack[j].memory # 0 => "image" \in Mine(res.held, stack[j].memory)

ElfRest ==
  /\ \A i : ~OnStack(stack, i) => ElfDone(i, disk, Mine(res.held, i), Mine(kept, i), left, faults)
  /\ \A i : Mine(res.held, i) # {} => i \in Nat /\ i <= Len(left) + Len(stack)

ElfInv == ElfLedger /\ ElfMain /\ ElfStack /\ ElfRest /\ res.open = Fds(stack) \cup ElfMainOpen

LEMMA ElfResources ==
  \A r, id, whats : /\ E!Taken(r, id, whats) = Taken(r, id, whats)
                    /\ E!Released(r, id, whats) = Released(r, id, whats)
                    /\ E!Closed(r, id) = Closed(r, id)
                    /\ E!CloseFails(r, id) = CloseFails(r, id)
                    /\ E!Opened(r, id) = Opened(r, id)
                    /\ E!Descriptor(id) = Descriptor(id)
                    /\ E!NoFile = NoFile
  BY DEF E!CloseFails, CloseFails, E!Taken, Taken, E!Released, Released, E!Closed, Closed, E!Opened, Opened,
         E!Descriptor, Descriptor, E!NoFile, NoFile

LEMMA ElfFront == \A s : E!Front(s) = Front(s) /\ E!Last(s) = Last(s) /\ E!Range(s) = Range(s)
  BY DEF E!Front, Front, E!Last, Last, E!Range, Range

\* What a call that has been made is like.
ElfCallable(id, file_, fd, memory, exe, asked_) ==
  /\ id \in Nat \ {0} /\ file_ \in DOMAIN disk /\ disk[file_].to = <<>>
  /\ fd \in {NoFile, Descriptor(id), Descriptor(0)} /\ memory # id
  /\ exe \in BOOLEAN /\ (exe => fd = Descriptor(0))
  /\ asked_.crc # 0 => disk[file_].crc = asked_.crc

LEMMA ElfCalled ==
  ASSUME NEW id, NEW path, NEW file_, NEW fd, NEW memory, NEW exe, NEW debuginfo, NEW asked_,
         ElfCallable(id, file_, fd, memory, exe, asked_)
  PROVE  LET g == E!Call(id, path, file_, fd, memory, exe, debuginfo, asked_)
         IN  /\ \A n : ElfFrame(g, disk, {}, {}, n)
             /\ g.id = id /\ g.fd = fd /\ g.memory = memory /\ g.exe = exe /\ g.at = "header"
<1> DEFINE g == E!Call(id, path, file_, fd, memory, exe, debuginfo, asked_)
           p == "header"
           none == {}
           empty == <<>>
           nosection == E!NoSection
<1>1. /\ g = [x \in ElfFields |-> g[x]]
      /\ g.at = p /\ g.file = file_ /\ g.fd = fd /\ g.memory = memory /\ g.exe = exe /\ g.asked = asked_
      /\ g.id = id /\ g.i = 1 /\ g.views = none /\ g.debug = empty /\ g.zdebug = empty /\ g.link = nosection
      /\ g.alt = nosection /\ g.ret = 0
  BY DEF E!Call, ElfFields
<1>2. nosection.is = E!None
  BY DEF E!NoSection
<1>3. DOMAIN empty = {}
  OBVIOUS
<1>4. p = "header" /\ p \in ElfPlaces /\ p \notin ElfLate /\ none = {}
  BY DEF ElfPlaces, ElfLate
<1> HIDE DEF g, p, none, empty, nosection
<1>0. /\ id \in Nat \ {0} /\ file_ \in DOMAIN disk /\ disk[file_].to = <<>>
      /\ fd \in {NoFile, Descriptor(id), Descriptor(0)} /\ memory # id
      /\ exe \in BOOLEAN /\ (exe => fd = Descriptor(0))
      /\ asked_.crc # 0 => disk[file_].crc = asked_.crc
  BY DEF ElfCallable
<1>5. ElfKnows(p, 1, asked_, none, nosection, nosection, disk[file_])
  BY <1>0, <1>2, <1>4 DEF ElfKnows
<1>6. ElfTables_(p, empty, empty, disk[file_])
  BY <1>3 DEF ElfTables_, ElfTable
<1>7. ElfCall(g, disk)
  <2>1. /\ g.at \in ElfPlaces /\ g.id \in Nat \ {0} /\ g.i \in Nat \ {0} /\ g.ret \in {0, 1}
        /\ g.file \in DOMAIN disk /\ disk[g.file].to = <<>> /\ g.memory # g.id
        /\ g.exe \in BOOLEAN /\ g.at \notin ElfLate
    BY <1>0, <1>1, <1>4
  <2>2. g.fd \in {NoFile, Descriptor(g.id), Descriptor(0)} /\ (g.exe => g.fd = Descriptor(0))
    BY <1>0, <1>1
  <2>3. ElfKnows(g.at, g.i, g.asked, g.views, g.link, g.alt, disk[g.file])
    BY <1>1, <1>5
  <2>4. ElfTables_(g.at, g.debug, g.zdebug, disk[g.file])
    BY <1>1, <1>6
  <2>5. g = [x \in ElfFields |-> g[x]]
    BY <1>1
  <2>6. QED
    BY ONLY <2>1, <2>2, <2>3, <2>4, <2>5 DEF ElfCall
<1>8. \A n : ElfHolds(p, memory, none, {}, {}, n)
  BY <1>4 DEF ElfHolds, ElfViews, ElfOwn, ElfLate
<1>9. ElfUncompresses(p, 1, none, empty, empty, disk[file_].near, disk[file_], {})
  BY <1>4 DEF ElfUncompresses
<1>10. ASSUME NEW n PROVE ElfFrame(g, disk, {}, {}, n)
  BY <1>1, <1>7, <1>8, <1>9 DEF ElfFrame
<1>11. QED
  BY <1>1, <1>4, <1>10 DEF g

LEMMA ElfInit ==
  ASSUME NEW r \in Elfs, E!InitWith(r.disk, r.libraries, r.exe)
  PROVE  ElfInv
<1> DEFINE exe_ == E!Resolved(r.exe)
           fd == Descriptor(0)
           yes == TRUE
           no == FALSE
           asked_ == E!Asked(0, E!None)
           g == E!Call(1, r.exe, exe_, fd, 0, yes, no, asked_)
<1>1. /\ disk = r.disk /\ stack = <<g>> /\ left = <<>> /\ kept = {} /\ added = {} /\ faults = 0
      /\ main = [at |-> "program", exe |-> r.exe, fd |-> fd, todo |-> r.libraries, ret |-> 0,
                 fn |-> "elf_nodebug", fileline |-> E!None, syminfo |-> E!None, dwarf |-> FALSE]
      /\ res = Opened(NoResources, fd) /\ E!Exists(exe_)
  BY DEF E!InitWith, E!Opened, Opened, E!NoResources, NoResources, E!Descriptor, Descriptor
<1>2. Ledger(res) /\ res.held = {} /\ res.unsure = {} /\ res.open = {fd}
  BY <1>1, NothingHeld, OpenedIs
<1>3. \A i : Mine(res.held, i) = {} /\ Mine(kept, i) = {}
  BY <1>1, <1>2, MineNone
<1>4. exe_ \in DOMAIN disk /\ disk[exe_].to = <<>>
  BY <1>1 DEF E!Exists
<1>5. yes \in BOOLEAN /\ asked_.crc = 0 /\ fd # NoFile
  BY DescriptorIs DEF E!Asked
<1> HIDE DEF exe_, fd, asked_, no, g
<1>6. /\ \A n : ElfFrame(g, disk, {}, {}, n)
      /\ g.id = 1 /\ g.fd = fd /\ g.memory = 0 /\ (g.exe <=> yes) /\ g.at = "header"
  <2> DEFINE one == 1
             zero == 0
  <2>1. ElfCallable(one, exe_, fd, zero, yes, asked_)
    BY <1>4, <1>5 DEF fd, ElfCallable
  <2> HIDE DEF one, zero, yes
  <2>2. LET k == E!Call(one, r.exe, exe_, fd, zero, yes, no, asked_)
        IN  /\ \A n : ElfFrame(k, disk, {}, {}, n)
            /\ k.id = one /\ k.fd = fd /\ k.memory = zero /\ k.exe = yes /\ k.at = "header"
    BY <2>1, ElfCalled
  <2>3. QED
    BY <2>2 DEF one, zero, g
<1>7. ElfLedger
  <2>1. E!RightFile
    BY <1>1 DEF E!RightFile
  <2>2. \A p \in DOMAIN disk : disk[p].to = <<>> => ElfFile(disk, disk[p])
    BY <1>1, ElfsAssumption
  <2>3. QED
    BY <1>1, <1>2, <2>1, <2>2 DEF ElfLedger, Pairs
<1>8. /\ main = [x \in ElfMainFields |-> main[x]] /\ main.at = "program" /\ main.fd = fd /\ main.ret = 0
      /\ main.exe = r.exe /\ main.todo = r.libraries
  BY <1>1 DEF ElfMainFields
<1>9. ElfMain
  BY <1>1, <1>8, ElfsAssumption DEF ElfMain, fd, exe_
<1>10. Len(stack) = 1 /\ stack[1] = g /\ IsStack(stack) /\ IsStack(left) /\ Len(left) = 0 /\ stack # <<>>
  <2>1. <<g>> \in Seq({g}) /\ left \in Seq({})
    BY <1>1
  <2>2. QED
    BY <1>1, <2>1 DEF IsStack
<1>11. ElfStack
  <2>1. ASSUME NEW j \in 1 .. 1
        PROVE  /\ ElfFrame(stack[j], disk, Mine(res.held, stack[j].id), Mine(kept, stack[j].id), faults)
               /\ stack[j].id <= Len(left) + Len(stack)
               /\ ~(j < Len(stack)) /\ ~(j > 1)
               /\ stack[j].exe => main.at = "program"
               /\ stack[j].memory = 0
    <3>1. stack[j] = g /\ j = 1
      BY <1>10
    <3>2. Mine(res.held, g.id) = {} /\ Mine(kept, g.id) = {} /\ ElfFrame(g, disk, {}, {}, faults)
      BY <1>3, <1>6
    <3>3. ElfFrame(stack[j], disk, Mine(res.held, stack[j].id), Mine(kept, stack[j].id), faults)
      BY <3>1, <3>2
    <3>4. QED
      BY <1>6, <1>8, <1>10, <3>1, <3>3
  <2>2. Distinct(stack)
    BY <1>10 DEF Distinct
  <2>3. QED
    BY <1>10, <2>1, <2>2 DEF ElfStack
<1>12. ElfRest
  <2>1. \A i : ElfDone(i, disk, {}, {}, left, faults)
    BY DEF ElfDone
  <2>2. QED
    BY ONLY <1>3, <2>1 DEF ElfRest
<1>13. res.open = Fds(stack) \cup ElfMainOpen
  <2>1. ElfMainOpen = {}
    BY <1>8, <1>10 DEF ElfMainOpen
  <2>2. Fds(stack) = {fd}
    BY <1>5, <1>6, <1>10 DEF Fds
  <2>3. QED
    BY <1>2, <2>1, <2>2
<1>14. QED
  BY <1>7, <1>9, <1>11, <1>12, <1>13 DEF ElfInv

\* What the calls below the last have open.
FdsBelow(s) == {s[j].fd : j \in 1 .. Len(s) - 1} \ {NoFile}

LEMMA FdsLast ==
  ASSUME NEW s, IsStack(s), s # <<>>
  PROVE  Fds(s) = FdsBelow(s) \cup ({s[Len(s)].fd} \ {NoFile})
<1>1. Len(s) \in Nat /\ Len(s) \in 1 .. Len(s)
  BY StackIs
<1>2. 1 .. Len(s) = (1 .. Len(s) - 1) \cup {Len(s)}
  BY <1>1
<1>3. QED
  BY <1>2 DEF Fds, FdsBelow

\* Of the reader at work alone anything was taken or released, or is referred to; but a call that
\* reads a file from memory refers to the block that has it.
ElfOnly(r, things) ==
  /\ Ledger(r) /\ Pairs(things)
  /\ "image" \in Mine(res.held, E!F.id) => "image" \in Mine(r.held, E!F.id)
  /\ \A i : i # E!F.id =>
       /\ Mine(r.held, i) = Mine(res.held, i)
       /\ \/ Mine(things, i) = Mine(kept, i)
          \/ Mine(things, i) = Mine(kept, i) \cup {"image"} /\ "image" \in Mine(res.held, i)

ElfFaults == faults' \in Nat /\ (faults > 0 => faults' > 0)

\* A call that waits for another goes on waiting.
LEMMA ElfWaits ==
  ASSUME NEW f, NEW d, NEW held, NEW refers, NEW n, NEW m, n > 0 => m > 0, f.at \in ElfAside,
         ElfFrame(f, d, held, refers, n),
         NEW more, more = refers \/ (more = refers \cup {"image"} /\ "image" \in held)
  PROVE  ElfFrame(f, d, held, more, m)
<1> DEFINE own == ElfOwn(f.at, f.memory, f.views)
<1>1. f.at \notin ElfLate /\ f.at \notin ElfEarly
  BY DEF ElfAside, ElfLate, ElfEarly
<1>2. ElfCall(f, d) /\ ElfHolds(f.at, f.memory, f.views, held, refers, n)
  BY DEF ElfFrame
<1>3. ElfUncompresses(f.at, f.i, f.views, f.debug, f.zdebug, d[f.file].near, d[f.file], held)
  BY <1>1 DEF ElfUncompresses
<1>4. /\ ElfViews(f.at, f.views) /\ more \subseteq held /\ more \subseteq {"sdata", "symbols", "strtab", "image"}
      /\ own \subseteq held /\ refers \subseteq more
      /\ \A w \in held : w \in own \/ w \in refers \/ ElfSpare(f.at, w, n)
  BY <1>2 DEF ElfHolds
<1>5. \A w : ElfSpare(f.at, w, n) => ElfSpare(f.at, w, m)
  BY DEF ElfSpare
<1>6. ElfHolds(f.at, f.memory, f.views, held, more, m)
  BY <1>1, <1>4, <1>5 DEF ElfHolds
<1>7. QED
  BY <1>2, <1>3, <1>6 DEF ElfFrame

\* What is left of a call stays explained.
LEMMA ElfStays ==
  ASSUME NEW i, NEW d, NEW held, NEW refers, NEW calls, NEW n, ElfDone(i, d, held, refers, calls, n),
         NEW more, more = refers \/ (more = refers \cup {"image"} /\ "image" \in held),
         NEW others, Range(calls) \subseteq Range(others), NEW m, n > 0 => m > 0
  PROVE  ElfDone(i, d, held, more, others, m)
<1>1. more \subseteq held /\ held \ more \subseteq held \ refers
  BY DEF ElfDone
<1>2. \A from : ElfFrom(calls, i, from) => ElfFrom(others, i, from)
  BY DEF ElfFrom
<1>3. QED
  BY <1>1, <1>2 DEF ElfDone

LEMMA ElfTop ==
  ASSUME ElfInv, stack # <<>>
  PROVE  /\ E!F = stack[Len(stack)] /\ Len(stack) \in 1 .. Len(stack) /\ Len(stack) \in Nat /\ Len(stack) > 0
         /\ ElfFrame(E!F, disk, Mine(res.held, E!F.id), Mine(kept, E!F.id), faults)
         /\ OnStack(stack, E!F.id) /\ main.at \in {"program", "library"} /\ ElfMainOpen = {}
         /\ E!F.id <= Len(left) + Len(stack)
         /\ E!F.memory # 0 => "image" \in Mine(res.held, E!F.memory)
         /\ E!F.exe => Len(stack) = 1 /\ main.at = "program"
         /\ E!F.fd \notin FdsBelow(stack) /\ res.open = FdsBelow(stack) \cup ({E!F.fd} \ {NoFile})
<1> DEFINE n == Len(stack)
<1>1. IsStack(stack) /\ Distinct(stack) /\ ElfMain
  BY DEF ElfInv, ElfStack
<1>2. E!F = stack[n] /\ n \in 1 .. n /\ n \in Nat /\ n > 0
  BY <1>1, StackIs, ElfFront DEF E!F
<1>3. /\ ElfFrame(stack[n], disk, Mine(res.held, stack[n].id), Mine(kept, stack[n].id), faults)
      /\ stack[n].id <= Len(left) + n
      /\ n > 1 => stack[n].fd # Descriptor(0) /\ ~stack[n].exe
      /\ stack[n].exe => main.at = "program"
      /\ stack[n].memory # 0 => "image" \in Mine(res.held, stack[n].memory)
  BY <1>2 DEF ElfInv, ElfStack
<1>4. main.at \in {"program", "library"} /\ ElfMainOpen = {}
  BY <1>1 DEF ElfMain, ElfMainOpen
<1>5. OnStack(stack, stack[n].id)
  BY <1>2 DEF OnStack
<1> HIDE DEF n
<1>6. ASSUME NEW j \in 1 .. n - 1, stack[n].fd # NoFile PROVE stack[n].fd # stack[j].fd
  <2>1. j \in 1 .. n /\ j # n /\ n > 1
    BY <1>2
  <2>2. /\ stack[j].fd \in {NoFile, Descriptor(stack[j].id), Descriptor(0)} /\ stack[j].id # 0
        /\ stack[n].fd \in {NoFile, Descriptor(stack[n].id), Descriptor(0)} /\ stack[n].id # 0
    BY <1>3, <2>1 DEF ElfInv, ElfStack, ElfFrame, ElfCall, n
  <2>3. stack[j].id # stack[n].id
    BY <1>1, <1>2, <2>1 DEF Distinct, n
  <2>4. stack[n].fd # Descriptor(0)
    BY <1>3, <2>1
  <2>5. QED
    BY <1>6, <2>2, <2>3, <2>4, DescriptorIs
<1>7. stack[n].fd \notin FdsBelow(stack)
  BY <1>6 DEF FdsBelow, n
<1>8. res.open = FdsBelow(stack) \cup ({stack[n].fd} \ {NoFile})
  <2>1. res.open = Fds(stack)
    BY <1>4 DEF ElfInv
  <2>2. QED
    BY <1>1, <2>1, FdsLast DEF n
<1>9. stack[n].exe => n = 1
  BY <1>2, <1>3
<1>10. QED
  BY <1>2, <1>3, <1>4, <1>5, <1>7, <1>8, <1>9 DEF n

LEMMA ElfGoes ==
  ASSUME ElfInv, stack # <<>>, NEW g, E!Goes(g), g.id = E!F.id, g.exe = E!F.exe, g.memory = E!F.memory,
         g.fd \in {E!F.fd, NoFile},
         UNCHANGED <<disk, main, added, left>>, ElfFaults, res'.unsure = {},
         ElfOnly(res', kept'),
         ElfFrame(g, disk, Mine(res'.held, E!F.id), Mine(kept', E!F.id), faults'),
         res'.open = FdsBelow(stack) \cup ({g.fd} \ {NoFile})
  PROVE  ElfInv'
<1> DEFINE n == Len(stack)
<1>1. /\ E!F = stack[n] /\ n \in 1 .. n /\ n \in Nat /\ OnStack(stack, E!F.id) /\ IsStack(stack)
      /\ ElfMainOpen = {} /\ main.at \in {"program", "library"}
      /\ (E!F.memory # 0 => "image" \in Mine(res.held, E!F.memory))
  BY ElfTop DEF ElfInv, ElfStack
<1>2. stack' = WithLast(stack, g)
  BY DEF E!Goes, WithLast
<1>3. /\ IsStack(stack') /\ stack' # <<>> /\ Len(stack') = n /\ stack'[n] = g
      /\ \A j \in 1 .. n - 1 : stack'[j] = stack[j]
  BY <1>1, <1>2, Replaced
<1>4. Distinct(stack) /\ g.id = stack[n].id
  BY <1>1 DEF ElfInv, ElfStack
<1>5. Distinct(stack') /\ \A i : OnStack(stack', i) <=> OnStack(stack, i)
  BY <1>1, <1>2, <1>4, ReplacedIds
<1>6. \A j \in 1 .. n - 1 : j \in 1 .. n /\ j # n /\ stack[j].id # E!F.id
  BY <1>1, <1>4 DEF Distinct
<1>7. \A j \in 1 .. n : j = n \/ j \in 1 .. n - 1
  BY <1>1
<1> HIDE DEF n
<1>8. ElfLedger'
  <2>1. E!RightFile'
    BY DEF ElfInv, ElfLedger, E!RightFile, E!FirstBuildId
  <2>2. QED
    BY <2>1 DEF ElfInv, ElfLedger, ElfFaults, ElfOnly
<1>9. ElfMain'
  <2>1. ElfMain /\ stack # <<>> /\ disk' = disk /\ main' = main
    BY DEF ElfInv
  <2>2. E!Exists(E!Resolved(main.exe))' <=> E!Exists(E!Resolved(main.exe))
    BY <2>1 DEF E!Exists, E!Resolved
  <2>3. QED
    BY <1>3, <2>1, <2>2 DEF ElfMain
<1>10. \A i : "image" \in Mine(res.held, i) => "image" \in Mine(res'.held, i)
  BY DEF ElfOnly
<1>11. ElfStack'
  <2>1. ASSUME NEW j \in 1 .. n
        PROVE  /\ ElfFrame(stack'[j], disk, Mine(res'.held, stack'[j].id), Mine(kept', stack'[j].id), faults')
               /\ stack'[j].id <= Len(left) + n
               /\ j < n => stack'[j].at \in ElfAside
               /\ j > 1 => stack'[j].fd # Descriptor(0) /\ ~stack'[j].exe
               /\ stack'[j].exe => main.at = "program"
               /\ stack'[j].memory # 0 => "image" \in Mine(res'.held, stack'[j].memory)
    <3> DEFINE f == stack[j]
    <3>1. /\ ElfFrame(f, disk, Mine(res.held, f.id), Mine(kept, f.id), faults)
          /\ f.id <= Len(left) + n
          /\ j < n => f.at \in ElfAside
          /\ j > 1 => f.fd # Descriptor(0) /\ ~f.exe
          /\ f.exe => main.at = "program"
          /\ f.memory # 0 => "image" \in Mine(res.held, f.memory)
      BY DEF ElfInv, ElfStack, n
    <3>2. CASE j = n
      <4>1. f = E!F /\ stack'[j] = g /\ ~(j < n)
        BY <1>1, <1>3, <3>2
      <4>2. g.fd # Descriptor(0) \/ g.fd = f.fd
        BY <4>1, DescriptorIs
      <4>3. QED
        BY <1>10, <3>1, <4>1, <4>2
    <3>3. CASE j \in 1 .. n - 1
      <4>1. f.id # E!F.id /\ stack'[j] = f /\ j < n /\ f.at \in ElfAside
        BY <1>1, <1>3, <1>6, <3>1, <3>3
      <4> HIDE DEF f
      <4>2. ElfFrame(f, disk, Mine(res'.held, f.id), Mine(kept', f.id), faults')
        <5>1. /\ Mine(res'.held, f.id) = Mine(res.held, f.id)
              /\ \/ Mine(kept', f.id) = Mine(kept, f.id)
                 \/ Mine(kept', f.id) = Mine(kept, f.id) \cup {"image"} /\ "image" \in Mine(res.held, f.id)
          BY <4>1 DEF ElfOnly
        <5>2. faults > 0 => faults' > 0
          BY DEF ElfFaults
        <5>3. QED
          BY <3>1, <4>1, <5>1, <5>2, ElfWaits
      <4>3. QED
        BY <1>10, <3>1, <4>1, <4>2
    <3>4. QED
      BY <1>7, <3>2, <3>3
  <2>2. IsStack(left) /\ left' = left /\ disk' = disk /\ main' = main
    BY DEF ElfInv, ElfStack
  <2>3. QED
    BY <1>3, <1>5, <2>1, <2>2 DEF ElfStack
<1>12. ElfRest'
  <2>1. ElfRest /\ left' = left /\ disk' = disk /\ Len(stack') = Len(stack)
    BY <1>3 DEF ElfInv, n
  <2>2. ASSUME NEW i, ~OnStack(stack, i)
        PROVE  ElfDone(i, disk, Mine(res'.held, i), Mine(kept', i), left, faults')
    <3>1. /\ i # E!F.id
      BY <1>1, <2>2
    <3>2. ElfDone(i, disk, Mine(res.held, i), Mine(kept, i), left, faults)
      BY <2>1, <2>2 DEF ElfRest
    <3>3. /\ Mine(res'.held, i) = Mine(res.held, i)
          /\ \/ Mine(kept', i) = Mine(kept, i)
             \/ Mine(kept', i) = Mine(kept, i) \cup {"image"} /\ "image" \in Mine(res.held, i)
      BY <3>1 DEF ElfOnly
    <3>4. (faults > 0 => faults' > 0) /\ Range(left) \subseteq Range(left)
      BY DEF ElfFaults
    <3>5. QED
      BY <3>2, <3>3, <3>4, ElfStays
  <2>3. ASSUME NEW i, Mine(res'.held, i) # {} PROVE i \in Nat /\ i <= Len(left) + Len(stack)
    <3>1. CASE i = E!F.id
      <4>1. E!F.id <= Len(left) + Len(stack) /\ ElfCall(E!F, disk)
        BY ElfTop DEF ElfFrame
      <4>2. QED
        BY <3>1, <4>1 DEF ElfCall
    <3>2. CASE i # E!F.id
      BY <2>1, <2>3, <3>2 DEF ElfOnly, ElfRest
    <3>3. QED
      BY <3>1, <3>2
  <2>4. QED
    BY <1>5, <2>1, <2>2, <2>3 DEF ElfRest
<1>13. res'.open = Fds(stack') \cup ElfMainOpen'
  <2>1. ElfMainOpen' = {}
    BY <1>1, <1>3 DEF ElfMainOpen, ElfInv, ElfMain
  <2>2. FdsBelow(stack') = FdsBelow(stack)
    BY <1>3 DEF FdsBelow, n
  <2>3. Fds(stack') = FdsBelow(stack') \cup ({g.fd} \ {NoFile})
    BY <1>3, FdsLast
  <2>4. QED
    BY <2>1, <2>2, <2>3
<1>14. QED
  BY <1>8, <1>9, <1>11, <1>12, <1>13 DEF ElfInv

LEMMA ElfRet ==
  ASSUME NEW f, NEW d, ElfCall(f, d), NEW ret \in {0, 1}
  PROVE  LET g == [f EXCEPT !.ret = ret]
         IN  /\ g.id = f.id /\ g.at = f.at /\ g.fd = f.fd /\ g.exe = f.exe /\ g.memory = f.memory
             /\ \A held, refers, n : ElfFrame(f, d, held, refers, n) => ElfFrame(g, d, held, refers, n)
<1> DEFINE g == [f EXCEPT !.ret = ret]
<1>1. f = [x \in ElfFields |-> f[x]]
  BY DEF ElfCall
<1>2. /\ g = [x \in ElfFields |-> g[x]]
      /\ g.at = f.at /\ g.id = f.id /\ g.file = f.file /\ g.fd = f.fd /\ g.memory = f.memory /\ g.exe = f.exe
      /\ g.asked = f.asked /\ g.i = f.i /\ g.views = f.views /\ g.debug = f.debug /\ g.zdebug = f.zdebug
      /\ g.link = f.link /\ g.alt = f.alt /\ g.ret = ret
  BY <1>1 DEF ElfFields
<1> HIDE DEF g
<1>3. ElfCall(g, d)
  BY ONLY ElfCall(f, d), ret \in {0, 1}, <1>2 DEF ElfCall
<1>4. \A held, refers, n : ElfFrame(f, d, held, refers, n) => ElfFrame(g, d, held, refers, n)
  BY <1>2, <1>3 DEF ElfFrame
<1>5. QED
  BY <1>2, <1>4 DEF g

\* What is left in the list of calls when the one at work returns.
ElfExit(from) == [id |-> E!F.id, file |-> E!F.file, from |-> from]

LEMMA ElfLeft ==
  ASSUME ElfInv, stack # <<>>, NEW from, left' = Append(left, ElfExit(from))
  PROVE  /\ IsStack(left') /\ Len(left') = Len(left) + 1 /\ Len(left) \in Nat /\ Range(left) \subseteq Range(left')
         /\ ElfFrom(left', E!F.id, from) /\ ElfExit(from) \in Range(left')
<1> DEFINE x == ElfExit(from)
<1>0. x.id = E!F.id /\ x.from = from
  BY DEF ElfExit
<1>1. left' = Append(left, x)
  OBVIOUS
<1> HIDE DEF x
<1>2. IsStack(left) /\ Len(left) \in Nat
  BY StackIs DEF ElfInv, ElfStack
<1>3. /\ IsStack(left') /\ Len(left') = Len(left) + 1 /\ left'[Len(left) + 1] = x
      /\ \A j \in 1 .. Len(left) : left'[j] = left[j]
  BY <1>1, <1>2, Pushed
<1>4. DOMAIN left = 1 .. Len(left) /\ DOMAIN left' = 1 .. Len(left')
  BY <1>2, <1>3, StackIs
<1>5. DOMAIN left \subseteq DOMAIN left' /\ \A j \in DOMAIN left : left'[j] = left[j]
  BY <1>2, <1>3, <1>4
<1>6. Range(left) \subseteq Range(left')
  BY <1>5 DEF Range
<1>7. x \in Range(left')
  BY <1>2, <1>3, <1>4 DEF Range
<1>8. ElfFrom(left', E!F.id, from)
  BY <1>0, <1>7 DEF ElfFrom
<1>9. QED
  BY <1>2, <1>3, <1>6, <1>7, <1>8 DEF x

\* backtrace_initialize is told what its own call returned.
ElfTold(ret) ==
  /\ main' = [x \in ElfMainFields |-> main'[x]]
  /\ main'.at = main.at /\ main'.exe = main.exe /\ main'.fd = main.fd /\ main'.todo = main.todo
  /\ main'.ret = IF Len(stack) = 1 THEN ret ELSE main.ret

ElfReturn(ret, from) ==
  /\ left' = Append(left, ElfExit(from)) /\ stack' = Pop(stack, ret) /\ ElfTold(ret)
  /\ ret \in {0, 1} \/ (ret = -1 /\ E!F.exe)

\* What may be open after that.
ElfAfter(ret) == FdsBelow(stack) \cup (IF ret < 0 THEN {Descriptor(0)} ELSE {})

LEMMA ElfReturned ==
  ASSUME ElfInv, stack # <<>>, NEW ret, NEW from, ElfReturn(ret, from),
         UNCHANGED disk, ElfFaults, res'.unsure = {},
         ElfOnly(res', kept'),
         ElfDone(E!F.id, disk, Mine(res'.held, E!F.id), Mine(kept', E!F.id), left', faults'),
         res'.open = ElfAfter(ret),
         E!RightFile'
  PROVE  ElfInv'
<1> DEFINE n == Len(stack)
           id == E!F.id
<1>1. /\ E!F = stack[n] /\ n \in 1 .. n /\ n \in Nat /\ n > 0 /\ OnStack(stack, id) /\ IsStack(stack)
      /\ main.at \in {"program", "library"} /\ (E!F.exe => n = 1 /\ main.at = "program")
      /\ id <= Len(left) + n
  BY ElfTop DEF ElfInv, ElfStack
<1>2. Distinct(stack) /\ id = stack[n].id
  BY <1>1 DEF ElfInv, ElfStack
<1>3. /\ IsStack(stack') /\ Len(stack') = n - 1 /\ Distinct(stack')
      /\ \A j \in 1 .. n - 2 : stack'[j] = stack[j]
      /\ n # 1 => n - 1 \in 1 .. n /\ stack'[n - 1] = [stack[n - 1] EXCEPT !.ret = ret]
      /\ \A j \in 1 .. n - 1 : stack'[j].id = stack[j].id
      /\ \A i : OnStack(stack', i) <=> OnStack(stack, i) /\ i # stack[n].id
  <2>1. stack' = Pop(stack, ret)
    BY DEF ElfReturn
  <2>2. QED
    BY <1>1, <1>2, <2>1, PoppedIds
<1>4. IsStack(left') /\ Len(left') = Len(left) + 1 /\ Len(left) \in Nat /\ Range(left) \subseteq Range(left')
  BY ElfLeft DEF ElfReturn
<1>5. /\ main' = [x \in ElfMainFields |-> main'[x]]
      /\ main'.at = main.at /\ main'.exe = main.exe /\ main'.fd = main.fd /\ main'.todo = main.todo
      /\ main'.ret = IF n = 1 THEN ret ELSE main.ret
  BY DEF ElfReturn, ElfTold
<1>6. (ret \in {0, 1} \/ ret = -1) /\ (n # 1 => ret \in {0, 1})
  BY <1>1 DEF ElfReturn
<1>7. ElfMain
  BY DEF ElfInv
<1> HIDE DEF n, id
<1>8. ElfLedger'
  BY DEF ElfInv, ElfLedger, ElfFaults, ElfOnly
<1>9. ElfMain'
  <2>1. disk' = disk
    OBVIOUS
  <2>2. E!Exists(E!Resolved(main.exe))' <=> E!Exists(E!Resolved(main.exe))
    BY <1>5, <2>1 DEF E!Exists, E!Resolved
  <2>3. main.ret \in {-1, 0, 1} /\ main'.ret \in {-1, 0, 1}
    BY <1>5, <1>6, <1>7 DEF ElfMain
  <2>4. QED
    BY ONLY <1>1, <1>5, <1>7, <2>2, <2>3 DEF ElfMain
<1>10. \A j \in 1 .. n - 1 : j \in 1 .. n /\ j # n /\ stack[j].id # id /\ j < n
  BY <1>1, <1>2 DEF Distinct, n
<1>11. \A j \in 1 .. n - 1 : j = n - 1 \/ j \in 1 .. n - 2
  BY <1>1
<1>12. \A i : "image" \in Mine(res.held, i) => "image" \in Mine(res'.held, i)
  BY DEF ElfOnly
<1>13. ASSUME NEW j \in 1 .. n - 1
       PROVE  /\ ElfFrame(stack'[j], disk, Mine(res'.held, stack'[j].id), Mine(kept', stack'[j].id), faults')
              /\ stack'[j].id <= Len(left') + (n - 1)
              /\ stack'[j].at \in ElfAside
              /\ j > 1 => stack'[j].fd # Descriptor(0) /\ ~stack'[j].exe
              /\ stack'[j].exe => main'.at = "program"
              /\ stack'[j].memory # 0 => "image" \in Mine(res'.held, stack'[j].memory)
              /\ stack'[j].fd = stack[j].fd
  <2> DEFINE f == stack[j]
  <2>1. /\ ElfFrame(f, disk, Mine(res.held, f.id), Mine(kept, f.id), faults)
        /\ f.id <= Len(left) + n
        /\ f.at \in ElfAside
        /\ j > 1 => f.fd # Descriptor(0) /\ ~f.exe
        /\ f.exe => main.at = "program"
        /\ f.memory # 0 => "image" \in Mine(res.held, f.memory)
    BY <1>10 DEF ElfInv, ElfStack, n
  <2>2. f.id # id
    BY <1>10
  <2>3. stack'[j] = f \/ (stack'[j] = [f EXCEPT !.ret = ret] /\ ret \in {0, 1})
    BY <1>1, <1>3, <1>6, <1>11
  <2> HIDE DEF f
  <2>4. ElfFrame(f, disk, Mine(res'.held, f.id), Mine(kept', f.id), faults')
    <3>1. /\ Mine(res'.held, f.id) = Mine(res.held, f.id)
          /\ \/ Mine(kept', f.id) = Mine(kept, f.id)
             \/ Mine(kept', f.id) = Mine(kept, f.id) \cup {"image"} /\ "image" \in Mine(res.held, f.id)
      BY <2>2 DEF ElfOnly, id
    <3>2. faults > 0 => faults' > 0
      BY DEF ElfFaults
    <3>3. QED
      BY <2>1, <3>1, <3>2, ElfWaits
  <2>5. ElfCall(f, disk) /\ f.id <= Len(left') + (n - 1)
    <3>1. ElfCall(f, disk)
      BY <2>4 DEF ElfFrame
    <3>2. f.id \in Nat /\ f.id <= Len(left) + n /\ n \in Nat /\ Len(left) \in Nat /\ Len(left') = Len(left) + 1
      BY <1>1, <1>4, <2>1, <3>1 DEF ElfCall
    <3>3. QED
      BY ONLY <3>1, <3>2
  <2>6. CASE stack'[j] = f
    BY <1>5, <1>12, <2>1, <2>4, <2>5, <2>6 DEF f
  <2>7. CASE stack'[j] = [f EXCEPT !.ret = ret] /\ ret \in {0, 1}
    <3> DEFINE g == [f EXCEPT !.ret = ret]
    <3>1. /\ g.id = f.id /\ g.at = f.at /\ g.fd = f.fd /\ g.exe = f.exe /\ g.memory = f.memory
          /\ \A held, refers, m : ElfFrame(f, disk, held, refers, m) => ElfFrame(g, disk, held, refers, m)
      BY <2>5, <2>7, ElfRet
    <3>2. stack'[j] = g
      BY <2>7
    <3> HIDE DEF g
    <3>3. QED
      BY <1>5, <1>12, <2>1, <2>4, <2>5, <3>1, <3>2 DEF f
  <2>8. QED
    BY <2>3, <2>6, <2>7
<1>14. ElfStack'
  <2>1. disk' = disk
    OBVIOUS
  <2>2. \A j \in 1 .. Len(stack') : j \in 1 .. n - 1
    BY <1>3
  <2>3. QED
    BY <1>3, <1>4, <1>13, <2>1, <2>2 DEF ElfStack
<1>15. ElfRest'
  <2>1. ElfRest /\ Len(left') + Len(stack') = Len(left) + n
    BY <1>1, <1>3, <1>4 DEF ElfInv
  <2>2. ASSUME NEW i, ~OnStack(stack', i)
        PROVE  ElfDone(i, disk, Mine(res'.held, i), Mine(kept', i), left', faults')
    <3>1. CASE i = id
      BY <3>1 DEF id
    <3>2. CASE i # id
      <4>1. ~OnStack(stack, i)
        BY <1>2, <1>3, <2>2, <3>2
      <4>2. ElfDone(i, disk, Mine(res.held, i), Mine(kept, i), left, faults)
        BY <2>1, <4>1 DEF ElfRest
      <4>3. /\ Mine(res'.held, i) = Mine(res.held, i)
            /\ \/ Mine(kept', i) = Mine(kept, i)
               \/ Mine(kept', i) = Mine(kept, i) \cup {"image"} /\ "image" \in Mine(res.held, i)
        BY <3>2 DEF ElfOnly, id
      <4>4. faults > 0 => faults' > 0
        BY DEF ElfFaults
      <4>5. QED
        BY <1>4, <4>2, <4>3, <4>4, ElfStays
    <3>3. QED
      BY <3>1, <3>2
  <2>3. ASSUME NEW i, Mine(res'.held, i) # {} PROVE i \in Nat /\ i <= Len(left) + n
    <3>1. CASE i = id
      <4>1. ElfCall(E!F, disk)
        BY ElfTop DEF ElfFrame
      <4>2. id \in Nat
        BY <4>1 DEF ElfCall, id
      <4>3. QED
        BY <1>1, <3>1, <4>2
    <3>2. CASE i # id
      BY <2>1, <2>3, <3>2 DEF ElfOnly, ElfRest, id, n
    <3>3. QED
      BY <3>1, <3>2
  <2>4. disk' = disk
    OBVIOUS
  <2>5. QED
    BY <2>1, <2>2, <2>3, <2>4 DEF ElfRest
<1>16. res'.open = Fds(stack') \cup ElfMainOpen'
  <2>1. Fds(stack') = FdsBelow(stack)
    BY <1>3, <1>13 DEF Fds, FdsBelow, n
  <2>2. stack' = <<>> <=> n = 1
    BY <1>1, <1>3, StackIs
  <2>3. ElfMainOpen' = IF ret < 0 THEN {Descriptor(0)} ELSE {}
    <3>1. main'.fd = NoFile \/ main'.at = "program"
      BY <1>1, <1>5, <1>7 DEF ElfMain
    <3>2. ret < 0 => n = 1 /\ main'.at = "program"
      BY <1>1, <1>5, <1>6 DEF ElfReturn
    <3>3. n = 1 => main'.ret = ret
      BY <1>5
    <3> HIDE DEF ElfReturn
    <3>4. CASE ret < 0
      <4>1. main'.at = "program" /\ stack' = <<>> /\ main'.ret < 0
        BY <2>2, <3>2, <3>3, <3>4
      <4>2. QED
        BY ONLY <3>4, <4>1 DEF ElfMainOpen
    <3>5. CASE ~(ret < 0)
      <4>1. ~(stack' = <<>> /\ main'.ret < 0)
        BY <2>2, <3>3, <3>5
      <4>2. QED
        BY ONLY <3>1, <3>5, <4>1 DEF ElfMainOpen
    <3>6. QED
      BY <3>4, <3>5
  <2>4. QED
    BY <2>1, <2>3 DEF ElfAfter
<1>17. QED
  BY <1>8, <1>9, <1>14, <1>15, <1>16 DEF ElfInv

LEMMA ElfReturns ==
  ASSUME ElfInv, stack # <<>>, NEW ret, NEW from, NEW r, E!Returns(ret, from, r),
         ret \in {0, 1} \/ (ret = -1 /\ E!F.exe)
  PROVE  ElfReturn(ret, from) /\ res' = r
<1>1. main = [x \in ElfMainFields |-> main[x]]
  BY DEF ElfInv, ElfMain
<1>2. main' = IF Len(stack) = 1 THEN [main EXCEPT !.ret = ret] ELSE main
  BY DEF E!Returns
<1>3. ElfTold(ret)
  BY <1>1, <1>2 DEF ElfTold, ElfMainFields
<1>4. stack' = Pop(stack, ret) /\ res' = r /\ left' = Append(left, ElfExit(from))
  BY ElfFront DEF E!Returns, Pop, Returned, ElfExit
<1>5. QED
  BY <1>3, <1>4 DEF ElfReturn

\* What there is to get or to give back: nothing where the file is in memory.
Here(whats) == IF E!F.memory = 0 THEN whats ELSE {}

LEMMA ElfTaken ==
  ASSUME NEW r, NEW things, ElfOnly(r, things), NEW whats
  PROVE  LET s == E!Taken(r, E!F.id, whats)
         IN  /\ ElfOnly(s, things) /\ s.open = r.open /\ s.unsure = r.unsure
             /\ Mine(s.held, E!F.id) = Mine(r.held, E!F.id) \cup whats
<1> DEFINE id == E!F.id
           s == Taken(r, id, whats)
<1>1. E!Taken(r, id, whats) = s
  BY ElfResources
<1>2. /\ Ledger(s) /\ s.open = r.open /\ s.unsure = r.unsure
      /\ Mine(s.held, id) = Mine(r.held, id) \cup whats
      /\ \A i : i # id => Mine(s.held, i) = Mine(r.held, i)
  <2>1. Ledger(r)
    BY DEF ElfOnly
  <2>2. QED
    BY ONLY <2>1, TakenMine
<1> HIDE DEF s
<1>3. ElfOnly(s, things)
  BY <1>2 DEF ElfOnly
<1>4. QED
  BY <1>1, <1>2, <1>3

LEMMA ElfReleased ==
  ASSUME NEW r, NEW things, ElfOnly(r, things), NEW whats, whats \subseteq Mine(r.held, E!F.id), "image" \notin whats
  PROVE  LET s == E!Released(r, E!F.id, whats)
         IN  /\ ElfOnly(s, things) /\ s.open = r.open /\ s.unsure = r.unsure
             /\ Mine(s.held, E!F.id) = Mine(r.held, E!F.id) \ whats
<1> DEFINE id == E!F.id
           s == Released(r, id, whats)
<1>1. E!Released(r, id, whats) = s
  BY ElfResources
<1>2. /\ Ledger(s) /\ s.open = r.open
      /\ s.unsure = r.unsure
      /\ Mine(s.held, id) = Mine(r.held, id) \ whats
      /\ \A i : i # id => Mine(s.held, i) = Mine(r.held, i)
  BY ReleasedMine DEF ElfOnly
<1> HIDE DEF s
<1>3. ElfOnly(s, things)
  BY <1>2 DEF ElfOnly
<1>4. QED
  BY <1>1, <1>2, <1>3

LEMMA ElfGot ==
  ASSUME NEW r, NEW things, ElfOnly(r, things), NEW whats
  PROVE  LET s == E!Get(r, whats)
         IN  /\ ElfOnly(s, things) /\ s.open = r.open /\ s.unsure = r.unsure
             /\ Mine(s.held, E!F.id) = Mine(r.held, E!F.id) \cup Here(whats)
<1>1. CASE E!F.memory = 0
  BY <1>1, ElfTaken DEF E!Get, Here
<1>2. CASE E!F.memory # 0
  BY <1>2 DEF E!Get, Here
<1>3. QED
  BY <1>1, <1>2

LEMMA ElfDropped ==
  ASSUME NEW r, NEW things, ElfOnly(r, things), NEW whats, Here(whats) \subseteq Mine(r.held, E!F.id), "image" \notin whats
  PROVE  LET s == E!Drop(r, whats)
         IN  /\ ElfOnly(s, things) /\ s.open = r.open /\ s.unsure = r.unsure
             /\ Mine(s.held, E!F.id) = Mine(r.held, E!F.id) \ Here(whats)
<1>1. CASE E!F.memory = 0
  BY <1>1, ElfReleased DEF E!Drop, Here
<1>2. CASE E!F.memory # 0
  BY <1>2 DEF E!Drop, Here
<1>3. QED
  BY <1>1, <1>2

\* What the calls have open, and what they have when that of the one at work is closed.
ElfOpens == FdsBelow(stack) \cup ({E!F.fd} \ {NoFile})

LEMMA ElfClosed ==
  ASSUME ElfInv, stack # <<>>, NEW r, NEW things, ElfOnly(r, things), r.open = ElfOpens, r.unsure = {}
  PROVE  LET s == E!Closed(r, E!F.fd)
         IN  /\ ElfOnly(s, things) /\ s.held = r.held /\ s.unsure = {}
             /\ s.open = FdsBelow(stack)
<1> DEFINE fd == E!F.fd
           s == Closed(r, fd)
<1>1. E!Closed(r, fd) = s
  BY ElfResources
<1>2. /\ Ledger(s) /\ s.held = r.held
      /\ fd = NoFile => s = r
      /\ fd # NoFile => s.open = r.open \ {fd} /\ s.unsure = r.unsure \ {fd}
  BY ClosedIs DEF ElfOnly, ElfOpens
<1> HIDE DEF s
<1>3. ElfOnly(s, things)
  BY <1>2 DEF ElfOnly
<1>4. fd \notin FdsBelow(stack)
  BY ElfTop
<1>5. r.open = FdsBelow(stack) \cup ({fd} \ {NoFile})
  BY DEF ElfOpens
<1> HIDE DEF fd
<1>6. s.unsure = {} /\ s.open = FdsBelow(stack)
  <2>1. CASE fd = NoFile
    BY <1>2, <1>5, <2>1
  <2>2. CASE fd # NoFile
    BY <1>2, <1>4, <1>5, <2>2
  <2>3. QED
    BY <2>1, <2>2
<1>7. QED
  BY <1>1, <1>2, <1>3, <1>6 DEF fd

LEMMA ElfCloseFails ==
  ASSUME ElfInv, stack # <<>>, NEW r, NEW things, ElfOnly(r, things), r.open = ElfOpens, r.unsure = {},
         E!F.fd # NoFile
  PROVE  LET s == E!CloseFails(r, E!F.fd)
         IN  /\ ElfOnly(s, things) /\ s.held = r.held /\ s.unsure = {E!F.fd}
             /\ s.open = FdsBelow(stack)
<1> DEFINE fd == E!F.fd
           s == CloseFails(r, fd)
<1>1. E!CloseFails(r, fd) = s
  BY ElfResources
<1>2. Ledger(s) /\ s.held = r.held /\ s.open = r.open \ {fd} /\ s.unsure = {fd}
  BY CloseFailsIs DEF ElfOnly, ElfOpens
<1> HIDE DEF s
<1>3. ElfOnly(s, things)
  BY <1>2 DEF ElfOnly
<1>4. fd \notin FdsBelow(stack)
  BY ElfTop
<1>5. s.open = FdsBelow(stack)
  BY <1>2, <1>4 DEF ElfOpens
<1>6. QED
  BY <1>1, <1>2, <1>3, <1>5

\* What a call may keep that fails.
ElfWaste(w, n) == w \in {"probs", "image", "table", "data1", "data2"} \/ (w = "new_buf" /\ n > 0)

\* What fail needs.
ElfMayFail(valid, r) ==
  /\ ElfOnly(r, kept)
  /\ Here(valid) \subseteq Mine(r.held, E!F.id) /\ valid \cap Mine(kept, E!F.id) = {} /\ "image" \notin valid
  /\ Mine(kept, E!F.id) \subseteq Mine(r.held, E!F.id)
  /\ \A w \in Mine(r.held, E!F.id) \ Here(valid) : w \in Mine(kept, E!F.id) \/ ElfWaste(w, faults')
  /\ \/ r.open = ElfOpens /\ r.unsure = {}
     \/ E!F.fd # NoFile /\ r.open = FdsBelow(stack) /\ r.unsure = {E!F.fd}

LEMMA ElfFails ==
  ASSUME ElfInv, stack # <<>>, NEW valid, NEW r, E!Fails(valid, r), ElfMayFail(valid, r),
         UNCHANGED <<disk, kept, added>>, ElfFaults
  PROVE  ElfInv'
<1> DEFINE id == E!F.id
           fd == E!F.fd
           refers == Mine(kept, id)
           s == E!Drop(r, valid)
           c == Closed(s, fd)
           failed_ == "fail"
<1>1. E!Returns(0, failed_, c)
  BY ElfResources DEF E!Fails
<1>2. /\ ElfOnly(s, kept) /\ s.open = r.open /\ s.unsure = r.unsure
      /\ Mine(s.held, id) = Mine(r.held, id) \ Here(valid)
  BY ElfDropped DEF ElfMayFail
<1> HIDE DEF s
<1>3. /\ Ledger(c) /\ c.held = s.held
      /\ fd = NoFile => c = s
      /\ fd # NoFile => c.open = s.open \ {fd} /\ c.unsure = s.unsure \ {fd}
  <2>1. fd # NoFile => fd \in s.open \cup s.unsure
    BY <1>2 DEF ElfMayFail, ElfOpens
  <2>2. QED
    BY <1>2, <2>1, ClosedIs DEF ElfOnly
<1>0. failed_ = "fail"
  OBVIOUS
<1> HIDE DEF c, failed_
<1>4. fd \notin FdsBelow(stack) /\ refers \subseteq Mine(res.held, id)
  BY ElfTop DEF ElfFrame, ElfHolds
<1>5. c.unsure = {} /\ c.open = FdsBelow(stack)
  <2>1. \/ r.open = FdsBelow(stack) \cup ({fd} \ {NoFile}) /\ r.unsure = {}
        \/ fd # NoFile /\ r.open = FdsBelow(stack) /\ r.unsure = {fd}
    BY DEF ElfMayFail, ElfOpens
  <2> HIDE DEF fd
  <2>2. CASE fd = NoFile
    BY <1>2, <1>3, <2>1, <2>2
  <2>3. CASE fd # NoFile
    BY <1>2, <1>3, <1>4, <2>1, <2>3
  <2>4. QED
    BY <2>2, <2>3
<1>6. ElfOnly(c, kept)
  BY <1>2, <1>3 DEF ElfOnly
<1> DEFINE none == 0
<1>7. none \in {0, 1} /\ ~(none < 0) /\ E!Returns(none, failed_, c)
  BY <1>1
<1> HIDE DEF none
<1>8. ElfReturn(none, failed_) /\ res' = c
  BY <1>7, ElfReturns
<1>9. ElfFrom(left', id, failed_)
  BY <1>8, ElfLeft DEF ElfReturn
<1>10. ElfDone(id, disk, Mine(c.held, id), refers, left', faults')
  <2>1. Mine(c.held, id) = Mine(r.held, id) \ Here(valid)
    BY <1>2, <1>3
  <2>2. /\ refers \subseteq Mine(r.held, id) /\ valid \cap refers = {} /\ Here(valid) \subseteq valid
        /\ \A w \in Mine(r.held, id) \ Here(valid) : w \in refers \/ ElfWaste(w, faults')
    BY DEF ElfMayFail, Here
  <2>3. refers \subseteq Mine(c.held, id)
    BY <2>1, <2>2
  <2>4. ASSUME NEW w \in Mine(c.held, id) \ refers PROVE ElfWaste(w, faults')
    BY <2>1, <2>2
  <2> HIDE DEF refers
  <2>5. QED
    BY <1>0, <1>9, <2>3, <2>4 DEF ElfDone, ElfWaste
<1>11. res'.open = ElfAfter(none)
  BY <1>5, <1>7, <1>8 DEF ElfAfter
<1>12. E!RightFile'
  BY DEF ElfInv, ElfLedger, E!RightFile, E!FirstBuildId
<1>13. QED
  BY <1>5, <1>6, <1>8, <1>10, <1>11, <1>12, ElfReturned

LEMMA ElfAt ==
  ASSUME ElfInv, NEW place, E!Reading(place)
  PROVE  /\ stack # <<>> /\ E!F.at = place /\ ElfCall(E!F, disk) /\ E!F = [x \in ElfFields |-> E!F[x]]
         /\ ElfHolds(place, E!F.memory, E!F.views, Mine(res.held, E!F.id), Mine(kept, E!F.id), faults)
         /\ ElfUncompresses(place, E!F.i, E!F.views, E!F.debug, E!F.zdebug, disk[E!F.file].near, disk[E!F.file],
                            Mine(res.held, E!F.id))
         /\ ElfKnows(place, E!F.i, E!F.asked, E!F.views, E!F.link, E!F.alt, disk[E!F.file])
         /\ ElfTables_(place, E!F.debug, E!F.zdebug, disk[E!F.file])
         /\ res.open = ElfOpens
         /\ Ledger(res) /\ Pairs(kept) /\ ElfOnly(res, kept) /\ res.unsure = {}
         /\ faults \in Nat
<1>1. stack # <<>> /\ E!F.at = place
  BY DEF E!Reading
<1>2. ElfFrame(E!F, disk, Mine(res.held, E!F.id), Mine(kept, E!F.id), faults) /\ res.open = ElfOpens
  BY <1>1, ElfTop DEF ElfOpens
<1>3. /\ ElfCall(E!F, disk)
      /\ ElfHolds(place, E!F.memory, E!F.views, Mine(res.held, E!F.id), Mine(kept, E!F.id), faults)
      /\ ElfUncompresses(place, E!F.i, E!F.views, E!F.debug, E!F.zdebug, disk[E!F.file].near, disk[E!F.file],
                         Mine(res.held, E!F.id))
  BY <1>1, <1>2 DEF ElfFrame
<1>4. /\ E!F = [x \in ElfFields |-> E!F[x]]
      /\ ElfKnows(place, E!F.i, E!F.asked, E!F.views, E!F.link, E!F.alt, disk[E!F.file])
      /\ ElfTables_(place, E!F.debug, E!F.zdebug, disk[E!F.file])
  BY <1>1, <1>3 DEF ElfCall
<1>5. Ledger(res) /\ Pairs(kept) /\ res.unsure = {} /\ faults \in Nat
  BY DEF ElfInv, ElfLedger
<1>6. ElfOnly(res, kept)
  BY <1>5 DEF ElfOnly
<1>7. QED
  BY <1>1, <1>2, <1>3, <1>4, <1>5, <1>6

LEMMA ElfCount ==
  ASSUME faults \in Nat, NEW fault, E!Count(fault)
  PROVE  ElfFaults /\ (fault # E!None => faults' > 0)
  BY DEF E!Count, ElfFaults

ElfAllViews == {"shdrs", "names", "buildid", "debuglink", "debugaltlink", "gnu_debugdata", "opd",
                "debug", "split1", "split2"}

LEMMA ElfViewsAre ==
  ASSUME NEW place \in ElfPlaces, NEW views_, ElfViews(place, views_)
  PROVE  views_ \subseteq ElfAllViews
  BY DEF ElfPlaces, ElfViews, ElfLate, ElfAllViews

\* fail, where the views of the call are valid and more that was taken is.
LEMMA ElfFailsWith ==
  ASSUME ElfInv, NEW place, E!Reading(place), place \notin ElfAside,
         NEW more, more \cap Mine(kept, E!F.id) = {}, "image" \notin more,
         NEW junk, junk \subseteq {"table"},
         NEW r, ElfOnly(r, kept),
         \/ r.open = ElfOpens /\ r.unsure = {}
         \/ E!F.fd # NoFile /\ r.open = FdsBelow(stack) /\ r.unsure = {E!F.fd},
         Mine(r.held, E!F.id) = (Mine(res.held, E!F.id) \cup Here(more)) \cup junk,
         NEW valid, valid = E!F.views \cup more,
         E!Fails(valid, r), UNCHANGED <<disk, kept, added>>, ElfFaults
  PROVE  ElfInv'
<1> DEFINE id == E!F.id
           held == Mine(res.held, id)
           refers == Mine(kept, id)
           own == E!F.views
<1>1. /\ stack # <<>> /\ ElfCall(E!F, disk) /\ E!F.at = place
      /\ ElfHolds(place, E!F.memory, own, held, refers, faults)
  BY ElfAt
<1>2. place \in ElfPlaces
  BY <1>1 DEF ElfCall
<1>3. own \subseteq ElfAllViews
  BY <1>1, <1>2, ElfViewsAre DEF ElfHolds
<1>4. /\ refers \subseteq held /\ refers \subseteq {"sdata", "symbols", "strtab", "image"}
      /\ ElfOwn(place, E!F.memory, own) \subseteq held
      /\ \A w \in held : w \in ElfOwn(place, E!F.memory, own) \/ w \in refers \/ ElfSpare(place, w, faults)
  BY <1>1 DEF ElfHolds
<1>5. own \cap refers = {} /\ "image" \notin own
  BY <1>3, <1>4 DEF ElfAllViews
<1>6. ElfOwn(place, E!F.memory, own) = Here(own)
  BY DEF ElfOwn, Here, ElfAside
<1>7. \A w : ElfSpare(place, w, faults) => ElfWaste(w, faults')
  BY DEF ElfSpare, ElfWaste, ElfAside, ElfFaults
<1>8. Here(valid) = Here(own) \cup Here(more) /\ Here(more) \subseteq more
  BY DEF Here
<1> HIDE DEF id, held, refers, own
<1>9. Mine(r.held, E!F.id) = (held \cup Here(more)) \cup junk
  BY DEF held, id
<1>10. \A w \in junk : ElfWaste(w, faults')
  BY DEF ElfWaste
<1>11. ElfMayFail(valid, r)
  <2>1. /\ Here(valid) \subseteq Mine(r.held, E!F.id) /\ refers \subseteq Mine(r.held, E!F.id)
        /\ \A w \in Mine(r.held, E!F.id) \ Here(valid) : w \in refers \/ ElfWaste(w, faults')
    BY <1>4, <1>6, <1>7, <1>8, <1>9, <1>10
  <2>2. valid \cap refers = {} /\ "image" \notin valid
    <3>1. more \cap refers = {}
      BY DEF refers, id
    <3>2. valid = own \cup more
      BY DEF own
    <3>3. QED
      BY <1>5, <3>1, <3>2
  <2>3. QED
    BY <2>1, <2>2 DEF ElfMayFail, refers, id
<1>12. QED
  BY <1>1, <1>11, ElfFails

\* The next call is for nothing that is held, and not on the stack.
LEMMA ElfNextId ==
  ASSUME ElfInv
  PROVE  /\ E!NextId = Len(left) + Len(stack) + 1 /\ E!NextId \in Nat \ {0}
         /\ Len(left) \in Nat /\ Len(stack) \in Nat
         /\ Mine(res.held, E!NextId) = {} /\ Mine(kept, E!NextId) = {} /\ ~OnStack(stack, E!NextId)
<1>1. Len(left) \in Nat /\ Len(stack) \in Nat
  BY StackIs DEF ElfInv, ElfStack
<1>2. E!NextId = Len(left) + Len(stack) + 1 /\ E!NextId \in Nat \ {0}
  BY <1>1 DEF E!NextId
<1>3. ~OnStack(stack, E!NextId)
  <2>1. \A j \in 1 .. Len(stack) : stack[j].id <= Len(left) + Len(stack)
    BY DEF ElfInv, ElfStack
  <2>2. QED
    BY <1>1, <1>2, <2>1 DEF OnStack
<1>4. Mine(res.held, E!NextId) = {}
  <2>1. Mine(res.held, E!NextId) # {} => E!NextId <= Len(left) + Len(stack)
    BY DEF ElfInv, ElfRest
  <2>2. QED
    BY <1>1, <1>2, <2>1
<1>5. Mine(kept, E!NextId) \subseteq Mine(res.held, E!NextId)
  BY <1>3 DEF ElfInv, ElfRest, ElfDone
<1>6. QED
  BY <1>1, <1>2, <1>3, <1>4, <1>5

\* The calls below one that is made.
ElfBase(base) ==
  /\ IsStack(base) /\ Len(base) = Len(stack) /\ Distinct(base)
  /\ \A i : OnStack(base, i) <=> OnStack(stack, i)
  /\ \A j \in 1 .. Len(base) :
       /\ ElfFrame(base[j], disk, Mine(res'.held, base[j].id), Mine(kept, base[j].id), faults')
       /\ base[j].id = stack[j].id /\ base[j].fd = stack[j].fd
       /\ base[j].at \in ElfAside
       /\ j > 1 => base[j].fd # Descriptor(0) /\ ~base[j].exe
       /\ base[j].exe => main'.at = "program"
       /\ base[j].memory # 0 => "image" \in Mine(res'.held, base[j].memory)

\* The call that is made.
ElfMade(g) ==
  /\ \A n : ElfFrame(g, disk, {}, {}, n)
  /\ g.id = E!NextId /\ ~g.exe
  /\ Len(stack) > 0 => g.fd # Descriptor(0)
  /\ g.memory # 0 => "image" \in Mine(res'.held, g.memory)

LEMMA ElfPushes ==
  ASSUME ElfInv, NEW base, ElfBase(base), NEW g, stack' = Append(base, g), ElfMade(g),
         UNCHANGED <<disk, kept, added, left>>, ElfFaults,
         Ledger(res'), res'.unsure = {},
         \A i : ~OnStack(stack, i) => Mine(res'.held, i) = Mine(res.held, i),
         ElfMain', main'.at \in {"program", "library"},
         res'.open = Fds(stack) \cup ({g.fd} \ {NoFile})
  PROVE  ElfInv'
<1> DEFINE n == Len(stack)
<1>1. /\ E!NextId = Len(left) + n + 1 /\ E!NextId \in Nat \ {0} /\ Len(left) \in Nat /\ n \in Nat
      /\ Mine(res.held, E!NextId) = {} /\ Mine(kept, E!NextId) = {} /\ ~OnStack(stack, E!NextId)
      /\ IsStack(left)
  BY ElfNextId DEF ElfInv, ElfStack
<1>2. IsStack(base) /\ Len(base) = n /\ Distinct(base) /\ ~OnStack(base, g.id) /\ g.id = E!NextId
  BY <1>1 DEF ElfBase, ElfMade
<1>3. /\ IsStack(stack') /\ stack' # <<>> /\ Len(stack') = n + 1 /\ stack'[n + 1] = g
      /\ \A j \in 1 .. n : stack'[j] = base[j]
  BY <1>2, Pushed
<1>4. Distinct(stack') /\ \A i : OnStack(stack', i) <=> OnStack(base, i) \/ i = g.id
  BY <1>2, PushedIds
<1>5. \A i : OnStack(stack', i) <=> OnStack(stack, i) \/ i = g.id
  BY <1>4 DEF ElfBase
<1>6. ElfLedger'
  <2>1. E!RightFile'
    BY DEF ElfInv, ElfLedger, E!RightFile, E!FirstBuildId
  <2>2. QED
    BY <2>1 DEF ElfInv, ElfLedger, ElfFaults
<1> HIDE DEF n
<1>7. ASSUME NEW j \in 1 .. n
      PROVE  /\ ElfFrame(base[j], disk, Mine(res'.held, base[j].id), Mine(kept, base[j].id), faults')
             /\ base[j].id = stack[j].id /\ base[j].fd = stack[j].fd /\ base[j].at \in ElfAside
             /\ j > 1 => base[j].fd # Descriptor(0) /\ ~base[j].exe
             /\ base[j].exe => main'.at = "program"
             /\ base[j].memory # 0 => "image" \in Mine(res'.held, base[j].memory)
             /\ base[j].id \in Nat /\ base[j].id <= Len(left) + n
  <2>1. /\ ElfFrame(base[j], disk, Mine(res'.held, base[j].id), Mine(kept, base[j].id), faults')
        /\ base[j].id = stack[j].id /\ base[j].fd = stack[j].fd /\ base[j].at \in ElfAside
        /\ j > 1 => base[j].fd # Descriptor(0) /\ ~base[j].exe
        /\ base[j].exe => main'.at = "program"
        /\ base[j].memory # 0 => "image" \in Mine(res'.held, base[j].memory)
    BY <1>2 DEF ElfBase
  <2>2. stack[j].id <= Len(left) + n
    BY DEF ElfInv, ElfStack, n
  <2>3. base[j].id \in Nat
    BY <2>1 DEF ElfFrame, ElfCall
  <2>4. QED
    BY <2>1, <2>2, <2>3
<1>8. ElfStack'
  <2>1. ASSUME NEW j \in 1 .. n + 1
        PROVE  /\ ElfFrame(stack'[j], disk, Mine(res'.held, stack'[j].id), Mine(kept, stack'[j].id), faults')
               /\ stack'[j].id <= Len(left) + (n + 1)
               /\ j < n + 1 => stack'[j].at \in ElfAside
               /\ j > 1 => stack'[j].fd # Descriptor(0) /\ ~stack'[j].exe
               /\ stack'[j].exe => main'.at = "program"
               /\ stack'[j].memory # 0 => "image" \in Mine(res'.held, stack'[j].memory)
    <3>1. CASE j = n + 1
      <4>1. stack'[j] = g /\ ~(j < n + 1) /\ (j > 1 => n > 0)
        BY <1>1, <1>3, <3>1
      <4>2. ~OnStack(stack, g.id) /\ Mine(res.held, g.id) = {} /\ Mine(kept, g.id) = {} /\ g.id <= Len(left) + (n + 1)
        BY <1>1, <1>2
      <4>3. Mine(res'.held, g.id) = {}
        BY <4>2
      <4>4. /\ ElfFrame(g, disk, {}, {}, faults') /\ ~g.exe /\ (n > 0 => g.fd # Descriptor(0))
            /\ g.memory # 0 => "image" \in Mine(res'.held, g.memory)
        BY DEF ElfMade, n
      <4>5. ElfFrame(g, disk, Mine(res'.held, g.id), Mine(kept, g.id), faults')
        BY <4>2, <4>3, <4>4
      <4>6. QED
        BY <4>1, <4>2, <4>4, <4>5
    <3>2. CASE j \in 1 .. n
      <4>1. stack'[j] = base[j] /\ base[j].id <= Len(left) + (n + 1)
        <5>1. stack'[j] = base[j]
          BY <1>3, <3>2
        <5>2. base[j].id \in Nat /\ base[j].id <= Len(left) + n /\ Len(left) \in Nat /\ n \in Nat
          BY <1>1, <1>7, <3>2
        <5>3. QED
          BY ONLY <5>1, <5>2
      <4>2. QED
        BY <1>7, <3>2, <4>1
    <3>3. j = n + 1 \/ j \in 1 .. n
      BY ONLY <1>1, j \in 1 .. n + 1
    <3>4. QED
      BY <3>1, <3>2, <3>3
  <2>2. left' = left /\ kept' = kept /\ disk' = disk
    OBVIOUS
  <2>3. QED
    BY <1>1, <1>3, <1>4, <2>1, <2>2 DEF ElfStack
<1>9. ElfRest'
  <2>1. ElfRest
    BY DEF ElfInv
  <2>2. ASSUME NEW i, ~OnStack(stack', i)
        PROVE  ElfDone(i, disk, Mine(res'.held, i), Mine(kept, i), left, faults')
    <3>1. ~OnStack(stack, i) /\ Mine(res'.held, i) = Mine(res.held, i)
      BY <1>5, <2>2
    <3>2. ElfDone(i, disk, Mine(res.held, i), Mine(kept, i), left, faults)
      BY <2>1, <3>1 DEF ElfRest
    <3>3. (faults > 0 => faults' > 0) /\ Range(left) \subseteq Range(left)
      BY DEF ElfFaults
    <3>4. QED
      BY <3>1, <3>2, <3>3, ElfStays
  <2>3. ASSUME NEW i, Mine(res'.held, i) # {} PROVE i \in Nat /\ i <= Len(left) + (n + 1)
    <3>1. CASE OnStack(stack, i)
      <4>1. PICK j \in 1 .. n : stack[j].id = i
        BY <3>1 DEF OnStack, n
      <4>2. base[j].id = i /\ base[j].id \in Nat /\ base[j].id <= Len(left) + n
        BY <1>7, <4>1
      <4>3. QED
        BY <1>1, <4>2
    <3>2. CASE ~OnStack(stack, i)
      <4>1. i \in Nat /\ i <= Len(left) + n
        BY <2>1, <2>3, <3>2 DEF ElfRest, n
      <4>2. QED
        BY <1>1, <4>1
    <3>3. QED
      BY <3>1, <3>2
  <2>4. left' = left /\ kept' = kept /\ disk' = disk
    OBVIOUS
  <2>5. QED
    BY <1>3, <2>2, <2>3, <2>4 DEF ElfRest
<1>10. res'.open = Fds(stack') \cup ElfMainOpen'
  <2>1. FdsBelow(stack') = Fds(stack)
    <3>1. \A j \in 1 .. n : stack'[j].fd = stack[j].fd
      BY <1>3, <1>7
    <3>2. Len(stack') - 1 = n
      BY <1>1, <1>3
    <3>3. QED
      BY <3>1, <3>2 DEF Fds, FdsBelow, n
  <2>2. Fds(stack') = FdsBelow(stack') \cup ({g.fd} \ {NoFile})
    BY <1>3, FdsLast
  <2>3. ElfMainOpen' = {}
    BY <1>3 DEF ElfMainOpen, ElfMain
  <2>4. QED
    BY <2>1, <2>2, <2>3
<1>11. QED
  BY <1>6, <1>8, <1>9, <1>10 DEF ElfInv

\* The call at work waits for the one that is made.
LEMMA ElfLower ==
  ASSUME ElfInv, stack # <<>>, NEW f, f.id = E!F.id, f.exe = E!F.exe, f.memory = E!F.memory, f.fd = E!F.fd,
         f.at \in ElfAside, UNCHANGED <<disk, main, kept>>, ElfFaults, ElfOnly(res', kept),
         ElfFrame(f, disk, Mine(res'.held, E!F.id), Mine(kept, E!F.id), faults')
  PROVE  ElfBase(WithLast(stack, f))
<1> DEFINE n == Len(stack)
           base == WithLast(stack, f)
<1>1. /\ E!F = stack[n] /\ n \in 1 .. n /\ n \in Nat /\ IsStack(stack) /\ Distinct(stack)
  BY ElfTop DEF ElfInv, ElfStack
<1>2. /\ IsStack(base) /\ Len(base) = n /\ base[n] = f
      /\ \A j \in 1 .. n - 1 : base[j] = stack[j]
  BY <1>1, Replaced
<1>3. Distinct(base) /\ \A i : OnStack(base, i) <=> OnStack(stack, i)
  <2>1. f.id = stack[Len(stack)].id
    BY <1>1
  <2>2. QED
    BY <1>1, <2>1, ReplacedIds
<1> HIDE DEF base
<1>4. \A j \in 1 .. n - 1 : j \in 1 .. n /\ j # n /\ stack[j].id # E!F.id /\ j < n
  BY <1>1 DEF Distinct
<1>5. \A j \in 1 .. n : j = n \/ j \in 1 .. n - 1
  BY <1>1
<1> HIDE DEF n
<1>6. \A i : "image" \in Mine(res.held, i) => "image" \in Mine(res'.held, i)
  BY DEF ElfOnly
<1>7. ASSUME NEW j \in 1 .. n
      PROVE  /\ ElfFrame(base[j], disk, Mine(res'.held, base[j].id), Mine(kept, base[j].id), faults')
             /\ base[j].id = stack[j].id /\ base[j].fd = stack[j].fd
             /\ base[j].at \in ElfAside
             /\ j > 1 => base[j].fd # Descriptor(0) /\ ~base[j].exe
             /\ base[j].exe => main'.at = "program"
             /\ base[j].memory # 0 => "image" \in Mine(res'.held, base[j].memory)
  <2> DEFINE k == stack[j]
  <2>1. /\ ElfFrame(k, disk, Mine(res.held, k.id), Mine(kept, k.id), faults)
        /\ j < n => k.at \in ElfAside
        /\ j > 1 => k.fd # Descriptor(0) /\ ~k.exe
        /\ k.exe => main.at = "program"
        /\ k.memory # 0 => "image" \in Mine(res.held, k.memory)
    BY DEF ElfInv, ElfStack, n
  <2>2. CASE j = n
    <3>1. k = E!F /\ base[j] = f
      BY <1>1, <1>2, <2>2
    <3>2. QED
      BY <1>6, <2>1, <3>1
  <2>3. CASE j \in 1 .. n - 1
    <3>1. k.id # E!F.id /\ base[j] = k /\ k.at \in ElfAside
      BY <1>2, <1>4, <2>1, <2>3
    <3> HIDE DEF k
    <3>2. Mine(res'.held, k.id) = Mine(res.held, k.id) /\ (faults > 0 => faults' > 0)
      BY <3>1 DEF ElfOnly, ElfFaults
    <3>3. ElfFrame(k, disk, Mine(res'.held, k.id), Mine(kept, k.id), faults')
      BY <2>1, <3>1, <3>2, ElfWaits
    <3>4. QED
      BY <1>6, <2>1, <3>1, <3>3 DEF k
  <2>4. QED
    BY <1>5, <2>2, <2>3
<1>8. QED
  BY <1>2, <1>3, <1>7 DEF ElfBase, base, n

\* The file that is read from, and where: one that was opened for it, or the memory of the caller.
ElfSource(fd, memory) ==
  \/ fd = Descriptor(E!NextId) /\ memory = 0
  \/ fd = NoFile /\ memory = E!F.id /\ "image" \in Mine(res'.held, E!F.id)

LEMMA ElfCalls ==
  ASSUME ElfInv, stack # <<>>, NEW f, f.id = E!F.id, f.exe = E!F.exe, f.memory = E!F.memory, f.fd = E!F.fd,
         f.at \in ElfAside, UNCHANGED <<disk, main, kept, added, left>>, ElfFaults, ElfOnly(res', kept),
         res'.unsure = {},
         ElfFrame(f, disk, Mine(res'.held, E!F.id), Mine(kept, E!F.id), faults'),
         NEW path, NEW file_ \in DOMAIN disk, disk[file_].to = <<>>, NEW fd, NEW memory, ElfSource(fd, memory),
         NEW no, no = FALSE, NEW debuginfo, NEW asked_, asked_.crc # 0 => disk[file_].crc = asked_.crc,
         stack' = Append(WithLast(stack, f), E!Call(E!NextId, path, file_, fd, memory, no, debuginfo, asked_)),
         res'.open = ElfOpens \cup ({fd} \ {NoFile})
  PROVE  ElfInv'
<1> DEFINE base == WithLast(stack, f)
           g == E!Call(E!NextId, path, file_, fd, memory, no, debuginfo, asked_)
           id == E!NextId
<1>1. ElfBase(base)
  BY ElfLower
<1>2. id \in Nat \ {0} /\ ~OnStack(stack, id) /\ Len(stack) > 0
  BY ElfNextId, ElfTop
<1>3. OnStack(stack, E!F.id) /\ main.at \in {"program", "library"} /\ stack # <<>>
  BY ElfTop
<1>4. E!F.id # id
  BY <1>2, <1>3
<1>5. fd \in {NoFile, Descriptor(id)} /\ memory # id /\ (memory # 0 => "image" \in Mine(res'.held, memory))
  BY <1>2, <1>4 DEF ElfSource
<1>6. ElfCallable(id, file_, fd, memory, no, asked_)
  BY <1>2, <1>5 DEF ElfCallable
<1>7. /\ \A n : ElfFrame(g, disk, {}, {}, n)
      /\ g.id = id /\ g.fd = fd /\ g.memory = memory /\ g.exe = no
  <2> HIDE DEF id
  <2>1. LET k == E!Call(id, path, file_, fd, memory, no, debuginfo, asked_)
        IN  /\ \A n : ElfFrame(k, disk, {}, {}, n)
            /\ k.id = id /\ k.fd = fd /\ k.memory = memory /\ k.exe = no /\ k.at = "header"
    BY <1>6, ElfCalled
  <2>2. QED
    BY <2>1 DEF id
<1> HIDE DEF g, base, id
<1>8. ElfMade(g)
  <2>1. fd # Descriptor(0)
    BY <1>2, <1>5, DescriptorIs
  <2>2. QED
    BY <1>5, <1>7, <2>1 DEF ElfMade, id
<1>9. Ledger(res') /\ \A i : ~OnStack(stack, i) => Mine(res'.held, i) = Mine(res.held, i)
  BY <1>3 DEF ElfOnly
<1>10. stack' = Append(base, g)
  BY DEF base, g, id
<1>11. ElfMain' /\ main'.at \in {"program", "library"}
  <2>1. ElfMain /\ disk' = disk /\ main' = main
    BY DEF ElfInv
  <2>2. E!Exists(E!Resolved(main.exe))' <=> E!Exists(E!Resolved(main.exe))
    BY <2>1 DEF E!Exists, E!Resolved
  <2>3. QED
    BY <1>3, <2>1, <2>2 DEF ElfMain
<1>12. res'.open = Fds(stack) \cup ({g.fd} \ {NoFile})
  <2>1. Fds(stack) = ElfOpens
    BY ElfTop, FdsLast DEF ElfOpens, ElfInv, ElfStack
  <2>2. QED
    BY <1>7, <2>1
<1>13. QED
  BY <1>1, <1>8, <1>9, <1>10, <1>11, <1>12, ElfPushes

\* The frame g is f at another place.
ElfLike(g, f, place, k, fd, views_, debug) ==
  /\ g = [x \in ElfFields |-> g[x]]
  /\ g.at = place /\ g.i = k /\ g.fd = fd /\ g.views = views_ /\ g.debug = debug
  /\ g.id = f.id /\ g.file = f.file /\ g.memory = f.memory /\ g.exe = f.exe /\ g.asked = f.asked
  /\ g.zdebug = f.zdebug /\ g.link = f.link /\ g.alt = f.alt /\ g.ret = f.ret

LEMMA ElfLikeCall ==
  ASSUME NEW d, NEW f, ElfCall(f, d), NEW g, NEW place \in ElfPlaces, NEW k \in Nat \ {0}, NEW fd \in {f.fd, NoFile},
         NEW views_, NEW debug, ElfLike(g, f, place, k, fd, views_, debug), place # "header",
         place \in ElfLate => fd = NoFile,
         ElfKnows(place, k, f.asked, views_, f.link, f.alt, d[f.file]),
         ElfTables_(place, debug, f.zdebug, d[f.file])
  PROVE  ElfCall(g, d)
<1>1. /\ g = [x \in ElfFields |-> g[x]]
      /\ g.at = place /\ g.i = k /\ g.fd = fd /\ g.views = views_ /\ g.debug = debug
      /\ g.id = f.id /\ g.file = f.file /\ g.memory = f.memory /\ g.exe = f.exe /\ g.asked = f.asked
      /\ g.zdebug = f.zdebug /\ g.link = f.link /\ g.alt = f.alt /\ g.ret = f.ret
  BY DEF ElfLike
<1>2. /\ f.id \in Nat \ {0} /\ f.ret \in {0, 1}
      /\ f.file \in DOMAIN d /\ d[f.file].to = <<>> /\ f.memory # f.id
      /\ f.fd \in {NoFile, Descriptor(f.id), Descriptor(0)}
      /\ f.exe \in BOOLEAN
  BY DEF ElfCall
<1>3. g.fd \in {NoFile, Descriptor(g.id), Descriptor(0)}
  BY <1>1, <1>2
<1>4. /\ ElfKnows(g.at, g.i, g.asked, g.views, g.link, g.alt, d[g.file])
      /\ ElfTables_(g.at, g.debug, g.zdebug, d[g.file])
  BY <1>1
<1>5. /\ g.at \in ElfPlaces /\ g.id \in Nat \ {0} /\ g.i \in Nat \ {0} /\ g.ret \in {0, 1}
      /\ g.file \in DOMAIN d /\ d[g.file].to = <<>> /\ g.memory # g.id
      /\ g.exe \in BOOLEAN /\ ~(g.exe /\ g.at = "header") /\ (g.at \in ElfLate => g.fd = NoFile)
      /\ g = [x \in ElfFields |-> g[x]]
  BY <1>1, <1>2
<1>6. QED
  BY ONLY <1>3, <1>4, <1>5 DEF ElfCall

LEMMA ElfAdvance ==
  ASSUME ElfInv, stack # <<>>, NEW g, E!Goes(g), NEW place \in ElfPlaces, NEW k \in Nat \ {0},
         NEW fd \in {E!F.fd, NoFile}, NEW views_, NEW debug,
         ElfLike(g, E!F, place, k, fd, views_, debug), place # "header", place \in ElfLate => fd = NoFile,
         ElfKnows(place, k, E!F.asked, views_, E!F.link, E!F.alt, disk[E!F.file]),
         ElfTables_(place, debug, E!F.zdebug, disk[E!F.file]),
         ElfHolds(place, E!F.memory, views_, Mine(res'.held, E!F.id), Mine(kept', E!F.id), faults'),
         ElfUncompresses(place, k, views_, debug, E!F.zdebug, disk[E!F.file].near, disk[E!F.file],
                         Mine(res'.held, E!F.id)),
         UNCHANGED <<disk, main, added, left>>, ElfFaults, res'.unsure = {},
         ElfOnly(res', kept'), res'.open = FdsBelow(stack) \cup ({fd} \ {NoFile})
  PROVE  ElfInv'
<1>1. ElfCall(E!F, disk)
  BY ElfTop DEF ElfFrame
<1>2. ElfCall(g, disk)
  BY <1>1, ElfLikeCall
<1>3. /\ g.at = place /\ g.i = k /\ g.fd = fd /\ g.views = views_ /\ g.debug = debug
      /\ g.id = E!F.id /\ g.file = E!F.file /\ g.memory = E!F.memory /\ g.exe = E!F.exe
      /\ g.zdebug = E!F.zdebug
  BY DEF ElfLike
<1>4. ElfFrame(g, disk, Mine(res'.held, E!F.id), Mine(kept', E!F.id), faults')
  BY <1>2, <1>3 DEF ElfFrame
<1>5. res'.open = FdsBelow(stack) \cup ({g.fd} \ {NoFile}) /\ g.fd \in {E!F.fd, NoFile}
  BY <1>3
<1>6. QED
  BY <1>3, <1>4, <1>5, ElfGoes

\* Before the debug sections are read.
LEMMA ElfOn ==
  ASSUME ElfInv, NEW p, E!Reading(p), p \notin ElfLate, NEW place \in ElfPlaces, place \notin ElfLate,
         place # "header", NEW k \in Nat \ {0}, NEW views_,
         NEW g, E!Goes(g), ElfLike(g, E!F, place, k, E!F.fd, views_, E!F.debug),
         ElfKnows(place, k, E!F.asked, views_, E!F.link, E!F.alt, disk[E!F.file]),
         ElfHolds(place, E!F.memory, views_, Mine(res'.held, E!F.id), Mine(kept', E!F.id), faults'),
         UNCHANGED <<disk, main, added, left>>, ElfFaults, res'.unsure = {},
         ElfOnly(res', kept'), res'.open = ElfOpens
  PROVE  ElfInv'
<1>1. ElfTables_(p, E!F.debug, E!F.zdebug, disk[E!F.file]) /\ stack # <<>>
  BY ElfAt
<1>2. ElfTables_(place, E!F.debug, E!F.zdebug, disk[E!F.file])
  BY <1>1 DEF ElfTables_
<1>3. \A f, held : ElfUncompresses(place, k, views_, E!F.debug, E!F.zdebug, f.near, f, held)
  BY DEF ElfUncompresses
<1> DEFINE fd == E!F.fd
           debug == E!F.debug
<1>4. fd \in {E!F.fd, NoFile} /\ res'.open = FdsBelow(stack) \cup ({fd} \ {NoFile})
  BY DEF ElfOpens
<1>5. /\ ElfLike(g, E!F, place, k, fd, views_, debug)
      /\ ElfTables_(place, debug, E!F.zdebug, disk[E!F.file])
      /\ ElfUncompresses(place, k, views_, debug, E!F.zdebug, disk[E!F.file].near, disk[E!F.file],
                         Mine(res'.held, E!F.id))
  BY <1>2, <1>3
<1> HIDE DEF fd, debug
<1>6. QED
  BY <1>1, <1>4, <1>5, ElfAdvance

\* What a set is when some things have left it and others are in it.
ElfSwapped(new, old, less, plus) == \A w : w \in new <=> (w \in old /\ w \notin less) \/ w \in plus

ElfGains(more, extra) == Here(more) \cup extra

ElfSpares(place, extra, m) == \A w \in extra : ElfSpare(place, w, m)

\* A call goes from a place to another, with n and m faults.
ElfPasses(p, place, refers, gone, n, m) ==
  /\ p # "instead" /\ place # "instead" /\ p \notin ElfLate /\ (place \notin ElfEarly \/ refers = {})
  /\ gone \cap refers = {} /\ (n > 0 => m > 0)

\* What is held at another place, where views in gone are given back and those in more are got.
LEMMA ElfHoldsOn ==
  ASSUME NEW p, NEW views_, NEW held, NEW refers, NEW n, ElfHolds(p, E!F.memory, views_, held, refers, n),
         NEW place, NEW gone, NEW m, ElfPasses(p, place, refers, gone, n, m),
         NEW extra, ElfSpares(place, extra, m),
         NEW vs, ElfViews(place, vs), NEW more, ElfSwapped(vs, views_, gone, more),
         NEW left_, ElfSwapped(left_, held, Here(gone), ElfGains(more, extra))
  PROVE  ElfHolds(place, E!F.memory, vs, left_, refers, m)
<1>1. /\ refers \subseteq held /\ refers \subseteq {"sdata", "symbols", "strtab", "image"}
      /\ ElfOwn(p, E!F.memory, views_) \subseteq held
      /\ \A w \in held : w \in ElfOwn(p, E!F.memory, views_) \/ w \in refers \/ ElfSpare(p, w, n)
  BY DEF ElfHolds
<1>2. \A w : ElfSpare(p, w, n) => ElfSpare(place, w, m)
  BY DEF ElfSpare, ElfPasses
<1>3. /\ \A w : w \in vs <=> (w \in views_ /\ w \notin gone) \/ w \in more
      /\ \A w : w \in left_ <=> (w \in held /\ w \notin Here(gone)) \/ w \in Here(more) \/ w \in extra
      /\ \A w \in extra : ElfSpare(place, w, m)
      /\ gone \cap refers = {} /\ (place \in ElfEarly => refers = {})
  BY DEF ElfSwapped, ElfGains, ElfPasses, ElfSpares
<1>4. refers \subseteq left_
  BY <1>1, <1>3 DEF Here
<1>5. CASE E!F.memory = 0
  <2>1. /\ ElfOwn(p, E!F.memory, views_) = views_ /\ ElfOwn(place, E!F.memory, vs) = vs
        /\ Here(gone) = gone /\ Here(more) = more
    BY <1>5 DEF ElfOwn, Here, ElfPasses
  <2>2. QED
    BY <1>1, <1>2, <1>3, <1>4, <2>1 DEF ElfHolds
<1>6. CASE E!F.memory # 0
  <2>1. /\ ElfOwn(p, E!F.memory, views_) = {} /\ ElfOwn(place, E!F.memory, vs) = {}
        /\ Here(gone) = {} /\ Here(more) = {}
    BY <1>6 DEF ElfOwn, Here
  <2>2. QED
    BY <1>1, <1>2, <1>3, <1>4, <2>1 DEF ElfHolds
<1>7. QED
  BY <1>5, <1>6

LEMMA ElfHeader == ElfInv /\ E!Header => ElfInv'
<1> SUFFICES ASSUME ElfInv, E!Header PROVE ElfInv'
  OBVIOUS
<1> DEFINE p == "header"
           scan == "scan"
           dyn == "dyn"
           one == {"shdrs"}
           both == {"shdrs", "names"}
           none == {}
           down == -1
           id == E!F.id
           held == Mine(res.held, id)
           refers == Mine(kept, id)
           s == E!Get(res, one)
           t == E!Get(res, both)
           g == [E!F EXCEPT !.at = scan, !.views = both]
<1>1. E!Reading(p) /\ UNCHANGED <<disk, kept, added>>
  BY DEF E!Header
<1>2. PICK fault : /\ E!Count(fault)
                   /\ \/ E!Fails(none, res)
                      \/ E!F.exe /\ E!Returns(down, dyn, res)
                      \/ E!Fails(one, s)
                      \/ E!Goes(g) /\ res' = t /\ UNCHANGED <<main, left>>
  BY DEF E!Header
<1>3. /\ p = "header" /\ scan = "scan" /\ one = {"shdrs"} /\ both = {"shdrs", "names"} /\ none = {} /\ down = -1
      /\ p \notin ElfAside /\ p \notin ElfLate /\ p \in ElfEarly
      /\ scan \in ElfPlaces /\ scan \notin ElfLate /\ scan # "header" /\ scan # "instead" /\ p # "instead"
  BY DEF ElfAside, ElfLate, ElfPlaces, ElfEarly
<1> HIDE DEF p, scan, dyn, one, both, none, down, held, refers, s, t, g
<1>4. /\ stack # <<>> /\ E!F.at = p /\ ElfCall(E!F, disk) /\ E!F = [x \in ElfFields |-> E!F[x]]
      /\ ElfHolds(p, E!F.memory, E!F.views, held, refers, faults)
      /\ ElfKnows(p, E!F.i, E!F.asked, E!F.views, E!F.link, E!F.alt, disk[E!F.file])
      /\ res.open = ElfOpens
      /\ ElfOnly(res, kept) /\ res.unsure = {}
      /\ faults \in Nat
  BY <1>1, ElfAt DEF held, refers
<1>5. ElfFaults /\ res.unsure = {}
  BY <1>2, <1>4, ElfCount DEF ElfFaults
<1>6. /\ refers = {} /\ E!F.views = {}
      /\ \A w \in held : ElfSpare(p, w, faults)
      /\ E!F.i = 1 /\ E!F.link.is = E!None /\ E!F.alt.is = E!None
  BY <1>3, <1>4 DEF ElfHolds, ElfViews, ElfOwn, ElfKnows
<1>7. CASE E!Fails(none, res)
  <2>1. none \cap Mine(kept, E!F.id) = {} /\ "image" \notin none /\ none \subseteq {"table"}
    BY <1>3
  <2>2. Mine(res.held, E!F.id) = (Mine(res.held, E!F.id) \cup Here(none)) \cup none /\ none = E!F.views \cup none
    BY <1>3, <1>6 DEF Here
  <2>3. QED
    BY <1>1, <1>3, <1>4, <1>5, <1>7, <2>1, <2>2, ElfFailsWith
<1>8. CASE E!Fails(one, s)
  <2>1. one \cap Mine(kept, E!F.id) = {} /\ "image" \notin one /\ none \subseteq {"table"}
    BY <1>3, <1>6 DEF refers
  <2>2. /\ ElfOnly(s, kept) /\ s.open = res.open /\ s.unsure = res.unsure
        /\ Mine(s.held, E!F.id) = Mine(res.held, E!F.id) \cup Here(one)
    BY <1>4, ElfGot DEF s
  <2>3. Mine(s.held, E!F.id) = (Mine(res.held, E!F.id) \cup Here(one)) \cup none /\ one = E!F.views \cup one
    BY <1>3, <1>6, <2>2
  <2>4. s.unsure = {} /\ s.open = ElfOpens
    BY <1>4, <1>5, <2>2
  <2>5. QED
    BY <1>1, <1>3, <1>5, <1>8, <2>1, <2>2, <2>3, <2>4, ElfFailsWith
<1>9. CASE E!F.exe /\ E!Returns(down, dyn, res)
  <2>1. ElfReturn(down, dyn) /\ res' = res
    BY <1>3, <1>4, <1>9, ElfReturns
  <2>2. ElfDone(id, disk, held, refers, left', faults')
    BY <1>3, <1>5, <1>6 DEF ElfDone, ElfSpare, ElfLate, ElfFaults
  <2>3. res'.open = ElfAfter(down)
    <3>1. E!F.fd = Descriptor(0)
      BY <1>3, <1>4, <1>9 DEF ElfCall
    <3>2. Descriptor(0) # NoFile /\ down < 0
      BY <1>3, DescriptorIs
    <3>3. QED
      BY <1>4, <2>1, <3>1, <3>2 DEF ElfAfter, ElfOpens
  <2>4. E!RightFile'
    BY <1>1 DEF ElfInv, ElfLedger, E!RightFile, E!FirstBuildId
  <2>5. ElfDone(E!F.id, disk, Mine(res'.held, E!F.id), Mine(kept', E!F.id), left', faults') /\ ElfOnly(res', kept')
    BY <1>1, <1>4, <2>1, <2>2 DEF held, refers
  <2>6. QED
    BY <1>1, <1>4, <1>5, <2>1, <2>3, <2>4, <2>5, ElfReturned
<1>10. CASE E!Goes(g) /\ res' = t /\ UNCHANGED <<main, left>>
  <2> DEFINE k == E!F.i
  <2>1. /\ ElfOnly(t, kept) /\ t.open = res.open /\ t.unsure = res.unsure
        /\ Mine(t.held, E!F.id) = Mine(res.held, E!F.id) \cup Here(both)
    BY <1>4, ElfGot DEF t
  <2>2. ElfLike(g, E!F, scan, k, E!F.fd, both, E!F.debug)
    BY <1>4 DEF g, ElfLike, ElfFields
  <2>3. k \in Nat \ {0} /\ E!Goes(g)
    BY <1>6, <1>10
  <2>4. ElfKnows(scan, k, E!F.asked, both, E!F.link, E!F.alt, disk[E!F.file])
    <3>1. /\ E!F.asked.crc # 0 => disk[E!F.file].crc = E!F.asked.crc
      BY <1>4 DEF ElfKnows
    <3>2. /\ "gnu_debugdata" \notin both /\ "buildid" \notin both /\ scan # "header"
          /\ \A j \in DOMAIN disk[E!F.file].sections : ~(j < k)
      <4>1. \A j \in DOMAIN disk[E!F.file].sections : j \in Nat \ {0}
        <5>1. disk[E!F.file].sections \in Seq(Range(disk[E!F.file].sections))
          BY <1>4 DEF ElfCall, ElfInv, ElfLedger, ElfFile
        <5>2. QED
          BY <5>1
      <4>2. QED
        BY <1>3, <1>6, <4>1
    <3>3. QED
      BY <1>3, <1>6, <3>1, <3>2 DEF ElfKnows
  <2>5. ElfHolds(scan, E!F.memory, both, Mine(t.held, E!F.id), refers, faults')
    <3>1. \A w \in held : ElfSpare(scan, w, faults')
      BY <1>3, <1>5, <1>6 DEF ElfSpare, ElfLate, ElfFaults
    <3>2. ElfViews(scan, both)
      BY <1>3 DEF ElfViews, ElfLate
    <3>3. ElfOwn(scan, E!F.memory, both) = Here(both)
      BY <1>3 DEF ElfOwn, Here
    <3>4. QED
      BY <1>6, <2>1, <3>1, <3>2, <3>3 DEF ElfHolds, held
  <2> HIDE DEF k
  <2>6. /\ ElfHolds(scan, E!F.memory, both, Mine(res'.held, E!F.id), Mine(kept', E!F.id), faults')
        /\ ElfOnly(res', kept') /\ res'.open = ElfOpens /\ res'.unsure = {}
    BY <1>1, <1>4, <1>5, <1>10, <2>1, <2>5 DEF refers
  <2>7. QED
    BY <1>1, <1>3, <1>5, <1>10, <2>2, <2>3, <2>4, <2>6, ElfOn
<1>11. QED
  BY <1>2, <1>7, <1>8, <1>9, <1>10

ElfFive == {"buildid", "debuglink", "debugaltlink", "gnu_debugdata", "opd"}

LEMMA ElfWanted ==
  ASSUME NEW s
  PROVE  /\ E!Wanted(s) => s.is \in ElfFive
         /\ s.is = "buildid" /\ E!F.asked.id # E!None /\ "buildid" \notin E!F.views => E!Wanted(s)
  BY DEF E!Wanted, ElfFive

\* What the frame is when a section was looked at.
ElfNotes(g, f, s, v) ==
  /\ g = [x \in ElfFields |-> g[x]]
  /\ g.i = f.i + 1 /\ g.views = f.views \cup v
  /\ g.at = f.at /\ g.fd = f.fd /\ g.id = f.id /\ g.file = f.file /\ g.memory = f.memory /\ g.exe = f.exe
  /\ g.asked = f.asked /\ g.ret = f.ret
  /\ g.link = f.link \/ "debuglink" \in v
  /\ g.alt = f.alt \/ "debugaltlink" \in v
  /\ g.debug = f.debug \/ (s.is = "debug" /\ g.debug = E!With(f.debug, s))
  /\ g.zdebug = f.zdebug \/ (s.is = "zdebug" /\ g.zdebug = E!With(f.zdebug, s))

\* Something of it is remembered.
ElfNote(h, f, s) ==
  \/ h = f
  \/ \E x : h = [f EXCEPT !.sym = x]
  \/ \E x : h = [f EXCEPT !.buildid = x]
  \/ s.is = "debug" /\ h = [f EXCEPT !.debug = E!With(f.debug, s)]
  \/ s.is = "zdebug" /\ h = [f EXCEPT !.zdebug = E!With(f.zdebug, s)]
  \/ s.is = "debuglink" /\ h = [f EXCEPT !.link = s]
  \/ s.is = "debugaltlink" /\ h = [f EXCEPT !.alt = s]

LEMMA ElfNoteIs == ASSUME NEW s PROVE ElfNote(E!Noted(s), E!F, s)
<1> DEFINE x == IF s.is = "symtab" \/ E!F.sym.is = E!None \/ E!F.sym.is = "dynsym" THEN s ELSE E!F.sym
           y == IF s.gnu THEN s.id ELSE E!None
           kind == s.is
           A == [E!F EXCEPT !.sym = x]
           B == [E!F EXCEPT !.debug = E!With(E!F.debug, s)]
           C == [E!F EXCEPT !.zdebug = E!With(E!F.zdebug, s)]
           G == [E!F EXCEPT !.buildid = y]
           H == [E!F EXCEPT !.link = s]
           I == [E!F EXCEPT !.alt = s]
<1>1. E!Noted(s) = CASE kind \in {"symtab", "dynsym"} -> A
                     [] kind = "debug" -> B
                     [] kind = "zdebug" -> C
                     [] kind = "buildid" -> G
                     [] kind = "debuglink" -> H
                     [] kind = "debugaltlink" -> I
                     [] OTHER -> E!F
  BY DEF E!Noted
<1> HIDE DEF A, B, C, G, H, I
<1>2. \/ E!Noted(s) = E!F \/ E!Noted(s) = A \/ E!Noted(s) = G
      \/ kind = "debug" /\ E!Noted(s) = B
      \/ kind = "zdebug" /\ E!Noted(s) = C
      \/ kind = "debuglink" /\ E!Noted(s) = H
      \/ kind = "debugaltlink" /\ E!Noted(s) = I
  BY ONLY <1>1
<1>3. QED
  BY <1>2 DEF ElfNote, A, B, C, G, H, I

LEMMA ElfNoting ==
  ASSUME NEW f, f = [x \in ElfFields |-> f[x]], NEW s, NEW v, NEW h, ElfNote(h, f, s),
         h # f => v = {s.is} \/ s.is \notin ElfFive
  PROVE  ElfNotes([h EXCEPT !.i = @ + 1, !.views = @ \cup v], f, s, v)
<1> DEFINE g == [h EXCEPT !.i = @ + 1, !.views = @ \cup v]
<1>1. CASE h = f
  BY <1>1 DEF ElfNotes, ElfFields
<1>2. ASSUME NEW x, h = [f EXCEPT !.sym = x] PROVE ElfNotes(g, f, s, v)
  BY <1>2 DEF ElfNotes, ElfFields
<1>3. ASSUME NEW x, h = [f EXCEPT !.buildid = x] PROVE ElfNotes(g, f, s, v)
  BY <1>3 DEF ElfNotes, ElfFields
<1>4. CASE s.is = "debug" /\ h = [f EXCEPT !.debug = E!With(f.debug, s)]
  <2> DEFINE t == E!With(f.debug, s)
  <2> HIDE DEF t
  <2>1. h = [f EXCEPT !.debug = t]
    BY <1>4 DEF t
  <2>2. g.debug = t /\ g.zdebug = f.zdebug
    BY <2>1 DEF ElfFields
  <2>3. /\ g = [x \in ElfFields |-> g[x]]
        /\ g.i = f.i + 1 /\ g.views = f.views \cup v
        /\ g.at = f.at /\ g.fd = f.fd /\ g.id = f.id /\ g.file = f.file /\ g.memory = f.memory /\ g.exe = f.exe
        /\ g.asked = f.asked /\ g.ret = f.ret /\ g.link = f.link /\ g.alt = f.alt
    BY <2>1 DEF ElfFields
  <2> HIDE DEF g
  <2>4. ElfNotes(g, f, s, v)
    BY <1>4, <2>2, <2>3 DEF ElfNotes, t
  <2>5. QED
    BY <2>4 DEF g
<1>5. CASE s.is = "zdebug" /\ h = [f EXCEPT !.zdebug = E!With(f.zdebug, s)]
  <2> DEFINE t == E!With(f.zdebug, s)
  <2> HIDE DEF t
  <2>1. h = [f EXCEPT !.zdebug = t]
    BY <1>5 DEF t
  <2>2. g.zdebug = t /\ g.debug = f.debug
    BY <2>1 DEF ElfFields
  <2>3. /\ g = [x \in ElfFields |-> g[x]]
        /\ g.i = f.i + 1 /\ g.views = f.views \cup v
        /\ g.at = f.at /\ g.fd = f.fd /\ g.id = f.id /\ g.file = f.file /\ g.memory = f.memory /\ g.exe = f.exe
        /\ g.asked = f.asked /\ g.ret = f.ret /\ g.link = f.link /\ g.alt = f.alt
    BY <2>1 DEF ElfFields
  <2> HIDE DEF g
  <2>4. ElfNotes(g, f, s, v)
    BY <1>5, <2>2, <2>3 DEF ElfNotes, t
  <2>5. QED
    BY <2>4 DEF g
<1>6. CASE s.is = "debuglink" /\ h = [f EXCEPT !.link = s] /\ h # f
  <2>1. v = {"debuglink"}
    BY <1>6 DEF ElfFive
  <2>2. QED
    BY <1>6, <2>1 DEF ElfNotes, ElfFields
<1>7. CASE s.is = "debugaltlink" /\ h = [f EXCEPT !.alt = s] /\ h # f
  <2>1. v = {"debugaltlink"}
    BY <1>7 DEF ElfFive
  <2>2. QED
    BY <1>7, <2>1 DEF ElfNotes, ElfFields
<1>8. QED
  BY <1>1, <1>2, <1>3, <1>4, <1>5, <1>6, <1>7 DEF ElfNote

LEMMA ElfWith ==
  ASSUME NEW table, NEW some, NEW f, ElfTable(table, some, f), NEW s, s = [x \in {"is", "n", "as"} |-> s[x]],
         s.n \in 1 .. 2, s.as \in some, s.as = "corrupt" => ElfCorrupt(f, s.n)
  PROVE  ElfTable(E!With(table, s), some, f)
<1> DEFINE t == E!With(table, s)
<1>1. DOMAIN t = DOMAIN table \cup {s.n} /\ \A n \in DOMAIN t : t[n] = IF n = s.n THEN s ELSE table[n]
  BY DEF E!With
<1> HIDE DEF t
<1>2. ASSUME NEW n \in DOMAIN t
      PROVE  /\ n \in 1 .. 2 /\ t[n] = [x \in {"is", "n", "as"} |-> t[n][x]] /\ t[n].n = n
             /\ t[n].as \in some /\ (t[n].as = "corrupt" => ElfCorrupt(f, n))
  <2>1. CASE n = s.n
    <3>1. t[n] = s
      BY <1>1, <2>1
    <3>2. QED
      BY <2>1, <3>1
  <2>2. CASE n # s.n
    <3>1. n \in DOMAIN table /\ t[n] = table[n]
      BY <1>1, <2>2
    <3>2. QED
      BY <3>1 DEF ElfTable
  <2>3. QED
    BY <2>1, <2>2
<1>3. QED
  BY <1>2 DEF ElfTable, t

\* A debug section of the file goes into a table.
LEMMA ElfWithSection ==
  ASSUME NEW d, NEW f, ElfFile(d, f), NEW j \in DOMAIN f.sections, f.sections[j].is \in {"debug", "zdebug"},
         NEW table, NEW some, ElfTable(table, some, f), ElfPacked \subseteq some,
         f.sections[j].is = "debug" => "plain" \in some
  PROVE  ElfTable(E!With(table, f.sections[j]), some, f)
<1> DEFINE s == f.sections[j]
<1>1. ElfSection(s)
  BY DEF ElfFile
<1>2. /\ s = [is |-> s.is, n |-> s.n, as |-> s.as] /\ s.n \in 1 .. 2
      /\ s.as \in {"zlib", "header", "corrupt"} \cup (IF s.is = "debug" THEN {"plain"} ELSE {})
  BY <1>1 DEF ElfSection
<1>3. s.as = "corrupt" => ElfCorrupt(f, s.n)
  BY DEF ElfCorrupt
<1>4. s.as \in some
  BY <1>2 DEF ElfPacked
<1> HIDE DEF s
<1>5. s = [x \in {"is", "n", "as"} |-> s[x]]
  <2> DEFINE a == s.is
             b == s.n
             c == s.as
             r == [is |-> a, n |-> b, as |-> c]
  <2> HIDE DEF a, b, c
  <2>1. r = [x \in {"is", "n", "as"} |-> r[x]]
    OBVIOUS
  <2>2. s = r
    BY <1>2 DEF a, b, c
  <2>3. QED
    BY <2>1, <2>2
<1>6. QED
  BY <1>2, <1>3, <1>4, <1>5, ElfWith DEF s

\* A turn of the loop that goes on: what the call knows then.
LEMMA ElfTurns ==
  ASSUME NEW d, NEW f, ElfCall(f, d), f.at = "scan", ElfFile(d, d[f.file]), f.i \in DOMAIN d[f.file].sections,
         NEW v, v \subseteq ElfFive, NEW g, ElfNotes(g, f, d[f.file].sections[f.i], v),
         v # {} => v = {d[f.file].sections[f.i].is},
         ElfMatches(d[f.file].sections, f.i, f.asked)
  PROVE  ElfCall(g, d)
<1> DEFINE file_ == d[f.file]
           sections == file_.sections
           s == sections[f.i]
           k == f.i + 1
<1>1. /\ f.i \in Nat \ {0} /\ f.id \in Nat \ {0} /\ f.ret \in {0, 1}
      /\ f.file \in DOMAIN d /\ d[f.file].to = <<>> /\ f.memory # f.id
      /\ f.fd \in {NoFile, Descriptor(f.id), Descriptor(0)}
      /\ f.exe \in BOOLEAN
      /\ ElfKnows(f.at, f.i, f.asked, f.views, f.link, f.alt, d[f.file])
      /\ ElfTables_(f.at, f.debug, f.zdebug, d[f.file])
  BY DEF ElfCall
<1>2. /\ g = [x \in ElfFields |-> g[x]]
      /\ g.i = k /\ g.views = f.views \cup v
      /\ g.at = f.at /\ g.fd = f.fd /\ g.id = f.id /\ g.file = f.file /\ g.memory = f.memory /\ g.exe = f.exe
      /\ g.asked = f.asked /\ g.ret = f.ret
      /\ g.link = f.link \/ "debuglink" \in v
      /\ g.alt = f.alt \/ "debugaltlink" \in v
      /\ g.debug = f.debug \/ (s.is = "debug" /\ g.debug = E!With(f.debug, s))
      /\ g.zdebug = f.zdebug \/ (s.is = "zdebug" /\ g.zdebug = E!With(f.zdebug, s))
  BY DEF ElfNotes
<1>3. sections \in Seq(Range(sections))
  BY DEF ElfFile
<1>0. v # {} => v = {s.is}
  OBVIOUS
<1>4. DOMAIN sections = 1 .. Len(sections) /\ Len(sections) \in Nat
  BY <1>3
<1>5. ElfKnows(g.at, g.i, g.asked, g.views, g.link, g.alt, file_)
  <2>1. /\ f.asked.crc # 0 => file_.crc = f.asked.crc
        /\ "gnu_debugdata" \in f.views => \E j \in DOMAIN sections : sections[j].is = "gnu_debugdata"
        /\ "buildid" \in f.views => ElfHas(sections, "buildid", f.i)
        /\ \A j \in DOMAIN sections : j < f.i => ElfMatches(sections, j, f.asked)
        /\ f.link.is # E!None => "debuglink" \in f.views
        /\ f.alt.is # E!None => "debugaltlink" \in f.views
    BY <1>1 DEF ElfKnows
  <2>2. "gnu_debugdata" \in g.views => \E j \in DOMAIN sections : sections[j].is = "gnu_debugdata"
    <3>1. "gnu_debugdata" \in v => s.is = "gnu_debugdata"
      BY ONLY <1>0
    <3>2. f.i \in DOMAIN sections /\ g.views = f.views \cup v
      BY <1>2
    <3> HIDE DEF sections
    <3>3. QED
      BY <2>1, <3>1, <3>2
  <2>3. "buildid" \in g.views => ElfHas(sections, "buildid", k)
    <3>1. ASSUME ElfHas(sections, "buildid", f.i) PROVE ElfHas(sections, "buildid", k)
      <4>1. PICK j \in DOMAIN sections : j < f.i /\ sections[j].is = "buildid"
        BY <3>1 DEF ElfHas
      <4>2. j < k
        BY <1>1, <1>4, <4>1
      <4>3. QED
        BY <4>1, <4>2 DEF ElfHas
    <3>2. ASSUME "buildid" \in v PROVE ElfHas(sections, "buildid", k)
      <4>1. s.is = "buildid" /\ f.i < k
        BY <1>0, <1>1, <3>2
      <4>2. QED
        BY <4>1 DEF ElfHas
    <3>3. QED
      BY <1>2, <2>1, <3>1, <3>2
  <2>4. ASSUME NEW j \in DOMAIN sections, j < k PROVE ElfMatches(sections, j, f.asked)
    <3>1. j < f.i \/ j = f.i
      BY <1>1, <1>4, <2>4
    <3>2. QED
      BY <2>1, <3>1
  <2>5. /\ g.link.is # E!None => "debuglink" \in g.views
        /\ g.alt.is # E!None => "debugaltlink" \in g.views
    BY <1>2, <2>1
  <2>6. g.at = "scan" /\ g.i = k /\ g.asked = f.asked
    BY <1>2
  <2> HIDE DEF k
  <2>7. QED
    BY <2>1, <2>2, <2>3, <2>4, <2>5, <2>6 DEF ElfKnows
<1>6. ElfTables_(g.at, g.debug, g.zdebug, file_)
  <2>1. ElfTable(f.zdebug, ElfPacked, file_) /\ ElfTable(f.debug, {"plain"} \cup ElfPacked, file_)
        /\ ElfTable(f.debug, {"plain", "data", "gone"} \cup ElfPacked, file_)
    BY <1>1 DEF ElfTables_, ElfLate
  <2>2. ASSUME s.is = "zdebug" PROVE ElfTable(E!With(f.zdebug, s), ElfPacked, file_)
    BY <2>1, <2>2, ElfWithSection
  <2>3. ASSUME s.is = "debug"
        PROVE  /\ ElfTable(E!With(f.debug, s), {"plain"} \cup ElfPacked, file_)
               /\ ElfTable(E!With(f.debug, s), {"plain", "data", "gone"} \cup ElfPacked, file_)
    <3> DEFINE some == {"plain"} \cup ElfPacked
               more == {"plain", "data", "gone"} \cup ElfPacked
    <3>1. /\ ElfPacked \subseteq some /\ "plain" \in some /\ ElfPacked \subseteq more /\ "plain" \in more
          /\ ElfTable(f.debug, some, file_) /\ ElfTable(f.debug, more, file_)
      BY <2>1
    <3> HIDE DEF some, more
    <3>2. ElfTable(E!With(f.debug, s), some, file_) /\ ElfTable(E!With(f.debug, s), more, file_)
      BY <2>3, <3>1, ElfWithSection
    <3>3. QED
      BY <3>2 DEF some, more
  <2>4. /\ ElfTable(g.zdebug, ElfPacked, file_)
        /\ ElfTable(g.debug, {"plain"} \cup ElfPacked, file_)
        /\ ElfTable(g.debug, {"plain", "data", "gone"} \cup ElfPacked, file_)
    BY <1>2, <2>1, <2>2, <2>3
  <2>5. QED
    BY <2>4 DEF ElfTables_
<1>7. g.fd \in {NoFile, Descriptor(g.id), Descriptor(0)}
  BY <1>1, <1>2
<1>8. /\ g.at \in ElfPlaces /\ g.id \in Nat \ {0} /\ g.i \in Nat \ {0} /\ g.ret \in {0, 1}
      /\ g.file \in DOMAIN d /\ d[g.file].to = <<>> /\ g.memory # g.id
      /\ g.exe \in BOOLEAN /\ ~(g.exe /\ g.at = "header") /\ g.at \notin ElfLate /\ g = [x \in ElfFields |-> g[x]]
  BY <1>1, <1>2 DEF ElfPlaces, ElfLate
<1>9. /\ ElfKnows(g.at, g.i, g.asked, g.views, g.link, g.alt, d[g.file])
      /\ ElfTables_(g.at, g.debug, g.zdebug, d[g.file])
  BY <1>2, <1>5, <1>6
<1>10. QED
  BY ONLY <1>7, <1>8, <1>9 DEF ElfCall

\* The build ID of the section is the one that was asked for, where it is the first.
LEMMA ElfMatched ==
  ASSUME NEW f, ElfFile(disk, f), NEW j \in DOMAIN f.sections, E!F.i = j,
         ElfKnows("scan", E!F.i, E!F.asked, E!F.views, E!F.link, E!F.alt, f),
         E!Wanted(f.sections[j]) /\ f.sections[j].is = "buildid" => E!Matches(f.sections[j])
  PROVE  ElfMatches(f.sections, j, E!F.asked)
<1> DEFINE s == f.sections[j]
<1> SUFFICES ASSUME E!F.asked.id # E!None, E!FirstBuildId(f.sections, j)
             PROVE  s.gnu /\ s.id = E!F.asked.id
  BY DEF ElfMatches
<1>1. s.is = "buildid" /\ \A k \in 1 .. j - 1 : f.sections[k].is # "buildid"
  BY DEF E!FirstBuildId
<1>2. f.sections \in Seq(Range(f.sections))
  BY DEF ElfFile
<1>3. ~ElfHas(f.sections, "buildid", j)
  BY <1>1, <1>2 DEF ElfHas
<1>4. "buildid" \notin E!F.views
  BY <1>3 DEF ElfKnows
<1>5. E!Wanted(s)
  BY <1>1, <1>4, ElfWanted
<1>6. E!Matches(s)
  BY <1>1, <1>5
<1>7. QED
  BY <1>6 DEF E!Matches

LEMMA ElfScan == ElfInv /\ E!Scan => ElfInv'
<1> SUFFICES ASSUME ElfInv, E!Scan PROVE ElfInv'
  OBVIOUS
<1> DEFINE p == "scan"
           symbols == "symbols"
           file_ == disk[E!F.file]
           sections == file_.sections
           s == sections[E!F.i]
           v == IF E!Wanted(s) THEN {s.is} ELSE {}
           h == IF v # {} \/ s.is \in {"symtab", "dynsym", "debug", "zdebug"} THEN E!Noted(s) ELSE E!F
           g == [h EXCEPT !.i = @ + 1, !.views = @ \cup v]
           end == [E!F EXCEPT !.at = symbols]
           none == {}
           id == E!F.id
           held == Mine(res.held, id)
           refers == Mine(kept, id)
           r == E!Get(res, v)
           bad == s.is = "buildid" /\ v # {} /\ ~E!Matches(s)
<1>1. E!Reading(p) /\ UNCHANGED <<disk, kept, added>>
  BY DEF E!Scan
<1>2. \/ E!F.i > Len(sections) /\ E!Goes(end) /\ UNCHANGED <<main, res, left, faults>>
      \/ /\ ~(E!F.i > Len(sections))
         /\ \E fault \in E!Faulty(v) :
              /\ E!Count(fault)
              /\ \/ E!Fails(E!F.views, res)
                 \/ E!Fails(E!F.views \cup v, r)
                 \/ ~bad /\ E!Goes(g) /\ res' = r /\ UNCHANGED <<main, left>>
  BY DEF E!Scan, E!File
<1>3. /\ p = "scan" /\ symbols = "symbols" /\ none = {}
      /\ p \notin ElfAside /\ p \notin ElfLate /\ p \in ElfEarly /\ p # "instead" /\ p # "header"
      /\ symbols \in ElfPlaces /\ symbols \notin ElfLate /\ symbols # "header" /\ symbols # "instead"
      /\ symbols # "scan" /\ p \in ElfPlaces
  BY DEF ElfAside, ElfLate, ElfPlaces, ElfEarly
<1>4. v \subseteq ElfFive /\ (v # {} => v = {s.is})
  BY ElfWanted
<1>5. v = {} => ~E!Wanted(s)
  OBVIOUS
<1>6. h # E!F => ElfNote(h, E!F, s) /\ (v = {s.is} \/ s.is \notin ElfFive)
  BY <1>4, ElfNoteIs DEF ElfFive
<1> HIDE DEF p, symbols, none, held, refers, file_, v, h, g, end, r
<1>7. /\ stack # <<>> /\ E!F.at = p /\ ElfCall(E!F, disk) /\ E!F = [x \in ElfFields |-> E!F[x]]
      /\ ElfHolds(p, E!F.memory, E!F.views, held, refers, faults)
      /\ ElfKnows(p, E!F.i, E!F.asked, E!F.views, E!F.link, E!F.alt, file_)
      /\ res.open = ElfOpens
      /\ ElfOnly(res, kept) /\ res.unsure = {}
      /\ faults \in Nat
  BY <1>1, ElfAt DEF held, refers, file_
<1>8. ElfFile(disk, file_) /\ E!F.i \in Nat \ {0}
  BY <1>7 DEF ElfInv, ElfLedger, ElfCall, file_
<1>9. /\ refers = {} /\ ElfViews(p, E!F.views)
  BY <1>3, <1>7 DEF ElfHolds
<1>10. sections \in Seq(Range(sections))
  BY <1>8 DEF ElfFile
<1>11. ASSUME E!F.i > Len(sections), E!Goes(end), UNCHANGED <<main, res, left, faults>> PROVE ElfInv'
  <2> DEFINE k == E!F.i
             vs == E!F.views
  <2>1. ElfLike(end, E!F, symbols, k, E!F.fd, vs, E!F.debug)
    BY <1>7 DEF end, ElfLike, ElfFields
  <2>2. ElfKnows(symbols, k, E!F.asked, vs, E!F.link, E!F.alt, file_)
    <3>1. \A j \in DOMAIN sections : j < k
      BY <1>8, <1>10, <1>11
    <3>2. QED
      BY <1>3, <1>7, <3>1 DEF ElfKnows
  <2>3. ElfHolds(symbols, E!F.memory, vs, held, refers, faults)
    <3>1. ElfSwapped(vs, vs, none, none) /\ ElfSwapped(held, held, Here(none), ElfGains(none, none))
      BY <1>3 DEF ElfSwapped, ElfGains, Here
    <3>2. ElfViews(symbols, vs)
      BY <1>3, <1>9 DEF ElfViews, ElfLate
    <3>3. ElfPasses(p, symbols, refers, none, faults, faults) /\ ElfSpares(symbols, none, faults)
      BY <1>3, <1>9 DEF ElfPasses, ElfSpares
    <3> HIDE DEF vs
    <3>4. ElfHolds(p, E!F.memory, vs, held, refers, faults)
      BY <1>7 DEF vs
    <3>5. QED
      BY <3>1, <3>2, <3>3, <3>4, ElfHoldsOn
  <2>4. ElfFaults /\ res'.unsure = {} /\ ElfOnly(res', kept') /\ res'.open = ElfOpens
    BY <1>1, <1>7, <1>11 DEF ElfFaults
  <2>5. ElfHolds(symbols, E!F.memory, vs, Mine(res'.held, E!F.id), Mine(kept', E!F.id), faults')
    BY <1>1, <1>11, <2>3 DEF held, refers
  <2>6. k \in Nat \ {0}
    BY <1>8
  <2> HIDE DEF k, vs
  <2>7. QED
    BY <1>1, <1>3, <1>11, <2>1, <2>2, <2>4, <2>5, <2>6, ElfOn DEF file_
<1>12. ASSUME ~(E!F.i > Len(sections)) PROVE E!F.i \in DOMAIN sections
  BY <1>8, <1>10, <1>12
<1>13. ASSUME ~(E!F.i > Len(sections)), NEW fault, E!Count(fault), E!Fails(E!F.views, res) PROVE ElfInv'
  <2>1. ElfFaults /\ res.unsure = {}
    BY <1>7, <1>13, ElfCount DEF ElfFaults
  <2>2. none \cap Mine(kept, E!F.id) = {} /\ "image" \notin none /\ none \subseteq {"table"}
    BY <1>3
  <2>3. Mine(res.held, E!F.id) = (Mine(res.held, E!F.id) \cup Here(none)) \cup none /\ E!F.views = E!F.views \cup none
    BY <1>3 DEF Here
  <2> DEFINE valid == E!F.views
  <2>4. valid = E!F.views \cup none /\ E!Fails(valid, res)
    BY <1>13, <2>3
  <2> HIDE DEF valid
  <2>5. QED
    BY <1>1, <1>3, <1>7, <2>1, <2>2, <2>3, <2>4, ElfFailsWith
<1>14. /\ ElfOnly(r, kept) /\ r.open = res.open /\ r.unsure = res.unsure
       /\ Mine(r.held, E!F.id) = Mine(res.held, E!F.id) \cup Here(v)
  BY <1>7, ElfGot DEF r
<1>15. ASSUME ~(E!F.i > Len(sections)), NEW fault, E!Count(fault), E!Fails(E!F.views \cup v, r) PROVE ElfInv'
  <2>1. ElfFaults /\ r.unsure = {}
    BY <1>7, <1>14, <1>15, ElfCount DEF ElfFaults
  <2>2. v \cap Mine(kept, E!F.id) = {} /\ "image" \notin v /\ none \subseteq {"table"}
    BY <1>3, <1>4, <1>9 DEF refers, ElfFive
  <2>3. Mine(r.held, E!F.id) = (Mine(res.held, E!F.id) \cup Here(v)) \cup none
    BY <1>3, <1>14
  <2> DEFINE valid == E!F.views \cup v
  <2>4. valid = E!F.views \cup v /\ E!Fails(valid, r) /\ r.open = ElfOpens
    BY <1>7, <1>14, <1>15
  <2> HIDE DEF valid
  <2>5. QED
    BY <1>1, <1>3, <1>14, <2>1, <2>2, <2>3, <2>4, ElfFailsWith
<1>16. ASSUME ~(E!F.i > Len(sections)), NEW fault, E!Count(fault), ~bad, E!Goes(g), res' = r, UNCHANGED <<main, left>>
       PROVE  ElfInv'
  <2>1. ElfFaults /\ r.unsure = {}
    BY <1>7, <1>14, <1>16, ElfCount DEF ElfFaults
  <2>2. ElfNotes(g, E!F, s, v)
    <3>1. ElfNote(h, E!F, s) /\ (h # E!F => v = {s.is} \/ s.is \notin ElfFive)
      BY <1>6 DEF ElfNote
    <3> HIDE DEF s
    <3>2. QED
      BY <1>7, <3>1, ElfNoting DEF g
  <2>3. ElfMatches(sections, E!F.i, E!F.asked)
    <3>1. E!F.i \in DOMAIN sections
      BY <1>12, <1>16
    <3>2. E!Wanted(s) /\ s.is = "buildid" => E!Matches(s)
      BY <1>5, <1>16
    <3>3. ElfKnows("scan", E!F.i, E!F.asked, E!F.views, E!F.link, E!F.alt, file_)
      BY <1>3, <1>7
    <3>4. QED
      BY <1>8, <3>1, <3>2, <3>3, ElfMatched
  <2>4. ElfCall(g, disk)
    <3>1. E!F.at = "scan" /\ E!F.i \in DOMAIN disk[E!F.file].sections /\ ElfFile(disk, disk[E!F.file])
      BY <1>3, <1>7, <1>8, <1>12, <1>16 DEF file_
    <3>2. QED
      BY <1>4, <1>7, <2>2, <2>3, <3>1, ElfTurns DEF file_
  <2>5. /\ g.views = E!F.views \cup v
        /\ g.at = p /\ g.fd = E!F.fd /\ g.id = E!F.id /\ g.memory = E!F.memory /\ g.exe = E!F.exe
    BY <1>7, <2>2 DEF ElfNotes
  <2>6. ElfHolds(p, E!F.memory, g.views, Mine(r.held, E!F.id), refers, faults')
    <3> DEFINE vs == g.views
               left_ == Mine(r.held, E!F.id)
               old == E!F.views
    <3>1. ElfSwapped(vs, old, none, v) /\ ElfSwapped(left_, held, Here(none), ElfGains(v, none))
      BY <1>3, <1>14, <2>5 DEF ElfSwapped, ElfGains, Here, held
    <3>2. ElfViews(p, vs)
      BY <1>3, <1>4, <1>9, <2>5 DEF ElfViews, ElfLate, ElfFive
    <3>3. ElfPasses(p, p, refers, none, faults, faults') /\ ElfSpares(p, none, faults')
      BY <1>3, <1>9, <2>1 DEF ElfPasses, ElfSpares, ElfFaults
    <3>4. ElfHolds(p, E!F.memory, old, held, refers, faults)
      BY <1>7
    <3> HIDE DEF vs, left_, old
    <3>5. ElfHolds(p, E!F.memory, vs, left_, refers, faults')
      BY <3>1, <3>2, <3>3, <3>4, ElfHoldsOn
    <3>6. QED
      BY <3>5 DEF vs, left_
  <2>7. ElfFrame(g, disk, Mine(res'.held, E!F.id), Mine(kept', E!F.id), faults')
    <3>1. \A near, f, held_ : ElfUncompresses(p, g.i, g.views, g.debug, g.zdebug, near, f, held_)
      BY <1>3 DEF ElfUncompresses
    <3>2. QED
      BY <1>1, <1>16, <2>4, <2>5, <2>6, <3>1 DEF ElfFrame, refers
  <2>8. ElfOnly(res', kept') /\ res'.open = FdsBelow(stack) \cup ({g.fd} \ {NoFile}) /\ g.fd \in {E!F.fd, NoFile}
        /\ res'.unsure = {}
    BY <1>1, <1>7, <1>14, <1>16, <2>1, <2>5 DEF ElfOpens
  <2>9. QED
    BY <1>1, <1>7, <1>16, <2>1, <2>5, <2>7, <2>8, ElfGoes
<1>17. QED
  <2>1. CASE E!F.i > Len(sections) /\ E!Goes(end) /\ UNCHANGED <<main, res, left, faults>>
    BY <1>11, <2>1
  <2>2. CASE ~(E!F.i > Len(sections))
    <3>1. PICK fault \in E!Faulty(v) :
              /\ E!Count(fault)
              /\ \/ E!Fails(E!F.views, res)
                 \/ E!Fails(E!F.views \cup v, r)
                 \/ ~bad /\ E!Goes(g) /\ res' = r /\ UNCHANGED <<main, left>>
      BY <1>2, <2>2
    <3>2. QED
      BY <1>13, <1>15, <1>16, <2>2, <3>1
  <2>3. QED
    BY <1>2, <2>1, <2>2

\* What the state refers to, when it also refers to whats and to the views vs of the call at work.
ElfKeeping(whats, vs) == (kept \cup ({E!F.id} \X whats)) \cup E!Kept(vs)

LEMMA ElfKeeps ==
  ASSUME ElfInv, stack # <<>>, NEW r, ElfOnly(r, kept), NEW whats, NEW vs
  PROVE  LET more == ElfKeeping(whats, vs)
         IN  ElfOnly(r, more) /\ Mine(more, E!F.id) = (Mine(kept, E!F.id) \cup whats) \cup Here(vs)
<1> DEFINE id == E!F.id
           memory == E!F.memory
           image == {"image"}
           some == Plus(kept, id, whats)
<1>1. Pairs(some) /\ Mine(some, id) = Mine(kept, id) \cup whats /\ \A i : i # id => Mine(some, i) = Mine(kept, i)
  BY PlusMine DEF ElfOnly
<1>2. CASE memory = 0 \/ vs = {}
  <2> DEFINE more == Plus(some, id, vs)
  <2>1. ElfKeeping(whats, vs) = more
    BY <1>2 DEF ElfKeeping, E!Kept, Plus
  <2> HIDE DEF some
  <2>2. Pairs(more) /\ Mine(more, id) = Mine(some, id) \cup vs /\ \A i : i # id => Mine(more, i) = Mine(some, i)
    BY <1>1, PlusMine
  <2>3. Here(vs) = vs
    BY <1>2 DEF Here
  <2> HIDE DEF more
  <2>4. ElfOnly(r, more)
    BY <1>1, <2>2 DEF ElfOnly
  <2>5. QED
    BY <1>1, <2>1, <2>2, <2>3, <2>4
<1>3. CASE memory # 0 /\ vs # {}
  <2> DEFINE more == Plus(some, memory, image)
  <2>1. ElfKeeping(whats, vs) = more
    BY <1>3 DEF ElfKeeping, E!Kept, Plus
  <2>0. image = {"image"}
    OBVIOUS
  <2> HIDE DEF some, image
  <2>2. Pairs(more) /\ Mine(more, memory) = Mine(some, memory) \cup image
        /\ \A i : i # memory => Mine(more, i) = Mine(some, i)
    BY <1>1, PlusMine
  <2>3. Here(vs) = {}
    BY <1>3 DEF Here
  <2>4. memory # id /\ "image" \in Mine(res.held, memory)
    BY <1>3, ElfTop DEF ElfFrame, ElfCall
  <2> HIDE DEF more, memory
  <2>5. ElfOnly(r, more)
    <3>1. ASSUME NEW i, i # id
          PROVE  /\ Mine(r.held, i) = Mine(res.held, i)
                 /\ \/ Mine(more, i) = Mine(kept, i)
                    \/ Mine(more, i) = Mine(kept, i) \cup {"image"} /\ "image" \in Mine(res.held, i)
      <4>1. CASE i = memory
        <5>1. Mine(more, i) = Mine(kept, i) \cup {"image"}
          BY <1>1, <2>0, <2>2, <2>4, <4>1
        <5>2. QED
          BY <2>4, <3>1, <4>1, <5>1 DEF ElfOnly
      <4>2. CASE i # memory
        <5>1. Mine(more, i) = Mine(kept, i)
          BY <1>1, <2>2, <3>1, <4>2
        <5>2. QED
          BY <3>1, <5>1 DEF ElfOnly
      <4>3. QED
        BY <4>1, <4>2
    <3>2. QED
      BY <2>2, <3>1 DEF ElfOnly
  <2>6. Mine(more, id) = Mine(kept, id) \cup whats
    BY <1>1, <2>2, <2>4
  <2>7. QED
    BY <2>1, <2>3, <2>5, <2>6
<1>4. QED
  BY <1>2, <1>3

LEMMA ElfSymbols == ElfInv /\ E!Symbols => ElfInv'
<1> SUFFICES ASSUME ElfInv, E!Symbols PROVE ElfInv'
  OBVIOUS
<1> DEFINE p == "symbols"
           separate == "separate"
           off == {"shdrs", "names"}
           tab == {"symtab"}
           str == {"strtab"}
           tabs == {"symtab", "strtab"}
           mem == {"sdata", "symbols"}
           none == {}
           id == E!F.id
           held == Mine(res.held, id)
           refers == Mine(kept, id)
           vs == E!F.views \ off
           g == [E!F EXCEPT !.at = separate, !.views = @ \ off]
           r == E!Drop(res, off)
           r1 == E!Get(res, tab)
           r2 == E!Get(res, tabs)
           s1 == E!Get(res, str)
           s2 == E!Taken(s1, E!F.id, mem)
           s3 == E!Drop(s2, off)
           more == ElfKeeping(mem, str)
           ok == ~(~E!F.sym.linked)
<1>1. E!Reading(p) /\ UNCHANGED <<disk, added>>
  BY DEF E!Symbols
<1>2. \/ E!Goes(g) /\ res' = r /\ UNCHANGED <<main, kept, left, faults>>
      \/ \E fault : /\ E!Count(fault)
                    /\ \/ E!Fails(E!F.views, res) /\ UNCHANGED kept
                       \/ E!Fails(E!F.views \cup tab, r1) /\ UNCHANGED kept
                       \/ E!Fails(E!F.views \cup tabs, r2) /\ UNCHANGED kept
                       \/ E!Goes(g) /\ res' = s3 /\ kept' = more /\ UNCHANGED <<main, left>>
  BY DEF E!Symbols, ElfKeeping
<1>3. /\ p = "symbols" /\ separate = "separate" /\ off = {"shdrs", "names"} /\ tab = {"symtab"} /\ str = {"strtab"}
      /\ tabs = {"symtab", "strtab"} /\ mem = {"sdata", "symbols"} /\ none = {}
      /\ p \notin ElfAside /\ p \notin ElfLate /\ p \in ElfEarly /\ p # "instead" /\ p # "header" /\ p # "scan"
      /\ separate \in ElfPlaces /\ separate \notin ElfLate /\ separate \notin ElfEarly
      /\ separate # "header" /\ separate # "instead" /\ separate # "scan" /\ p \in ElfPlaces
  BY DEF ElfAside, ElfLate, ElfPlaces, ElfEarly
<1> HIDE DEF p, separate, off, tab, str, tabs, mem, none, held, refers, vs, g, r, r1, r2, s1, s2, s3, more
<1>4. /\ stack # <<>> /\ E!F.at = p /\ ElfCall(E!F, disk) /\ E!F = [x \in ElfFields |-> E!F[x]]
      /\ ElfHolds(p, E!F.memory, E!F.views, held, refers, faults)
      /\ ElfKnows(p, E!F.i, E!F.asked, E!F.views, E!F.link, E!F.alt, disk[E!F.file])
      /\ res.open = ElfOpens
      /\ ElfOnly(res, kept) /\ res.unsure = {}
      /\ faults \in Nat
  BY <1>1, ElfAt DEF held, refers
<1>5. /\ refers = {} /\ ElfViews(p, E!F.views) /\ off \subseteq E!F.views
      /\ E!F.views \subseteq {"shdrs", "names", "buildid", "debuglink", "debugaltlink", "gnu_debugdata", "opd"}
      /\ ElfOwn(p, E!F.memory, E!F.views) \subseteq held
      /\ \A w \in held : w \in ElfOwn(p, E!F.memory, E!F.views) \/ ElfSpare(p, w, faults)
  BY <1>3, <1>4 DEF ElfHolds, ElfViews
<1>6. ElfOwn(p, E!F.memory, E!F.views) = Here(E!F.views) /\ Here(off) \subseteq Here(E!F.views)
  BY <1>3, <1>5 DEF ElfOwn, Here
<1>7. ElfViews(separate, vs)
  BY <1>3, <1>5 DEF ElfViews, vs, ElfLate
<1>8. \A f : ElfLike(g, E!F, separate, E!F.i, E!F.fd, vs, E!F.debug)
  BY <1>4 DEF g, vs, ElfLike, ElfFields
<1>9. ElfKnows(separate, E!F.i, E!F.asked, vs, E!F.link, E!F.alt, disk[E!F.file]) /\ E!F.i \in Nat \ {0}
  BY <1>3, <1>4 DEF ElfKnows, vs, ElfCall
<1> DEFINE k == E!F.i
<1>10. /\ ElfLike(g, E!F, separate, k, E!F.fd, vs, E!F.debug) /\ k \in Nat \ {0}
       /\ ElfKnows(separate, k, E!F.asked, vs, E!F.link, E!F.alt, disk[E!F.file])
  BY <1>8, <1>9
<1> HIDE DEF k
<1>11. CASE E!Goes(g) /\ res' = r /\ UNCHANGED <<main, kept, left, faults>>
  <2>1. /\ ElfOnly(r, kept) /\ r.open = res.open /\ r.unsure = res.unsure
        /\ Mine(r.held, E!F.id) = held \ Here(off)
    <3>1. Here(off) \subseteq Mine(res.held, E!F.id) /\ "image" \notin off
      BY <1>3, <1>5, <1>6 DEF held
    <3>2. QED
      BY <1>4, <3>1, ElfDropped DEF r, held
  <2>2. ElfHolds(separate, E!F.memory, vs, Mine(r.held, E!F.id), refers, faults)
    <3> DEFINE left_ == Mine(r.held, E!F.id)
               old == E!F.views
    <3>1. ElfSwapped(vs, old, off, none) /\ ElfSwapped(left_, held, Here(off), ElfGains(none, none))
      BY <1>3, <2>1 DEF ElfSwapped, ElfGains, Here, vs
    <3>2. ElfPasses(p, separate, refers, off, faults, faults) /\ ElfSpares(separate, none, faults)
      BY <1>3, <1>5 DEF ElfPasses, ElfSpares
    <3>3. ElfHolds(p, E!F.memory, old, held, refers, faults)
      BY <1>4
    <3> HIDE DEF left_, old
    <3>4. ElfHolds(separate, E!F.memory, vs, left_, refers, faults)
      BY <1>7, <3>1, <3>2, <3>3, ElfHoldsOn
    <3>5. QED
      BY <3>4 DEF left_
  <2>3. ElfFaults /\ res'.unsure = {} /\ ElfOnly(res', kept') /\ res'.open = ElfOpens
    BY <1>4, <1>11, <2>1 DEF ElfFaults
  <2>4. ElfHolds(separate, E!F.memory, vs, Mine(res'.held, E!F.id), Mine(kept', E!F.id), faults')
    BY <1>11, <2>2 DEF refers
  <2>5. QED
    BY <1>1, <1>3, <1>10, <1>11, <2>3, <2>4, ElfOn
<1>12. ASSUME NEW fault, E!Count(fault), E!Fails(E!F.views, res), UNCHANGED kept PROVE ElfInv'
  <2>1. ElfFaults /\ res.unsure = {}
    BY <1>4, <1>12, ElfCount DEF ElfFaults
  <2>2. none \cap Mine(kept, E!F.id) = {} /\ "image" \notin none /\ none \subseteq {"table"}
    BY <1>3
  <2>3. Mine(res.held, E!F.id) = (Mine(res.held, E!F.id) \cup Here(none)) \cup none
    BY <1>3 DEF Here
  <2> DEFINE valid == E!F.views
  <2>4. valid = E!F.views \cup none /\ E!Fails(valid, res)
    BY <1>3, <1>12
  <2> HIDE DEF valid
  <2>5. QED
    BY <1>1, <1>3, <1>4, <1>12, <2>1, <2>2, <2>3, <2>4, ElfFailsWith
<1>13. ASSUME NEW fault, E!Count(fault), NEW those, "image" \notin those, E!Fails(E!F.views \cup those, E!Get(res, those)),
              UNCHANGED kept
       PROVE  ElfInv'
  <2> DEFINE t == E!Get(res, those)
             valid == E!F.views \cup those
  <2>0. valid = E!F.views \cup those /\ E!Fails(valid, t)
    BY <1>13
  <2>1. /\ ElfOnly(t, kept) /\ t.open = res.open /\ t.unsure = res.unsure
        /\ Mine(t.held, E!F.id) = Mine(res.held, E!F.id) \cup Here(those)
    BY <1>4, ElfGot
  <2> HIDE DEF t, valid
  <2>2. ElfFaults /\ t.unsure = {} /\ t.open = ElfOpens
    BY <1>4, <1>13, <2>1, ElfCount DEF ElfFaults
  <2>3. those \cap Mine(kept, E!F.id) = {} /\ none \subseteq {"table"}
    BY <1>3, <1>5 DEF refers
  <2>4. Mine(t.held, E!F.id) = (Mine(res.held, E!F.id) \cup Here(those)) \cup none
    BY <1>3, <2>1
  <2>5. QED
    BY <1>1, <1>3, <1>13, <2>0, <2>1, <2>2, <2>3, <2>4, ElfFailsWith
<1>14. ASSUME NEW fault, E!Count(fault), E!Goes(g), res' = s3, kept' = more, UNCHANGED <<main, left>> PROVE ElfInv'
  <2>1. /\ ElfOnly(s1, kept) /\ s1.open = res.open /\ s1.unsure = res.unsure
        /\ Mine(s1.held, E!F.id) = held \cup Here(str)
    BY <1>4, ElfGot DEF s1, held
  <2>2. /\ ElfOnly(s2, kept) /\ s2.open = res.open /\ s2.unsure = res.unsure
        /\ Mine(s2.held, E!F.id) = (held \cup Here(str)) \cup mem
    BY <2>1, ElfTaken DEF s2
  <2>3. /\ ElfOnly(s3, kept) /\ s3.open = res.open /\ s3.unsure = res.unsure
        /\ Mine(s3.held, E!F.id) = ((held \cup Here(str)) \cup mem) \ Here(off)
    <3>1. Here(off) \subseteq Mine(s2.held, E!F.id) /\ "image" \notin off
      BY <1>3, <1>5, <1>6, <2>2
    <3>2. QED
      BY <2>2, <3>1, ElfDropped DEF s3
  <2>4. ElfOnly(s3, more) /\ Mine(more, E!F.id) = (refers \cup mem) \cup Here(str)
    BY <1>4, <2>3, ElfKeeps DEF more, refers
  <2>5. ElfFaults /\ s3.unsure = {}
    BY <1>4, <1>14, <2>3, ElfCount DEF ElfFaults
  <2>6. ElfHolds(separate, E!F.memory, vs, Mine(s3.held, E!F.id), Mine(more, E!F.id), faults')
    <3> DEFINE new == Mine(s3.held, E!F.id)
               kept_ == Mine(more, E!F.id)
    <3>1. new = ((held \cup Here(str)) \cup mem) \ Here(off) /\ kept_ = mem \cup Here(str)
      BY <1>5, <2>3, <2>4
    <3> HIDE DEF new, kept_
    <3>2. \A w : ElfSpare(p, w, faults) => ElfSpare(separate, w, faults')
      BY <1>3, <2>5 DEF ElfSpare, ElfFaults
    <3>3. ElfOwn(separate, E!F.memory, vs) = Here(vs)
      BY <1>3 DEF ElfOwn, Here
    <3>4. /\ kept_ \subseteq {"sdata", "symbols", "strtab", "image"} /\ kept_ \subseteq new
      BY <1>3, <3>1 DEF Here
    <3>5. Here(vs) = Here(E!F.views) \ Here(off)
      BY DEF Here, vs
    <3>6. /\ Here(vs) \subseteq new
          /\ \A w \in new : w \in Here(vs) \/ w \in kept_ \/ ElfSpare(separate, w, faults')
      BY <1>5, <1>6, <3>1, <3>2, <3>5
    <3>7. ElfHolds(separate, E!F.memory, vs, new, kept_, faults')
      BY <1>3, <1>7, <3>3, <3>4, <3>6 DEF ElfHolds
    <3>8. QED
      BY <3>7 DEF new, kept_
  <2>7. /\ ElfHolds(separate, E!F.memory, vs, Mine(res'.held, E!F.id), Mine(kept', E!F.id), faults')
        /\ ElfOnly(res', kept') /\ res'.open = ElfOpens /\ res'.unsure = {}
    BY <1>4, <1>14, <2>3, <2>4, <2>5, <2>6
  <2>8. QED
    BY <1>1, <1>3, <1>10, <1>14, <2>5, <2>7, ElfOn
<1>15. "image" \notin tab /\ "image" \notin tabs
  BY <1>3
<1>16. QED
  BY <1>2, <1>11, <1>12, <1>13, <1>14, <1>15 DEF r1, r2

\* Where a file with debug information is looked for, there may be one.
LEMMA ElfThere ==
  ASSUME NEW path, NEW name, NEW fault
  PROVE  E!There(path, name, fault) # <<>> => E!Exists(E!There(path, name, fault))
<1> DEFINE c == E!Candidates(IF fault = "readlink" THEN path ELSE E!Resolved(path), name)
           there == {i \in 1 .. 3 : c[i][1] # fault /\ E!Exists(c[i][2])}
<1>1. E!There(path, name, fault) = IF fault = "concat" \/ there = {} THEN <<>> ELSE c[E!Min(there)][2]
  BY DEF E!There
<1>2. \A i \in there : i \in 1 .. 3 /\ E!Exists(c[i][2])
  OBVIOUS
<1> HIDE DEF c
<1>3. there # {} => E!Min(there) \in there
  <2>1. there # {} => \E x \in there : \A y \in there : x <= y
    <3>1. there \subseteq 1 .. 3
      OBVIOUS
    <3> HIDE DEF there
    <3>2. \A y \in there : y = 1 \/ y = 2 \/ y = 3
      BY <3>1
    <3>3. CASE 1 \in there
      BY <3>2, <3>3
    <3>4. CASE 1 \notin there /\ 2 \in there
      BY <3>2, <3>4
    <3>5. CASE 1 \notin there /\ 2 \notin there
      BY <3>2, <3>5
    <3>6. QED
      BY <3>3, <3>4, <3>5
  <2> HIDE DEF there
  <2>2. QED
    BY <2>1 DEF E!Min
<1> HIDE DEF there
<1>4. QED
  BY <1>1, <1>2, <1>3

LEMMA ElfFound ==
  ASSUME NEW path, NEW name, NEW crc, NEW fault
  PROVE  LET d == E!FoundByLink(path, name, crc, fault)
         IN  d # <<>> => E!Exists(d) /\ (crc # 0 => disk[d].crc = crc)
<1> DEFINE there == E!There(path, name, fault)
<1>1. there # <<>> => E!Exists(there)
  BY ElfThere
<1>2. E!FoundByLink(path, name, crc, fault)
        = IF there # <<>> /\ (crc # 0 => fault # "crc" /\ disk[there].crc = crc) THEN there ELSE <<>>
  BY DEF E!FoundByLink
<1> HIDE DEF there
<1>3. QED
  BY <1>1, <1>2

\* elf_readlink leaves a buffer where the directory cannot be put before it.
LEMMA ElfSearched ==
  ASSUME ElfInv, stack # <<>>, NEW fault, E!Count(fault), ElfOnly(res, kept), faults \in Nat
  PROVE  LET r == E!Searched(res, fault)
         IN  \E extra : /\ \A place : ElfSpares(place, extra, faults')
                        /\ ElfOnly(r, kept) /\ r.open = res.open /\ r.unsure = res.unsure
                        /\ Mine(r.held, E!F.id) = Mine(res.held, E!F.id) \cup extra
<1> DEFINE r == E!Searched(res, fault)
           buf == {"new_buf"}
           none == {}
<1>1. CASE fault = "concat"
  <2>1. r = E!Taken(res, E!F.id, buf)
    BY <1>1 DEF E!Searched
  <2>2. faults' > 0
    BY <1>1, ElfCount DEF E!None
  <2>3. \A place : ElfSpares(place, buf, faults')
    BY <2>2 DEF ElfSpares, ElfSpare
  <2> HIDE DEF r, buf
  <2>4. ElfOnly(r, kept) /\ r.open = res.open /\ r.unsure = res.unsure
        /\ Mine(r.held, E!F.id) = Mine(res.held, E!F.id) \cup buf
    BY <2>1, ElfTaken
  <2>5. QED
    BY <2>3, <2>4 DEF r
<1>2. CASE fault # "concat"
  <2>1. r = res
    BY <1>2 DEF E!Searched
  <2>2. \A place : ElfSpares(place, none, faults')
    BY DEF ElfSpares
  <2>3. Mine(res.held, E!F.id) = Mine(res.held, E!F.id) \cup none
    OBVIOUS
  <2> HIDE DEF r, none
  <2>4. QED
    BY <2>1, <2>2, <2>3 DEF r
<1>3. QED
  BY <1>1, <1>2

\* Views are given back, and the next file is looked for.
LEMMA ElfGives ==
  ASSUME ElfInv, NEW p \in {"separate", "debuglink", "altlink", "shared", "minidebug"}, E!Reading(p),
         NEW place \in {"debuglink", "altlink", "minidebug", "extent"},
         NEW gone, NEW valid, valid = E!F.views \cap gone, NEW vs, vs = E!F.views \ gone,
         NEW extra, ElfSpares(place, extra, faults'),
         NEW s, ElfOnly(s, kept), s.open = ElfOpens, s.unsure = {},
         Mine(s.held, E!F.id) = (Mine(res.held, E!F.id) \ Here(valid)) \cup extra,
         ElfViews(place, vs),
         ElfKnows(place, E!F.i, E!F.asked, vs, E!F.link, E!F.alt, disk[E!F.file]),
         NEW g, ElfLike(g, E!F, place, E!F.i, E!F.fd, vs, E!F.debug), E!Goes(g), res' = s,
         UNCHANGED <<disk, main, kept, added, left>>, ElfFaults
  PROVE  ElfInv'
<1> DEFINE refers == Mine(kept, E!F.id)
           held == Mine(res.held, E!F.id)
           new == Mine(s.held, E!F.id)
           old == E!F.views
           none == {}
           k == E!F.i
           n == faults
           m == faults'
<1>1. /\ p \notin ElfLate /\ p # "instead" /\ place \notin ElfLate /\ place \notin ElfEarly /\ place # "instead"
      /\ place \in ElfPlaces /\ p \in ElfPlaces /\ place # "header" /\ p \notin ElfEarly
  BY DEF ElfLate, ElfEarly, ElfPlaces
<1>2. /\ ElfHolds(p, E!F.memory, old, held, refers, n) /\ ElfCall(E!F, disk)
      /\ k \in Nat \ {0}
  BY ElfAt DEF ElfCall
<1>3. old \subseteq ElfAllViews
  BY <1>1, <1>2, ElfViewsAre DEF ElfHolds
<1>4. valid \cap refers = {}
  BY <1>2, <1>3 DEF ElfHolds, ElfAllViews
<1>5. ElfSwapped(vs, old, valid, none) /\ new = (held \ Here(valid)) \cup extra
  BY DEF ElfSwapped
<1>6. n > 0 => m > 0
  BY DEF ElfFaults
<1>7. ElfKnows(place, k, E!F.asked, vs, E!F.link, E!F.alt, disk[E!F.file])
      /\ ElfLike(g, E!F, place, k, E!F.fd, vs, E!F.debug) /\ none = {} /\ ElfSpares(place, extra, m)
  OBVIOUS
<1> HIDE DEF refers, held, new, old, none, k, n, m
<1>8. ElfSwapped(new, held, Here(valid), ElfGains(none, extra))
  BY <1>5, <1>7 DEF ElfSwapped, ElfGains, Here
<1>9. ElfPasses(p, place, refers, valid, n, m)
  BY <1>1, <1>4, <1>6 DEF ElfPasses
<1>10. ElfHolds(place, E!F.memory, vs, new, refers, m)
  BY <1>2, <1>5, <1>7, <1>8, <1>9, ElfHoldsOn
<1>11. ElfHolds(place, E!F.memory, vs, Mine(res'.held, E!F.id), Mine(kept', E!F.id), faults')
  BY <1>10 DEF new, refers, m
<1>12. ElfOnly(res', kept') /\ res'.open = ElfOpens /\ res'.unsure = {}
  OBVIOUS
<1>13. QED
  BY <1>1, <1>2, <1>7, <1>11, <1>12, ElfOn

\* Another file is read instead of the one at work.
LEMMA ElfInstead ==
  ASSUME ElfInv, NEW p \in {"separate", "debuglink"}, E!Reading(p),
         NEW d, E!Exists(d), NEW asked_, asked_.crc # 0 => disk[d].crc = asked_.crc,
         NEW vs, vs \subseteq E!F.views, E!F.views \ vs \subseteq {"gnu_debugdata", "opd"},
         NEW extra, \A place : ElfSpares(place, extra, faults'),
         NEW r, ElfOnly(r, kept), r.open = ElfOpens, r.unsure = {},
         Mine(r.held, E!F.id) = Mine(res.held, E!F.id) \cup extra,
         E!Instead(d, vs, asked_, r), UNCHANGED <<disk, kept, added>>, ElfFaults
  PROVE  ElfInv'
<1> DEFINE place == "instead"
           f == [E!F EXCEPT !.at = place]
           fd == Descriptor(E!NextId)
           s == E!Drop(r, vs)
           t == Opened(s, fd)
           empty == <<>>
           no == FALSE
           yes == TRUE
           held == Mine(res.held, E!F.id)
           refers == Mine(kept, E!F.id)
           none == 0
           n == faults
           m == faults'
<1>1. /\ stack' = Append([stack EXCEPT ![Len(stack)].at = place], E!Call(E!NextId, empty, d, fd, none, no, yes, asked_))
      /\ res' = t /\ UNCHANGED <<main, left>>
  BY ElfResources DEF E!Instead
<1>2. /\ stack # <<>> /\ E!F.at = p /\ ElfCall(E!F, disk) /\ E!F = [x \in ElfFields |-> E!F[x]]
      /\ ElfHolds(p, E!F.memory, E!F.views, held, refers, n)
      /\ ElfKnows(p, E!F.i, E!F.asked, E!F.views, E!F.link, E!F.alt, disk[E!F.file])
      /\ ElfTables_(p, E!F.debug, E!F.zdebug, disk[E!F.file])
  BY ElfAt
<1>3. /\ E!F = stack[Len(stack)] /\ Len(stack) \in 1 .. Len(stack) /\ IsStack(stack)
  BY <1>2, ElfTop DEF ElfInv, ElfStack
<1>4. [stack EXCEPT ![Len(stack)].at = place] = WithLast(stack, f)
  BY <1>3 DEF WithLast
<1>5. /\ place = "instead" /\ place \in ElfPlaces /\ place \in ElfAside /\ place \notin ElfLate /\ place \notin ElfEarly
      /\ p \notin ElfLate /\ p \notin ElfEarly /\ p # "instead" /\ p # "header" /\ p # "scan" /\ place # "header"
  BY DEF ElfPlaces, ElfAside, ElfLate, ElfEarly
<1> HIDE DEF place
<1>6. ElfLike(f, E!F, place, E!F.i, E!F.fd, E!F.views, E!F.debug)
  BY <1>2 DEF ElfLike, ElfFields
<1>7. /\ f.id = E!F.id /\ f.exe = E!F.exe /\ f.memory = E!F.memory /\ f.fd = E!F.fd /\ f.at \in ElfAside
      /\ f.at = place /\ f.i = E!F.i /\ f.views = E!F.views /\ f.debug = E!F.debug /\ f.zdebug = E!F.zdebug
      /\ f.file = E!F.file
  BY <1>5, <1>6 DEF ElfLike
<1>8. none = 0 /\ no = FALSE /\ (n > 0 => m > 0)
  BY DEF ElfFaults
<1> HIDE DEF f, fd, s, t, empty, no, yes, held, refers, none, n, m
<1>9. /\ ElfViews(p, E!F.views) /\ refers \subseteq held /\ refers \subseteq {"sdata", "symbols", "strtab", "image"}
      /\ ElfOwn(p, E!F.memory, E!F.views) \subseteq held
      /\ \A w \in held : w \in ElfOwn(p, E!F.memory, E!F.views) \/ w \in refers \/ ElfSpare(p, w, n)
  BY <1>2 DEF ElfHolds
<1>10. p \in ElfPlaces
  BY DEF ElfPlaces
<1>11. E!F.views \subseteq ElfAllViews
  BY <1>9, <1>10, ElfViewsAre
<1>12. Here(vs) \subseteq Mine(r.held, E!F.id) /\ "image" \notin vs /\ vs \cap refers = {}
  <2>1. Here(vs) \subseteq ElfOwn(p, E!F.memory, E!F.views)
    BY <1>5 DEF Here, ElfOwn
  <2>2. QED
    BY <1>9, <1>11, <2>1 DEF ElfAllViews, held
<1>13. /\ ElfOnly(s, kept) /\ s.open = r.open /\ s.unsure = r.unsure
       /\ Mine(s.held, E!F.id) = Mine(r.held, E!F.id) \ Here(vs)
  BY <1>12, ElfDropped DEF s
<1>14. Ledger(t) /\ t.held = s.held /\ t.unsure = s.unsure /\ t.open = s.open \cup {fd}
  <2>1. Ledger(s)
    BY <1>13 DEF ElfOnly
  <2>2. QED
    BY <2>1, OpenedIs DEF t
<1>15. ElfOnly(t, kept)
  BY <1>13, <1>14 DEF ElfOnly
<1> DEFINE new == Mine(t.held, E!F.id)
<1>16. new = (held \cup extra) \ Here(vs)
  BY <1>13, <1>14 DEF held
<1> HIDE DEF new
<1>17. ElfHolds(place, E!F.memory, E!F.views, new, refers, m)
  <2>1. ElfOwn(place, E!F.memory, E!F.views) = {}
    BY <1>5 DEF ElfOwn
  <2>2. ElfViews(place, E!F.views)
    <3>1. p = "separate" \/ p = "debuglink"
      OBVIOUS
    <3>2. E!F.views \subseteq {"buildid", "debuglink", "debugaltlink", "gnu_debugdata", "opd"}
      BY <1>9, <3>1 DEF ElfViews
    <3>3. QED
      BY <1>5, <3>2 DEF ElfViews
  <2>3. \A w \in extra : ElfSpare(place, w, m)
    BY DEF ElfSpares, m
  <2>4. \A w : ElfSpare(p, w, n) => ElfSpare(place, w, m)
    BY <1>5, <1>8 DEF ElfSpare
  <2>5. ASSUME NEW w \in new PROVE w \in refers \/ ElfSpare(place, w, m)
    <3>1. CASE w \in extra
      BY <2>3, <3>1
    <3>2. CASE w \in held /\ w \in ElfOwn(p, E!F.memory, E!F.views)
      <4>1. w \in E!F.views /\ E!F.memory = 0
        BY <3>2 DEF ElfOwn
      <4>2. w \notin vs
        BY <1>16, <2>5, <4>1 DEF Here
      <4>3. w \in {"gnu_debugdata", "opd"}
        BY <4>1, <4>2
      <4>4. QED
        BY <1>5, <4>3 DEF ElfSpare
    <3>3. QED
      BY <1>9, <1>16, <2>4, <2>5, <3>1, <3>2
  <2>6. refers \subseteq new
    BY <1>9, <1>12, <1>16 DEF Here
  <2>7. QED
    BY <1>5, <1>9, <2>1, <2>2, <2>5, <2>6 DEF ElfHolds
<1>18. ElfKnows(place, E!F.i, E!F.asked, E!F.views, E!F.link, E!F.alt, disk[E!F.file])
  BY <1>2, <1>5 DEF ElfKnows
<1>19. ElfTables_(place, E!F.debug, E!F.zdebug, disk[E!F.file])
  BY <1>2, <1>5 DEF ElfTables_
<1>20. ElfCall(f, disk)
  <2> DEFINE k == E!F.i
             x == E!F.fd
             v == E!F.views
             b == E!F.debug
  <2>1. k \in Nat \ {0} /\ x \in {E!F.fd, NoFile} /\ ElfLike(f, E!F, place, k, x, v, b)
        /\ ElfKnows(place, k, E!F.asked, v, E!F.link, E!F.alt, disk[E!F.file])
        /\ ElfTables_(place, b, E!F.zdebug, disk[E!F.file])
    BY <1>2, <1>6, <1>18, <1>19 DEF ElfCall
  <2> DEFINE h == E!F
  <2>2. k \in Nat \ {0} /\ x \in {h.fd, NoFile} /\ ElfLike(f, h, place, k, x, v, b) /\ ElfCall(h, disk)
        /\ ElfKnows(place, k, h.asked, v, h.link, h.alt, disk[h.file]) /\ ElfTables_(place, b, h.zdebug, disk[h.file])
        /\ place \in ElfPlaces /\ place # "header" /\ (place \in ElfLate => x = NoFile)
    BY <1>2, <1>5, <2>1
  <2> HIDE DEF k, x, v, b, h
  <2>3. QED
    BY ONLY <2>2, ElfLikeCall
<1>21. ElfFrame(f, disk, new, refers, m)
  BY <1>5, <1>7, <1>17, <1>20 DEF ElfFrame, ElfUncompresses
<1>22. ElfFrame(f, disk, Mine(res'.held, E!F.id), Mine(kept, E!F.id), faults')
  BY <1>1, <1>21 DEF new, refers, m
<1>23. d \in DOMAIN disk /\ disk[d].to = <<>>
  BY DEF E!Exists
<1>24. ElfSource(fd, none)
  BY <1>8 DEF ElfSource, fd
<1>25. res'.open = ElfOpens \cup ({fd} \ {NoFile})
  BY <1>1, <1>13, <1>14, DescriptorIs DEF fd
<1>26. ElfOnly(res', kept) /\ res'.unsure = {}
  BY <1>1, <1>13, <1>14, <1>15
<1>27. stack' = Append(WithLast(stack, f), E!Call(E!NextId, empty, d, fd, none, no, yes, asked_))
  BY <1>1, <1>4 DEF f
<1>28. UNCHANGED <<disk, main, kept, added, left>>
  BY <1>1
<1>29. /\ stack # <<>> /\ f.id = E!F.id /\ f.exe = E!F.exe /\ f.memory = E!F.memory /\ f.fd = E!F.fd
       /\ f.at \in ElfAside /\ no = FALSE
  BY <1>2, <1>7, <1>8
<1>30. (asked_.crc # 0 => disk[d].crc = asked_.crc) /\ ElfFaults /\ ElfInv
  OBVIOUS
<1>31. QED
  BY ONLY <1>22, <1>23, <1>24, <1>25, <1>26, <1>27, <1>28, <1>29, <1>30, ElfCalls

LEMMA ElfSeparate == ElfInv /\ E!Separate => ElfInv'
<1> SUFFICES ASSUME ElfInv, E!Separate PROVE ElfInv'
  OBVIOUS
<1> DEFINE p == "separate"
           place == "debuglink"
           gone == {"buildid", "opd"}
           away == {"buildid", "debuglink", "debugaltlink"}
           none == {}
           asked_ == E!Asked(0, E!None)
           vs == E!F.views \cap away
           valid == E!F.views \cap gone
           rest == E!F.views \ gone
           g == [E!F EXCEPT !.at = place, !.views = @ \ gone]
           s == E!Drop(res, valid)
           d(fault) == IF E!F.buildid = E!None \/ fault # E!None THEN <<>> ELSE E!FoundById(E!F.buildid)
<1>1. PICK fault :
        /\ E!Count(fault)
        /\ \/ d(fault) # <<>> /\ E!Instead(d(fault), vs, asked_, res)
           \/ E!Goes(g) /\ res' = s /\ UNCHANGED <<main, left>>
  BY DEF E!Separate
<1>2. E!Reading(p) /\ UNCHANGED <<disk, kept, added>>
  BY DEF E!Separate
<1>3. d(fault) # <<>> => E!Exists(d(fault))
  BY DEF E!FoundById
<1>4. /\ p = "separate" /\ place = "debuglink" /\ gone = {"buildid", "opd"} /\ none = {}
      /\ away = {"buildid", "debuglink", "debugaltlink"} /\ asked_.crc = 0 /\ p \in ElfPlaces
  BY DEF ElfPlaces, E!Asked
<1> DEFINE b == d(fault)
<1> HIDE DEF p, place, gone, away, none, asked_, vs, valid, rest, g, s, d
<1>5. /\ stack # <<>> /\ E!F.at = p /\ ElfCall(E!F, disk) /\ E!F = [x \in ElfFields |-> E!F[x]]
      /\ ElfHolds(p, E!F.memory, E!F.views, Mine(res.held, E!F.id), Mine(kept, E!F.id), faults)
      /\ ElfKnows(p, E!F.i, E!F.asked, E!F.views, E!F.link, E!F.alt, disk[E!F.file])
      /\ res.open = ElfOpens
      /\ ElfOnly(res, kept) /\ res.unsure = {}
      /\ faults \in Nat
  BY <1>2, ElfAt
<1>6. ElfFaults /\ res.unsure = {}
  BY <1>1, <1>5, ElfCount DEF ElfFaults
<1>7. E!F.views \subseteq {"buildid", "debuglink", "debugaltlink", "gnu_debugdata", "opd"}
  BY <1>4, <1>5 DEF ElfHolds, ElfViews
<1>8. CASE b # <<>> /\ E!Instead(b, vs, asked_, res)
  <2>1. E!Exists(b) /\ (asked_.crc # 0 => disk[b].crc = asked_.crc)
    BY <1>3, <1>4, <1>8
  <2>2. vs \subseteq E!F.views /\ E!F.views \ vs \subseteq {"gnu_debugdata", "opd"}
    BY <1>4, <1>7 DEF vs
  <2>3. /\ \A place_ : ElfSpares(place_, none, faults')
        /\ Mine(res.held, E!F.id) = Mine(res.held, E!F.id) \cup none
    BY <1>4 DEF ElfSpares
  <2>4. p \in {"separate", "debuglink"}
    BY <1>4
  <2> HIDE DEF b
  <2>5. QED
    BY <1>2, <1>5, <1>6, <1>8, <2>1, <2>2, <2>3, <2>4, ElfInstead
<1>9. CASE E!Goes(g) /\ res' = s /\ UNCHANGED <<main, left>>
  <2>1. /\ Here(valid) \subseteq Mine(res.held, E!F.id) /\ "image" \notin valid
    BY <1>4, <1>5 DEF ElfHolds, ElfOwn, Here, valid
  <2>2. /\ ElfOnly(s, kept) /\ s.open = res.open /\ s.unsure = res.unsure
        /\ Mine(s.held, E!F.id) = Mine(res.held, E!F.id) \ Here(valid)
    BY <1>5, <2>1, ElfDropped DEF s
  <2>3. ElfLike(g, E!F, place, E!F.i, E!F.fd, rest, E!F.debug)
    BY <1>5 DEF g, rest, ElfLike, ElfFields
  <2>4. ElfViews(place, rest)
    BY <1>4, <1>7 DEF ElfViews, rest, ElfLate
  <2>5. ElfKnows(place, E!F.i, E!F.asked, rest, E!F.link, E!F.alt, disk[E!F.file])
    BY <1>4, <1>5 DEF ElfKnows, rest
  <2>6. /\ ElfSpares(place, none, faults')
        /\ Mine(s.held, E!F.id) = (Mine(res.held, E!F.id) \ Here(valid)) \cup none
    BY <1>4, <2>2 DEF ElfSpares
  <2>7. /\ p \in {"separate", "debuglink", "altlink", "shared", "minidebug"}
        /\ place \in {"debuglink", "altlink", "minidebug", "extent"}
        /\ valid = E!F.views \cap gone /\ rest = E!F.views \ gone
        /\ s.open = ElfOpens /\ s.unsure = {}
        /\ UNCHANGED <<disk, main, kept, added, left>>
    BY <1>2, <1>4, <1>5, <1>6, <1>9, <2>2 DEF valid, rest
  <2>8. QED
    BY ONLY ElfInv, <1>2, <1>6, <1>9, <2>2, <2>3, <2>4, <2>5, <2>6, <2>7, ElfGives
<1>10. QED
  BY <1>1, <1>8, <1>9

LEMMA ElfDebuglink == ElfInv /\ E!Debuglink => ElfInv'
<1> SUFFICES ASSUME ElfInv, E!Debuglink PROVE ElfInv'
  OBVIOUS
<1> DEFINE p == "debuglink"
           place == "altlink"
           gone == {"debuglink"}
           asked_ == E!Asked(E!F.link.crc, E!None)
           vs == {"debuglink"} \cup (E!F.views \cap {"debugaltlink"})
           valid == E!F.views \cap gone
           rest == E!F.views \ gone
           g == [E!F EXCEPT !.at = place, !.views = @ \ gone]
           r(fault) == E!Searched(res, fault)
           s(fault) == E!Drop(r(fault), valid)
           d(fault) == IF E!F.link.is = E!None THEN <<>> ELSE E!FoundByLink(E!F.path, E!F.link.name, E!F.link.crc, fault)
<1>1. PICK fault :
        /\ E!Count(fault)
        /\ \/ d(fault) # <<>> /\ E!Instead(d(fault), vs, asked_, r(fault))
           \/ E!Goes(g) /\ res' = s(fault) /\ UNCHANGED <<main, left>>
  BY DEF E!Debuglink
<1>2. E!Reading(p) /\ UNCHANGED <<disk, kept, added>>
  BY DEF E!Debuglink
<1>3. /\ asked_.crc = E!F.link.crc
      /\ p = "debuglink" /\ place = "altlink" /\ gone = {"debuglink"} /\ p \in ElfPlaces
  BY DEF ElfPlaces, E!Asked
<1>4. d(fault) # <<>> => E!F.link.is # E!None /\ E!Exists(d(fault)) /\ (asked_.crc # 0 => disk[d(fault)].crc = asked_.crc)
  <2> DEFINE path == E!F.path
             name == E!F.link.name
             crc == E!F.link.crc
             c == E!FoundByLink(path, name, crc, fault)
  <2> HIDE DEF path, name, crc
  <2>1. c # <<>> => E!Exists(c) /\ (crc # 0 => disk[c].crc = crc)
    BY ElfFound
  <2>2. d(fault) # <<>> => E!F.link.is # E!None /\ d(fault) = c
    BY DEF path, name, crc
  <2> HIDE DEF c
  <2>3. crc = asked_.crc
    BY <1>3 DEF crc
  <2>4. QED
    BY <2>1, <2>2, <2>3
<1> DEFINE b == d(fault)
           t == r(fault)
           u == E!Drop(t, valid)
<1>5. \/ b # <<>> /\ E!Instead(b, vs, asked_, t)
      \/ E!Goes(g) /\ res' = u /\ UNCHANGED <<main, left>>
  BY <1>1
<1>6. t = E!Searched(res, fault)
  OBVIOUS
<1> HIDE DEF p, place, gone, asked_, valid, rest, g, s, d, b, r, t, u
<1>7. /\ stack # <<>> /\ E!F.at = p /\ ElfCall(E!F, disk) /\ E!F = [x \in ElfFields |-> E!F[x]]
      /\ ElfHolds(p, E!F.memory, E!F.views, Mine(res.held, E!F.id), Mine(kept, E!F.id), faults)
      /\ ElfKnows(p, E!F.i, E!F.asked, E!F.views, E!F.link, E!F.alt, disk[E!F.file])
      /\ res.open = ElfOpens
      /\ ElfOnly(res, kept) /\ res.unsure = {}
      /\ faults \in Nat
  BY <1>2, ElfAt
<1>8. ElfFaults /\ res.unsure = {}
  BY <1>1, <1>7, ElfCount DEF ElfFaults
<1>9. E!F.views \subseteq {"debuglink", "debugaltlink", "gnu_debugdata"}
      /\ (E!F.link.is # E!None => "debuglink" \in E!F.views)
  BY <1>3, <1>7 DEF ElfHolds, ElfViews, ElfKnows
<1>10. PICK extra : /\ \A place_ : ElfSpares(place_, extra, faults')
                    /\ ElfOnly(t, kept) /\ t.open = res.open /\ t.unsure = res.unsure
                    /\ Mine(t.held, E!F.id) = Mine(res.held, E!F.id) \cup extra
  BY <1>1, <1>6, <1>7, ElfSearched
<1>11. t.open = ElfOpens /\ t.unsure = {}
  BY <1>7, <1>8, <1>10
<1>12. CASE b # <<>> /\ E!Instead(b, vs, asked_, t)
  <2>1. E!Exists(b) /\ (asked_.crc # 0 => disk[b].crc = asked_.crc)
    BY <1>4, <1>12 DEF b
  <2>2. vs \subseteq E!F.views /\ E!F.views \ vs \subseteq {"gnu_debugdata", "opd"}
    BY <1>4, <1>9, <1>12 DEF b
  <2>3. p \in {"separate", "debuglink"}
    BY <1>3
  <2> HIDE DEF vs
  <2>4. QED
    BY <1>2, <1>8, <1>10, <1>11, <1>12, <2>1, <2>2, <2>3, ElfInstead
<1>13. CASE E!Goes(g) /\ res' = u /\ UNCHANGED <<main, left>>
  <2>1. /\ Here(valid) \subseteq Mine(t.held, E!F.id) /\ "image" \notin valid
    BY <1>3, <1>7, <1>10 DEF ElfHolds, ElfOwn, Here, valid
  <2>2. /\ ElfOnly(u, kept) /\ u.open = t.open /\ u.unsure = t.unsure
        /\ Mine(u.held, E!F.id) = Mine(t.held, E!F.id) \ Here(valid)
    BY <1>10, <2>1, ElfDropped DEF u
  <2>3. ElfLike(g, E!F, place, E!F.i, E!F.fd, rest, E!F.debug)
    BY <1>7 DEF g, rest, ElfLike, ElfFields
  <2>4. ElfViews(place, rest)
    BY <1>3, <1>9 DEF ElfViews, rest, ElfLate
  <2>5. ElfKnows(place, E!F.i, E!F.asked, rest, E!F.link, E!F.alt, disk[E!F.file])
    BY <1>3, <1>7 DEF ElfKnows, rest
  <2>6. ElfSpares(place, extra, faults') /\ "debuglink" \notin extra
    BY <1>10 DEF ElfSpares, ElfSpare
  <2>7. Mine(u.held, E!F.id) = (Mine(res.held, E!F.id) \ Here(valid)) \cup extra
    BY <1>3, <1>10, <2>2, <2>6 DEF Here, valid
  <2>8. /\ p \in {"separate", "debuglink", "altlink", "shared", "minidebug"}
        /\ place \in {"debuglink", "altlink", "minidebug", "extent"}
        /\ valid = E!F.views \cap gone /\ rest = E!F.views \ gone
        /\ u.open = ElfOpens /\ u.unsure = {}
        /\ UNCHANGED <<disk, main, kept, added, left>>
    BY <1>2, <1>3, <1>11, <1>13, <2>2 DEF valid, rest
  <2>9. QED
    BY ONLY ElfInv, <1>2, <1>8, <1>13, <2>2, <2>3, <2>4, <2>5, <2>6, <2>7, <2>8, ElfGives
<1>14. QED
  BY <1>5, <1>12, <1>13

\* The call that has waited returns what the one it made has.
LEMMA ElfBack ==
  ASSUME ElfInv, NEW p \in {"instead", "inmemory"}, E!Reading(p), E!Returns(E!F.ret, p, E!Closed(res, E!F.fd)),
         UNCHANGED <<disk, kept, added, faults>>
  PROVE  ElfInv'
<1> DEFINE ret == E!F.ret
           c == E!Closed(res, E!F.fd)
           held == Mine(res.held, E!F.id)
           refers == Mine(kept, E!F.id)
<1>1. /\ stack # <<>> /\ ElfCall(E!F, disk) /\ res.open = ElfOpens
      /\ ElfHolds(p, E!F.memory, E!F.views, held, refers, faults)
      /\ ElfOnly(res, kept) /\ res.unsure = {} /\ faults \in Nat
  BY ElfAt
<1>2. ret \in {0, 1}
  BY <1>1 DEF ElfCall
<1>3. /\ ElfOnly(c, kept) /\ c.held = res.held /\ c.unsure = res.unsure
      /\ c.open = FdsBelow(stack)
  BY <1>1, ElfClosed
<1>4. E!Returns(ret, p, c)
  OBVIOUS
<1> HIDE DEF ret, c, held, refers
<1>5. ElfReturn(ret, p) /\ res' = c
  BY <1>1, <1>2, <1>4, ElfReturns
<1>6. ElfFrom(left', E!F.id, p)
  BY <1>1, <1>5, ElfLeft DEF ElfReturn
<1>7. ElfDone(E!F.id, disk, held, refers, left', faults)
  <2>1. /\ refers \subseteq held
        /\ \A w \in held : w \in ElfOwn(p, E!F.memory, E!F.views) \/ w \in refers \/ ElfSpare(p, w, faults)
        /\ ElfViews(p, E!F.views)
    BY <1>1 DEF ElfHolds
  <2>2. ElfOwn(p, E!F.memory, E!F.views) = {}
    BY <2>1 DEF ElfOwn, ElfViews
  <2>3. ASSUME NEW w \in held \ refers
        PROVE  \/ w \in {"gnu_debugdata", "opd"} /\ p = "instead"
               \/ w \in {"probs", "image"}
               \/ w = "new_buf" /\ faults > 0
    BY <2>1, <2>2 DEF ElfSpare, ElfLate
  <2>4. QED
    BY <1>6, <2>1, <2>3 DEF ElfDone
<1>8. ElfDone(E!F.id, disk, Mine(res'.held, E!F.id), Mine(kept', E!F.id), left', faults')
  BY <1>3, <1>5, <1>7 DEF held, refers
<1>9. res'.open = ElfAfter(ret)
  BY <1>2, <1>3, <1>5 DEF ElfAfter
<1>10. E!RightFile'
  BY DEF ElfInv, ElfLedger, E!RightFile, E!FirstBuildId
<1>11. ElfFaults /\ res'.unsure = {} /\ ElfOnly(res', kept')
  BY <1>1, <1>3, <1>5 DEF ElfFaults
<1>12. QED
  BY <1>1, <1>5, <1>8, <1>9, <1>10, <1>11, ElfReturned

LEMMA ElfAfterInstead == ElfInv /\ E!AfterInstead => ElfInv'
<1> SUFFICES ASSUME ElfInv, E!AfterInstead PROVE ElfInv'
  OBVIOUS
<1> DEFINE p == "instead"
<1>1. /\ p \in {"instead", "inmemory"} /\ E!Reading(p) /\ E!Returns(E!F.ret, p, E!Closed(res, E!F.fd))
      /\ UNCHANGED <<disk, kept, added, faults>>
  BY DEF E!AfterInstead
<1> HIDE DEF p
<1>2. QED
  BY <1>1, ElfBack

LEMMA ElfAfterMemory == ElfInv /\ E!AfterMemory => ElfInv'
<1> SUFFICES ASSUME ElfInv, E!AfterMemory PROVE ElfInv'
  OBVIOUS
<1> DEFINE p == "inmemory"
<1>1. /\ p \in {"instead", "inmemory"} /\ E!Reading(p) /\ E!Returns(E!F.ret, p, E!Closed(res, E!F.fd))
      /\ UNCHANGED <<disk, kept, added, faults>>
  BY DEF E!AfterMemory
<1> HIDE DEF p
<1>2. QED
  BY <1>1, ElfBack

\* The call at work waits for another, with views it keeps.
ElfAsideLike(f, place, vs) ==
  /\ ElfLike(f, E!F, place, E!F.i, E!F.fd, vs, E!F.debug)
  /\ place \in {"shared", "inmemory"}
  /\ ElfViews(place, vs)
  /\ ElfKnows(place, E!F.i, E!F.asked, vs, E!F.link, E!F.alt, disk[E!F.file])

LEMMA ElfAsideFrame ==
  ASSUME ElfInv, NEW p \in {"altlink", "minidebug"}, E!Reading(p), NEW f, NEW place, NEW vs, ElfAsideLike(f, place, vs),
         NEW gone, ElfSwapped(vs, E!F.views, gone, {}), gone \subseteq E!F.views,
         NEW extra, ElfSpares(place, extra, faults'),
         NEW held, ElfSwapped(held, Mine(res.held, E!F.id), Here(gone), ElfGains({}, extra)), ElfFaults
  PROVE  /\ ElfFrame(f, disk, held, Mine(kept, E!F.id), faults')
         /\ f.id = E!F.id /\ f.exe = E!F.exe /\ f.memory = E!F.memory /\ f.fd = E!F.fd
         /\ f.at \in ElfAside
<1> DEFINE old == Mine(res.held, E!F.id)
           refers == Mine(kept, E!F.id)
           n == faults
           m == faults'
           h == E!F
           k == h.i
           x == h.fd
           b == h.debug
           none == {}
           own == h.views
<1>1. /\ ElfLike(f, h, place, k, x, vs, b) /\ place \in {"shared", "inmemory"} /\ ElfViews(place, vs)
      /\ ElfKnows(place, k, h.asked, vs, h.link, h.alt, disk[h.file])
      /\ ElfSwapped(vs, own, gone, none) /\ ElfSwapped(held, old, Here(gone), ElfGains(none, extra)) /\ ElfSpares(place, extra, m)
  BY DEF ElfAsideLike
<1>2. /\ ElfHolds(p, h.memory, own, old, refers, n) /\ ElfCall(h, disk)
      /\ ElfTables_(p, h.debug, h.zdebug, disk[h.file])
  BY ElfAt
<1>3. /\ place \in ElfPlaces /\ place \notin ElfLate /\ place \notin ElfEarly /\ place # "instead" /\ place # "header"
      /\ place \in ElfAside /\ p # "instead" /\ p \notin ElfLate /\ p \in ElfPlaces
  BY <1>1 DEF ElfPlaces, ElfLate, ElfEarly, ElfAside
<1>4. (n > 0 => m > 0) /\ gone \subseteq own
  BY DEF ElfFaults
<1>5. E!F = h /\ k \in Nat \ {0} /\ x \in {h.fd, NoFile}
  BY <1>2 DEF ElfCall
<1>6. ElfTables_(place, b, h.zdebug, disk[h.file])
  BY <1>2, <1>3 DEF ElfTables_
<1> HIDE DEF old, refers, n, m, k, x, b, none, own
<1>7. own \subseteq ElfAllViews
  BY <1>2, <1>3, ElfViewsAre DEF ElfHolds
<1>8. gone \cap refers = {}
  BY <1>2, <1>4, <1>7 DEF ElfHolds, ElfAllViews
<1>9. ElfPasses(p, place, refers, gone, n, m)
  BY <1>3, <1>4, <1>8 DEF ElfPasses
<1>10. ElfHolds(place, E!F.memory, vs, held, refers, m)
  BY <1>1, <1>2, <1>9, ElfHoldsOn
<1> HIDE DEF h
<1>11. ElfCall(f, disk)
  BY ONLY <1>1, <1>2, <1>3, <1>5, <1>6, ElfLikeCall
<1>12. /\ f.at = place /\ f.i = k /\ f.views = vs /\ f.debug = b /\ f.zdebug = h.zdebug /\ f.memory = h.memory
       /\ f.file = h.file /\ f.id = h.id /\ f.exe = h.exe /\ f.fd = x
  BY <1>1 DEF ElfLike
<1>13. ElfHolds(f.at, f.memory, f.views, held, refers, m)
  BY <1>5, <1>10, <1>12
<1>14. ElfFrame(f, disk, held, refers, m)
  BY <1>3, <1>11, <1>12, <1>13 DEF ElfFrame, ElfUncompresses
<1>15. QED
  BY <1>3, <1>5, <1>12, <1>14 DEF x, m, refers

LEMMA ElfAltlink == ElfInv /\ E!Altlink => ElfInv'
<1> SUFFICES ASSUME ElfInv, E!Altlink PROVE ElfInv'
  OBVIOUS
<1> DEFINE p == "altlink"
           place == "minidebug"
           aside == "shared"
           gone == {"debugaltlink"}
           none == {}
           zero == 0
           no == FALSE
           yes == TRUE
           fd == Descriptor(E!NextId)
           asked_ == E!Asked(zero, E!F.alt.id)
           valid == E!F.views \cap gone
           rest == E!F.views \ gone
           g == [E!F EXCEPT !.at = place, !.views = @ \ gone]
           f == [E!F EXCEPT !.at = aside]
           r(fault) == E!Searched(res, fault)
           d(fault) == IF E!F.alt.is = E!None THEN <<>> ELSE E!FoundByLink(E!F.path, E!F.alt.name, zero, fault)
           made(b) == E!Call(E!NextId, E!F.path, b, fd, zero, no, yes, asked_)
<1>1. PICK fault :
        /\ E!Count(fault)
        /\ \/ /\ d(fault) # <<>>
              /\ stack' = Append([stack EXCEPT ![Len(stack)].at = aside], made(d(fault)))
              /\ res' = E!Opened(r(fault), E!Descriptor(E!NextId))
           \/ E!Goes(g) /\ res' = E!Drop(r(fault), valid)
  BY ElfResources DEF E!Altlink
<1>2. E!Reading(p) /\ UNCHANGED <<disk, main, kept, added, left>>
  BY DEF E!Altlink
<1>3. /\ asked_.crc = zero /\ zero = 0 /\ no = FALSE /\ none = {}
      /\ p = "altlink" /\ place = "minidebug" /\ aside = "shared" /\ gone = {"debugaltlink"}
  BY DEF E!Asked
<1>4. d(fault) # <<>> => E!F.alt.is # E!None /\ E!Exists(d(fault))
  <2> DEFINE path == E!F.path
             name == E!F.alt.name
             c == E!FoundByLink(path, name, zero, fault)
  <2> HIDE DEF path, name
  <2>1. c # <<>> => E!Exists(c)
    BY ElfFound
  <2>2. d(fault) # <<>> => E!F.alt.is # E!None /\ d(fault) = c
    BY DEF path, name
  <2> HIDE DEF c
  <2>3. QED
    BY <2>1, <2>2
<1> DEFINE b == d(fault)
           t == r(fault)
           u == E!Drop(t, valid)
           o == Opened(t, fd)
<1>5. \/ b # <<>> /\ stack' = Append([stack EXCEPT ![Len(stack)].at = aside], made(b)) /\ res' = o
      \/ E!Goes(g) /\ res' = u
  BY <1>1, ElfResources
<1>6. t = E!Searched(res, fault)
  OBVIOUS
<1> HIDE DEF p, place, aside, gone, none, zero, no, yes, fd, asked_, valid, rest, g, f, d, b, r, t, u, o
<1>7. /\ stack # <<>> /\ E!F.at = p /\ ElfCall(E!F, disk) /\ E!F = [x \in ElfFields |-> E!F[x]]
      /\ ElfHolds(p, E!F.memory, E!F.views, Mine(res.held, E!F.id), Mine(kept, E!F.id), faults)
      /\ ElfKnows(p, E!F.i, E!F.asked, E!F.views, E!F.link, E!F.alt, disk[E!F.file])
      /\ res.open = ElfOpens
      /\ ElfOnly(res, kept) /\ res.unsure = {}
      /\ faults \in Nat
  BY <1>2, ElfAt
<1>8. ElfFaults /\ res.unsure = {}
  BY <1>1, <1>7, ElfCount DEF ElfFaults
<1>9. E!F.views \subseteq {"debugaltlink", "gnu_debugdata"}
      /\ (E!F.alt.is # E!None => "debugaltlink" \in E!F.views)
  BY <1>3, <1>7 DEF ElfHolds, ElfViews, ElfKnows
<1>10. PICK extra : /\ \A place_ : ElfSpares(place_, extra, faults')
                    /\ ElfOnly(t, kept) /\ t.open = res.open /\ t.unsure = res.unsure
                    /\ Mine(t.held, E!F.id) = Mine(res.held, E!F.id) \cup extra
  BY <1>1, <1>6, <1>7, ElfSearched
<1>11. t.open = ElfOpens /\ t.unsure = {}
  BY <1>7, <1>8, <1>10
<1>12. CASE b # <<>> /\ stack' = Append([stack EXCEPT ![Len(stack)].at = aside], made(b)) /\ res' = o
  <2> DEFINE own == E!F.views
             held == Mine(t.held, E!F.id)
  <2>1. E!F.alt.is # E!None /\ b \in DOMAIN disk /\ disk[b].to = <<>>
    BY <1>4, <1>12 DEF b, E!Exists
  <2>2. ElfAsideLike(f, aside, own)
    <3>1. ElfLike(f, E!F, aside, E!F.i, E!F.fd, own, E!F.debug)
      BY <1>7 DEF ElfLike, ElfFields, f
    <3>2. ElfViews(aside, own)
      BY <1>3, <1>9 DEF ElfViews, ElfLate
    <3>3. ElfKnows(aside, E!F.i, E!F.asked, own, E!F.link, E!F.alt, disk[E!F.file])
      BY <1>3, <1>7, <1>9, <2>1 DEF ElfKnows
    <3>4. QED
      BY <1>3, <3>1, <3>2, <3>3 DEF ElfAsideLike
  <2>3. /\ ElfSwapped(own, E!F.views, none, {}) /\ none \subseteq E!F.views
        /\ ElfSwapped(held, Mine(res.held, E!F.id), Here(none), ElfGains({}, extra)) /\ ElfSpares(aside, extra, faults')
    BY <1>3, <1>10 DEF ElfSwapped, ElfGains, Here
  <2>4. p \in {"altlink", "minidebug"}
    BY <1>3
  <2> HIDE DEF own, held
  <2>5. /\ ElfFrame(f, disk, held, Mine(kept, E!F.id), faults')
        /\ f.id = E!F.id /\ f.exe = E!F.exe /\ f.memory = E!F.memory /\ f.fd = E!F.fd
        /\ f.at \in ElfAside
    BY <1>2, <1>8, <2>2, <2>3, <2>4, ElfAsideFrame
  <2>6. Ledger(o) /\ o.held = t.held /\ o.unsure = t.unsure /\ o.open = t.open \cup {fd}
    <3>1. Ledger(t)
      BY <1>10 DEF ElfOnly
    <3>2. QED
      BY <3>1, OpenedIs DEF o
  <2>7. ElfOnly(o, kept)
    BY <1>10, <2>6 DEF ElfOnly
  <2>8. /\ ElfOnly(res', kept) /\ res'.unsure = {}
        /\ ElfFrame(f, disk, Mine(res'.held, E!F.id), Mine(kept, E!F.id), faults')
    BY <1>11, <1>12, <2>5, <2>6, <2>7 DEF held
  <2>9. ElfSource(fd, zero)
    BY <1>3 DEF ElfSource, fd
  <2>10. res'.open = ElfOpens \cup ({fd} \ {NoFile})
    BY <1>11, <1>12, <2>6, DescriptorIs DEF fd
  <2>11. [stack EXCEPT ![Len(stack)].at = aside] = WithLast(stack, f)
    <3>1. E!F = stack[Len(stack)] /\ Len(stack) \in 1 .. Len(stack) /\ IsStack(stack)
      BY <1>7, ElfTop DEF ElfInv, ElfStack
    <3>2. QED
      BY <3>1 DEF WithLast, f
  <2> DEFINE path == E!F.path
  <2>12. stack' = Append(WithLast(stack, f), E!Call(E!NextId, path, b, fd, zero, no, yes, asked_))
    BY <1>12, <2>11
  <2>13. asked_.crc # 0 => disk[b].crc = asked_.crc
    BY <1>3
  <2>14. ElfInv /\ ElfFaults /\ stack # <<>> /\ no = FALSE
    BY <1>3, <1>7, <1>8
  <2> HIDE DEF path
  <2>15. QED
    BY ONLY <1>2, <2>1, <2>5, <2>8, <2>9, <2>10, <2>12, <2>13, <2>14, ElfCalls
<1>13. CASE E!Goes(g) /\ res' = u
  <2>1. /\ Here(valid) \subseteq Mine(t.held, E!F.id) /\ "image" \notin valid
    BY <1>3, <1>7, <1>10 DEF ElfHolds, ElfOwn, Here, valid
  <2>2. /\ ElfOnly(u, kept) /\ u.open = t.open /\ u.unsure = t.unsure
        /\ Mine(u.held, E!F.id) = Mine(t.held, E!F.id) \ Here(valid)
    BY <1>10, <2>1, ElfDropped DEF u
  <2>3. ElfLike(g, E!F, place, E!F.i, E!F.fd, rest, E!F.debug)
    BY <1>7 DEF g, rest, ElfLike, ElfFields
  <2>4. ElfViews(place, rest)
    BY <1>3, <1>9 DEF ElfViews, rest, ElfLate
  <2>5. ElfKnows(place, E!F.i, E!F.asked, rest, E!F.link, E!F.alt, disk[E!F.file])
    BY <1>3, <1>7 DEF ElfKnows, rest
  <2>6. ElfSpares(place, extra, faults') /\ "debugaltlink" \notin extra
    BY <1>10 DEF ElfSpares, ElfSpare
  <2>7. Mine(u.held, E!F.id) = (Mine(res.held, E!F.id) \ Here(valid)) \cup extra
    BY <1>3, <1>10, <2>2, <2>6 DEF Here, valid
  <2>8. /\ p \in {"separate", "debuglink", "altlink", "shared", "minidebug"}
        /\ place \in {"debuglink", "altlink", "minidebug", "extent"}
        /\ valid = E!F.views \cap gone /\ rest = E!F.views \ gone
        /\ u.open = ElfOpens /\ u.unsure = {}
    BY <1>2, <1>3, <1>11, <1>13, <2>2 DEF valid, rest
  <2>9. QED
    BY ONLY ElfInv, <1>2, <1>8, <1>13, <2>2, <2>3, <2>4, <2>5, <2>6, <2>7, <2>8, ElfGives
<1>14. QED
  BY <1>5, <1>12, <1>13

LEMMA ElfAfterShared == ElfInv /\ E!AfterShared => ElfInv'
<1> SUFFICES ASSUME ElfInv, E!AfterShared PROVE ElfInv'
  OBVIOUS
<1> DEFINE p == "shared"
           place == "minidebug"
           gone == {"debugaltlink"}
           none == {}
           valid == E!F.views \cap gone
           rest == E!F.views \ gone
           g == [E!F EXCEPT !.at = place, !.views = @ \ gone]
           s == E!Drop(res, gone)
<1>1. E!Reading(p) /\ UNCHANGED <<disk, main, kept, added, left>> /\ UNCHANGED faults /\ E!Goes(g) /\ res' = s
  BY DEF E!AfterShared
<1>2. /\ p = "shared" /\ place = "minidebug" /\ gone = {"debugaltlink"} /\ none = {}
  OBVIOUS
<1> HIDE DEF p, place, gone, none, valid, rest, g, s
<1>3. /\ stack # <<>> /\ E!F.at = p /\ ElfCall(E!F, disk) /\ E!F = [x \in ElfFields |-> E!F[x]]
      /\ ElfHolds(p, E!F.memory, E!F.views, Mine(res.held, E!F.id), Mine(kept, E!F.id), faults)
      /\ ElfKnows(p, E!F.i, E!F.asked, E!F.views, E!F.link, E!F.alt, disk[E!F.file])
      /\ res.open = ElfOpens
      /\ ElfOnly(res, kept) /\ res.unsure = {}
      /\ faults \in Nat
  BY <1>1, ElfAt
<1>4. ElfFaults /\ res.unsure = {}
  BY <1>1, <1>3 DEF ElfFaults
<1>5. E!F.views \subseteq {"debugaltlink", "gnu_debugdata"} /\ "debugaltlink" \in E!F.views
  BY <1>2, <1>3 DEF ElfHolds, ElfViews, ElfKnows
<1>6. valid = gone /\ Here(gone) \subseteq Mine(res.held, E!F.id) /\ "image" \notin gone
  BY <1>2, <1>3, <1>5 DEF ElfHolds, ElfOwn, Here, valid
<1>7. /\ ElfOnly(s, kept) /\ s.open = res.open /\ s.unsure = res.unsure
      /\ Mine(s.held, E!F.id) = Mine(res.held, E!F.id) \ Here(gone)
  BY <1>3, <1>6, ElfDropped DEF s
<1>8. ElfLike(g, E!F, place, E!F.i, E!F.fd, rest, E!F.debug)
  BY <1>3 DEF g, rest, ElfLike, ElfFields
<1>9. ElfViews(place, rest)
  BY <1>2, <1>5 DEF ElfViews, rest, ElfLate
<1>10. ElfKnows(place, E!F.i, E!F.asked, rest, E!F.link, E!F.alt, disk[E!F.file])
  BY <1>2, <1>3 DEF ElfKnows, rest
<1>11. /\ ElfSpares(place, none, faults')
       /\ Mine(s.held, E!F.id) = (Mine(res.held, E!F.id) \ Here(valid)) \cup none
  BY <1>2, <1>6, <1>7 DEF ElfSpares
<1>12. /\ p \in {"separate", "debuglink", "altlink", "shared", "minidebug"}
       /\ place \in {"debuglink", "altlink", "minidebug", "extent"}
       /\ valid = E!F.views \cap gone /\ rest = E!F.views \ gone
       /\ s.open = ElfOpens /\ s.unsure = {}
  BY <1>2, <1>3, <1>4, <1>7 DEF valid, rest
<1>13. QED
  BY ONLY ElfInv, <1>1, <1>4, <1>7, <1>8, <1>9, <1>10, <1>11, <1>12, ElfGives

LEMMA ElfMinidebug == ElfInv /\ E!Minidebug => ElfInv'
<1> SUFFICES ASSUME ElfInv, E!Minidebug PROVE ElfInv'
  OBVIOUS
<1> DEFINE p == "minidebug"
           place == "extent"
           aside == "inmemory"
           gone == {"gnu_debugdata"}
           none == {}
           blocks == {"image", "probs"}
           probs == {"probs"}
           zero == 0
           no == FALSE
           asked_ == E!Asked(zero, E!None)
           rest == E!F.views \ gone
           h == [E!F EXCEPT !.at = place]
           g == [[E!F EXCEPT !.views = @ \ gone] EXCEPT !.at = place]
           f == [[E!F EXCEPT !.views = @ \ gone] EXCEPT !.at = aside]
           r == E!Drop(res, gone)
           s == E!Taken(r, E!F.id, blocks)
           t == E!Taken(r, E!F.id, probs)
           made == E!Call(E!NextId, E!F.path, E!File.inside, NoFile, E!F.id, no, no, asked_)
<1>1. E!Reading(p) /\ UNCHANGED <<disk, main, kept, added, left>>
  BY DEF E!Minidebug
<1>2. \/ "gnu_debugdata" \notin E!F.views /\ E!Goes(h) /\ UNCHANGED <<res, faults>>
      \/ /\ "gnu_debugdata" \in E!F.views
         /\ \E fault :
              /\ E!Count(fault)
              /\ \/ stack' = Append([stack EXCEPT ![Len(stack)] = f], made) /\ res' = s
                 \/ E!Goes(g) /\ res' = t
                 \/ E!Goes(g) /\ res' = r
  BY ElfResources DEF E!Minidebug
<1>3. /\ p = "minidebug" /\ place = "extent" /\ aside = "inmemory" /\ gone = {"gnu_debugdata"} /\ none = {}
      /\ blocks = {"image", "probs"} /\ probs = {"probs"} /\ zero = 0 /\ no = FALSE /\ asked_.crc = zero
      /\ p \in {"separate", "debuglink", "altlink", "shared", "minidebug"}
      /\ place \in {"debuglink", "altlink", "minidebug", "extent"} /\ p \in {"altlink", "minidebug"}
  BY DEF E!Asked
<1> HIDE DEF p, place, aside, gone, none, blocks, probs, zero, no, asked_, rest, h, g, f, r, s, t
<1>4. /\ stack # <<>> /\ E!F.at = p /\ ElfCall(E!F, disk) /\ E!F = [x \in ElfFields |-> E!F[x]]
      /\ ElfHolds(p, E!F.memory, E!F.views, Mine(res.held, E!F.id), Mine(kept, E!F.id), faults)
      /\ ElfKnows(p, E!F.i, E!F.asked, E!F.views, E!F.link, E!F.alt, disk[E!F.file])
      /\ res.open = ElfOpens
      /\ ElfOnly(res, kept) /\ res.unsure = {}
      /\ faults \in Nat
  BY <1>1, ElfAt
<1>5. E!F.views \subseteq {"gnu_debugdata"} /\ rest = {}
  BY <1>3, <1>4 DEF ElfHolds, ElfViews, rest
<1>6. ElfViews(place, rest) /\ ElfViews(aside, rest)
  BY <1>3, <1>5 DEF ElfViews, ElfLate
<1>7. /\ ElfKnows(place, E!F.i, E!F.asked, rest, E!F.link, E!F.alt, disk[E!F.file])
      /\ ElfKnows(aside, E!F.i, E!F.asked, rest, E!F.link, E!F.alt, disk[E!F.file])
  BY <1>3, <1>4 DEF ElfKnows, rest
<1>8. CASE "gnu_debugdata" \notin E!F.views /\ E!Goes(h) /\ UNCHANGED <<res, faults>>
  <2>1. ElfFaults /\ res.unsure = {}
    BY <1>4, <1>8 DEF ElfFaults
  <2>2. rest = E!F.views /\ rest = E!F.views \ none /\ none = E!F.views \cap none
    BY <1>3, <1>5, <1>8
  <2>3. ElfLike(h, E!F, place, E!F.i, E!F.fd, rest, E!F.debug)
    BY <1>4, <2>2 DEF h, ElfLike, ElfFields
  <2>4. /\ ElfSpares(place, none, faults')
        /\ Mine(res.held, E!F.id) = (Mine(res.held, E!F.id) \ Here(none)) \cup none
    BY <1>3 DEF ElfSpares, Here
  <2>5. E!Goes(h) /\ res' = res
    BY <1>8
  <2>6. ElfInv /\ E!Reading(p) /\ UNCHANGED <<disk, main, kept, added, left>>
        /\ p \in {"separate", "debuglink", "altlink", "shared", "minidebug"}
        /\ place \in {"debuglink", "altlink", "minidebug", "extent"} /\ ElfOnly(res, kept) /\ res.open = ElfOpens
    BY <1>1, <1>3, <1>4
  <2>7. QED
    BY ONLY <1>6, <1>7, <2>1, <2>2, <2>3, <2>4, <2>5, <2>6, ElfGives
<1>9. ASSUME NEW fault, E!Count(fault), "gnu_debugdata" \in E!F.views,
             \/ stack' = Append([stack EXCEPT ![Len(stack)] = f], made) /\ res' = s
             \/ E!Goes(g) /\ res' = t
             \/ E!Goes(g) /\ res' = r
      PROVE  ElfInv'
  <2>1. ElfFaults /\ res.unsure = {}
    BY <1>4, <1>9, ElfCount DEF ElfFaults
  <2>2. gone = E!F.views \cap gone /\ rest = E!F.views \ gone /\ Here(gone) \subseteq Mine(res.held, E!F.id) /\ "image" \notin gone
    BY <1>3, <1>4, <1>9 DEF ElfHolds, ElfOwn, Here, rest
  <2>3. /\ ElfOnly(r, kept) /\ r.open = res.open /\ r.unsure = res.unsure
        /\ Mine(r.held, E!F.id) = Mine(res.held, E!F.id) \ Here(gone)
    BY <1>4, <2>2, ElfDropped DEF r
  <2>4. ElfLike(g, E!F, place, E!F.i, E!F.fd, rest, E!F.debug)
    BY <1>4 DEF g, rest, ElfLike, ElfFields
  <2>5. ElfInv /\ E!Reading(p) /\ UNCHANGED <<disk, main, kept, added, left>>
        /\ p \in {"separate", "debuglink", "altlink", "shared", "minidebug"}
        /\ place \in {"debuglink", "altlink", "minidebug", "extent"}
    BY <1>1, <1>3
  <2>6. ASSUME NEW q, NEW extra, ElfSpares(place, extra, faults'), ElfOnly(q, kept), q.open = r.open, q.unsure = r.unsure,
               Mine(q.held, E!F.id) = Mine(r.held, E!F.id) \cup extra, E!Goes(g), res' = q
        PROVE  ElfInv'
    <3>1. Mine(q.held, E!F.id) = (Mine(res.held, E!F.id) \ Here(gone)) \cup extra
      BY <2>3, <2>6
    <3>2. q.open = ElfOpens /\ q.unsure = {}
      BY <1>4, <2>1, <2>3, <2>6
    <3>3. QED
      BY ONLY <1>6, <1>7, <2>1, <2>2, <2>4, <2>5, <2>6, <3>1, <3>2, ElfGives
  <2>7. CASE E!Goes(g) /\ res' = r
    <3>1. ElfSpares(place, none, faults') /\ Mine(r.held, E!F.id) = Mine(r.held, E!F.id) \cup none
      BY <1>3 DEF ElfSpares
    <3>2. QED
      BY <2>3, <2>6, <2>7, <3>1
  <2>8. CASE E!Goes(g) /\ res' = t
    <3>1. ElfSpares(place, probs, faults')
      BY <1>3 DEF ElfSpares, ElfSpare
    <3>2. /\ ElfOnly(t, kept) /\ t.open = r.open /\ t.unsure = r.unsure
          /\ Mine(t.held, E!F.id) = Mine(r.held, E!F.id) \cup probs
      BY <2>3, ElfTaken DEF t
    <3>3. QED
      BY <2>6, <2>8, <3>1, <3>2
  <2>9. CASE stack' = Append([stack EXCEPT ![Len(stack)] = f], made) /\ res' = s
    <3> DEFINE held == Mine(s.held, E!F.id)
               file_ == E!File.inside
               path == E!F.path
               nofile == NoFile
               me == E!F.id
    <3>1. /\ ElfOnly(s, kept) /\ s.open = r.open /\ s.unsure = r.unsure
          /\ held = Mine(r.held, E!F.id) \cup blocks
      BY <2>3, ElfTaken DEF s
    <3>2. ElfAsideLike(f, aside, rest)
      <4>1. ElfLike(f, E!F, aside, E!F.i, E!F.fd, rest, E!F.debug)
        BY <1>4 DEF ElfLike, ElfFields, f, rest
      <4>2. QED
        BY <1>3, <1>6, <1>7, <4>1 DEF ElfAsideLike
    <3>3. file_ \in DOMAIN disk /\ disk[file_].to = <<>>
      <4>1. \E j \in DOMAIN disk[E!F.file].sections : disk[E!F.file].sections[j].is = "gnu_debugdata"
        BY <1>4, <1>9 DEF ElfKnows
      <4>2. E!F.file \in DOMAIN disk /\ disk[E!F.file].to = <<>>
        BY <1>4 DEF ElfCall
      <4>3. ElfFile(disk, disk[E!F.file])
        BY <4>2 DEF ElfInv, ElfLedger
      <4>4. QED
        BY <4>1, <4>3 DEF ElfFile, E!File
    <3> HIDE DEF held, file_
    <3>4. /\ ElfSwapped(rest, E!F.views, gone, {}) /\ gone \subseteq E!F.views
          /\ ElfSwapped(held, Mine(res.held, E!F.id), Here(gone), ElfGains({}, blocks)) /\ ElfSpares(aside, blocks, faults')
      BY <1>3, <2>2, <2>3, <3>1 DEF ElfSwapped, ElfGains, Here, ElfSpares, ElfSpare
    <3>5. /\ ElfFrame(f, disk, held, Mine(kept, E!F.id), faults')
          /\ f.id = E!F.id /\ f.exe = E!F.exe /\ f.memory = E!F.memory /\ f.fd = E!F.fd
          /\ f.at \in ElfAside
      BY <1>1, <1>3, <2>1, <3>2, <3>4, ElfAsideFrame
    <3>6. /\ ElfOnly(res', kept) /\ res'.unsure = {}
          /\ ElfFrame(f, disk, Mine(res'.held, E!F.id), Mine(kept, E!F.id), faults')
      BY <2>1, <2>3, <2>9, <3>1, <3>5 DEF held
    <3>7. ElfSource(nofile, me)
      BY <1>3, <2>9, <3>1 DEF ElfSource, held
    <3>8. res'.open = ElfOpens \cup ({nofile} \ {NoFile})
      BY <1>4, <2>3, <2>9, <3>1
    <3>9. [stack EXCEPT ![Len(stack)] = f] = WithLast(stack, f)
      BY DEF WithLast
    <3>10. stack' = Append(WithLast(stack, f), E!Call(E!NextId, path, file_, nofile, me, no, no, asked_))
      BY <2>9, <3>9 DEF file_
    <3>11. asked_.crc # 0 => disk[file_].crc = asked_.crc
      BY <1>3
    <3>12. ElfInv /\ ElfFaults /\ stack # <<>> /\ no = FALSE
      BY <1>3, <1>4, <2>1
    <3> HIDE DEF path, nofile, me
    <3>13. QED
      BY ONLY <2>5, <3>3, <3>5, <3>6, <3>7, <3>8, <3>10, <3>11, <3>12, ElfCalls
  <2>10. QED
    BY <1>9, <2>7, <2>8, <2>9
<1>10. QED
  BY <1>2, <1>8, <1>9

LEMMA ElfSplitIs ==
  \A n \in 1 .. 2 : /\ E!Split(n) = ElfSplit(n) /\ ElfSplit(n) \in {"split1", "split2"}
                    /\ E!Data(n) = ElfData(n) /\ ElfData(n) \in {"data1", "data2"}
<1>1. E!Split(1) = "split1" /\ E!Split(2) = "split2" /\ E!Data(1) = "data1" /\ E!Data(2) = "data2"
  BY DEF E!Split, E!Data
<1>2. \A n \in 1 .. 2 : n = 1 \/ n = 2
  OBVIOUS
<1>3. QED
  BY <1>1, <1>2 DEF ElfSplit, ElfData

\* The sections there are.
ElfAll == DOMAIN E!F.debug \cup DOMAIN E!F.zdebug

ElfParts(ns) == {E!Split(n) : n \in ns}

LEMMA ElfExtent == ElfInv /\ E!Extent => ElfInv'
<1> SUFFICES ASSUME ElfInv, E!Extent PROVE ElfInv'
  OBVIOUS
<1> DEFINE p == "extent"
           place == "zdebug"
           nodebug == "nodebug"
           none == {}
           one == 1
           all == ElfAll
           fd == E!F.fd
           nofile == NoFile
           vs == IF E!File.near THEN {"debug"} ELSE ElfParts(all)
           g == [E!F EXCEPT !.at = place, !.i = one, !.fd = nofile, !.views = @ \cup vs]
           c == E!Closed(res, fd)
           s == E!Get(res, vs)
           t == E!Closed(s, fd)
           cf == E!CloseFails(res, fd)
           tf == E!CloseFails(s, fd)
<1>1. E!Reading(p) /\ UNCHANGED <<disk, kept, added>>
  BY DEF E!Extent
<1>2. PICK fault :
        /\ E!Count(fault)
        /\ \/ E!Returns(one, nodebug, c)
           \/ fd # nofile /\ E!Fails(E!F.views, cf)
           \/ E!Fails(E!F.views, res)
           \/ \E ns \in SUBSET all : E!Fails(E!F.views \cup ElfParts(ns), E!Get(res, ElfParts(ns)))
           \/ fd # nofile /\ E!Fails(E!F.views \cup vs, tf)
           \/ E!Goes(g) /\ res' = t /\ UNCHANGED <<main, left>>
  <2> DEFINE some(fault) == {k \in all : \E m \in all : fault = E!Split(m) /\ k < m}
  <2> DEFINE closing == IF fd = nofile THEN {} ELSE {"close"}
  <2>0. nofile = E!NoFile
    BY ElfResources
  <2>4. \A fault : fault \in closing => fd # nofile
    OBVIOUS
  <2>5. \A points, fault : fault \in E!Faulty(points) => fault = E!None \/ fault \in points
    BY DEF E!Faulty
  <2>1. CASE all = {}
    <3>1. PICK fault \in E!Faulty(closing) :
            /\ E!Count(fault)
            /\ IF fault = E!None THEN E!Returns(one, nodebug, c) ELSE E!Fails(E!F.views, cf)
      BY <2>0, <2>1 DEF E!Extent, ElfAll
    <3> HIDE DEF closing, c, cf
    <3>2. QED
      BY <2>4, <2>5, <3>1
  <2>2. CASE all # {}
    <3> DEFINE parts == IF E!File.near THEN {"debug"} ELSE {E!Split(n) : n \in all}
    <3>0. parts = vs
      BY DEF ElfParts
    <3>1. PICK fault \in E!Faulty(parts \cup closing) :
            /\ E!Count(fault)
            /\ \/ E!Fails(E!F.views, res)
               \/ E!Fails(E!F.views \cup ElfParts(some(fault)), E!Get(res, ElfParts(some(fault))))
               \/ fault = "close" /\ fault \notin parts /\ E!Fails(E!F.views \cup vs, tf)
               \/ E!Goes(g) /\ res' = t /\ UNCHANGED <<main, left>>
      BY <2>0, <2>2 DEF E!Extent, ElfAll, ElfParts
    <3>2. some(fault) \in SUBSET all /\ "close" # E!None
      BY DEF E!None
    <3> HIDE DEF some, vs, t, tf, g, all, parts, closing
    <3>3. fault = "close" /\ fault \notin parts => fd # nofile
      BY <2>4, <2>5, <3>1, <3>2
    <3>4. QED
      BY <3>1, <3>2, <3>3
  <2>3. QED
    BY <2>1, <2>2
<1>3. /\ p = "extent" /\ place = "zdebug" /\ none = {} /\ one = 1 /\ nofile = NoFile
      /\ p \notin ElfAside /\ p \notin ElfLate /\ p # "instead" /\ p # "header" /\ p # "scan" /\ p \notin ElfEarly
      /\ place \in ElfPlaces /\ place \in ElfLate /\ place \notin ElfEarly
      /\ place # "header" /\ place # "instead" /\ place # "scan" /\ p \in ElfPlaces
  BY DEF ElfAside, ElfLate, ElfPlaces, ElfEarly
<1> HIDE DEF p, place, nodebug, none, one, all, fd, nofile, vs, g, c, s, t, cf, tf
<1> DEFINE held == Mine(res.held, E!F.id)
           refers == Mine(kept, E!F.id)
<1>4. /\ stack # <<>> /\ E!F.at = p /\ ElfCall(E!F, disk) /\ E!F = [x \in ElfFields |-> E!F[x]]
      /\ ElfHolds(p, E!F.memory, E!F.views, held, refers, faults)
      /\ ElfKnows(p, E!F.i, E!F.asked, E!F.views, E!F.link, E!F.alt, disk[E!F.file])
      /\ ElfTables_(p, E!F.debug, E!F.zdebug, disk[E!F.file])
      /\ res.open = ElfOpens
      /\ ElfOnly(res, kept) /\ res.unsure = {}
      /\ faults \in Nat
  BY <1>1, ElfAt
<1>5. ElfFaults /\ res.unsure = {} /\ (fault # E!None => faults' > 0)
  BY <1>2, <1>4, ElfCount DEF ElfFaults
<1>6. /\ E!F.views = {} /\ refers \subseteq held /\ refers \subseteq {"sdata", "symbols", "strtab", "image"}
      /\ \A w \in held : w \in refers \/ w \in {"probs", "image"} \/ (w = "new_buf" /\ faults > 0)
  BY <1>3, <1>4 DEF ElfHolds, ElfViews, ElfOwn, ElfSpare
<1>7. ElfTable(E!F.zdebug, ElfPacked, disk[E!F.file]) /\ ElfTable(E!F.debug, {"plain"} \cup ElfPacked, disk[E!F.file])
  BY <1>3, <1>4 DEF ElfTables_
<1>8. all \subseteq 1 .. 2
  BY <1>7 DEF ElfTable, all, ElfAll
<1>9. \A ns \in SUBSET all : ElfParts(ns) \subseteq {"split1", "split2"}
  BY <1>8, ElfSplitIs DEF ElfParts
<1>10. vs \subseteq {"debug", "split1", "split2"}
  BY <1>9 DEF vs
<1>11. /\ ElfOnly(c, kept) /\ c.held = res.held /\ c.unsure = {}
       /\ c.open = FdsBelow(stack)
  BY <1>4, ElfClosed DEF c, fd
<1>12. /\ ElfOnly(s, kept) /\ s.open = res.open /\ s.unsure = res.unsure
       /\ Mine(s.held, E!F.id) = held \cup Here(vs)
  BY <1>4, ElfGot DEF s
<1>13. /\ ElfOnly(t, kept) /\ t.held = s.held /\ t.unsure = {}
       /\ t.open = FdsBelow(stack)
  BY <1>4, <1>12, ElfClosed DEF t, fd
<1>21. fd # nofile =>
         /\ ElfOnly(cf, kept) /\ cf.held = res.held /\ cf.unsure = {fd} /\ cf.open = FdsBelow(stack)
         /\ ElfOnly(tf, kept) /\ tf.held = s.held /\ tf.unsure = {fd} /\ tf.open = FdsBelow(stack)
  BY <1>3, <1>4, <1>12, ElfCloseFails DEF cf, tf, fd
<1>14. none \subseteq {"table"} /\ "image" \notin none /\ none \cap Mine(kept, E!F.id) = {}
  BY <1>3
<1>15. CASE E!Returns(one, nodebug, c)
  <2>1. ElfReturn(one, nodebug) /\ res' = c
    BY <1>3, <1>4, <1>15, ElfReturns
  <2>2. ElfDone(E!F.id, disk, held, refers, left', faults')
    BY <1>5, <1>6 DEF ElfDone, ElfFaults
  <2>3. ElfDone(E!F.id, disk, Mine(res'.held, E!F.id), Mine(kept', E!F.id), left', faults') /\ ElfOnly(res', kept')
    BY <1>1, <1>11, <2>1, <2>2
  <2>4. res'.open = ElfAfter(one) /\ res'.unsure = {}
    BY <1>3, <1>5, <1>11, <2>1 DEF ElfAfter
  <2>5. E!RightFile'
    BY <1>1 DEF ElfInv, ElfLedger, E!RightFile, E!FirstBuildId
  <2>6. QED
    BY <1>1, <1>4, <1>5, <2>1, <2>3, <2>4, <2>5, ElfReturned
<1>16. CASE fd # nofile /\ E!Fails(E!F.views, cf)
  <2> DEFINE valid == E!F.views
  <2>1. valid = E!F.views \cup none /\ E!Fails(valid, cf)
    BY <1>3, <1>16
  <2> HIDE DEF valid
  <2>2. Mine(cf.held, E!F.id) = (Mine(res.held, E!F.id) \cup Here(none)) \cup none
    BY <1>3, <1>16, <1>21 DEF Here
  <2>3. ElfOnly(cf, kept) /\ E!F.fd # NoFile /\ cf.open = FdsBelow(stack) /\ cf.unsure = {E!F.fd}
    BY <1>3, <1>16, <1>21 DEF fd
  <2>4. QED
    BY <1>1, <1>3, <1>5, <1>14, <2>1, <2>2, <2>3, ElfFailsWith
<1>17. CASE E!Fails(E!F.views, res)
  <2> DEFINE valid == E!F.views
  <2>1. valid = E!F.views \cup none /\ E!Fails(valid, res)
    BY <1>3, <1>17
  <2> HIDE DEF valid
  <2>2. Mine(res.held, E!F.id) = (Mine(res.held, E!F.id) \cup Here(none)) \cup none
    BY <1>3 DEF Here
  <2>3. QED
    BY <1>1, <1>3, <1>4, <1>5, <1>14, <2>1, <2>2, ElfFailsWith
<1>18. ASSUME NEW ns \in SUBSET all, E!Fails(E!F.views \cup ElfParts(ns), E!Get(res, ElfParts(ns))) PROVE ElfInv'
  <2> DEFINE before == ElfParts(ns)
             valid == E!F.views \cup before
             u == E!Get(res, before)
  <2>1. valid = E!F.views \cup before /\ E!Fails(valid, u)
    BY <1>18
  <2>2. before \subseteq {"split1", "split2"}
    BY <1>9
  <2> HIDE DEF valid, before
  <2>3. /\ ElfOnly(u, kept) /\ u.open = res.open /\ u.unsure = res.unsure
        /\ Mine(u.held, E!F.id) = Mine(res.held, E!F.id) \cup Here(before)
    BY <1>4, ElfGot
  <2> HIDE DEF u
  <2>4. Mine(u.held, E!F.id) = (Mine(res.held, E!F.id) \cup Here(before)) \cup none
    BY <1>3, <2>3
  <2>5. u.open = ElfOpens /\ u.unsure = {}
    BY <1>4, <1>5, <2>3
  <2>6. before \cap Mine(kept, E!F.id) = {} /\ "image" \notin before
    BY <1>6, <2>2
  <2>7. QED
    BY <1>1, <1>3, <1>5, <1>14, <2>1, <2>3, <2>4, <2>5, <2>6, ElfFailsWith
<1>19. CASE fd # nofile /\ E!Fails(E!F.views \cup vs, tf)
  <2> DEFINE valid == E!F.views \cup vs
  <2>1. valid = E!F.views \cup vs /\ E!Fails(valid, tf)
    BY <1>19
  <2> HIDE DEF valid
  <2>2. Mine(tf.held, E!F.id) = (Mine(res.held, E!F.id) \cup Here(vs)) \cup none
    BY <1>3, <1>12, <1>19, <1>21
  <2>3. ElfOnly(tf, kept) /\ E!F.fd # NoFile /\ tf.open = FdsBelow(stack) /\ tf.unsure = {E!F.fd}
    BY <1>3, <1>19, <1>21 DEF fd
  <2>4. vs \cap Mine(kept, E!F.id) = {} /\ "image" \notin vs
    BY <1>6, <1>10
  <2>5. QED
    BY <1>1, <1>3, <1>5, <1>14, <2>1, <2>2, <2>3, <2>4, ElfFailsWith
<1>20. CASE E!Goes(g) /\ res' = t /\ UNCHANGED <<main, left>>
  <2> DEFINE debug == E!F.debug
             new == Mine(t.held, E!F.id)
  <2>1. ElfLike(g, E!F, place, one, nofile, vs, debug)
    BY <1>4, <1>6 DEF g, ElfLike, ElfFields
  <2>2. one \in Nat \ {0} /\ nofile \in {E!F.fd, NoFile} /\ (place \in ElfLate => nofile = NoFile)
    BY <1>3
  <2>3. ElfKnows(place, one, E!F.asked, vs, E!F.link, E!F.alt, disk[E!F.file])
    BY <1>3, <1>4, <1>10 DEF ElfKnows
  <2>4. ElfTables_(place, debug, E!F.zdebug, disk[E!F.file])
    BY <1>3, <1>4 DEF ElfTables_
  <2>5. new = held \cup Here(vs)
    BY <1>12, <1>13
  <2> HIDE DEF new
  <2>6. ElfHolds(place, E!F.memory, vs, new, refers, faults')
    <3>1. ElfViews(place, vs)
      BY <1>3, <1>10 DEF ElfViews, ElfLate
    <3>2. ElfOwn(place, E!F.memory, vs) = Here(vs)
      BY <1>3 DEF ElfOwn, Here
    <3>3. \A w \in held : w \in refers \/ ElfSpare(place, w, faults')
      BY <1>3, <1>5, <1>6 DEF ElfSpare, ElfFaults
    <3>4. QED
      BY <1>3, <1>6, <2>5, <3>1, <3>2, <3>3 DEF ElfHolds
  <2>7. ElfUncompresses(place, one, vs, debug, E!F.zdebug, disk[E!F.file].near, disk[E!F.file], new)
    <3> DEFINE zdebug == E!F.zdebug
    <3>1. \A n \in DOMAIN debug : n \in 1 .. 2 /\ debug[n].as \in {"plain"} \cup ElfPacked
      BY <1>7 DEF ElfTable
    <3>2. \A n \in DOMAIN debug : debug[n].as # "data"
      BY <3>1 DEF ElfPacked
    <3>3. ElfWhole(debug, zdebug) = all
      BY <3>1 DEF ElfWhole, all, ElfAll
    <3>4. vs = IF disk[E!F.file].near THEN {"debug"} ELSE {ElfSplit(n) : n \in ElfWhole(debug, zdebug)}
      <4>1. ElfParts(all) = {ElfSplit(n) : n \in all}
        BY <1>8, ElfSplitIs DEF ElfParts
      <4>2. QED
        BY <3>3, <4>1 DEF vs, E!File
    <3>5. "data1" \notin new /\ "data2" \notin new
      BY <1>6, <1>10, <2>5 DEF Here
    <3>6. \A n \in 1 .. 2 : ElfData(n) \notin new
      BY <3>5, ElfSplitIs
    <3>7. \A n \in DOMAIN zdebug \ DOMAIN debug : place = "zdebug" /\ one <= n
      BY <1>3, <1>8 DEF all, ElfAll
    <3> HIDE DEF debug, zdebug
    <3>8. QED
      BY <1>3, <3>2, <3>4, <3>6, <3>7 DEF ElfUncompresses, zdebug
  <2>8. /\ ElfHolds(place, E!F.memory, vs, Mine(res'.held, E!F.id), Mine(kept', E!F.id), faults')
        /\ ElfUncompresses(place, one, vs, debug, E!F.zdebug, disk[E!F.file].near, disk[E!F.file],
                           Mine(res'.held, E!F.id))
    BY <1>1, <1>20, <2>6, <2>7 DEF new
  <2>9. /\ UNCHANGED <<disk, main, added, left>> /\ ElfFaults /\ res'.unsure = {}
        /\ ElfOnly(res', kept') /\ res'.open = FdsBelow(stack) \cup ({nofile} \ {NoFile})
    BY <1>1, <1>3, <1>5, <1>12, <1>13, <1>20
  <2> HIDE DEF debug
  <2>10. place \in ElfPlaces /\ place # "header" /\ E!Goes(g) /\ stack # <<>>
    BY <1>3, <1>4, <1>20
  <2>11. QED
    BY ONLY ElfInv, <2>1, <2>2, <2>3, <2>4, <2>8, <2>9, <2>10, ElfAdvance
<1> QED
  BY <1>2, <1>15, <1>16, <1>17, <1>18, <1>19, <1>20

\* Nothing is uncompressed.
LEMMA ElfTurn ==
  ASSUME ElfInv, NEW p \in {"zdebug", "gabi"}, E!Reading(p), NEW place \in {"zdebug", "gabi", "dwarf"},
         NEW k \in Nat \ {0}, NEW g, E!Goes(g), ElfLike(g, E!F, place, k, E!F.fd, E!F.views, E!F.debug),
         ElfUncompresses(place, k, E!F.views, E!F.debug, E!F.zdebug, disk[E!F.file].near, disk[E!F.file],
                         Mine(res.held, E!F.id)),
         UNCHANGED <<disk, main, res, kept, added, left, faults>>
  PROVE  ElfInv'
<1> DEFINE held == Mine(res.held, E!F.id)
           refers == Mine(kept, E!F.id)
           vs == E!F.views
           debug == E!F.debug
           fd == E!F.fd
           n == faults
<1>1. /\ stack # <<>> /\ E!F.at = p /\ ElfCall(E!F, disk)
      /\ ElfHolds(p, E!F.memory, vs, held, refers, n)
      /\ ElfKnows(p, E!F.i, E!F.asked, vs, E!F.link, E!F.alt, disk[E!F.file])
      /\ ElfTables_(p, debug, E!F.zdebug, disk[E!F.file])
      /\ res.open = ElfOpens
      /\ ElfOnly(res, kept) /\ res.unsure = {}
      /\ faults \in Nat
  BY ElfAt
<1>2. /\ p \in ElfLate /\ place \in ElfLate /\ p \notin ElfEarly /\ place \notin ElfEarly /\ p # "instead" /\ place # "instead"
      /\ place \in ElfPlaces /\ place # "header" /\ place # "scan" /\ place # "shared" /\ p # "header" /\ p # "scan"
      /\ place \notin {"header", "scan", "symbols", "separate", "debuglink", "altlink", "shared", "inmemory", "extent",
                       "instead", "minidebug"}
      /\ p \notin {"header", "scan", "symbols", "separate", "debuglink", "altlink", "shared"}
  BY DEF ElfLate, ElfEarly, ElfPlaces
<1>3. /\ ElfLike(g, E!F, place, k, fd, vs, debug) /\ fd \in {E!F.fd, NoFile}
      /\ (place \in ElfLate => fd = NoFile)
  BY <1>1, <1>2 DEF ElfCall
<1>4. ElfUncompresses(place, k, vs, debug, E!F.zdebug, disk[E!F.file].near, disk[E!F.file], Mine(res'.held, E!F.id))
  OBVIOUS
<1> HIDE DEF held, refers, vs, debug, fd, n
<1>5. ElfKnows(place, k, E!F.asked, vs, E!F.link, E!F.alt, disk[E!F.file])
  BY <1>1, <1>2 DEF ElfKnows
<1>6. ElfTables_(place, debug, E!F.zdebug, disk[E!F.file])
  BY <1>1, <1>2 DEF ElfTables_
<1>7. ElfHolds(place, E!F.memory, vs, held, refers, n)
  <2>1. ElfOwn(place, E!F.memory, vs) = ElfOwn(p, E!F.memory, vs)
    BY <1>2 DEF ElfOwn
  <2>2. \A w : ElfSpare(p, w, n) => ElfSpare(place, w, n)
    BY <1>2 DEF ElfSpare
  <2>3. ElfViews(p, vs) => ElfViews(place, vs)
    BY <1>2 DEF ElfViews
  <2>4. QED
    BY <1>1, <1>2, <2>1, <2>2, <2>3 DEF ElfHolds
<1>8. ElfHolds(place, E!F.memory, vs, Mine(res'.held, E!F.id), Mine(kept', E!F.id), faults')
  BY <1>7 DEF held, refers, n
<1>9. /\ ElfFaults /\ res'.unsure = {} /\ ElfOnly(res', kept')
      /\ res'.open = FdsBelow(stack) \cup ({fd} \ {NoFile})
  BY <1>1 DEF ElfFaults, ElfOpens, fd
<1>10. UNCHANGED <<disk, main, added, left>> /\ place \in ElfPlaces /\ place # "header" /\ stack # <<>>
  BY <1>1, <1>2
<1>11. ElfInv /\ E!Goes(g) /\ k \in Nat \ {0}
  OBVIOUS
<1>12. QED
  BY ONLY <1>3, <1>4, <1>5, <1>6, <1>8, <1>9, <1>10, <1>11, ElfAdvance

\* A section that is compressed, of the file of the call at work.
ElfPackedSection(s, f) ==
  /\ s = [x \in {"is", "n", "as"} |-> s[x]] /\ s.n \in 1 .. 2 /\ s.as \in ElfPacked
  /\ s.as = "corrupt" => ElfCorrupt(f, s.n)

\* It is the next.
ElfNextIs(s, p, k, debug, zdebug) ==
  /\ s.n = k
  /\ p = "zdebug" => k \in DOMAIN zdebug /\ k \notin DOMAIN debug
  /\ p = "gabi" => k \in DOMAIN debug /\ debug[k].as \in ElfPacked

LEMMA ElfWithPlain ==
  ASSUME NEW s, NEW f, ElfPackedSection(s, f), NEW debug, NEW some, {"data", "gone"} \subseteq some, ElfTable(debug, some, f)
  PROVE  LET t == E!With(debug, E!Plain(s))
         IN  /\ ElfTable(t, some, f) /\ DOMAIN t = DOMAIN debug \cup {s.n}
             /\ t[s.n].as = IF s.as = "zlib" THEN "data" ELSE "gone"
             /\ \A n \in DOMAIN debug : n # s.n => t[n] = debug[n]
<1> DEFINE q == E!Plain(s)
           t == E!With(debug, q)
           as_ == IF s.as = "zlib" THEN "data" ELSE "gone"
<1>1. q = [x \in {"is", "n", "as"} |-> q[x]] /\ q.n = s.n /\ q.as = as_
  BY DEF E!Plain, ElfPackedSection
<1>2. as_ \in {"data", "gone"} /\ s.n \in 1 .. 2 /\ as_ # "corrupt"
  BY DEF ElfPackedSection
<1> HIDE DEF q, as_
<1>3. t = [n \in DOMAIN debug \cup {s.n} |-> IF n = s.n THEN q ELSE debug[n]]
  BY <1>1 DEF E!With
<1> HIDE DEF t
<1>4. /\ DOMAIN t = DOMAIN debug \cup {s.n} /\ t[s.n] = q
      /\ \A n \in DOMAIN debug : n # s.n => t[n] = debug[n]
  BY <1>3
<1>5. ElfTable(t, some, f)
  <2>1. ASSUME NEW n \in DOMAIN t
        PROVE  /\ n \in 1 .. 2 /\ t[n] = [x \in {"is", "n", "as"} |-> t[n][x]] /\ t[n].n = n
               /\ t[n].as \in some /\ (t[n].as = "corrupt" => ElfCorrupt(f, n))
    <3>1. CASE n = s.n
      BY <1>1, <1>2, <1>4, <3>1
    <3>2. CASE n # s.n
      <4>1. n \in DOMAIN debug /\ t[n] = debug[n]
        BY <1>4, <2>1, <3>2
      <4>2. QED
        BY <4>1 DEF ElfTable
    <3>3. QED
      BY <3>1, <3>2
  <2>2. QED
    BY ONLY <2>1 DEF ElfTable
<1>6. QED
  BY <1>1, <1>4, <1>5 DEF t, q, as_

\* What is held once the section is uncompressed.
ElfUnpacked(s, held, views_) ==
  ((held \cup {"table"}) \cup (IF s.as = "header" THEN {} ELSE {ElfData(s.n)})) \ Here(views_ \cap {ElfSplit(s.n)})

LEMMA ElfUnpacks ==
  ASSUME NEW p \in {"zdebug", "gabi"}, NEW s, NEW f, ElfPackedSection(s, f), NEW k \in 1 .. 2, NEW debug, NEW zdebug,
         ElfNextIs(s, p, k, debug, zdebug), ElfTable(debug, {"plain", "data", "gone"} \cup ElfPacked, f),
         ElfTable(zdebug, ElfPacked, f),
         NEW views_, NEW near, NEW held, ElfUncompresses(p, k, views_, debug, zdebug, near, f, held)
  PROVE  ElfUncompresses(p, k + 1, views_ \ {ElfSplit(s.n)}, E!With(debug, E!Plain(s)), zdebug, near, f,
                         ElfUnpacked(s, held, views_))
<1> DEFINE t == E!With(debug, E!Plain(s))
           vs == views_ \ {ElfSplit(s.n)}
           new == ElfUnpacked(s, held, views_)
           some == {"plain", "data", "gone"} \cup ElfPacked
<1>1. /\ DOMAIN t = DOMAIN debug \cup {s.n}
      /\ t[s.n].as = IF s.as = "zlib" THEN "data" ELSE "gone"
      /\ \A n \in DOMAIN debug : n # s.n => t[n] = debug[n]
  <2>1. {"data", "gone"} \subseteq some /\ ElfTable(debug, some, f) /\ ElfPackedSection(s, f)
    OBVIOUS
  <2> HIDE DEF some, t
  <2>2. LET u == E!With(debug, E!Plain(s))
        IN  /\ ElfTable(u, some, f) /\ DOMAIN u = DOMAIN debug \cup {s.n}
            /\ u[s.n].as = IF s.as = "zlib" THEN "data" ELSE "gone"
            /\ \A n \in DOMAIN debug : n # s.n => u[n] = debug[n]
    BY ONLY <2>1, ElfWithPlain
  <2>3. QED
    BY <2>2 DEF t
<1> HIDE DEF t
<1>2. /\ s.n = k /\ s.as \in ElfPacked /\ (s.as = "corrupt" => ElfCorrupt(f, k))
      /\ p = "zdebug" => k \in DOMAIN zdebug /\ k \notin DOMAIN debug
      /\ p = "gabi" => k \in DOMAIN debug /\ debug[k].as \in ElfPacked
  BY DEF ElfPackedSection, ElfNextIs
<1>3. p \in ElfLate /\ (p = "zdebug" \/ p = "gabi")
  BY DEF ElfLate
<1>4. /\ views_ = IF near THEN {"debug"} ELSE {ElfSplit(n) : n \in ElfWhole(debug, zdebug)}
      /\ \A n \in 1 .. 2 : ElfData(n) \in held =>
           (n \in DOMAIN debug /\ debug[n].as = "data") \/ ElfCorrupt(f, n)
      /\ \A n \in DOMAIN debug : debug[n].as = "data" => ElfData(n) \in held
      /\ \A n \in DOMAIN zdebug \ DOMAIN debug : p = "zdebug" /\ k <= n
      /\ \A n \in DOMAIN debug :
           (p = "gabi" /\ n < k) \/ p = "dwarf" => debug[n].as \in {"plain", "data", "gone"}
  BY <1>3 DEF ElfUncompresses
<1>5. \A n \in DOMAIN debug \cup DOMAIN zdebug : n \in 1 .. 2
  BY DEF ElfTable
<1>6. vs = IF near THEN {"debug"} ELSE {ElfSplit(n) : n \in ElfWhole(t, zdebug)}
  <2>1. CASE near
    BY <1>2, <1>4, <2>1, ElfSplitIs
  <2>2. CASE ~near
    <3>1. ElfWhole(t, zdebug) = ElfWhole(debug, zdebug) \ {k}
      <4>1. \A n : n \in ElfWhole(t, zdebug) <=> \/ n \in DOMAIN t /\ t[n].as \in {"plain"} \cup ElfPacked
                                                \/ n \in DOMAIN zdebug \ DOMAIN t
        BY DEF ElfWhole
      <4>2. \A n : n \in ElfWhole(debug, zdebug) <=> \/ n \in DOMAIN debug /\ debug[n].as \in {"plain"} \cup ElfPacked
                                                     \/ n \in DOMAIN zdebug \ DOMAIN debug
        BY DEF ElfWhole
      <4>3. t[k].as \notin {"plain"} \cup ElfPacked
        BY <1>1, <1>2 DEF ElfPacked
      <4>4. QED
        BY <1>1, <1>2, <4>1, <4>2, <4>3
    <3>2. \A n \in ElfWhole(debug, zdebug) : n \in 1 .. 2
      BY <1>5 DEF ElfWhole
    <3>3. \A n \in 1 .. 2 : ElfSplit(n) = ElfSplit(k) => n = k
      BY DEF ElfSplit
    <3>4. views_ = {ElfSplit(n) : n \in ElfWhole(debug, zdebug)}
      BY <1>4, <2>2
    <3>5. QED
      BY <1>2, <2>2, <3>1, <3>2, <3>3, <3>4
  <2>3. QED
    BY <2>1, <2>2
<1>7. \A w : w \in new <=> /\ w \in held \/ w = "table" \/ (s.as # "header" /\ w = ElfData(k))
                           /\ w \notin Here(views_ \cap {ElfSplit(k)})
  BY <1>2 DEF ElfUnpacked
<1>8. \A n \in 1 .. 2 : ElfData(n) \notin Here(views_ \cap {ElfSplit(k)}) /\ ElfData(n) # "table" /\ (ElfData(n) = ElfData(k) => n = k)
  BY DEF Here, ElfSplit, ElfData
<1> HIDE DEF new, vs
<1>9. ASSUME NEW n \in 1 .. 2, ElfData(n) \in new PROVE (n \in DOMAIN t /\ t[n].as = "data") \/ ElfCorrupt(f, n)
  <2>1. CASE ElfData(n) \in held
    BY <1>1, <1>2, <1>3, <1>4, <2>1 DEF ElfPacked
  <2>2. CASE n = k /\ s.as # "header"
    BY <1>1, <1>2, <2>2 DEF ElfPacked
  <2>3. QED
    BY <1>7, <1>8, <1>9, <2>1, <2>2
<1>10. ASSUME NEW n \in DOMAIN t, t[n].as = "data" PROVE ElfData(n) \in new
  <2>1. n \in 1 .. 2
    BY <1>1, <1>2, <1>5
  <2>2. CASE n = k
    BY <1>1, <1>2, <1>7, <1>8, <1>10, <2>2
  <2>3. CASE n # k
    BY <1>1, <1>2, <1>4, <1>7, <1>8, <1>10, <2>1, <2>3
  <2>4. QED
    BY <2>2, <2>3
<1>11. \A n \in DOMAIN zdebug \ DOMAIN t : p = "zdebug" /\ k + 1 <= n
  <2>1. ASSUME NEW n \in DOMAIN zdebug \ DOMAIN t PROVE p = "zdebug" /\ k + 1 <= n
    <3>1. n \in 1 .. 2 /\ n # k /\ p = "zdebug" /\ k <= n
      BY <1>1, <1>2, <1>4, <1>5
    <3>2. QED
      BY <3>1
  <2>2. QED
    BY <2>1
<1>12. ASSUME NEW n \in DOMAIN t, (p = "gabi" /\ n < k + 1) \/ p = "dwarf" PROVE t[n].as \in {"plain", "data", "gone"}
  <2>1. CASE n = k
    BY <1>1, <1>2, <2>1
  <2>2. CASE n # k
    <3>1. n \in 1 .. 2 /\ n \in DOMAIN debug /\ t[n] = debug[n] /\ p = "gabi" /\ n < k + 1
      BY <1>1, <1>2, <1>3, <1>5, <1>12, <2>2
    <3>2. n < k
      BY <2>2, <3>1
    <3>3. QED
      BY <1>4, <3>1, <3>2
  <2>3. QED
    BY <2>1, <2>2
<1>13. ElfUncompresses(p, k + 1, vs, t, zdebug, near, f, new)
  BY ONLY <1>6, <1>9, <1>10, <1>11, <1>12 DEF ElfUncompresses
<1>14. QED
  BY <1>13 DEF vs, t, new

LEMMA ElfUncompress ==
  ASSUME ElfInv, NEW p \in {"zdebug", "gabi"}, E!Reading(p), NEW s, ElfPackedSection(s, disk[E!F.file]),
         ElfNextIs(s, p, E!F.i, E!F.debug, E!F.zdebug), E!Uncompress(s), UNCHANGED <<disk, kept, added>>
  PROVE  ElfInv'
<1> DEFINE table == {"table"}
           none == {}
           split == {ElfSplit(s.n)}
           valid == split \cap E!F.views
           vs == E!F.views \ split
           data == IF s.as = "header" THEN none ELSE {ElfData(s.n)}
           k == E!F.i + 1
           debug == E!With(E!F.debug, E!Plain(s))
           fd == E!F.fd
           g == [E!F EXCEPT !.i = k, !.views = vs, !.debug = debug]
           r == E!Taken(res, E!F.id, table)
           q == E!Taken(r, E!F.id, data)
           t == E!Drop(q, valid)
           held == Mine(res.held, E!F.id)
           refers == Mine(kept, E!F.id)
           new == Mine(t.held, E!F.id)
           f == disk[E!F.file]
<1>1. s.n \in 1 .. 2 /\ E!F.i = s.n
  BY DEF ElfPackedSection, ElfNextIs
<1>2. PICK fault : /\ E!Count(fault)
                   /\ \/ E!Fails(E!F.views, res)
                      \/ E!Fails(E!F.views, r)
                      \/ E!Goes(g) /\ res' = t /\ UNCHANGED <<main, left>>
  <2>1. E!Split(s.n) = ElfSplit(s.n) /\ E!Data(s.n) = ElfData(s.n)
    BY <1>1, ElfSplitIs
  <2>2. \E fault :
          LET view == {E!Split(s.n)} \cap E!F.views
              r_   == IF fault = "table" THEN res ELSE E!Taken(res, E!F.id, {"table"})
          IN  /\ E!Count(fault)
              /\ IF fault # E!None THEN E!Fails(E!F.views, r_)
                 ELSE /\ E!Goes([E!F EXCEPT !.i = @ + 1, !.views = @ \ view, !.debug = E!With(@, E!Plain(s))])
                      /\ res' = E!Drop(E!Taken(r_, E!F.id, IF s.as = "header" THEN {} ELSE {E!Data(s.n)}), view)
                      /\ UNCHANGED <<main, left>>
    BY DEF E!Uncompress
  <2>3. E!F.views \ (split \cap E!F.views) = vs /\ E!None # "table"
    BY DEF E!None
  <2>4. \A fault : (fault = E!None) => (IF fault = "table" THEN res ELSE r) = r
    BY <2>3
  <2>5. QED
    BY <2>1, <2>2, <2>3, <2>4
<1>3. table = {"table"} /\ none = {} /\ k = E!F.i + 1 /\ fd = E!F.fd
  OBVIOUS
<1> HIDE DEF table, none, split, valid, vs, data, k, debug, fd, g, r, q, t, held, refers, new, f
<1>4. /\ stack # <<>> /\ E!F.at = p /\ ElfCall(E!F, disk) /\ E!F = [x \in ElfFields |-> E!F[x]]
      /\ ElfHolds(p, E!F.memory, E!F.views, held, refers, faults)
      /\ ElfUncompresses(p, E!F.i, E!F.views, E!F.debug, E!F.zdebug, f.near, f, held)
      /\ ElfKnows(p, E!F.i, E!F.asked, E!F.views, E!F.link, E!F.alt, f)
      /\ ElfTables_(p, E!F.debug, E!F.zdebug, f)
      /\ res.open = ElfOpens
      /\ ElfOnly(res, kept) /\ res.unsure = {}
      /\ faults \in Nat
  BY ElfAt DEF held, refers, f
<1>5. ElfFaults /\ res.unsure = {}
  BY <1>2, <1>4, ElfCount DEF ElfFaults
<1>6. /\ p \in ElfLate /\ p \notin ElfEarly /\ p # "instead" /\ p \in ElfPlaces /\ p # "header" /\ p # "scan" /\ p \notin ElfAside
      /\ p \notin {"header", "scan", "symbols", "separate", "debuglink", "altlink", "shared", "inmemory", "extent",
                   "instead", "minidebug"}
  BY DEF ElfLate, ElfEarly, ElfPlaces, ElfAside
<1>7. none \subseteq {"table"} /\ "image" \notin none /\ none \cap Mine(kept, E!F.id) = {} /\ table \subseteq {"table"}
  BY <1>3
<1>8. /\ ElfOnly(r, kept) /\ r.open = res.open /\ r.unsure = res.unsure
      /\ Mine(r.held, E!F.id) = held \cup table
  BY <1>4, ElfTaken DEF r, held
<1>9. CASE E!Fails(E!F.views, res)
  <2> DEFINE all == E!F.views
  <2>1. all = E!F.views \cup none /\ E!Fails(all, res)
    BY <1>3, <1>9
  <2> HIDE DEF all
  <2>2. Mine(res.held, E!F.id) = (Mine(res.held, E!F.id) \cup Here(none)) \cup none
    BY <1>3 DEF Here
  <2>3. QED
    BY <1>4, <1>5, <1>6, <1>7, <2>1, <2>2, ElfFailsWith
<1>10. CASE E!Fails(E!F.views, r)
  <2> DEFINE all == E!F.views
  <2>1. all = E!F.views \cup none /\ E!Fails(all, r)
    BY <1>3, <1>10
  <2> HIDE DEF all
  <2>2. Mine(r.held, E!F.id) = (Mine(res.held, E!F.id) \cup Here(none)) \cup table
    BY <1>3, <1>8 DEF Here, held
  <2>3. r.open = ElfOpens /\ r.unsure = {}
    BY <1>4, <1>5, <1>8
  <2>4. QED
    BY <1>5, <1>6, <1>7, <1>8, <2>1, <2>2, <2>3, ElfFailsWith
<1>11. CASE E!Goes(g) /\ res' = t /\ UNCHANGED <<main, left>>
  <2>1. /\ ElfOnly(q, kept) /\ q.open = res.open /\ q.unsure = res.unsure
        /\ Mine(q.held, E!F.id) = (held \cup table) \cup data
    BY <1>8, ElfTaken DEF q
  <2>2. /\ ElfViews(p, E!F.views) /\ refers \subseteq held /\ refers \subseteq {"sdata", "symbols", "strtab", "image"}
        /\ ElfOwn(p, E!F.memory, E!F.views) = Here(E!F.views) /\ Here(E!F.views) \subseteq held
        /\ \A w \in held : w \in Here(E!F.views) \/ w \in refers \/ ElfSpare(p, w, faults)
    BY <1>4, <1>6 DEF ElfHolds, ElfOwn, Here
  <2>3. E!F.views \subseteq {"debug", "split1", "split2"}
    BY <1>6, <2>2 DEF ElfViews
  <2>4. Here(valid) \subseteq Mine(q.held, E!F.id) /\ "image" \notin valid
    BY <2>1, <2>2, <2>3 DEF Here, valid
  <2>5. /\ ElfOnly(t, kept) /\ t.open = q.open /\ t.unsure = q.unsure
        /\ Mine(t.held, E!F.id) = Mine(q.held, E!F.id) \ Here(valid)
    BY <2>1, <2>4, ElfDropped DEF t
  <2>6. new = ((held \cup table) \cup data) \ Here(valid)
    BY <2>1, <2>5 DEF new
  <2>7. new = ElfUnpacked(s, held, E!F.views)
    <3>1. valid = E!F.views \cap split
      BY DEF valid
    <3>2. QED
      BY <1>3, <2>6, <3>1 DEF ElfUnpacked, data, split
  <2>8. /\ ElfTable(E!F.debug, {"plain", "data", "gone"} \cup ElfPacked, f) /\ ElfTable(E!F.zdebug, ElfPacked, f)
        /\ ElfPackedSection(s, f) /\ E!F.i \in 1 .. 2
    BY <1>1, <1>4 DEF ElfTables_, f
  <2>9. ElfUncompresses(p, k, vs, debug, E!F.zdebug, f.near, f, new)
    <3> DEFINE i == E!F.i
               zd == E!F.zdebug
               dd == E!F.debug
               vv == E!F.views
               near == f.near
    <3>1. /\ i \in 1 .. 2 /\ p \in {"zdebug", "gabi"} /\ ElfPackedSection(s, f) /\ ElfNextIs(s, p, i, dd, zd)
          /\ ElfTable(dd, {"plain", "data", "gone"} \cup ElfPacked, f) /\ ElfTable(zd, ElfPacked, f)
          /\ ElfUncompresses(p, i, vv, dd, zd, near, f, held)
      BY <1>4, <2>8
    <3>2. /\ k = i + 1 /\ vs = vv \ {ElfSplit(s.n)} /\ debug = E!With(dd, E!Plain(s)) /\ new = ElfUnpacked(s, held, vv)
      BY <1>3, <2>7 DEF vs, split, debug
    <3> HIDE DEF i, zd, dd, vv, near
    <3>3. ElfUncompresses(p, i + 1, vv \ {ElfSplit(s.n)}, E!With(dd, E!Plain(s)), zd, near, f, ElfUnpacked(s, held, vv))
      BY ONLY <3>1, ElfUnpacks
    <3>4. ElfUncompresses(p, k, vs, debug, zd, near, f, new)
      BY <3>2, <3>3
    <3>5. QED
      BY <3>4 DEF zd, near
  <2>10. ElfTables_(p, debug, E!F.zdebug, f)
    <3> DEFINE some == {"plain", "data", "gone"} \cup ElfPacked
               dd == E!F.debug
    <3>1. {"data", "gone"} \subseteq some /\ ElfTable(dd, some, f) /\ ElfPackedSection(s, f)
      BY <2>8
    <3> HIDE DEF some, dd
    <3>2. LET u == E!With(dd, E!Plain(s))
          IN  /\ ElfTable(u, some, f) /\ DOMAIN u = DOMAIN dd \cup {s.n}
              /\ u[s.n].as = IF s.as = "zlib" THEN "data" ELSE "gone"
              /\ \A n \in DOMAIN dd : n # s.n => u[n] = dd[n]
      BY ONLY <3>1, ElfWithPlain
    <3>3. ElfTable(debug, some, f)
      BY <3>2 DEF debug, dd
    <3>4. QED
      BY <1>6, <2>8, <3>3 DEF ElfTables_, some
  <2>11. ElfKnows(p, k, E!F.asked, vs, E!F.link, E!F.alt, f)
    BY <1>4, <1>6 DEF ElfKnows, vs
  <2>12. ElfHolds(p, E!F.memory, vs, new, refers, faults')
    <3>1. ElfViews(p, vs)
      BY <1>6, <2>3 DEF ElfViews, vs
    <3>2. Here(vs) = Here(E!F.views) \ Here(valid) /\ Here(valid) \subseteq split /\ Here(valid) \subseteq E!F.views
      BY DEF Here, vs, valid
    <3>3. ElfOwn(p, E!F.memory, vs) = Here(vs)
      BY <1>6 DEF ElfOwn, Here
    <3>4. \A w : ElfSpare(p, w, faults) => ElfSpare(p, w, faults')
      BY <1>5 DEF ElfSpare, ElfFaults
    <3>5. \A w \in table \cup data : ElfSpare(p, w, faults')
      <4>1. data \subseteq {"data1", "data2"}
        BY <1>1, <1>3, ElfSplitIs DEF data
      <4>2. QED
        BY <1>3, <1>6, <4>1 DEF ElfSpare
    <3>6. refers \cap Here(valid) = {}
      BY <2>2, <2>3, <3>2
    <3>7. /\ refers \subseteq new /\ Here(vs) \subseteq new
          /\ \A w \in new : w \in Here(vs) \/ w \in refers \/ ElfSpare(p, w, faults')
      BY <2>2, <2>6, <3>2, <3>4, <3>5, <3>6
    <3>8. QED
      BY <1>6, <2>2, <3>1, <3>3, <3>7 DEF ElfHolds
  <2>13. ElfLike(g, E!F, p, k, fd, vs, debug)
    BY <1>3, <1>4 DEF g, ElfLike, ElfFields
  <2>14. k \in Nat \ {0} /\ fd \in {E!F.fd, NoFile} /\ (p \in ElfLate => fd = NoFile) /\ p \in ElfPlaces /\ p # "header" /\ stack # <<>> /\ E!Goes(g)
    BY <1>3, <1>4, <1>6, <1>11, <2>8 DEF ElfCall
  <2>15. /\ UNCHANGED <<disk, main, added, left>> /\ ElfFaults /\ res'.unsure = {}
         /\ ElfOnly(res', kept') /\ res'.open = FdsBelow(stack) \cup ({fd} \ {NoFile})
    BY <1>3, <1>4, <1>5, <1>11, <2>1, <2>5 DEF ElfOpens
  <2>16. /\ ElfHolds(p, E!F.memory, vs, Mine(res'.held, E!F.id), Mine(kept', E!F.id), faults')
         /\ ElfUncompresses(p, k, vs, debug, E!F.zdebug, disk[E!F.file].near, disk[E!F.file], Mine(res'.held, E!F.id))
         /\ ElfKnows(p, k, E!F.asked, vs, E!F.link, E!F.alt, disk[E!F.file])
         /\ ElfTables_(p, debug, E!F.zdebug, disk[E!F.file])
    BY <1>11, <2>9, <2>10, <2>11, <2>12 DEF new, refers, f
  <2>17. ElfInv
    OBVIOUS
  <2>18. QED
    BY ONLY <2>13, <2>14, <2>15, <2>16, <2>17, ElfAdvance
<1>12. QED
  BY <1>2, <1>9, <1>10, <1>11

LEMMA ElfUncompressOld == ElfInv /\ E!UncompressOld => ElfInv'
<1> SUFFICES ASSUME ElfInv, E!UncompressOld PROVE ElfInv'
  OBVIOUS
<1> DEFINE p == "zdebug"
           q == "gabi"
           i == E!F.i
           next == i + 1
           one == 1
           f == disk[E!F.file]
           s == E!F.zdebug[i]
           g == [E!F EXCEPT !.i = next]
           h == [E!F EXCEPT !.at = q, !.i = one]
<1>1. E!Reading(p) /\ UNCHANGED <<disk, kept, added>>
  BY DEF E!UncompressOld
<1>2. \/ i \in DOMAIN E!F.zdebug /\ i \notin DOMAIN E!F.debug /\ E!Uncompress(s)
      \/ /\ ~(i \in DOMAIN E!F.zdebug /\ i \notin DOMAIN E!F.debug) /\ i \in 1 .. 2
         /\ E!Goes(g) /\ UNCHANGED <<main, res, left, faults>>
      \/ /\ ~(i \in DOMAIN E!F.zdebug /\ i \notin DOMAIN E!F.debug) /\ i \notin 1 .. 2
         /\ E!Goes(h) /\ UNCHANGED <<main, res, left, faults>>
  BY DEF E!UncompressOld, E!Old, E!Sections
<1>3. p = "zdebug" /\ q = "gabi" /\ p \in ElfLate /\ q \in ElfLate /\ one = 1
  BY DEF ElfLate
<1> HIDE DEF p, q, next, one, s, g, h
<1>4. /\ E!F.at = p /\ E!F = [x \in ElfFields |-> E!F[x]] /\ ElfCall(E!F, disk)
      /\ ElfUncompresses(p, i, E!F.views, E!F.debug, E!F.zdebug, f.near, f, Mine(res.held, E!F.id))
      /\ ElfTables_(p, E!F.debug, E!F.zdebug, f)
  BY <1>1, ElfAt
<1>5. ElfTable(E!F.zdebug, ElfPacked, f) /\ i \in Nat \ {0}
  BY <1>4 DEF ElfTables_, ElfCall
<1>6. \A n \in DOMAIN E!F.zdebug : n \in 1 .. 2
  BY <1>5 DEF ElfTable
<1>7. /\ \A n \in DOMAIN E!F.zdebug \ DOMAIN E!F.debug : i <= n
      /\ E!F.views = IF f.near THEN {"debug"} ELSE {ElfSplit(n) : n \in ElfWhole(E!F.debug, E!F.zdebug)}
      /\ \A n \in 1 .. 2 : ElfData(n) \in Mine(res.held, E!F.id) =>
           (n \in DOMAIN E!F.debug /\ E!F.debug[n].as = "data") \/ ElfCorrupt(f, n)
      /\ \A n \in DOMAIN E!F.debug : E!F.debug[n].as = "data" => ElfData(n) \in Mine(res.held, E!F.id)
  BY <1>3, <1>4 DEF ElfUncompresses
<1>8. CASE i \in DOMAIN E!F.zdebug /\ i \notin DOMAIN E!F.debug /\ E!Uncompress(s)
  <2>1. ElfPackedSection(s, f)
    BY <1>5, <1>8 DEF ElfTable, ElfPackedSection, s
  <2>2. ElfNextIs(s, p, i, E!F.debug, E!F.zdebug)
    BY <1>3, <1>5, <1>8 DEF ElfTable, ElfNextIs, s
  <2>3. p \in {"zdebug", "gabi"}
    BY <1>3
  <2>4. QED
    BY <1>1, <1>8, <2>1, <2>2, <2>3, ElfUncompress
<1>9. CASE /\ ~(i \in DOMAIN E!F.zdebug /\ i \notin DOMAIN E!F.debug) /\ i \in 1 .. 2
           /\ E!Goes(g) /\ UNCHANGED <<main, res, left, faults>>
  <2>1. next \in Nat \ {0} /\ ElfLike(g, E!F, p, next, E!F.fd, E!F.views, E!F.debug)
    BY <1>4, <1>5 DEF next, g, ElfLike, ElfFields
  <2>2. \A n \in DOMAIN E!F.zdebug \ DOMAIN E!F.debug : next <= n
    <3>1. ASSUME NEW n \in DOMAIN E!F.zdebug \ DOMAIN E!F.debug PROVE i <= n /\ n # i /\ n \in 1 .. 2
      BY <1>6, <1>7, <1>9
    <3>2. QED
      BY <1>5, <3>1 DEF next
  <2>3. ElfUncompresses(p, next, E!F.views, E!F.debug, E!F.zdebug, f.near, f, Mine(res.held, E!F.id))
    BY <1>3, <1>7, <2>2 DEF ElfUncompresses
  <2>4. p \in {"zdebug", "gabi"} /\ p \in {"zdebug", "gabi", "dwarf"}
    BY <1>3
  <2>5. QED
    BY <1>1, <1>9, <2>1, <2>3, <2>4, ElfTurn
<1>10. CASE /\ ~(i \in DOMAIN E!F.zdebug /\ i \notin DOMAIN E!F.debug) /\ i \notin 1 .. 2
            /\ E!Goes(h) /\ UNCHANGED <<main, res, left, faults>>
  <2>1. one \in Nat \ {0} /\ ElfLike(h, E!F, q, one, E!F.fd, E!F.views, E!F.debug)
    <3> DEFINE a == E!F
    <3>1. a = [x \in ElfFields |-> a[x]]
      BY <1>4
    <3>2. h = [a EXCEPT !.at = q, !.i = one]
      BY DEF h
    <3> HIDE DEF a
    <3>3. ElfLike(h, a, q, one, a.fd, a.views, a.debug)
      BY ONLY <3>1, <3>2 DEF ElfLike, ElfFields
    <3>4. QED
      BY <1>3, <3>3 DEF a
  <2>2. DOMAIN E!F.zdebug \ DOMAIN E!F.debug = {}
    <3>1. ASSUME NEW n \in DOMAIN E!F.zdebug \ DOMAIN E!F.debug PROVE FALSE
      <4>1. i <= n /\ n \in 1 .. 2 /\ i \notin 1 .. 2
        BY <1>6, <1>7, <1>10
      <4>2. QED
        BY <1>5, <4>1
    <3>2. QED
      BY <3>1
  <2>3. \A n \in DOMAIN E!F.debug : ~(n < one)
    <3>1. \A n \in DOMAIN E!F.debug : n \in 1 .. 2
      BY <1>4 DEF ElfTables_, ElfTable
    <3>2. QED
      BY <1>3, <3>1
  <2>4. ElfUncompresses(q, one, E!F.views, E!F.debug, E!F.zdebug, f.near, f, Mine(res.held, E!F.id))
    BY <1>3, <1>7, <2>2, <2>3 DEF ElfUncompresses
  <2>5. p \in {"zdebug", "gabi"} /\ q \in {"zdebug", "gabi", "dwarf"}
    BY <1>3
  <2>6. QED
    BY <1>1, <1>10, <2>1, <2>4, <2>5, ElfTurn
<1>11. QED
  BY <1>2, <1>8, <1>9, <1>10

LEMMA ElfUncompressNew == ElfInv /\ E!UncompressNew => ElfInv'
<1> SUFFICES ASSUME ElfInv, E!UncompressNew PROVE ElfInv'
  OBVIOUS
<1> DEFINE p == "gabi"
           q == "dwarf"
           i == E!F.i
           next == i + 1
           f == disk[E!F.file]
           s == E!F.debug[i]
           packed == i \in DOMAIN E!F.debug /\ E!F.debug[i].as \in ElfPacked
           g == [E!F EXCEPT !.i = next]
           h == [E!F EXCEPT !.at = q]
<1>1. E!Reading(p) /\ UNCHANGED <<disk, kept, added>>
  BY DEF E!UncompressNew
<1>2. \/ packed /\ E!Uncompress(s)
      \/ ~packed /\ i \in 1 .. 2 /\ E!Goes(g) /\ UNCHANGED <<main, res, left, faults>>
      \/ ~packed /\ i \notin 1 .. 2 /\ E!Goes(h) /\ UNCHANGED <<main, res, left, faults>>
  BY DEF E!UncompressNew, ElfPacked, E!Sections
<1>3. p = "gabi" /\ q = "dwarf" /\ p \in ElfLate /\ q \in ElfLate
  BY DEF ElfLate
<1> HIDE DEF p, q, next, s, g, h
<1>4. /\ E!F.at = p /\ E!F = [x \in ElfFields |-> E!F[x]] /\ ElfCall(E!F, disk)
      /\ ElfUncompresses(p, i, E!F.views, E!F.debug, E!F.zdebug, f.near, f, Mine(res.held, E!F.id))
      /\ ElfTables_(p, E!F.debug, E!F.zdebug, f)
  BY <1>1, ElfAt
<1>5. ElfTable(E!F.debug, {"plain", "data", "gone"} \cup ElfPacked, f) /\ i \in Nat \ {0}
  BY <1>4 DEF ElfTables_, ElfCall
<1>6. \A n \in DOMAIN E!F.debug : n \in 1 .. 2 /\ E!F.debug[n].as \in {"plain", "data", "gone"} \cup ElfPacked
  BY <1>5 DEF ElfTable
<1>7. /\ \A n \in DOMAIN E!F.zdebug \ DOMAIN E!F.debug : FALSE
      /\ E!F.views = IF f.near THEN {"debug"} ELSE {ElfSplit(n) : n \in ElfWhole(E!F.debug, E!F.zdebug)}
      /\ \A n \in 1 .. 2 : ElfData(n) \in Mine(res.held, E!F.id) =>
           (n \in DOMAIN E!F.debug /\ E!F.debug[n].as = "data") \/ ElfCorrupt(f, n)
      /\ \A n \in DOMAIN E!F.debug : E!F.debug[n].as = "data" => ElfData(n) \in Mine(res.held, E!F.id)
      /\ \A n \in DOMAIN E!F.debug : n < i => E!F.debug[n].as \in {"plain", "data", "gone"}
  BY <1>3, <1>4 DEF ElfUncompresses
<1>8. CASE packed /\ E!Uncompress(s)
  <2>1. ElfPackedSection(s, f)
    BY <1>5, <1>8 DEF ElfTable, ElfPackedSection, s
  <2>2. ElfNextIs(s, p, i, E!F.debug, E!F.zdebug)
    BY <1>3, <1>5, <1>8 DEF ElfTable, ElfNextIs, s
  <2>3. p \in {"zdebug", "gabi"}
    BY <1>3
  <2>4. QED
    BY <1>1, <1>8, <2>1, <2>2, <2>3, ElfUncompress
<1>9. CASE ~packed /\ i \in 1 .. 2 /\ E!Goes(g) /\ UNCHANGED <<main, res, left, faults>>
  <2>1. next \in Nat \ {0} /\ ElfLike(g, E!F, p, next, E!F.fd, E!F.views, E!F.debug)
    BY <1>4, <1>5 DEF next, g, ElfLike, ElfFields
  <2>2. \A n \in DOMAIN E!F.debug : n < next => E!F.debug[n].as \in {"plain", "data", "gone"}
    <3>1. ASSUME NEW n \in DOMAIN E!F.debug, n < next PROVE E!F.debug[n].as \in {"plain", "data", "gone"}
      <4>1. n \in 1 .. 2
        BY <1>6
      <4>2. n < i \/ n = i
        BY <1>5, <3>1, <4>1 DEF next
      <4>3. QED
        BY <1>6, <1>7, <1>9, <4>2
    <3>2. QED
      BY <3>1
  <2>3. ElfUncompresses(p, next, E!F.views, E!F.debug, E!F.zdebug, f.near, f, Mine(res.held, E!F.id))
    BY <1>3, <1>7, <2>2 DEF ElfUncompresses
  <2>4. p \in {"zdebug", "gabi"} /\ p \in {"zdebug", "gabi", "dwarf"}
    BY <1>3
  <2>5. QED
    BY <1>1, <1>9, <2>1, <2>3, <2>4, ElfTurn
<1>10. CASE ~packed /\ i \notin 1 .. 2 /\ E!Goes(h) /\ UNCHANGED <<main, res, left, faults>>
  <2>1. i \in Nat \ {0} /\ ElfLike(h, E!F, q, i, E!F.fd, E!F.views, E!F.debug)
    BY <1>4, <1>5 DEF h, ElfLike, ElfFields
  <2>2. \A n \in DOMAIN E!F.debug : E!F.debug[n].as \in {"plain", "data", "gone"}
    <3>1. \A n \in 1 .. 2 : n < i
      BY <1>5, <1>10
    <3>2. QED
      BY <1>6, <1>7, <3>1
  <2>3. ElfUncompresses(q, i, E!F.views, E!F.debug, E!F.zdebug, f.near, f, Mine(res.held, E!F.id))
    BY <1>3, <1>7, <2>2 DEF ElfUncompresses
  <2>4. p \in {"zdebug", "gabi"} /\ q \in {"zdebug", "gabi", "dwarf"}
    BY <1>3
  <2> HIDE DEF i
  <2>5. QED
    BY <1>1, <1>10, <2>1, <2>3, <2>4, ElfTurn
<1>11. QED
  BY <1>2, <1>8, <1>9, <1>10

-----------------------------------------------------------------------------
\* The debug sections when all are uncompressed: those in views are those that are plain, and the
\* views of them are those that are used.
ElfNear == disk[E!F.file].near

ElfUsing(near, inview, views_, unused, more) ==
  /\ inview \subseteq 1 .. 2
  /\ views_ = IF near THEN {"debug"} ELSE {ElfSplit(n) : n \in inview}
  /\ unused = {"debug"} \cap views_ \cap (IF inview = {} THEN {"debug"} ELSE {})
  /\ more = IF near THEN (IF inview = {} THEN {} ELSE {"debug"}) ELSE {E!Split(n) : n \in inview}

LEMMA ElfUsed ==
  ASSUME NEW near, NEW inview, NEW views_, NEW unused, NEW more,
         ElfUsing(near, inview, views_, unused, more)
  PROVE  more = views_ \ unused /\ unused \subseteq views_
<1>0. inview \subseteq 1 .. 2
  BY DEF ElfUsing
<1>1. {E!Split(n) : n \in inview} = {ElfSplit(n) : n \in inview}
  BY <1>0, ElfSplitIs
<1>2. "debug" \notin {ElfSplit(n) : n \in inview}
  BY <1>0, ElfSplitIs
<1> DEFINE splits == {ElfSplit(n) : n \in inview}
<1>3. /\ views_ = IF near THEN {"debug"} ELSE splits
      /\ unused = {"debug"} \cap views_ \cap (IF inview = {} THEN {"debug"} ELSE {})
      /\ more = IF near THEN (IF inview = {} THEN {} ELSE {"debug"}) ELSE splits
      /\ "debug" \notin splits
  BY <1>1, <1>2 DEF ElfUsing
<1> HIDE DEF splits
<1>4. QED
  BY <1>3

\* What the call is left with, where the debug sections are used.
ElfAllData == {E!Data(n) : n \in {k \in DOMAIN E!F.debug : E!F.debug[k].as = "data"}}

LEMMA ElfInViews ==
  ASSUME ElfInv, E!Reading("dwarf")
  PROVE  /\ E!InView \subseteq 1 .. 2
         /\ E!F.views = IF ElfNear THEN {"debug"} ELSE {ElfSplit(n) : n \in E!InView}
         /\ ElfAllData \subseteq Mine(res.held, E!F.id) /\ ElfAllData \subseteq {"data1", "data2"}
         /\ \A w \in Mine(res.held, E!F.id) \ ElfAllData : w \in {"data1", "data2"} =>
              \E n \in 1 .. 2 : w = ElfData(n) /\ ElfCorrupt(disk[E!F.file], n)
<1> DEFINE p == "dwarf"
           debug == E!F.debug
           zdebug == E!F.zdebug
           held == Mine(res.held, E!F.id)
           f == disk[E!F.file]
<1>0. p = "dwarf" /\ p \in ElfLate /\ E!Reading(p)
  BY DEF ElfLate
<1> HIDE DEF p
<1>1. /\ ElfUncompresses(p, E!F.i, E!F.views, debug, zdebug, ElfNear, f, held)
      /\ ElfTables_(p, debug, zdebug, f)
  BY <1>0, ElfAt DEF ElfNear
<1>2. /\ E!F.views = IF ElfNear THEN {"debug"} ELSE {ElfSplit(n) : n \in ElfWhole(debug, zdebug)}
      /\ \A n \in 1 .. 2 : ElfData(n) \in held => (n \in DOMAIN debug /\ debug[n].as = "data") \/ ElfCorrupt(f, n)
      /\ \A n \in DOMAIN debug : debug[n].as = "data" => ElfData(n) \in held
      /\ DOMAIN zdebug \ DOMAIN debug = {}
      /\ \A n \in DOMAIN debug : debug[n].as \in {"plain", "data", "gone"}
  <2> HIDE DEF debug, zdebug, held, f
  <2>1. QED
    BY <1>0, <1>1 DEF ElfUncompresses
<1>3. DOMAIN debug \subseteq 1 .. 2
  BY <1>1 DEF ElfTables_, ElfTable
<1>4. E!InView = {n \in DOMAIN debug : debug[n].as = "plain"}
  BY DEF E!InView
<1>5. ElfAllData = {E!Data(n) : n \in {k \in DOMAIN debug : debug[k].as = "data"}}
  BY DEF ElfAllData
<1> HIDE DEF debug, zdebug, held, f
<1>6. ElfWhole(debug, zdebug) = E!InView
  <2>1. \A n \in DOMAIN debug : debug[n].as \in {"plain"} \cup ElfPacked <=> debug[n].as = "plain"
    BY <1>2 DEF ElfPacked
  <2>2. QED
    BY <1>2, <1>4, <2>1 DEF ElfWhole
<1>7. ElfAllData = {ElfData(n) : n \in {k \in DOMAIN debug : debug[k].as = "data"}}
  BY <1>3, <1>5, ElfSplitIs
<1>8. ElfAllData \subseteq held
  BY <1>2, <1>7
<1>9. ElfAllData \subseteq {"data1", "data2"}
  BY <1>3, <1>7, ElfSplitIs
<1>10. ASSUME NEW w \in held \ ElfAllData, w \in {"data1", "data2"}
       PROVE  \E n \in 1 .. 2 : w = ElfData(n) /\ ElfCorrupt(f, n)
  <2>1. PICK n \in 1 .. 2 : w = ElfData(n)
    <3>1. 1 \in 1 .. 2 /\ 2 \in 1 .. 2 /\ ElfData(1) = "data1" /\ ElfData(2) = "data2"
      BY DEF ElfData
    <3>2. QED
      BY <1>10, <3>1
  <2>2. ElfCorrupt(f, n)
    BY <1>2, <1>7, <1>10, <2>1
  <2>3. QED
    BY <2>1, <2>2
<1>11. E!InView \subseteq 1 .. 2
  BY <1>3, <1>4
<1>12. QED
  BY <1>2, <1>6, <1>8, <1>9, <1>10, <1>11 DEF held, f

\* The debug information that is added is that of the right file.
LEMMA ElfAdds ==
  ASSUME ElfInv, E!Reading("dwarf"), UNCHANGED disk,
         added' = added \cup {[file |-> E!F.file, asked |-> E!F.asked]}
  PROVE  E!RightFile'
<1> DEFINE p == "dwarf"
           new == [file |-> E!F.file, asked |-> E!F.asked]
           f == disk[E!F.file]
           asked_ == E!F.asked
<1>0. p # "header" /\ p # "scan" /\ E!Reading(p)
  OBVIOUS
<1>1. new.file = E!F.file /\ new.asked = asked_ /\ added' = added \cup {new}
  OBVIOUS
<1> HIDE DEF p, new, f
<1>2. ElfKnows(p, E!F.i, asked_, E!F.views, E!F.link, E!F.alt, f)
  BY <1>0, ElfAt DEF f
<1> HIDE DEF asked_
<1>3. (asked_.crc # 0 => f.crc = asked_.crc) /\ \A j \in DOMAIN f.sections : ElfMatches(f.sections, j, asked_)
  BY <1>0, <1>2 DEF ElfKnows
<1> DEFINE Right(a) == LET s == disk[a.file].sections
                       IN  /\ a.asked.crc # 0 => disk[a.file].crc = a.asked.crc
                           /\ a.asked.id # E!None =>
                                \A j \in DOMAIN s : E!FirstBuildId(s, j) => s[j].gnu /\ s[j].id = a.asked.id
<1>4. \A a \in added : Right(a)
  BY DEF ElfInv, ElfLedger, E!RightFile
<1>5. Right(new)
  <2>1. disk[new.file] = f /\ new.asked = asked_
    BY <1>1 DEF f
  <2>2. asked_.id # E!None => \A j \in DOMAIN f.sections : E!FirstBuildId(f.sections, j) =>
           f.sections[j].gnu /\ f.sections[j].id = asked_.id
    BY <1>3 DEF ElfMatches
  <2>3. QED
    BY <1>3, <2>1, <2>2
<1>6. \A a \in added' : Right(a)
  BY <1>1, <1>4, <1>5
<1>7. QED
  BY <1>6 DEF E!RightFile, E!FirstBuildId

LEMMA ElfDwarf == ElfInv /\ E!Dwarf => ElfInv'
<1> SUFFICES ASSUME ElfInv, E!Dwarf PROVE ElfInv'
  OBVIOUS
<1> DEFINE p == "dwarf"
           tab == IF E!HasTable THEN {"table"} ELSE {}
           unused == E!Unused
           valid == E!F.views \ unused
           q == E!Released(res, E!F.id, tab)
           r == E!Drop(q, unused)
           used == IF E!File.near THEN (IF E!InView = {} THEN {} ELSE {"debug"}) ELSE {E!Split(n) : n \in E!InView}
           data == ElfAllData
           more == ElfKeeping(data, used)
           held == Mine(res.held, E!F.id)
           refers == Mine(kept, E!F.id)
           one == 1
<1>1. E!Reading(p) /\ UNCHANGED disk
  BY DEF E!Dwarf
<1>2. PICK fault : /\ E!Count(fault)
                   /\ \/ fault # E!None /\ E!Fails(valid, r) /\ UNCHANGED <<found, kept, added>>
                      \/ /\ fault = E!None
                         /\ left' = Append(left, ElfExit(p)) /\ res' = r /\ kept' = more
                         /\ added' = added \cup {[file |-> E!F.file, asked |-> E!F.asked]}
                         /\ \/ Len(stack) = 1 /\ stack' = <<>> /\ main' = [main EXCEPT !.ret = one, !.fn = "dwarf"]
                            \/ /\ Len(stack) # 1 /\ main' = [main EXCEPT !.fn = "dwarf"]
                               /\ stack' = [E!Front(stack) EXCEPT ![Len(stack) - 1].ret = one]
  BY DEF E!Dwarf, ElfExit, ElfAllData, ElfKeeping
<1>3. /\ p = "dwarf" /\ p \in ElfLate /\ p # "instead" /\ p \notin ElfEarly /\ one = 1 /\ one \in {0, 1} /\ ~(one < 0)
      /\ tab = (IF E!HasTable THEN {"table"} ELSE {}) /\ "image" \notin tab
  BY DEF ElfLate, ElfEarly
<1>4. /\ stack # <<>> /\ ElfCall(E!F, disk)
      /\ ElfHolds(p, E!F.memory, E!F.views, held, refers, faults)
      /\ res.open = ElfOpens
      /\ Ledger(res) /\ ElfOnly(res, kept) /\ res.unsure = {}
      /\ faults \in Nat
  BY <1>1, ElfAt
<1>5. ElfFaults /\ res.unsure = {}
  BY <1>2, <1>4, ElfCount DEF ElfFaults
<1>6. /\ used = valid /\ unused \subseteq E!F.views
  <2> DEFINE inview == E!InView
             views_ == E!F.views
  <2>1. inview \subseteq 1 .. 2 /\ views_ = IF ElfNear THEN {"debug"} ELSE {ElfSplit(n) : n \in inview}
    BY <1>1, ElfInViews
  <2>2. /\ unused = {"debug"} \cap views_ \cap (IF inview = {} THEN {"debug"} ELSE {})
        /\ used = IF ElfNear THEN (IF inview = {} THEN {} ELSE {"debug"}) ELSE {E!Split(n) : n \in inview}
    BY DEF E!Unused, ElfNear, E!File
  <2> DEFINE close == ElfNear
  <2> HIDE DEF inview, unused, used
  <2>3. ElfUsing(close, inview, views_, unused, used)
    BY <2>1, <2>2 DEF ElfUsing
  <2> HIDE DEF views_, close
  <2>4. used = views_ \ unused /\ unused \subseteq views_
    BY ONLY <2>3, ElfUsed
  <2>5. QED
    BY <2>4 DEF views_
<1>7. /\ data \subseteq held /\ data \subseteq {"data1", "data2"}
      /\ \A w \in held \ data : w \in {"data1", "data2"} =>
              \E n \in 1 .. 2 : w = ElfData(n) /\ ElfCorrupt(disk[E!F.file], n)
  BY <1>1, ElfInViews
<1> HIDE DEF p, tab, unused, valid, q, r, used, data, more, one
<1>8. E!HasTable <=> "table" \in held
  BY <1>4, MineIs DEF E!HasTable, Ledger
<1> HIDE DEF held, refers
<1>9. /\ E!F.views \subseteq {"debug", "split1", "split2"} /\ Here(E!F.views) \subseteq held
      /\ refers \subseteq held /\ refers \subseteq {"sdata", "symbols", "strtab", "image"}
      /\ \A w \in held : \/ w \in Here(E!F.views) \/ w \in refers \/ w \in {"probs", "image"}
                         \/ w = "new_buf" /\ faults > 0
                         \/ w \in {"table", "data1", "data2"}
  BY <1>3, <1>4 DEF ElfHolds, ElfViews, ElfOwn, ElfSpare, Here
<1>10. tab \subseteq held /\ held \ tab = held \ {"table"}
  BY <1>3, <1>8
<1>11. /\ ElfOnly(q, kept) /\ q.open = res.open /\ q.unsure = res.unsure
       /\ Mine(q.held, E!F.id) = held \ tab
  BY <1>3, <1>4, <1>10, ElfReleased DEF q, held
<1>12. /\ ElfOnly(r, kept) /\ r.open = res.open /\ r.unsure = res.unsure
       /\ Mine(r.held, E!F.id) = (held \ {"table"}) \ Here(unused)
  <2>1. Here(unused) \subseteq Mine(q.held, E!F.id) /\ "image" \notin unused
    BY <1>6, <1>9, <1>10, <1>11 DEF Here
  <2>2. QED
    BY <1>10, <1>11, <2>1, ElfDropped DEF r
<1> DEFINE new == Mine(r.held, E!F.id)
<1>13. new = (held \ {"table"}) \ Here(unused)
  BY <1>12
<1> HIDE DEF new
<1>14. /\ Here(valid) \subseteq new /\ valid \cap refers = {} /\ "image" \notin valid
       /\ Here(E!F.views) = Here(valid) \cup Here(unused)
  BY <1>6, <1>9, <1>13 DEF valid, Here
<1>15. /\ refers \subseteq new /\ data \subseteq new
       /\ \A w \in new : \/ w \in Here(valid) \/ w \in refers \/ w \in {"probs", "image"}
                         \/ w = "new_buf" /\ faults > 0
                         \/ w \in held /\ w \in {"data1", "data2"}
  <2>1. refers \cap Here(unused) = {} /\ data \cap Here(unused) = {}
    BY <1>6, <1>7, <1>9 DEF Here
  <2>2. "table" \notin refers /\ "table" \notin data
    BY <1>7, <1>9
  <2>3. QED
    BY <1>7, <1>9, <1>13, <1>14, <2>1, <2>2
<1>16. CASE fault # E!None /\ E!Fails(valid, r) /\ UNCHANGED <<found, kept, added>>
  <2>1. \A w \in new \ Here(valid) : w \in refers \/ ElfWaste(w, faults')
    BY <1>5, <1>15 DEF ElfWaste, ElfFaults
  <2>2. ElfMayFail(valid, r)
    BY <1>4, <1>5, <1>12, <1>14, <1>15, <2>1 DEF ElfMayFail, new, refers
  <2>3. QED
    BY <1>1, <1>4, <1>5, <1>16, <2>2, ElfFails
<1>17. CASE /\ fault = E!None
            /\ left' = Append(left, ElfExit(p)) /\ res' = r /\ kept' = more
            /\ added' = added \cup {[file |-> E!F.file, asked |-> E!F.asked]}
            /\ \/ Len(stack) = 1 /\ stack' = <<>> /\ main' = [main EXCEPT !.ret = one, !.fn = "dwarf"]
               \/ /\ Len(stack) # 1 /\ main' = [main EXCEPT !.fn = "dwarf"]
                  /\ stack' = [E!Front(stack) EXCEPT ![Len(stack) - 1].ret = one]
  <2>1. ElfReturn(one, p)
    <3>1. main = [x \in ElfMainFields |-> main[x]]
      BY DEF ElfInv, ElfMain
    <3>2. ElfTold(one)
      <4>1. CASE Len(stack) = 1 /\ main' = [main EXCEPT !.ret = one, !.fn = "dwarf"]
        BY <3>1, <4>1 DEF ElfTold, ElfMainFields
      <4>2. CASE Len(stack) # 1 /\ main' = [main EXCEPT !.fn = "dwarf"]
        BY <3>1, <4>2 DEF ElfTold, ElfMainFields
      <4>3. QED
        BY <1>17, <4>1, <4>2
    <3>3. stack' = Pop(stack, one)
      BY <1>17, ElfFront DEF Pop, Returned
    <3>4. QED
      BY <1>3, <1>17, <3>2, <3>3 DEF ElfReturn
  <2>2. ElfOnly(r, more) /\ Mine(more, E!F.id) = (refers \cup data) \cup Here(used)
    BY <1>4, <1>12, ElfKeeps DEF more, refers
  <2> DEFINE refers_ == Mine(more, E!F.id)
             f == disk[E!F.file]
  <2>3. refers_ = (refers \cup data) \cup Here(valid)
    BY <1>6, <2>2
  <2> HIDE DEF refers_
  <2>4. /\ ElfExit(p) \in Range(left') /\ ElfExit(p).id = E!F.id /\ ElfExit(p).file = E!F.file
    BY <1>4, <1>17, ElfLeft DEF ElfExit
  <2>5. ElfDone(E!F.id, disk, new, refers_, left', faults')
    <3>1. refers_ \subseteq new
      BY <1>14, <1>15, <2>3
    <3>2. ASSUME NEW w \in new \ refers_
          PROVE  \/ w \in {"probs", "image"}
                 \/ w = "new_buf" /\ faults' > 0
                 \/ \E l \in Range(left') : \E k \in 1 .. 2 : l.id = E!F.id /\ ElfCorrupt(disk[l.file], k) /\ w = ElfData(k)
      <4>1. \/ w \in {"probs", "image"} \/ (w = "new_buf" /\ faults > 0)
            \/ w \in held /\ w \in {"data1", "data2"} /\ w \notin data
        BY <1>15, <2>3, <3>2
      <4>2. CASE w \in held /\ w \in {"data1", "data2"} /\ w \notin data
        <5>1. PICK k \in 1 .. 2 : w = ElfData(k) /\ ElfCorrupt(disk[E!F.file], k)
          BY <1>7, <4>2
        <5>2. QED
          BY <2>4, <5>1
      <4>3. QED
        BY <1>5, <4>1, <4>2 DEF ElfFaults
    <3>3. QED
      BY <3>1, <3>2 DEF ElfDone
  <2>6. /\ ElfDone(E!F.id, disk, Mine(res'.held, E!F.id), Mine(kept', E!F.id), left', faults')
        /\ ElfOnly(res', kept') /\ res'.unsure = {}
    BY <1>5, <1>12, <1>17, <2>2, <2>5 DEF new, refers_
  <2>7. res'.open = ElfAfter(one)
    <3>1. E!F.fd = NoFile
      BY <1>1, <1>3, <1>4, ElfAt DEF ElfCall
    <3>2. QED
      BY <1>3, <1>4, <1>12, <1>17, <3>1 DEF ElfOpens, ElfAfter
  <2>8. E!RightFile'
    BY <1>1, <1>3, <1>17, ElfAdds
  <2>9. QED
    BY <1>1, <1>4, <1>5, <2>1, <2>6, <2>7, <2>8, ElfReturned
<1>18. QED
  BY <1>2, <1>16, <1>17

-----------------------------------------------------------------------------
\* Between the calls of elf_add that backtrace_initialize and phdr_callback make.
LEMMA ElfBetween ==
  ASSUME ElfInv, stack = <<>>
  PROVE  /\ main = [x \in ElfMainFields |-> main[x]]
         /\ main.fd \in {NoFile, Descriptor(0)} /\ main.ret \in {-1, 0, 1}
         /\ E!Exists(E!Resolved(main.exe))
         /\ main.at = "program" => main.fd = Descriptor(0)
         /\ main.at \in {"library", "failed", "done"} => main.fd = NoFile
         /\ main.fd # NoFile => main.todo # <<>>
         /\ Ledger(res) /\ res.open = ElfMainOpen /\ res.unsure = {} /\ faults \in Nat
         /\ Fds(stack) = {} /\ Len(stack) = 0
<1>1. Len(stack) = 0
  OBVIOUS
<1>2. Fds(stack) = {}
  BY <1>1 DEF Fds
<1>3. QED
  BY <1>1, <1>2 DEF ElfInv, ElfMain, ElfLedger

LEMMA ElfMainLike ==
  ASSUME ElfInv, stack = <<>>, UNCHANGED disk, main' = [x \in ElfMainFields |-> main'[x]],
         main'.exe = main.exe, main'.ret = main.ret, main'.fd \in {main.fd, NoFile},
         NEW place \in {"libraries", "library", "failed", "done"}, main'.at = place,
         place # "libraries" => main'.fd = NoFile, main'.fd # NoFile => main'.todo # <<>>,
         stack' # <<>> => place = "library"
  PROVE  ElfMain'
<1>1. E!Exists(E!Resolved(main.exe)) /\ main.fd \in {NoFile, Descriptor(0)} /\ main.ret \in {-1, 0, 1}
  BY ElfBetween
<1>2. disk' = disk /\ main'.exe = main.exe
  OBVIOUS
<1>3. E!Exists(E!Resolved(main.exe))' <=> E!Exists(E!Resolved(main.exe))
  BY <1>2 DEF E!Exists, E!Resolved
<1>4. QED
  BY <1>1, <1>3 DEF ElfMain

\* backtrace_initialize at another place, the ledger as it is but for what is open.
LEMMA ElfMainMoves ==
  ASSUME ElfInv, stack = <<>>, UNCHANGED <<disk, stack, kept, added, left, faults>>, ElfMain',
         Ledger(res'), res'.held = res.held, res'.unsure = res.unsure, res'.open = ElfMainOpen'
  PROVE  ElfInv'
<1>1. ElfLedger'
  BY DEF ElfInv, ElfLedger, E!RightFile, E!FirstBuildId
<1>2. ElfStack'
  <2>1. Len(stack') = 0 /\ IsStack(stack') /\ IsStack(left') /\ Distinct(stack')
    BY DEF ElfInv, ElfStack
  <2>2. \A j \in 1 .. Len(stack') : FALSE
    BY <2>1
  <2>3. QED
    BY <2>1, <2>2 DEF ElfStack
<1>3. ElfRest'
  <2>1. ElfRest
    BY DEF ElfInv
  <2>2. QED
    BY <2>1 DEF ElfRest
<1>4. Fds(stack') = {}
  BY ElfBetween
<1>5. QED
  BY <1>1, <1>2, <1>3, <1>4 DEF ElfInv

\* A callback calls elf_add.
LEMMA ElfStarts ==
  ASSUME ElfInv, stack = <<>>, NEW path, NEW file_, E!Exists(file_),
         NEW fd \in {Descriptor(0), Descriptor(E!NextId)}, NEW no, no = FALSE,
         NEW g, g = E!Call(E!NextId, path, file_, fd, 0, no, no, E!Asked(0, E!None)),
         stack' = <<g>>, UNCHANGED <<disk, kept, added, left, faults>>,
         Ledger(res'), res'.held = res.held, res'.unsure = res.unsure, res'.open = {fd},
         ElfMain', main'.at = "library"
  PROVE  ElfInv'
<1> DEFINE id == E!NextId
           zero == 0
           asked_ == E!Asked(0, E!None)
<1>1. id \in Nat \ {0} /\ zero # id /\ zero = 0 /\ asked_.crc = 0 /\ no \in BOOLEAN
  BY ElfNextId DEF E!Asked
<1> HIDE DEF asked_, zero, id
<1>2. ElfCallable(id, file_, fd, zero, no, asked_)
  BY <1>1 DEF ElfCallable, E!Exists, id
<1>3. /\ \A n : ElfFrame(g, disk, {}, {}, n)
      /\ g.id = id /\ g.fd = fd /\ g.memory = zero /\ g.exe = no
  <2>1. LET k == E!Call(id, path, file_, fd, zero, no, no, asked_)
        IN  /\ \A n : ElfFrame(k, disk, {}, {}, n)
            /\ k.id = id /\ k.fd = fd /\ k.memory = zero /\ k.exe = no /\ k.at = "header"
    BY <1>2, ElfCalled
  <2>2. g = E!Call(id, path, file_, fd, zero, no, no, asked_)
    BY DEF id, zero, asked_
  <2>3. QED
    BY <2>1, <2>2
<1>4. Len(stack) = 0 /\ Fds(stack) = {} /\ res.unsure = {} /\ faults \in Nat
  BY ElfBetween
<1>5. ElfMade(g)
  BY <1>1, <1>3, <1>4 DEF ElfMade, id
<1>6. ElfBase(stack)
  <2>1. IsStack(stack) /\ Distinct(stack)
    BY DEF ElfInv, ElfStack
  <2>2. \A j \in 1 .. Len(stack) : FALSE
    BY <1>4
  <2>3. QED
    BY <2>1, <2>2 DEF ElfBase
<1>7. stack' = Append(stack, g)
  OBVIOUS
<1>8. fd # NoFile
  BY DescriptorIs
<1>9. ElfFaults /\ res'.unsure = {}
  BY <1>4 DEF ElfFaults
<1>10. /\ \A i : ~OnStack(stack, i) => Mine(res'.held, i) = Mine(res.held, i)
       /\ res'.open = Fds(stack) \cup ({g.fd} \ {NoFile})
       /\ main'.at \in {"program", "library"}
  BY <1>3, <1>4, <1>8
<1>11. QED
  BY <1>5, <1>6, <1>7, <1>9, <1>10, ElfPushes

LEMMA ElfAfterProgram == ElfInv /\ E!AfterProgram => ElfInv'
<1> SUFFICES ASSUME ElfInv, E!AfterProgram PROVE ElfInv'
  OBVIOUS
<1> DEFINE place == IF main.ret = 0 THEN "failed" ELSE "libraries"
           fd == IF main.ret < 0 THEN main.fd ELSE NoFile
<1>1. stack = <<>> /\ main.at = "program" /\ UNCHANGED <<disk, stack, res, kept, added, left, faults>>
  BY DEF E!AfterProgram
<1>2. main' = [main EXCEPT !.at = place, !.fd = fd, !.fileline = main.fn]
  BY ElfResources DEF E!AfterProgram
<1>3. /\ main = [x \in ElfMainFields |-> main[x]]
      /\ main.fd = Descriptor(0) /\ main.ret \in {-1, 0, 1} /\ main.todo # <<>>
      /\ Ledger(res) /\ res.open = ElfMainOpen
  BY <1>1, ElfBetween, DescriptorIs
<1>4. place \in {"libraries", "failed"} /\ (place = "failed" <=> main.ret = 0)
  OBVIOUS
<1>5. fd = IF main.ret < 0 THEN Descriptor(0) ELSE NoFile
  BY <1>3
<1> HIDE DEF place, fd
<1>6. /\ main' = [x \in ElfMainFields |-> main'[x]] /\ main'.at = place /\ main'.fd = fd
      /\ main'.exe = main.exe /\ main'.ret = main.ret /\ main'.todo = main.todo
  BY <1>2, <1>3 DEF ElfMainFields
<1>7. ElfMain'
  <2>1. /\ main'.fd \in {main.fd, NoFile} /\ (place # "libraries" => main'.fd = NoFile)
        /\ main'.todo # <<>> /\ stack' = <<>> /\ place \in {"libraries", "library", "failed", "done"}
    BY <1>1, <1>3, <1>4, <1>5, <1>6
  <2>2. QED
    BY <1>1, <1>6, <2>1, ElfMainLike
<1>8. ElfMainOpen' = ElfMainOpen
  <2>1. main'.at # "program" /\ main'.fd = fd
    BY <1>4, <1>6
  <2>2. ElfMainOpen' = {fd} \ {NoFile}
    BY <2>1 DEF ElfMainOpen
  <2>3. ElfMainOpen = IF main.ret < 0 THEN {Descriptor(0)} ELSE {}
    BY <1>1 DEF ElfMainOpen
  <2>4. QED
    BY <1>5, <2>2, <2>3, DescriptorIs
<1>9. QED
  BY <1>1, <1>3, <1>7, <1>8, ElfMainMoves

LEMMA ElfCallbackProgram == ElfInv /\ E!CallbackProgram => ElfInv'
<1> SUFFICES ASSUME ElfInv, E!CallbackProgram PROVE ElfInv'
  OBVIOUS
<1> DEFINE none == NoFile
           library == "library"
           no == FALSE
           exe_ == E!Resolved(main.exe)
           g == E!Call(E!NextId, main.exe, exe_, main.fd, 0, no, no, E!Asked(0, E!None))
           rest == Tail(main.todo)
<1>1. stack = <<>> /\ main.at = "libraries" /\ UNCHANGED <<disk, res, kept, added, left, faults>>
  BY DEF E!CallbackProgram
<1>2. \/ main.fd = none /\ main' = [main EXCEPT !.todo = rest] /\ UNCHANGED stack
      \/ /\ main.fd # none /\ main' = [main EXCEPT !.todo = rest, !.at = library, !.fn = "unset", !.fd = none]
         /\ stack' = <<g>>
  BY ElfResources DEF E!CallbackProgram
<1>3. none = NoFile /\ library = "library" /\ no = FALSE
  OBVIOUS
<1> HIDE DEF none, library, no, g, rest, exe_
<1>4. /\ main = [x \in ElfMainFields |-> main[x]]
      /\ main.fd \in {NoFile, Descriptor(0)} /\ E!Exists(exe_)
      /\ Ledger(res) /\ res.open = ElfMainOpen
  BY <1>1, ElfBetween DEF exe_
<1>5. ElfMainOpen = {main.fd} \ {NoFile}
  BY <1>1 DEF ElfMainOpen
<1>6. CASE main.fd = none /\ main' = [main EXCEPT !.todo = rest] /\ UNCHANGED stack
  <2>1. /\ main' = [x \in ElfMainFields |-> main'[x]] /\ main'.at = "libraries" /\ main'.fd = NoFile
        /\ main'.exe = main.exe /\ main'.ret = main.ret
    BY <1>1, <1>3, <1>4, <1>6 DEF ElfMainFields
  <2>2. ElfMain'
    BY <1>1, <1>3, <1>6, <2>1, ElfMainLike
  <2>3. ElfMainOpen' = {} /\ ElfMainOpen = {}
    BY <1>3, <1>5, <1>6, <2>1 DEF ElfMainOpen
  <2>4. QED
    BY <1>1, <1>4, <1>6, <2>2, <2>3, ElfMainMoves
<1>7. CASE /\ main.fd # none /\ main' = [main EXCEPT !.todo = rest, !.at = library, !.fn = "unset", !.fd = none]
           /\ stack' = <<g>>
  <2>1. /\ main' = [x \in ElfMainFields |-> main'[x]] /\ main'.at = library /\ main'.fd = NoFile
        /\ main'.exe = main.exe /\ main'.ret = main.ret
    BY <1>3, <1>4, <1>7 DEF ElfMainFields
  <2>2. library \in {"libraries", "library", "failed", "done"} /\ (stack' # <<>> => library = "library")
    BY <1>3
  <2>3. ElfMain'
    BY <1>1, <2>1, <2>2, ElfMainLike
  <2> DEFINE fd == main.fd
  <2>4. fd \in {Descriptor(0), Descriptor(E!NextId)} /\ res'.open = {fd}
    BY <1>1, <1>3, <1>4, <1>5, <1>7
  <2>5. g = E!Call(E!NextId, main.exe, exe_, fd, 0, no, no, E!Asked(0, E!None)) /\ stack' = <<g>>
    BY <1>7 DEF g
  <2>6. Ledger(res') /\ res'.held = res.held /\ res'.unsure = res.unsure /\ main'.at = "library"
    BY <1>1, <1>3, <1>4, <2>1
  <2> HIDE DEF fd
  <2>7. QED
    BY <1>1, <1>3, <1>4, <2>3, <2>4, <2>5, <2>6, ElfStarts
<1>8. QED
  BY <1>2, <1>6, <1>7

LEMMA ElfCallbackLibrary == ElfInv /\ E!CallbackLibrary => ElfInv'
<1> SUFFICES ASSUME ElfInv, E!CallbackLibrary PROVE ElfInv'
  OBVIOUS
<1> DEFINE none == NoFile
           library == "library"
           no == FALSE
           l == Head(main.todo)
           d == E!Resolved(l)
           fd == Descriptor(E!NextId)
           g == E!Call(E!NextId, l, d, fd, 0, no, no, E!Asked(0, E!None))
           rest == Tail(main.todo)
           r == Closed(res, main.fd)
           s == Opened(r, fd)
<1>1. stack = <<>> /\ main.at = "libraries" /\ UNCHANGED <<disk, kept, added, left, faults>>
  BY DEF E!CallbackLibrary
<1>2. \/ /\ E!Exists(d) /\ main' = [main EXCEPT !.todo = rest, !.fd = none, !.at = library, !.fn = "unset"]
         /\ stack' = <<g>> /\ res' = s
      \/ main' = [main EXCEPT !.todo = rest, !.fd = none] /\ res' = r /\ UNCHANGED stack
  BY ElfResources DEF E!CallbackLibrary
<1>3. none = NoFile /\ library = "library" /\ no = FALSE /\ fd # NoFile
  BY DescriptorIs
<1>4. /\ main = [x \in ElfMainFields |-> main[x]]
      /\ main.fd \in {NoFile, Descriptor(0)}
      /\ Ledger(res) /\ res.open = ElfMainOpen /\ res.unsure = {}
  BY <1>1, ElfBetween
<1>5. ElfMainOpen = {main.fd} \ {NoFile}
  BY <1>1 DEF ElfMainOpen
<1>6. Ledger(r) /\ r.held = res.held /\ r.unsure = res.unsure /\ r.open = {}
  <2>1. main.fd # NoFile => main.fd \in res.open
    BY <1>4, <1>5
  <2>2. /\ Ledger(r) /\ r.held = res.held
        /\ main.fd = NoFile => r = res
        /\ main.fd # NoFile => /\ r.open = res.open \ {main.fd}
                               /\ r.unsure = res.unsure \ {main.fd}
    BY <1>4, <2>1, ClosedIs
  <2> HIDE DEF r
  <2>3. QED
    BY <1>4, <1>5, <2>2
<1> HIDE DEF none, library, no, l, d, fd, g, rest, r
<1>7. Ledger(s) /\ s.held = res.held /\ s.unsure = res.unsure /\ s.open = {fd}
  BY <1>6, OpenedIs
<1> HIDE DEF s
<1>8. CASE /\ E!Exists(d) /\ main' = [main EXCEPT !.todo = rest, !.fd = none, !.at = library, !.fn = "unset"]
           /\ stack' = <<g>> /\ res' = s
  <2>1. /\ main' = [x \in ElfMainFields |-> main'[x]] /\ main'.at = library /\ main'.fd = NoFile
        /\ main'.exe = main.exe /\ main'.ret = main.ret
    BY <1>3, <1>4, <1>8 DEF ElfMainFields
  <2>2. library \in {"libraries", "library", "failed", "done"} /\ (stack' # <<>> => library = "library")
    BY <1>3
  <2>3. ElfMain'
    BY <1>1, <2>1, <2>2, ElfMainLike
  <2>4. fd \in {Descriptor(0), Descriptor(E!NextId)}
    BY DEF fd
  <2>5. g = E!Call(E!NextId, l, d, fd, 0, no, no, E!Asked(0, E!None)) /\ stack' = <<g>>
    BY <1>8 DEF g
  <2>6. /\ Ledger(res') /\ res'.held = res.held /\ res'.unsure = res.unsure /\ res'.open = {fd}
        /\ main'.at = "library"
    BY <1>3, <1>7, <1>8, <2>1
  <2>7. QED
    BY <1>1, <1>3, <1>8, <2>3, <2>4, <2>5, <2>6, ElfStarts
<1>9. CASE main' = [main EXCEPT !.todo = rest, !.fd = none] /\ res' = r /\ UNCHANGED stack
  <2>1. /\ main' = [x \in ElfMainFields |-> main'[x]] /\ main'.at = "libraries" /\ main'.fd = NoFile
        /\ main'.exe = main.exe /\ main'.ret = main.ret
    BY <1>1, <1>3, <1>4, <1>9 DEF ElfMainFields
  <2>2. ElfMain'
    BY <1>1, <1>9, <2>1, ElfMainLike
  <2>3. ElfMainOpen' = {}
    BY <2>1 DEF ElfMainOpen
  <2>4. QED
    BY <1>1, <1>6, <1>9, <2>2, <2>3, ElfMainMoves
<1>10. QED
  BY <1>2, <1>8, <1>9

LEMMA ElfAfterLibrary == ElfInv /\ E!AfterLibrary => ElfInv'
<1> SUFFICES ASSUME ElfInv, E!AfterLibrary PROVE ElfInv'
  OBVIOUS
<1>1. stack = <<>> /\ main.at = "library" /\ UNCHANGED <<disk, stack, res, kept, added, left, faults>>
  BY DEF E!AfterLibrary
<1>2. PICK x, y : main' = [main EXCEPT !.at = "libraries", !.dwarf = x, !.fileline = y]
  BY DEF E!AfterLibrary
<1>3. /\ main = [z \in ElfMainFields |-> main[z]] /\ main.fd = NoFile
      /\ Ledger(res) /\ res.open = ElfMainOpen
  BY <1>1, ElfBetween
<1>4. /\ main' = [z \in ElfMainFields |-> main'[z]] /\ main'.at = "libraries" /\ main'.fd = NoFile
      /\ main'.exe = main.exe /\ main'.ret = main.ret
  BY <1>2, <1>3 DEF ElfMainFields
<1>5. ElfMain'
  BY <1>1, <1>4, ElfMainLike
<1>6. ElfMainOpen' = {} /\ ElfMainOpen = {}
  BY <1>1, <1>3, <1>4 DEF ElfMainOpen
<1>7. QED
  BY <1>1, <1>3, <1>5, <1>6, ElfMainMoves

LEMMA ElfFinish == ElfInv /\ E!Finish => ElfInv'
<1> SUFFICES ASSUME ElfInv, E!Finish PROVE ElfInv'
  OBVIOUS
<1>1. stack = <<>> /\ main.at = "libraries" /\ main.todo = <<>> /\ UNCHANGED <<disk, stack, res, kept, added, left, faults>>
  BY DEF E!Finish
<1>2. PICK x : main' = [main EXCEPT !.at = "done", !.syminfo = x]
  BY DEF E!Finish
<1>3. /\ main = [z \in ElfMainFields |-> main[z]] /\ main.fd = NoFile
      /\ Ledger(res) /\ res.open = ElfMainOpen
  BY <1>1, ElfBetween
<1>4. /\ main' = [z \in ElfMainFields |-> main'[z]] /\ main'.at = "done" /\ main'.fd = NoFile
      /\ main'.exe = main.exe /\ main'.ret = main.ret
  BY <1>2, <1>3 DEF ElfMainFields
<1> DEFINE place == "done"
<1>5. place \in {"libraries", "library", "failed", "done"} /\ main'.at = place
  BY <1>4
<1> HIDE DEF place
<1>6. ElfMain'
  BY <1>1, <1>4, <1>5, ElfMainLike
<1>7. ElfMainOpen' = {} /\ ElfMainOpen = {}
  BY <1>1, <1>3, <1>4 DEF ElfMainOpen
<1>8. QED
  BY <1>1, <1>3, <1>6, <1>7, ElfMainMoves

LEMMA ElfStep ==
  ElfInv /\ (E!Next \/ UNCHANGED <<disk, main, stack, res, kept, added, left, faults>>) => ElfInv'
<1>1. ASSUME ElfInv, UNCHANGED <<disk, main, stack, res, kept, added, left, faults>> PROVE ElfInv'
  <2>1. ElfLedger'
    BY <1>1 DEF ElfInv, ElfLedger, E!RightFile, E!FirstBuildId
  <2>2. ElfMain'
    <3>1. ElfMain /\ disk' = disk /\ main' = main /\ stack' = stack
      BY <1>1 DEF ElfInv
    <3>2. E!Exists(E!Resolved(main.exe))' <=> E!Exists(E!Resolved(main.exe))
      BY <3>1 DEF E!Exists, E!Resolved
    <3>3. QED
      BY <3>1, <3>2 DEF ElfMain
  <2>3. ElfStack'
    BY <1>1 DEF ElfInv, ElfStack
  <2>4. ElfRest'
    <3>1. ElfRest
      BY <1>1 DEF ElfInv
    <3>2. QED
      BY <1>1, <3>1 DEF ElfRest
  <2>5. ElfMainOpen' = ElfMainOpen
    BY <1>1 DEF ElfMainOpen
  <2>6. res'.open = Fds(stack') \cup ElfMainOpen'
    BY <1>1, <2>5 DEF ElfInv
  <2>7. QED
    BY <2>1, <2>2, <2>3, <2>4, <2>6 DEF ElfInv
<1>2. QED
  BY <1>1, ElfHeader, ElfScan, ElfSymbols, ElfSeparate, ElfDebuglink, ElfAfterInstead, ElfAltlink, ElfAfterShared,
     ElfMinidebug, ElfAfterMemory, ElfExtent, ElfUncompressOld, ElfUncompressNew, ElfDwarf, ElfAfterProgram,
     ElfCallbackProgram, ElfCallbackLibrary, ElfAfterLibrary, ElfFinish DEF E!Next, E!vars

LEMMA ElfGood == ElfInv => E!NothingDangles /\ E!AllReleased /\ E!RightFile
<1> SUFFICES ASSUME ElfInv PROVE E!NothingDangles /\ E!AllReleased /\ E!RightFile
  OBVIOUS
<1>1. Ledger(res) /\ Pairs(res.held) /\ Pairs(kept) /\ res.unsure = {} /\ E!RightFile
  BY DEF ElfInv, ElfLedger, Ledger
<1>2. E!NothingDangles
  <2>1. ASSUME NEW i PROVE Mine(kept, i) \subseteq Mine(res.held, i)
    <3>1. CASE OnStack(stack, i)
      <4>1. PICK j \in 1 .. Len(stack) : stack[j].id = i
        BY <3>1 DEF OnStack
      <4>2. ElfFrame(stack[j], disk, Mine(res.held, i), Mine(kept, i), faults)
        BY <4>1 DEF ElfInv, ElfStack
      <4>3. QED
        BY <4>2 DEF ElfFrame, ElfHolds
    <3>2. CASE ~OnStack(stack, i)
      BY <3>2 DEF ElfInv, ElfRest, ElfDone
    <3>3. QED
      BY <3>1, <3>2
  <2>2. kept \subseteq res.held
    BY <1>1, <2>1, HeldBy
  <2>3. QED
    BY <1>1, <2>2 DEF E!NothingDangles, Ledger
<1>3. E!AllReleased
  <2> SUFFICES ASSUME E!Ended PROVE res.open = {} /\ \A h \in res.held \ kept : E!Leaked(h)
    BY DEF E!AllReleased
  <2>1. stack = <<>> /\ main.at \in {"done", "failed"} /\ Len(stack) = 0
    BY DEF E!Ended
  <2>2. res.open = {}
    <3>1. main.fd = NoFile /\ res.open = ElfMainOpen
      BY <2>1, ElfBetween
    <3>2. QED
      BY <2>1, <3>1 DEF ElfMainOpen
  <2>3. ASSUME NEW h \in res.held \ kept PROVE E!Leaked(h)
    <3> DEFINE i == h[1]
               w == h[2]
               held == Mine(res.held, i)
               refers == Mine(kept, i)
    <3>1. h = <<i, w>>
      BY <1>1, <2>3 DEF Pairs
    <3>2. w \in held /\ w \notin refers
      BY <1>1, <2>3, <3>1, MineIs
    <3>3. ElfDone(i, disk, held, refers, left, faults)
      <4>1. ~OnStack(stack, i)
        BY <2>1 DEF OnStack
      <4>2. QED
        BY <4>1 DEF ElfInv, ElfRest
    <3> HIDE DEF held, refers
    <3>4. \/ w \in {"gnu_debugdata", "opd"} /\ ElfFrom(left, i, "instead")
          \/ w \in {"probs", "image"}
          \/ w = "new_buf" /\ faults > 0
          \/ w \in {"table", "data1", "data2"} /\ ElfFrom(left, i, "fail")
          \/ \E l \in Range(left) : \E k \in 1 .. 2 : l.id = i /\ ElfCorrupt(disk[l.file], k) /\ w = ElfData(k)
      BY <3>2, <3>3 DEF ElfDone
    <3>5. \A from : E!Left(h, from) <=> ElfFrom(left, i, from)
      BY ElfFront DEF E!Left, ElfFrom
    <3>6. E!Data(1) = "data1" /\ E!Data(2) = "data2"
      BY DEF E!Data
    <3>7. CASE \E l \in Range(left) : \E k \in 1 .. 2 : l.id = i /\ ElfCorrupt(disk[l.file], k) /\ w = ElfData(k)
      <4>1. PICK l \in Range(left), k \in 1 .. 2 : l.id = i /\ ElfCorrupt(disk[l.file], k) /\ w = ElfData(k)
        BY <3>7
      <4>2. PICK j \in DOMAIN disk[l.file].sections :
              LET s == disk[l.file].sections[j] IN s.is \in {"debug", "zdebug"} /\ s.as = "corrupt" /\ s.n = k
        BY <4>1 DEF ElfCorrupt
      <4> DEFINE s == disk[l.file].sections[j]
      <4>3. s \in Range(disk[l.file].sections)
        BY DEF Range
      <4>4. E!Data(s.n) = ElfData(k)
        BY <4>2, ElfSplitIs
      <4>5. \E x \in E!Range(left) : \E y \in E!Range(disk[x.file].sections) :
              x.id = i /\ y.is \in {"debug", "zdebug"} /\ y.as = "corrupt" /\ w = E!Data(y.n)
        BY <4>1, <4>2, <4>3, <4>4, ElfFront
      <4>6. QED
        BY <4>5 DEF E!Leaked
    <3>8. CASE w \in {"gnu_debugdata", "opd"} /\ ElfFrom(left, i, "instead")
      BY <3>5, <3>8 DEF E!Leaked
    <3>9. CASE w \in {"probs", "image"}
      BY <3>9 DEF E!Leaked
    <3>10. CASE w = "new_buf" /\ faults > 0
      BY <3>10 DEF E!Leaked
    <3>11. CASE w \in {"table", "data1", "data2"} /\ ElfFrom(left, i, "fail")
      BY <3>5, <3>6, <3>11 DEF E!Leaked
    <3>12. QED
      BY <3>4, <3>7, <3>8, <3>9, <3>10, <3>11
  <2>4. QED
    BY <2>2, <2>3
<1>4. QED
  BY <1>1, <1>2, <1>3

-----------------------------------------------------------------------------
(* xcoff.c                                                                 *)

XcoffMainFields == {"at", "todo", "ret", "sym", "lib", "syminfo", "fileline"}

ObjectFields == {"at", "id", "fd", "object", "exe", "inside", "views"}

ObjectPlaces == {"header", "symbols", "debug", "lines", "close"}

ArchiveFields == {"at", "id", "path", "fd", "member", "i", "ret"}

\* A call of xcoff_add.
XcoffObject(o) ==
  /\ o = [x \in ObjectFields |-> o[x]]
  /\ o.at \in ObjectPlaces /\ o.inside \in BOOLEAN /\ o.fd # NoFile

\* A call of xcoff_armem_add.
XcoffArchive(a) ==
  /\ a = [x \in ArchiveFields |-> a[x]]
  /\ a.at \in {"archive", "member", "tried"} /\ a.id = 0 /\ a.ret \in BOOLEAN /\ a.fd # NoFile
  /\ a.ret => a.at = "tried"

\* The stack where o is the call at work: of a file, or of a member of an archive.
XcoffStack(s, o) ==
  \/ s = <<o>> /\ o.inside = FALSE
  \/ \E a : s = <<a, o>> /\ XcoffArchive(a) /\ a.at = "tried" /\ ~a.ret /\ o.inside = TRUE /\ o.fd = a.fd

SectsAndSyms == {"sects", "syms"}

LinesAndData == {"linenos", "fdata"}

\* What fail releases although the state may refer to it.
Loose == {"str", "dwarf", "linenos"}

\* What a call of xcoff_add at its place holds, and what the state refers to of it.
XcoffHolds(place, shown, held, refers, n) ==
  /\ shown \subseteq held /\ refers \subseteq held /\ shown \subseteq SectsAndSyms \cup Loose
  /\ refers \cap SectsAndSyms = {} /\ held \cap SectsAndSyms \subseteq shown
  /\ \A w \in held \ refers : w \in SectsAndSyms \/ (w \in LinesAndData /\ n > 0)
  /\ place = "header" => held = {} /\ shown = {}
  /\ place = "symbols" => held = {"sects"} /\ refers = {} /\ shown = {"sects"}

\* It is at work.
AtWork(o, id, r, held, refers, lib, n) ==
  /\ XcoffObject(o) /\ o.id = id /\ r.open = {o.fd} /\ r.unsure = {}
  /\ XcoffHolds(o.at, o.views, held, refers, n)
  /\ "symbols" \in refers => lib

\* Where close has failed in the call of a member, the archive's call closes once more.
ArchiveOpen(a, r) ==
  \/ a.ret  /\ r.open = {}     /\ r.unsure = {}
  \/ ~a.ret /\ r.open = {}     /\ r.unsure = {a.fd}
  \/ ~a.ret /\ r.open = {a.fd} /\ r.unsure = {}

XcoffShape(s, id, r, held, refers, lib, n) ==
  \/ s = <<>> /\ r.open = {} /\ r.unsure = {} /\ held = {} /\ refers = {}
  \/ \E o : XcoffStack(s, o) /\ AtWork(o, id, r, held, refers, lib, n)
  \/ \E a : s = <<a>> /\ XcoffArchive(a) /\ ArchiveOpen(a, r) /\ held = {} /\ refers = {}

FailedIn(calls, i) == \E l \in Range(calls) : l.id = i /\ ~l.ret

\* What is left of a call that has returned.
XcoffDone(held, refers, failed_, n) ==
  /\ n = 0 \/ ~failed_ => refers \subseteq held
  /\ refers \ held \subseteq Loose
  /\ \A w \in held \ refers : w \in LinesAndData /\ n > 0

\* A call that has not failed has added symbols.
XcoffAdded(id, calls, things) ==
  \E i : i # id /\ i # 0 /\ ~FailedIn(calls, i) /\ "symbols" \in Mine(things, i)

\* Nothing counts any more but found_sym.
XcoffSettled(at_, s) == at_ \in {"set", "done"} \/ (s # <<>> /\ s[1].id = 0 /\ ~s[1].ret)

XcoffLedger ==
  /\ faults \in Nat
  /\ Ledger(res) /\ Pairs(kept) /\ IsStack(left)

XcoffMain ==
  /\ main = [x \in XcoffMainFields |-> main[x]]
  /\ main.sym \in BOOLEAN /\ main.lib \in BOOLEAN
  /\ main.at \in {"program", "libraries", "set", "done", "failed"}
  /\ main.at \in {"set", "done", "failed"} => stack = <<>>
  /\ main.at = "program" => ~main.sym
  /\ main.at = "done" => (main.syminfo = "xcoff_syminfo" <=> main.sym)
  /\ main.sym \/ main.lib => \E i : "symbols" \in Mine(kept, i)
  /\ main.fileline # "xcoff_nodebug" => \E i : "dwarf" \in Mine(kept, i) \/ "linenos" \in Mine(kept, i)

XcoffRest ==
  /\ \A i : i # X!NextId /\ i # 0 => XcoffDone(Mine(res.held, i), Mine(kept, i), FailedIn(left, i), faults)
  /\ \A i : Mine(res.held, i) # {} \/ Mine(kept, i) # {} => i \in 0 .. X!NextId
  /\ Mine(kept, 0) = {}
  /\ Mine(res.held, 0) = IF stack # <<>> /\ stack[1].at = "tried" THEN {"member"} ELSE {}
  /\ XcoffAdded(X!NextId, left, kept) => main.sym \/ (main.lib /\ ~XcoffSettled(main.at, stack))

XcoffInv ==
  /\ XcoffLedger /\ XcoffMain /\ XcoffRest
  /\ XcoffShape(stack, X!NextId, res, Mine(res.held, X!NextId), Mine(kept, X!NextId), main.lib, faults)

LEMMA XcoffResources ==
  \A r, id, whats : /\ X!Taken(r, id, whats) = Taken(r, id, whats)
                    /\ X!Released(r, id, whats) = Released(r, id, whats)
                    /\ X!Closed(r, id) = Closed(r, id)
                    /\ X!CloseFails(r, id) = CloseFails(r, id)
                    /\ X!Opened(r, id) = Opened(r, id)
                    /\ X!Descriptor(id) = Descriptor(id)
                    /\ X!NoFile = NoFile
  BY DEF X!CloseFails, CloseFails, X!Taken, Taken, X!Released, Released, X!Closed, Closed, X!Opened, Opened,
         X!Descriptor, Descriptor, X!NoFile, NoFile

LEMMA XcoffFront == \A s : X!Front(s) = Front(s) /\ X!Last(s) = Last(s) /\ X!Range(s) = Range(s)
  BY DEF X!Front, Front, X!Last, Last, X!Range, Range

LEMMA XcoffNextId ==
  ASSUME XcoffInv
  PROVE  X!NextId = Len(left) + 1 /\ X!NextId \in Nat /\ X!NextId # 0 /\ Len(left) \in Nat /\ IsStack(left)
<1>1. IsStack(left) /\ Len(left) \in Nat
  BY StackIs DEF XcoffInv, XcoffLedger
<1>2. QED
  BY <1>1 DEF X!NextId

LEMMA XcoffInit ==
  ASSUME NEW r \in Xcoffs, X!InitWith(r.disk, r.libraries, r.exe)
  PROVE  XcoffInv
<1> DEFINE fd == Descriptor(0)
           o == X!Object(1, fd, r.disk[r.exe], TRUE, FALSE)
<1>1. /\ left = <<>> /\ kept = {} /\ faults = 0 /\ stack = <<o>>
      /\ main = [at |-> "program", todo |-> r.libraries, ret |-> FALSE, sym |-> FALSE, lib |-> FALSE,
                 syminfo |-> X!None, fileline |-> "xcoff_nodebug"]
      /\ res = Opened(NoResources, fd)
  BY DEF X!InitWith, X!Opened, Opened, X!NoResources, NoResources, X!Descriptor, Descriptor
<1>2. Ledger(res) /\ res.held = {} /\ res.unsure = {} /\ res.open = {fd}
  BY <1>1, NothingHeld, OpenedIs
<1>3. \A i : Mine(res.held, i) = {} /\ Mine(kept, i) = {}
  BY <1>1, <1>2, MineNone
<1>4. IsStack(left) /\ Len(left) = 0 /\ X!NextId = 1
  BY <1>1 DEF IsStack, X!NextId
<1>5. /\ XcoffObject(o) /\ o.id = 1 /\ o.fd = fd /\ o.at = "header" /\ o.views = {} /\ o.inside = FALSE
  BY DescriptorIs DEF X!Object, XcoffObject, ObjectFields, ObjectPlaces
<1> HIDE DEF o, fd
<1>6. XcoffLedger
  BY <1>1, <1>2, <1>4 DEF XcoffLedger, Pairs
<1>7. XcoffMain
  BY <1>1 DEF XcoffMain, XcoffMainFields
<1>8. XcoffRest
  <2>1. \A i : XcoffDone({}, {}, FailedIn(left, i), faults)
    BY DEF XcoffDone
  <2>2. stack[1].at # "tried"
    BY <1>1, <1>5
  <2>3. ~XcoffAdded(X!NextId, left, kept)
    BY <1>3 DEF XcoffAdded
  <2>4. QED
    BY <1>3, <2>1, <2>2, <2>3 DEF XcoffRest
<1>9. XcoffStack(stack, o)
  BY <1>1, <1>5 DEF XcoffStack
<1>10. AtWork(o, X!NextId, res, {}, {}, main.lib, faults)
  BY <1>2, <1>4, <1>5 DEF AtWork, XcoffHolds
<1>11. QED
  BY <1>3, <1>6, <1>7, <1>8, <1>9, <1>10 DEF XcoffInv, XcoffShape

LEMMA XcoffTop ==
  /\ \A o : stack = <<o>> => X!F = o /\ Len(stack) = 1 /\ stack # <<>> /\ stack[1] = o
  /\ \A a, o : stack = <<a, o>> => X!F = o /\ Len(stack) = 2 /\ stack # <<>> /\ stack[1] = a
<1>1. ASSUME NEW o, stack = <<o>> PROVE X!F = o /\ Len(stack) = 1 /\ stack # <<>> /\ stack[1] = o
  BY <1>1 DEF X!F, X!Last
<1>2. ASSUME NEW a, NEW o, stack = <<a, o>> PROVE X!F = o /\ Len(stack) = 2 /\ stack # <<>> /\ stack[1] = a
  BY <1>2 DEF X!F, X!Last
<1>3. QED
  BY <1>1, <1>2

\* Of the call at work alone anything was taken or released, or is referred to.
XcoffOnly(r, things) ==
  /\ Ledger(r) /\ Pairs(things)
  /\ \A i : i # X!NextId => Mine(r.held, i) = Mine(res.held, i) /\ Mine(things, i) = Mine(kept, i)

XcoffFaults == faults \in Nat /\ faults' \in Nat /\ (faults > 0 => faults' > 0)

LEMMA XcoffAt ==
  ASSUME XcoffInv, NEW place \in ObjectPlaces, X!Reading(place)
  PROVE  /\ XcoffStack(stack, X!F) /\ stack # <<>> /\ X!F.at = place /\ XcoffObject(X!F) /\ X!F.id = X!NextId
         /\ res.open = {X!F.fd}
         /\ XcoffHolds(place, X!F.views, Mine(res.held, X!NextId), Mine(kept, X!NextId), faults)
         /\ "symbols" \in Mine(kept, X!NextId) => main.lib
         /\ XcoffOnly(res, kept) /\ res.unsure = {} /\ faults \in Nat
         /\ main.at \in {"program", "libraries"}
<1>1. stack # <<>> /\ X!F.at = place
  BY DEF X!Reading
<1>2. ASSUME NEW a, stack = <<a>>, XcoffArchive(a) PROVE FALSE
  BY <1>1, <1>2, XcoffTop DEF XcoffArchive, ObjectPlaces
<1>3. PICK o : /\ XcoffStack(stack, o)
               /\ AtWork(o, X!NextId, res, Mine(res.held, X!NextId), Mine(kept, X!NextId), main.lib, faults)
  BY <1>1, <1>2 DEF XcoffInv, XcoffShape
<1>4. X!F = o
  BY <1>3, XcoffTop DEF XcoffStack
<1>5. XcoffOnly(res, kept) /\ faults \in Nat
  BY DEF XcoffInv, XcoffLedger, XcoffOnly
<1>6. main.at \in {"program", "libraries"}
  BY <1>1 DEF XcoffInv, XcoffMain
<1>7. QED
  BY <1>1, <1>3, <1>4, <1>5, <1>6 DEF AtWork

LEMMA XcoffCount ==
  ASSUME faults \in Nat, NEW fault, X!Count(fault)
  PROVE  XcoffFaults /\ (fault # X!None => faults' > 0)
  BY DEF X!Count, XcoffFaults

LEMMA XcoffGoes ==
  ASSUME XcoffInv, NEW place \in ObjectPlaces, X!Reading(place), NEW g, X!Goes(g),
         XcoffObject(g), g.id = X!F.id, g.fd = X!F.fd, g.inside = X!F.inside,
         UNCHANGED left, XcoffFaults, res'.unsure = {},
         XcoffOnly(res', kept'), res'.open = res.open,
         XcoffHolds(g.at, g.views, Mine(res'.held, X!NextId), Mine(kept', X!NextId), faults'),
         "symbols" \in Mine(kept', X!NextId) => main'.lib,
         XcoffMain', main'.sym <=> main.sym, main.lib => main'.lib, main'.at = main.at
  PROVE  XcoffInv'
<1>1. /\ XcoffStack(stack, X!F) /\ stack # <<>> /\ X!F.at = place /\ XcoffObject(X!F) /\ X!F.id = X!NextId
      /\ res.open = {X!F.fd} /\ main.at \in {"program", "libraries"}
  BY XcoffAt
<1>2. X!NextId \in Nat /\ X!NextId # 0 /\ X!NextId' = X!NextId
  BY XcoffNextId DEF X!NextId
<1>3. /\ XcoffStack(stack', g) /\ stack' # <<>> /\ (stack'[1].at = "tried" <=> stack[1].at = "tried")
      /\ XcoffSettled(main.at, stack') <=> XcoffSettled(main.at, stack)
  <2>1. CASE stack = <<X!F>> /\ X!F.inside = FALSE
    <3>1. Len(stack) = 1 /\ stack[1] = X!F
      BY <2>1, XcoffTop
    <3>2. stack' = <<g>>
      BY <2>1, <3>1 DEF X!Goes
    <3>3. stack'[1] = g /\ stack' # <<>>
      BY <3>2
    <3>4. g.at # "tried" /\ X!F.at # "tried" /\ g.id # 0
      BY <1>1, <1>2 DEF XcoffObject, ObjectPlaces
    <3>5. QED
      BY <1>1, <1>2, <2>1, <3>1, <3>2, <3>3, <3>4 DEF XcoffStack, XcoffSettled
  <2>2. ASSUME NEW a, stack = <<a, X!F>>, XcoffArchive(a), a.at = "tried", ~a.ret, X!F.inside = TRUE, X!F.fd = a.fd
        PROVE  /\ XcoffStack(stack', g) /\ stack' # <<>> /\ (stack'[1].at = "tried" <=> stack[1].at = "tried")
               /\ XcoffSettled(main.at, stack') <=> XcoffSettled(main.at, stack)
    <3>1. Len(stack) = 2 /\ stack[1] = a
      BY <2>2, XcoffTop
    <3> DEFINE f == X!F
    <3>2. stack' = <<a, g>>
      <4>1. stack = <<a, f>> /\ stack' = [stack EXCEPT ![2] = g]
        BY <2>2, <3>1 DEF X!Goes
      <4> HIDE DEF f
      <4>2. QED
        BY <4>1
    <3>3. stack'[1] = a /\ stack' # <<>>
      BY <3>2
    <3>4. XcoffStack(stack', g)
      BY <2>2, <3>2 DEF XcoffStack
    <3>5. QED
      BY <1>1, <3>1, <3>3, <3>4 DEF XcoffSettled
  <2>3. QED
    BY <1>1, <2>1, <2>2 DEF XcoffStack
<1>4. XcoffLedger'
  BY DEF XcoffInv, XcoffLedger, XcoffOnly, XcoffFaults
<1>5. XcoffRest'
  <2>1. XcoffRest
    BY DEF XcoffInv
  <2>2. ASSUME NEW i, i # X!NextId, i # 0
        PROVE  XcoffDone(Mine(res'.held, i), Mine(kept', i), FailedIn(left, i), faults')
    <3>1. XcoffDone(Mine(res.held, i), Mine(kept, i), FailedIn(left, i), faults)
      BY <2>1, <2>2 DEF XcoffRest
    <3>2. Mine(res'.held, i) = Mine(res.held, i) /\ Mine(kept', i) = Mine(kept, i)
      BY <2>2 DEF XcoffOnly
    <3>3. QED
      BY <3>1, <3>2 DEF XcoffDone, XcoffFaults
  <2>3. ASSUME NEW i, Mine(res'.held, i) # {} \/ Mine(kept', i) # {} PROVE i \in 0 .. X!NextId
    <3>1. CASE i = X!NextId
      BY <1>2, <3>1
    <3>2. CASE i # X!NextId
      BY <2>1, <2>3, <3>2 DEF XcoffRest, XcoffOnly
    <3>3. QED
      BY <3>1, <3>2
  <2>4. Mine(kept', 0) = Mine(kept, 0) /\ Mine(res'.held, 0) = Mine(res.held, 0)
    BY <1>2 DEF XcoffOnly
  <2>5. XcoffAdded(X!NextId, left, kept') => main.sym \/ (main'.lib /\ ~XcoffSettled(main.at, stack'))
    <3>1. XcoffAdded(X!NextId, left, kept') => XcoffAdded(X!NextId, left, kept)
      BY DEF XcoffAdded, XcoffOnly
    <3>2. QED
      BY <1>3, <2>1, <3>1 DEF XcoffRest
  <2>6. QED
    BY <1>1, <1>2, <1>3, <2>1, <2>2, <2>3, <2>4, <2>5 DEF XcoffRest
<1>6. XcoffShape(stack', X!NextId, res', Mine(res'.held, X!NextId), Mine(kept', X!NextId), main'.lib, faults')
  <2>1. AtWork(g, X!NextId, res', Mine(res'.held, X!NextId), Mine(kept', X!NextId), main'.lib, faults')
    BY <1>1 DEF AtWork
  <2>2. QED
    BY <1>3, <2>1 DEF XcoffShape
<1>7. QED
  BY <1>2, <1>4, <1>5, <1>6 DEF XcoffInv

LEMMA XcoffReturns ==
  ASSUME XcoffInv, NEW place \in ObjectPlaces, X!Reading(place),
         NEW ret \in BOOLEAN, NEW r, X!Returns(ret, r), UNCHANGED kept,
         XcoffFaults, XcoffOnly(r, kept),
         XcoffDone(Mine(r.held, X!NextId), Mine(kept, X!NextId), ~ret, faults'),
         X!F.inside = FALSE => r.open = {} /\ r.unsure = {},
         X!F.inside = TRUE => \/ ret  /\ r.open = {}       /\ r.unsure = {}
                              \/ ~ret /\ r.open = {}       /\ r.unsure = {X!F.fd}
                              \/ ~ret /\ r.open = {X!F.fd} /\ r.unsure = {}
  PROVE  XcoffInv'
<1> DEFINE id == X!NextId
<1>1. /\ XcoffStack(stack, X!F) /\ stack # <<>> /\ X!F.at = place /\ XcoffObject(X!F) /\ X!F.id = id
      /\ res.open = {X!F.fd} /\ main.at \in {"program", "libraries"}
      /\ "symbols" \in Mine(kept, id) => main.lib
  BY XcoffAt
<1>2. id \in Nat /\ id # 0 /\ id = Len(left) + 1 /\ Len(left) \in Nat /\ IsStack(left)
  BY XcoffNextId
<1>3. XcoffRest
  BY DEF XcoffInv
<1>4. IsStack(left') /\ X!NextId' = id + 1 /\ \A i : FailedIn(left', i) <=> FailedIn(left, i) \/ (i = id /\ ~ret)
  <2> DEFINE x == [id |-> X!F.id, ret |-> ret, exe |-> X!F.exe]
  <2>1. left' = Append(left, x)
    BY DEF X!Returns
  <2>2. x.id = id /\ x.ret = ret
    BY <1>1
  <2> HIDE DEF x, id
  <2>3. /\ IsStack(left') /\ Len(left') = Len(left) + 1 /\ left'[Len(left) + 1] = x
        /\ \A j \in 1 .. Len(left) : left'[j] = left[j]
    BY <1>2, <2>1, Pushed
  <2>4. DOMAIN left = 1 .. Len(left) /\ DOMAIN left' = 1 .. Len(left) + 1
    BY <1>2, <2>3, StackIs
  <2>5. \A y : y \in Range(left') <=> y \in Range(left) \/ y = x
    BY <1>2, <2>3, <2>4 DEF Range
  <2>6. X!NextId' = id + 1
    BY <1>2, <2>3 DEF X!NextId, id
  <2>7. \A i : FailedIn(left', i) <=> FailedIn(left, i) \/ (i = id /\ ~ret)
    BY <2>2, <2>5 DEF FailedIn
  <2>8. QED
    BY <2>3, <2>6, <2>7
<1>5. Mine(r.held, id + 1) = {} /\ Mine(kept, id + 1) = {}
  <2>1. id + 1 # id /\ ~(id + 1 \in 0 .. id)
    BY <1>2
  <2> HIDE DEF id
  <2>2. Mine(res.held, id + 1) = {} /\ Mine(kept, id + 1) = {}
    BY <1>3, <2>1 DEF XcoffRest, id
  <2>3. Mine(r.held, id + 1) = Mine(res.held, id + 1)
    BY <2>1 DEF XcoffOnly, id
  <2>4. QED
    BY <2>2, <2>3
<1>6. res' = r /\ kept' = kept
  BY DEF X!Returns
<1> HIDE DEF id
\* What is below.
<1>7. /\ XcoffShape(stack', id + 1, r, {}, {}, main'.lib, faults')
      /\ (stack' # <<>> /\ stack'[1].at = "tried") <=> (stack # <<>> /\ stack[1].at = "tried")
      /\ main'.at \in {"set", "done"} <=> main.at \in {"set", "done"}
      /\ XcoffSettled(main.at, stack') => ~ret /\ XcoffSettled(main.at, stack)
      /\ main' = [main EXCEPT !.ret = ret] \/ main' = main
  <2>1. CASE stack = <<X!F>> /\ X!F.inside = FALSE
    <3>1. Len(stack) = 1 /\ stack[1] = X!F
      BY <2>1, XcoffTop
    <3>2. stack' = <<>> /\ main' = [main EXCEPT !.ret = ret]
      BY <3>1 DEF X!Returns
    <3>3. X!F.at # "tried"
      BY <1>1 DEF XcoffObject, ObjectPlaces
    <3>4. main'.at = main.at
      BY <3>2 DEF XcoffInv, XcoffMain, XcoffMainFields
    <3>5. r.open = {} /\ r.unsure = {}
      BY <2>1
    <3>6. XcoffShape(stack', id + 1, r, {}, {}, main'.lib, faults')
      BY <3>2, <3>5 DEF XcoffShape
    <3>7. ~XcoffSettled(main.at, stack')
      BY <1>1, <3>2 DEF XcoffSettled
    <3>8. QED
      BY <3>1, <3>2, <3>3, <3>4, <3>6, <3>7
  <2>2. ASSUME NEW a, stack = <<a, X!F>>, XcoffArchive(a), a.at = "tried", ~a.ret, X!F.inside = TRUE, X!F.fd = a.fd
        PROVE  /\ XcoffShape(stack', id + 1, r, {}, {}, main'.lib, faults')
               /\ (stack' # <<>> /\ stack'[1].at = "tried") <=> (stack # <<>> /\ stack[1].at = "tried")
               /\ main'.at \in {"set", "done"} <=> main.at \in {"set", "done"}
               /\ XcoffSettled(main.at, stack') => ~ret /\ XcoffSettled(main.at, stack)
               /\ main' = [main EXCEPT !.ret = ret] \/ main' = main
    <3> DEFINE b == [a EXCEPT !.ret = ret]
               f == X!F
    <3>1. Len(stack) = 2 /\ stack[1] = a /\ stack # <<>>
      BY <2>2, XcoffTop
    <3>2. stack' = [Front(stack) EXCEPT ![1].ret = ret] /\ main' = main
      BY <3>1, XcoffFront DEF X!Returns
    <3>3. stack' = <<b>>
      <4>1. stack = <<a, f>>
        BY <2>2
      <4> HIDE DEF f
      <4>2. Front(stack) = <<a>>
        BY <4>1, FrontTwo
      <4>3. QED
        BY <3>2, <4>2
    <3>4. stack'[1] = b /\ stack' # <<>>
      BY <3>3
    <3>5. /\ b = [x \in ArchiveFields |-> b[x]] /\ b.at = "tried" /\ b.id = 0 /\ b.fd = a.fd /\ b.ret = ret
      BY <2>2 DEF XcoffArchive, ArchiveFields
    <3> HIDE DEF b
    <3>6. XcoffArchive(b)
      BY <2>2, <3>5 DEF XcoffArchive
    <3>7. ArchiveOpen(b, r)
      BY <2>2, <3>5 DEF ArchiveOpen
    <3>8. XcoffShape(stack', id + 1, r, {}, {}, main'.lib, faults')
      BY <3>3, <3>6, <3>7 DEF XcoffShape
    <3>9. XcoffSettled(main.at, stack') => ~ret /\ XcoffSettled(main.at, stack)
      <4>1. main.at \notin {"set", "done"} /\ a.id = 0
        BY <1>1, <2>2 DEF XcoffArchive
      <4>2. XcoffSettled(main.at, stack)
        BY <2>2, <3>1, <4>1 DEF XcoffSettled
      <4>3. XcoffSettled(main.at, stack') => ~ret
        BY <3>4, <3>5, <4>1 DEF XcoffSettled
      <4>4. QED
        BY <4>2, <4>3
    <3>10. QED
      BY <2>2, <3>1, <3>2, <3>4, <3>5, <3>8, <3>9
  <2>3. QED
    BY <1>1, <2>1, <2>2 DEF XcoffStack
<1>8. /\ main' = [x \in XcoffMainFields |-> main'[x]]
      /\ main'.at = main.at /\ main'.sym = main.sym /\ main'.lib = main.lib
      /\ main'.syminfo = main.syminfo /\ main'.fileline = main.fileline
  <2>1. main = [x \in XcoffMainFields |-> main[x]]
    BY DEF XcoffInv, XcoffMain
  <2>2. QED
    BY <1>7, <2>1 DEF XcoffMainFields
<1>9. XcoffMain'
  <2>1. XcoffMain
    BY DEF XcoffInv
  <2>2. main.at \notin {"set", "done", "failed"}
    BY <1>1
  <2>3. QED
    BY <1>6, <1>8, <2>1, <2>2 DEF XcoffMain
<1>10. XcoffLedger'
  BY <1>4, <1>6 DEF XcoffLedger, XcoffOnly, XcoffFaults
<1>11. XcoffRest'
  <2>1. ASSUME NEW i, i # id + 1, i # 0
        PROVE  XcoffDone(Mine(r.held, i), Mine(kept, i), FailedIn(left', i), faults')
    <3>1. CASE i = id
      <4>1. ~FailedIn(left', i) => ret
        BY <1>4, <3>1
      <4>2. XcoffDone(Mine(r.held, i), Mine(kept, i), ~ret, faults')
        BY <3>1 DEF id
      <4>3. QED
        BY <4>1, <4>2 DEF XcoffDone
    <3>2. CASE i # id
      <4>1. XcoffDone(Mine(res.held, i), Mine(kept, i), FailedIn(left, i), faults)
        BY <1>3, <2>1, <3>2 DEF XcoffRest, id
      <4>2. Mine(r.held, i) = Mine(res.held, i) /\ (FailedIn(left', i) <=> FailedIn(left, i))
        BY <1>4, <3>2 DEF XcoffOnly, id
      <4>3. QED
        BY <4>1, <4>2 DEF XcoffDone, XcoffFaults
    <3>3. QED
      BY <3>1, <3>2
  <2>2. ASSUME NEW i, Mine(r.held, i) # {} \/ Mine(kept, i) # {} PROVE i \in 0 .. id + 1
    <3>1. CASE i = id
      BY <1>2, <3>1
    <3>2. CASE i # id
      <4>1. Mine(r.held, i) = Mine(res.held, i)
        BY <3>2 DEF XcoffOnly, id
      <4>2. i \in 0 .. id
        BY <1>3, <2>2, <4>1 DEF XcoffRest, id
      <4>3. QED
        BY <1>2, <4>2
    <3>3. QED
      BY <3>1, <3>2
  <2>3. Mine(kept, 0) = {} /\ Mine(r.held, 0) = Mine(res.held, 0)
    BY <1>2, <1>3 DEF XcoffRest, XcoffOnly, id
  <2>4. XcoffAdded(id + 1, left', kept) => main.sym \/ (main.lib /\ ~XcoffSettled(main.at, stack'))
    <3>1. ASSUME NEW i, i # id + 1, i # 0, ~FailedIn(left', i), "symbols" \in Mine(kept, i)
          PROVE  main.sym \/ (main.lib /\ ~XcoffSettled(main.at, stack'))
      <4>1. CASE i = id
        BY <1>1, <1>4, <1>7, <3>1, <4>1
      <4>2. CASE i # id
        <5>1. XcoffAdded(id, left, kept)
          BY <1>4, <3>1, <4>2 DEF XcoffAdded
        <5>2. main.sym \/ (main.lib /\ ~XcoffSettled(main.at, stack))
          BY <1>3, <5>1 DEF XcoffRest, id
        <5>3. QED
          BY <1>7, <5>2
      <4>3. QED
        BY <4>1, <4>2
    <3>2. QED
      BY <3>1 DEF XcoffAdded
  <2>5. Mine(r.held, 0) = IF stack' # <<>> /\ stack'[1].at = "tried" THEN {"member"} ELSE {}
    BY <1>3, <1>7, <2>3 DEF XcoffRest
  <2>6. QED
    BY <1>4, <1>6, <1>8, <2>1, <2>2, <2>3, <2>4, <2>5 DEF XcoffRest
<1>12. QED
  BY <1>4, <1>5, <1>6, <1>7, <1>9, <1>10, <1>11 DEF XcoffInv

\* What fail needs.
XcoffMayFail(valid, r) ==
  /\ XcoffOnly(r, kept)
  /\ valid \subseteq Mine(r.held, X!NextId) /\ Mine(kept, X!NextId) \subseteq Mine(r.held, X!NextId)
  /\ valid \cap Mine(kept, X!NextId) \subseteq Loose
  /\ faults' > 0 \/ Mine(kept, X!NextId) = {}
  /\ \A w \in Mine(r.held, X!NextId) \ valid : w \in Mine(kept, X!NextId) \/ (w \in LinesAndData /\ faults' > 0)
  /\ \/ r.open = {X!F.fd} /\ r.unsure = {}
     \/ r.open = {}       /\ r.unsure = {X!F.fd}

LEMMA XcoffFails ==
  ASSUME XcoffInv, NEW place \in ObjectPlaces, X!Reading(place),
         NEW valid, NEW r, X!Fails(valid, r), XcoffMayFail(valid, r), UNCHANGED kept, XcoffFaults
  PROVE  XcoffInv'
<1> DEFINE id == X!NextId
           fd == X!F.fd
           s == Released(r, id, valid)
           c == Closed(s, fd)
           q == IF X!F.inside THEN s ELSE c
           no == FALSE
<1>1. X!F.id = id /\ XcoffObject(X!F) /\ fd # NoFile
  BY XcoffAt DEF XcoffObject
<1>2. X!Returns(no, q) /\ no \in BOOLEAN /\ ~no
  BY <1>1, XcoffResources DEF X!Fails
<1>3. /\ Ledger(s) /\ s.open = r.open
      /\ s.unsure = r.unsure
      /\ Mine(s.held, id) = Mine(r.held, id) \ valid
      /\ \A i : i # id => Mine(s.held, i) = Mine(r.held, i)
  BY ReleasedMine DEF XcoffMayFail, XcoffOnly
<1> HIDE DEF s
<1>6. (r.open = {fd} /\ r.unsure = {}) \/ (r.open = {} /\ r.unsure = {fd})
  BY DEF XcoffMayFail
<1>4. /\ Ledger(c) /\ c.held = s.held /\ c.open = s.open \ {fd}
      /\ c.unsure = s.unsure \ {fd}
  <2>1. fd \in s.open \cup s.unsure
    BY <1>3, <1>6
  <2>2. QED
    BY <1>1, <1>3, <2>1, ClosedIs
<1> HIDE DEF c
<1>7. X!F.inside \in BOOLEAN
  BY <1>1 DEF XcoffObject
<1>8. c.unsure = {} /\ c.open = {}
  BY <1>3, <1>4, <1>6
<1>9. Ledger(q) /\ q.held = s.held
  BY <1>3, <1>4
<1>10. /\ X!F.inside = FALSE => q.open = {} /\ q.unsure = {}
       /\ X!F.inside = TRUE => (q.open = {} /\ q.unsure = {fd}) \/ (q.open = {fd} /\ q.unsure = {})
  BY <1>3, <1>6, <1>8
<1> HIDE DEF q, no
<1>11. XcoffOnly(q, kept)
  BY <1>3, <1>9 DEF XcoffMayFail, XcoffOnly
<1>12. XcoffDone(Mine(q.held, id), Mine(kept, id), ~no, faults')
  BY <1>2, <1>3, <1>9 DEF XcoffMayFail, XcoffDone, XcoffFaults
<1>13. QED
  BY <1>2, <1>9, <1>10, <1>11, <1>12, XcoffReturns

\* backtrace_initialize's state, where a call adds to what it refers to.
LEMMA XcoffMainMore ==
  ASSUME XcoffInv, stack # <<>>, stack' # <<>>,
         main' = [x \in XcoffMainFields |-> main'[x]],
         main'.at = main.at, main'.sym <=> main.sym, main'.sym \in BOOLEAN, main'.lib \in BOOLEAN,
         \A i : Mine(kept, i) \subseteq Mine(kept', i),
         main'.lib = main.lib \/ (\E i : "symbols" \in Mine(kept', i)),
         main'.fileline = main.fileline \/ (\E i : "dwarf" \in Mine(kept', i) \/ "linenos" \in Mine(kept', i))
  PROVE  XcoffMain'
<1>1. XcoffMain
  BY DEF XcoffInv
<1>2. main.at \notin {"set", "done", "failed"}
  BY <1>1 DEF XcoffMain
<1>3. QED
  BY <1>1, <1>2 DEF XcoffMain

LEMMA XcoffTaken ==
  ASSUME NEW r, NEW things, XcoffOnly(r, things), NEW whats
  PROVE  LET s == X!Taken(r, X!NextId, whats)
         IN  /\ XcoffOnly(s, things) /\ s.open = r.open /\ s.unsure = r.unsure
             /\ Mine(s.held, X!NextId) = Mine(r.held, X!NextId) \cup whats
<1> DEFINE id == X!NextId
           s == Taken(r, id, whats)
<1>1. X!Taken(r, id, whats) = s
  BY XcoffResources
<1>2. /\ Ledger(s) /\ s.open = r.open /\ s.unsure = r.unsure
      /\ Mine(s.held, id) = Mine(r.held, id) \cup whats
      /\ \A i : i # id => Mine(s.held, i) = Mine(r.held, i)
  BY TakenMine DEF XcoffOnly
<1> HIDE DEF s
<1>3. XcoffOnly(s, things)
  BY <1>2 DEF XcoffOnly
<1>4. QED
  BY <1>1, <1>2, <1>3

LEMMA XcoffReleased ==
  ASSUME NEW r, NEW things, XcoffOnly(r, things), NEW whats, whats \subseteq Mine(r.held, X!NextId)
  PROVE  LET s == X!Released(r, X!NextId, whats)
         IN  /\ XcoffOnly(s, things) /\ s.open = r.open /\ s.unsure = r.unsure
             /\ Mine(s.held, X!NextId) = Mine(r.held, X!NextId) \ whats
<1> DEFINE id == X!NextId
           s == Released(r, id, whats)
<1>1. X!Released(r, id, whats) = s
  BY XcoffResources
<1>2. /\ Ledger(s) /\ s.open = r.open
      /\ s.unsure = r.unsure
      /\ Mine(s.held, id) = Mine(r.held, id) \ whats
      /\ \A i : i # id => Mine(s.held, i) = Mine(r.held, i)
  BY ReleasedMine DEF XcoffOnly
<1> HIDE DEF s
<1>3. XcoffOnly(s, things)
  BY <1>2 DEF XcoffOnly
<1>4. QED
  BY <1>1, <1>2, <1>3

LEMMA XcoffPlus ==
  ASSUME NEW r, XcoffOnly(r, kept), NEW whats
  PROVE  LET more == Plus(kept, X!NextId, whats)
         IN  /\ XcoffOnly(r, more) /\ Mine(more, X!NextId) = Mine(kept, X!NextId) \cup whats
             /\ \A i : Mine(kept, i) \subseteq Mine(more, i)
<1> DEFINE id == X!NextId
           more == Plus(kept, id, whats)
<1>1. /\ Pairs(more) /\ Mine(more, id) = Mine(kept, id) \cup whats
      /\ \A i : i # id => Mine(more, i) = Mine(kept, i)
  BY PlusMine DEF XcoffOnly
<1> HIDE DEF more
<1>2. XcoffOnly(r, more)
  BY <1>1 DEF XcoffOnly
<1>3. \A i : Mine(kept, i) \subseteq Mine(more, i)
  BY <1>1
<1>4. QED
  BY <1>1, <1>2, <1>3 DEF more

LEMMA XcoffStays ==
  ASSUME stack # <<>>, NEW g, X!Goes(g)
  PROVE  stack' # <<>>
  BY DEF X!Goes

\* The frame with what it has shown, at another place.
Shown(f, place, shown) == [f EXCEPT !.at = place, !.views = shown]

LEMMA XcoffShown ==
  ASSUME NEW f, XcoffObject(f), NEW p \in ObjectPlaces, NEW shown
  PROVE  LET g == Shown(f, p, shown)
         IN  /\ XcoffObject(g) /\ g.at = p /\ g.views = shown /\ g.id = f.id /\ g.fd = f.fd
             /\ g.inside = f.inside
<1> DEFINE g == Shown(f, p, shown)
<1>1. f = [x \in ObjectFields |-> f[x]]
  BY DEF XcoffObject
<1>2. /\ g = [x \in ObjectFields |-> g[x]]
      /\ g.at = p /\ g.views = shown /\ g.id = f.id /\ g.fd = f.fd /\ g.inside = f.inside
  BY <1>1 DEF ObjectFields, Shown
<1> HIDE DEF g
<1>3. XcoffObject(g)
  BY <1>2 DEF XcoffObject
<1>4. QED
  BY <1>2, <1>3 DEF g

LEMMA XcoffHeader == XcoffInv /\ X!Header => XcoffInv'
<1> SUFFICES ASSUME XcoffInv, X!Header PROVE XcoffInv'
  OBVIOUS
<1> DEFINE p == "header"
           q == "symbols"
           view == {"sects"}
           none == {}
           id == X!NextId
           held == Mine(res.held, id)
           refers == Mine(kept, id)
           t == X!Taken(res, X!F.id, view)
           g == Shown(X!F, q, view)
<1>1. X!Reading(p) /\ UNCHANGED kept
  BY DEF X!Header
<1>2. PICK fault : /\ X!Count(fault)
                   /\ \/ X!Fails(none, res)
                      \/ X!Fails(view, t)
                      \/ X!Goes(g) /\ res' = t /\ UNCHANGED <<main, left>>
  BY DEF X!Header, Shown
<1>3. p = "header" /\ q = "symbols" /\ view = {"sects"} /\ none = {} /\ p \in ObjectPlaces /\ q \in ObjectPlaces
  BY DEF ObjectPlaces
<1> HIDE DEF p, q, view, none, held, refers, id
<1>4. /\ stack # <<>> /\ XcoffObject(X!F) /\ X!F.id = id
      /\ res.open = {X!F.fd}
      /\ XcoffHolds(p, X!F.views, held, refers, faults)
      /\ XcoffOnly(res, kept) /\ res.unsure = {} /\ faults \in Nat
  BY <1>1, <1>3, XcoffAt DEF held, refers, id
<1>5. XcoffFaults
  BY <1>2, <1>4, XcoffCount
<1>6. held = {} /\ refers = {} /\ res.unsure = {}
  BY <1>3, <1>4, <1>5 DEF XcoffHolds, XcoffFaults
<1>7. XcoffOnly(t, kept) /\ t.open = res.open /\ t.unsure = res.unsure /\ Mine(t.held, id) = held \cup view
  BY <1>4, XcoffTaken DEF held, id
<1> HIDE DEF t, g
<1>8. CASE X!Fails(none, res)
  <2>1. XcoffMayFail(none, res)
    BY <1>3, <1>4, <1>6 DEF XcoffMayFail, held, refers, id
  <2>2. QED
    BY <1>1, <1>3, <1>5, <1>8, <2>1, XcoffFails
<1>9. CASE X!Fails(view, t)
  <2>1. XcoffMayFail(view, t)
    BY <1>4, <1>6, <1>7 DEF XcoffMayFail, refers, id
  <2>2. QED
    BY <1>1, <1>3, <1>5, <1>9, <2>1, XcoffFails
<1>10. CASE X!Goes(g) /\ res' = t /\ UNCHANGED <<main, left>>
  <2>1. /\ XcoffObject(g) /\ g.at = q /\ g.views = view /\ g.id = X!F.id /\ g.fd = X!F.fd /\ g.inside = X!F.inside
    BY <1>3, <1>4, XcoffShown DEF g
  <2>2. XcoffHolds(g.at, g.views, Mine(t.held, id), refers, faults')
    BY <1>3, <1>6, <1>7, <2>1 DEF XcoffHolds, SectsAndSyms, Loose
  <2>3. main' = main /\ left' = left
    BY <1>10
  <2>4. XcoffMain'
    <3>1. stack' # <<>>
      BY <1>4, <1>10, XcoffStays
    <3>2. QED
      BY <1>1, <1>4, <2>3, <3>1 DEF XcoffInv, XcoffMain
  <2>5. QED
    BY <1>1, <1>3, <1>4, <1>5, <1>6, <1>7, <1>10, <2>1, <2>2, <2>3, <2>4, XcoffGoes DEF refers, id
<1>11. QED
  BY <1>2, <1>8, <1>9, <1>10

LEMMA XcoffSymbols == XcoffInv /\ X!Symbols => XcoffInv'
<1> SUFFICES ASSUME XcoffInv, X!Symbols PROVE XcoffInv'
  OBVIOUS
<1> DEFINE p == "symbols"
           q == "debug"
           syms == {"syms"}
           data == {"sdata", "symbols"}
           tables == IF X!F.object.strings THEN {"syms", "str"} ELSE {"syms"}
           id == X!NextId
           held == Mine(res.held, id)
           refers == Mine(kept, id)
           shown == X!F.views
           t1 == X!Taken(res, X!F.id, syms)
           r == X!Taken(res, X!F.id, tables)
           t == X!Taken(r, X!F.id, data)
           valid1 == shown \cup syms
           valid == shown \cup tables
           names == data \cup (tables \ syms)
           more == Plus(kept, X!F.id, names)
           g == Shown(X!F, q, shown)
           h == Shown(X!F, q, valid)
           yes == TRUE
<1>1. X!Reading(p)
  BY DEF X!Symbols
<1>2. /\ stack # <<>> /\ XcoffObject(X!F) /\ X!F.id = id /\ X!F.at = p
      /\ res.open = {X!F.fd}
      /\ XcoffHolds(p, X!F.views, held, refers, faults)
      /\ XcoffOnly(res, kept) /\ res.unsure = {} /\ faults \in Nat
  BY <1>1, XcoffAt DEF ObjectPlaces
<1>3. \/ X!Goes(g) /\ UNCHANGED <<main, res, kept, left, faults>>
      \/ \E fault : /\ X!Count(fault)
                    /\ \/ fault = "syms" /\ X!Fails(shown, res) /\ UNCHANGED kept
                       \/ fault = "str" /\ X!Fails(valid1, t1) /\ UNCHANGED kept
                       \/ fault # X!None /\ X!Fails(valid, r) /\ UNCHANGED kept
                       \/ X!Goes(h) /\ main' = [main EXCEPT !.lib = yes] /\ res' = t /\ kept' = more /\ UNCHANGED left
  <2> DEFINE f == X!F
  <2>1. [f EXCEPT !.at = q] = g
    <3>1. f = [x \in ObjectFields |-> f[x]]
      BY <1>2 DEF XcoffObject
    <3> HIDE DEF f
    <3>2. [f EXCEPT !.at = q] = [f EXCEPT !.at = q, !.views = f.views]
      BY <3>1 DEF ObjectFields
    <3>3. QED
      BY <3>2 DEF f, Shown
  <2>2. [X!F EXCEPT !.at = q, !.views = @ \cup tables] = h
    BY DEF Shown
  <2>3. kept \cup ({X!F.id} \X ({"sdata", "symbols"} \cup (tables \ {"syms"}))) = more
    BY DEF Plus
  <2> HIDE DEF g, h, more, f
  <2>4. QED
    BY <2>1, <2>2, <2>3 DEF X!Symbols, f
<1>4. /\ p = "symbols" /\ q = "debug" /\ syms = {"syms"} /\ data = {"sdata", "symbols"} /\ p \in ObjectPlaces
      /\ q \in ObjectPlaces /\ yes = TRUE
      /\ tables = {"syms", "str"} \/ tables = {"syms"}
  BY DEF ObjectPlaces
<1> HIDE DEF p, q, syms, data, tables, id, held, refers, shown, yes
<1>5. held = {"sects"} /\ refers = {} /\ shown = {"sects"}
  BY <1>2, <1>4 DEF XcoffHolds, shown
<1>6. XcoffOnly(t1, kept) /\ t1.open = res.open /\ t1.unsure = res.unsure /\ Mine(t1.held, id) = held \cup syms
  BY <1>2, XcoffTaken DEF held, id
<1>7. XcoffOnly(r, kept) /\ r.open = res.open /\ r.unsure = res.unsure /\ Mine(r.held, id) = held \cup tables
  BY <1>2, XcoffTaken DEF held, id
<1> HIDE DEF r, t1
<1>8. XcoffOnly(t, kept) /\ t.open = res.open /\ t.unsure = res.unsure /\ Mine(t.held, id) = held \cup tables \cup data
  BY <1>2, <1>7, XcoffTaken DEF id
<1> HIDE DEF t
<1>9. valid1 = {"sects", "syms"} /\ valid = {"sects"} \cup tables /\ names = data \cup (tables \ syms)
  BY <1>4, <1>5
<1>10. /\ XcoffOnly(t, more) /\ Mine(more, id) = refers \cup names
       /\ \A i : Mine(kept, i) \subseteq Mine(more, i)
  BY <1>2, <1>8, XcoffPlus DEF refers, id
<1> HIDE DEF valid1, valid, names, more
<1>11. CASE X!Goes(g) /\ UNCHANGED <<main, res, kept, left, faults>>
  <2>1. /\ XcoffObject(g) /\ g.at = q /\ g.views = shown /\ g.id = X!F.id /\ g.fd = X!F.fd /\ g.inside = X!F.inside
    BY <1>2, <1>4, XcoffShown DEF g
  <2> HIDE DEF g
  <2>2. XcoffHolds(g.at, g.views, held, refers, faults')
    BY <1>4, <1>5, <2>1 DEF XcoffHolds, SectsAndSyms, Loose
  <2>3. main' = main /\ left' = left /\ res' = res /\ kept' = kept /\ faults' = faults
    BY <1>11
  <2>4. XcoffFaults
    BY <1>2, <2>3 DEF XcoffFaults
  <2>5. XcoffMain'
    <3>1. stack' # <<>>
      BY <1>2, <1>11, XcoffStays
    <3>2. QED
      BY <1>2, <2>3, <3>1 DEF XcoffInv, XcoffMain
  <2>6. "symbols" \notin refers
    BY <1>5
  <2>7. QED
    BY <1>1, <1>2, <1>4, <1>11, <2>1, <2>2, <2>3, <2>4, <2>5, <2>6, XcoffGoes DEF held, refers, id
<1>12. ASSUME NEW fault, X!Count(fault),
              \/ fault = "syms" /\ X!Fails(shown, res) /\ UNCHANGED kept
              \/ fault = "str" /\ X!Fails(valid1, t1) /\ UNCHANGED kept
              \/ fault # X!None /\ X!Fails(valid, r) /\ UNCHANGED kept
              \/ X!Goes(h) /\ main' = [main EXCEPT !.lib = yes] /\ res' = t /\ kept' = more /\ UNCHANGED left
       PROVE  XcoffInv'
  <2>1. XcoffFaults /\ (fault # X!None => faults' > 0) /\ res.unsure = {}
    <3>1. XcoffFaults /\ (fault # X!None => faults' > 0)
      BY <1>2, <1>12, XcoffCount
    <3>2. QED
      BY <1>2, <3>1 DEF XcoffFaults
  <2>2. "syms" # X!None /\ "str" # X!None
    BY DEF X!None
  <2>3. CASE fault = "syms" /\ X!Fails(shown, res) /\ UNCHANGED kept
    <3>1. XcoffMayFail(shown, res)
      BY <1>2, <1>5, <2>1 DEF XcoffMayFail, held, refers, id
    <3>2. QED
      BY <1>1, <1>4, <2>1, <2>3, <3>1, XcoffFails
  <2>4. CASE fault = "str" /\ X!Fails(valid1, t1) /\ UNCHANGED kept
    <3>1. XcoffMayFail(valid1, t1)
      BY <1>2, <1>4, <1>5, <1>6, <1>9, <2>1 DEF XcoffMayFail, refers, id
    <3>2. QED
      BY <1>1, <1>4, <2>1, <2>4, <3>1, XcoffFails
  <2>5. CASE fault # X!None /\ X!Fails(valid, r) /\ UNCHANGED kept
    <3>1. XcoffMayFail(valid, r)
      BY <1>2, <1>4, <1>5, <1>7, <1>9, <2>1 DEF XcoffMayFail, refers, id
    <3>2. QED
      BY <1>1, <1>4, <2>1, <2>5, <3>1, XcoffFails
  <2>6. CASE X!Goes(h) /\ main' = [main EXCEPT !.lib = yes] /\ res' = t /\ kept' = more /\ UNCHANGED left
    <3>1. /\ XcoffObject(h) /\ h.at = q /\ h.views = valid /\ h.id = X!F.id /\ h.fd = X!F.fd /\ h.inside = X!F.inside
      BY <1>2, <1>4, XcoffShown DEF h
    <3> HIDE DEF h
    <3>2. XcoffHolds(h.at, h.views, Mine(t.held, id), Mine(more, id), faults')
      <4>1. /\ Mine(t.held, id) = {"sects"} \cup tables \cup {"sdata", "symbols"}
            /\ Mine(more, id) = {"sdata", "symbols"} \cup (tables \ {"syms"})
            /\ h.views = {"sects"} \cup tables /\ h.at = "debug"
        BY <1>4, <1>5, <1>8, <1>9, <1>10, <3>1
      <4>2. tables = {"syms", "str"} \/ tables = {"syms"}
        BY <1>4
      <4>3. QED
        BY ONLY <4>1, <4>2 DEF XcoffHolds, SectsAndSyms, Loose
    <3>3. /\ main' = [x \in XcoffMainFields |-> main'[x]] /\ main'.lib = TRUE
          /\ main'.at = main.at /\ (main'.sym <=> main.sym) /\ main'.sym \in BOOLEAN /\ main'.fileline = main.fileline
      <4>1. main = [x \in XcoffMainFields |-> main[x]] /\ main.sym \in BOOLEAN
        BY DEF XcoffInv, XcoffMain
      <4>2. QED
        BY <1>4, <2>6, <4>1 DEF XcoffMainFields
    <3>4. kept' = more /\ res' = t /\ left' = left
      BY <2>6
    <3>5. "symbols" \in Mine(more, id)
      BY <1>4, <1>9, <1>10
    <3>6. XcoffMain'
      <4>1. stack' # <<>>
        BY <1>2, <2>6, XcoffStays
      <4>2. QED
        BY <1>2, <1>10, <3>3, <3>4, <3>5, <4>1, XcoffMainMore
    <3>7. QED
      BY <1>1, <1>2, <1>4, <1>8, <1>10, <2>1, <2>6, <3>1, <3>2, <3>3, <3>4, <3>6, XcoffGoes DEF id
  <2>7. QED
    BY <1>12, <2>3, <2>4, <2>5, <2>6
<1>13. QED
  BY <1>3, <1>11, <1>12

\* A step that only goes on, having nothing to do.
LEMMA XcoffSkips ==
  ASSUME XcoffInv, NEW p \in {"debug", "lines"}, X!Reading(p), NEW q \in ObjectPlaces, q \notin {"header", "symbols"},
         X!Goes(Shown(X!F, q, X!F.views)), UNCHANGED <<main, res, kept, left, faults>>
  PROVE  XcoffInv'
<1> DEFINE g == Shown(X!F, q, X!F.views)
           id == X!NextId
           held == Mine(res.held, id)
           refers == Mine(kept, id)
<1>1. p \in ObjectPlaces /\ p \notin {"header", "symbols"}
  BY DEF ObjectPlaces
<1>2. /\ stack # <<>> /\ XcoffObject(X!F) /\ X!F.id = id /\ X!F.at = p
      /\ res.open = {X!F.fd}
      /\ XcoffHolds(p, X!F.views, held, refers, faults)
      /\ XcoffOnly(res, kept) /\ res.unsure = {} /\ faults \in Nat
      /\ "symbols" \in refers => main.lib
  BY <1>1, XcoffAt
<1>3. /\ XcoffObject(g) /\ g.at = q /\ g.views = X!F.views /\ g.id = X!F.id /\ g.fd = X!F.fd /\ g.inside = X!F.inside
  BY <1>2, XcoffShown
<1>4. X!Goes(g)
  OBVIOUS
<1> HIDE DEF g, held, refers, id
<1>5. XcoffHolds(g.at, g.views, held, refers, faults')
  BY <1>1, <1>2, <1>3 DEF XcoffHolds
<1>6. main' = main /\ left' = left /\ res' = res /\ kept' = kept /\ faults' = faults
  OBVIOUS
<1>7. XcoffFaults
  BY <1>2 DEF XcoffFaults
<1>8. XcoffMain'
  <2>1. stack' # <<>>
    BY <1>2, <1>4, XcoffStays
  <2>2. QED
    BY <1>2, <1>6, <2>1 DEF XcoffInv, XcoffMain
<1>9. QED
  BY <1>1, <1>2, <1>3, <1>4, <1>5, <1>6, <1>7, <1>8, XcoffGoes DEF held, refers, id

\* The place alone is another.
LEMMA XcoffElsewhere ==
  ASSUME NEW f, XcoffObject(f), NEW q
  PROVE  [f EXCEPT !.at = q] = Shown(f, q, f.views)
<1>1. f = [x \in ObjectFields |-> f[x]]
  BY DEF XcoffObject
<1>2. QED
  BY <1>1 DEF ObjectFields, Shown

LEMMA XcoffDebug == XcoffInv /\ X!Debug => XcoffInv'
<1> SUFFICES ASSUME XcoffInv, X!Debug PROVE XcoffInv'
  OBVIOUS
<1> DEFINE p == "debug"
           q == "lines"
           dwarf == {"dwarf"}
           id == X!NextId
           held == Mine(res.held, id)
           refers == Mine(kept, id)
           shown == X!F.views
           t == X!Taken(res, X!F.id, dwarf)
           valid == shown \cup dwarf
           more == Plus(kept, X!F.id, dwarf)
           g == Shown(X!F, q, shown)
           h == Shown(X!F, q, valid)
           how == "dwarf"
<1>1. X!Reading(p)
  BY DEF X!Debug
<1>2. /\ stack # <<>> /\ XcoffObject(X!F) /\ X!F.id = id /\ X!F.at = p
      /\ res.open = {X!F.fd}
      /\ XcoffHolds(p, X!F.views, held, refers, faults)
      /\ XcoffOnly(res, kept) /\ res.unsure = {} /\ faults \in Nat
      /\ "symbols" \in refers => main.lib
  BY <1>1, XcoffAt DEF ObjectPlaces
<1>3. \/ X!Goes(g) /\ UNCHANGED <<main, res, kept, left, faults>>
      \/ \E fault : /\ X!Count(fault)
                    /\ \/ fault # X!None /\ X!Fails(shown, res) /\ UNCHANGED kept
                       \/ fault # X!None /\ X!Fails(valid, t) /\ UNCHANGED kept
                       \/ X!Goes(h) /\ main' = [main EXCEPT !.fileline = how] /\ res' = t /\ kept' = more /\ UNCHANGED left
  <2> DEFINE f == X!F
  <2>1. [f EXCEPT !.at = q] = g
    BY <1>2, XcoffElsewhere
  <2>2. [X!F EXCEPT !.at = q, !.views = @ \cup dwarf] = h
    BY DEF Shown
  <2>3. kept \cup {<<X!F.id, "dwarf">>} = more
    BY DEF Plus
  <2>4. "view" # X!None /\ "dwarf" # X!None
    BY DEF X!None
  <2> HIDE DEF g, h, more, f
  <2>5. QED
    BY <2>1, <2>2, <2>3, <2>4 DEF X!Debug, f
<1>4. /\ p = "debug" /\ q = "lines" /\ dwarf = {"dwarf"} /\ p \in ObjectPlaces /\ q \in ObjectPlaces
      /\ q \notin {"header", "symbols"} /\ p \in {"debug", "lines"}
  BY DEF ObjectPlaces
<1> HIDE DEF p, q, dwarf, id, held, refers, shown, how
<1>6. XcoffOnly(t, kept) /\ t.open = res.open /\ t.unsure = res.unsure /\ Mine(t.held, id) = held \cup dwarf
  BY <1>2, XcoffTaken DEF held, id
<1> HIDE DEF t
<1>7. XcoffOnly(t, more) /\ Mine(more, id) = refers \cup dwarf /\ \A i : Mine(kept, i) \subseteq Mine(more, i)
  BY <1>2, <1>6, XcoffPlus DEF refers, id
<1> HIDE DEF more
<1>8. CASE X!Goes(g) /\ UNCHANGED <<main, res, kept, left, faults>>
  BY <1>1, <1>4, <1>8, XcoffSkips DEF shown
<1>9. ASSUME NEW fault, X!Count(fault),
             \/ fault # X!None /\ X!Fails(shown, res) /\ UNCHANGED kept
             \/ fault # X!None /\ X!Fails(valid, t) /\ UNCHANGED kept
             \/ X!Goes(h) /\ main' = [main EXCEPT !.fileline = how] /\ res' = t /\ kept' = more /\ UNCHANGED left
      PROVE  XcoffInv'
  <2>1. XcoffFaults /\ (fault # X!None => faults' > 0) /\ res.unsure = {}
    <3>1. XcoffFaults /\ (fault # X!None => faults' > 0)
      BY <1>2, <1>9, XcoffCount
    <3>2. QED
      BY <1>2, <3>1 DEF XcoffFaults
  <2>2. /\ shown \subseteq held /\ refers \subseteq held /\ refers \cap SectsAndSyms = {}
        /\ shown \subseteq SectsAndSyms \cup Loose
        /\ held \cap SectsAndSyms \subseteq shown
        /\ \A w \in held \ refers : w \in SectsAndSyms \/ (w \in LinesAndData /\ faults' > 0)
    BY <1>2, <2>1 DEF XcoffHolds, XcoffFaults, shown
  <2>3. CASE fault # X!None /\ X!Fails(shown, res) /\ UNCHANGED kept
    <3>1. XcoffMayFail(shown, res)
      BY <1>2, <2>1, <2>2, <2>3 DEF XcoffMayFail, held, refers, id
    <3>2. QED
      BY <1>1, <1>4, <2>1, <2>3, <3>1, XcoffFails
  <2>4. CASE fault # X!None /\ X!Fails(valid, t) /\ UNCHANGED kept
    <3>3. dwarf \subseteq Loose
      BY <1>4 DEF Loose
    <3>1. XcoffMayFail(valid, t)
      BY <1>2, <1>6, <2>1, <2>2, <2>4, <3>3 DEF XcoffMayFail, held, refers, id
    <3>2. QED
      BY <1>1, <1>4, <2>1, <2>4, <3>1, XcoffFails
  <2>5. CASE X!Goes(h) /\ main' = [main EXCEPT !.fileline = how] /\ res' = t /\ kept' = more /\ UNCHANGED left
    <3>1. /\ XcoffObject(h) /\ h.at = q /\ h.views = valid /\ h.id = X!F.id /\ h.fd = X!F.fd /\ h.inside = X!F.inside
      BY <1>2, <1>4, XcoffShown DEF h
    <3> HIDE DEF h
    <3>2. XcoffHolds(h.at, h.views, Mine(t.held, id), Mine(more, id), faults')
      <4>1. /\ Mine(t.held, id) = held \cup {"dwarf"} /\ Mine(more, id) = refers \cup {"dwarf"}
            /\ h.views = shown \cup {"dwarf"} /\ h.at = "lines"
        BY <1>4, <1>6, <1>7, <3>1
      <4>2. QED
        BY ONLY <4>1, <2>2 DEF XcoffHolds, SectsAndSyms, Loose
    <3>3. /\ main' = [x \in XcoffMainFields |-> main'[x]] /\ main'.lib = main.lib /\ main'.lib \in BOOLEAN
          /\ main'.at = main.at /\ (main'.sym <=> main.sym) /\ main'.sym \in BOOLEAN
      <4>1. main = [x \in XcoffMainFields |-> main[x]] /\ main.sym \in BOOLEAN /\ main.lib \in BOOLEAN
        BY DEF XcoffInv, XcoffMain
      <4>2. QED
        BY <2>5, <4>1 DEF XcoffMainFields
    <3>4. kept' = more /\ res' = t /\ left' = left
      BY <2>5
    <3>5. "dwarf" \in Mine(more, id) /\ ("symbols" \in Mine(more, id) => "symbols" \in refers)
      BY <1>4, <1>7
    <3>6. XcoffMain'
      <4>1. stack' # <<>>
        BY <1>2, <2>5, XcoffStays
      <4>2. QED
        BY <1>2, <1>7, <3>3, <3>4, <3>5, <4>1, XcoffMainMore
    <3>7. QED
      BY <1>1, <1>2, <1>4, <1>6, <1>7, <2>1, <2>5, <3>1, <3>2, <3>3, <3>4, <3>5, <3>6, XcoffGoes DEF id, refers
  <2>6. QED
    BY <1>9, <2>3, <2>4, <2>5
<1>10. QED
  BY <1>3, <1>8, <1>9

LEMMA XcoffLines == XcoffInv /\ X!Lines => XcoffInv'
<1> SUFFICES ASSUME XcoffInv, X!Lines PROVE XcoffInv'
  OBVIOUS
<1> DEFINE p == "lines"
           q == "close"
           linenos == {"linenos"}
           fdata == {"fdata"}
           id == X!NextId
           held == Mine(res.held, id)
           refers == Mine(kept, id)
           shown == X!F.views
           r == X!Taken(res, X!F.id, linenos)
           t == X!Taken(r, X!F.id, fdata)
           names == {"linenos", "fdata"} \cup (shown \cap {"str"})
           more == Plus(kept, X!F.id, names)
           valid == shown \cup linenos
           g == Shown(X!F, q, shown)
           h == Shown(X!F, q, valid)
           how == "xcoff_fileline"
<1>1. X!Reading(p)
  BY DEF X!Lines
<1>2. /\ stack # <<>> /\ XcoffObject(X!F) /\ X!F.id = id /\ X!F.at = p
      /\ res.open = {X!F.fd}
      /\ XcoffHolds(p, X!F.views, held, refers, faults)
      /\ XcoffOnly(res, kept) /\ res.unsure = {} /\ faults \in Nat
      /\ "symbols" \in refers => main.lib
  BY <1>1, XcoffAt DEF ObjectPlaces
<1>3. \/ X!Goes(g) /\ UNCHANGED <<main, res, kept, left, faults>>
      \/ \E fault : /\ X!Count(fault)
                    /\ \/ fault # X!None /\ X!Fails(shown, res) /\ UNCHANGED kept
                       \/ /\ X!Goes(h) /\ fault # X!None /\ (res' = r \/ res' = t) /\ kept' = kept
                          /\ main' = [main EXCEPT !.fileline = main.fileline] /\ UNCHANGED left
                       \/ /\ X!Goes(h) /\ res' = t /\ kept' = more
                          /\ main' = [main EXCEPT !.fileline = how] /\ UNCHANGED left
  <2> DEFINE f == X!F
  <2>1. [f EXCEPT !.at = q] = g
    BY <1>2, XcoffElsewhere
  <2>2. [X!F EXCEPT !.at = q, !.views = @ \cup linenos] = h
    BY DEF Shown
  <2>3. kept \cup ({X!F.id} \X ({"linenos", "fdata"} \cup (X!F.views \cap {"str"}))) = more
    BY DEF Plus
  <2>4. "linenos" # X!None /\ "fdata" # X!None
    BY DEF X!None
  <2> HIDE DEF g, h, more, f
  <2>5. \/ X!Goes(g) /\ UNCHANGED <<main, res, kept, left, faults>>
        \/ \E fault : /\ X!Count(fault)
                      /\ IF fault = "linenos" THEN X!Fails(shown, res) /\ UNCHANGED kept
                         ELSE /\ X!Goes(h)
                              /\ res'  = IF fault = "fdata" THEN r ELSE t
                              /\ kept' = IF fault # X!None THEN kept ELSE more
                              /\ main' = [main EXCEPT !.fileline = IF fault = X!None THEN how ELSE main.fileline]
                              /\ UNCHANGED left
    BY <2>1, <2>2, <2>3 DEF X!Lines, f
  <2> HIDE DEF r, t, how, shown
  <2>6. ASSUME NEW fault, X!Goes(h),
               res' = IF fault = "fdata" THEN r ELSE t,
               kept' = IF fault # X!None THEN kept ELSE more,
               main' = [main EXCEPT !.fileline = IF fault = X!None THEN how ELSE main.fileline],
               UNCHANGED left
        PROVE  \/ /\ X!Goes(h) /\ fault # X!None /\ (res' = r \/ res' = t) /\ kept' = kept
                  /\ main' = [main EXCEPT !.fileline = main.fileline] /\ UNCHANGED left
               \/ /\ X!Goes(h) /\ res' = t /\ kept' = more
                  /\ main' = [main EXCEPT !.fileline = how] /\ UNCHANGED left
    <3>1. CASE fault = X!None
      BY <2>4, <2>6, <3>1
    <3>2. CASE fault # X!None
      BY <2>6, <3>2
    <3>3. QED
      BY <3>1, <3>2
  <2>7. ASSUME NEW fault,
               IF fault = "linenos" THEN X!Fails(shown, res) /\ UNCHANGED kept
               ELSE /\ X!Goes(h)
                    /\ res'  = IF fault = "fdata" THEN r ELSE t
                    /\ kept' = IF fault # X!None THEN kept ELSE more
                    /\ main' = [main EXCEPT !.fileline = IF fault = X!None THEN how ELSE main.fileline]
                    /\ UNCHANGED left
        PROVE  \/ fault # X!None /\ X!Fails(shown, res) /\ UNCHANGED kept
               \/ /\ X!Goes(h) /\ fault # X!None /\ (res' = r \/ res' = t) /\ kept' = kept
                  /\ main' = [main EXCEPT !.fileline = main.fileline] /\ UNCHANGED left
               \/ /\ X!Goes(h) /\ res' = t /\ kept' = more
                  /\ main' = [main EXCEPT !.fileline = how] /\ UNCHANGED left
    <3>1. CASE fault = "linenos"
      BY ONLY <2>4, <2>7, <3>1
    <3>2. CASE fault # "linenos"
      <4>1. /\ X!Goes(h) /\ UNCHANGED left
            /\ res' = IF fault = "fdata" THEN r ELSE t
            /\ kept' = IF fault # X!None THEN kept ELSE more
            /\ main' = [main EXCEPT !.fileline = IF fault = X!None THEN how ELSE main.fileline]
        BY ONLY <2>7, <3>2
      <4>2. QED
        BY <2>6, <4>1
    <3>3. QED
      BY ONLY <3>1, <3>2
  <2>8. QED
    BY ONLY <2>5, <2>7
<1>4. /\ p = "lines" /\ q = "close" /\ linenos = {"linenos"} /\ fdata = {"fdata"}
      /\ p \in ObjectPlaces /\ q \in ObjectPlaces
      /\ q \notin {"header", "symbols"} /\ p \in {"debug", "lines"}
  BY DEF ObjectPlaces
<1> HIDE DEF p, q, linenos, fdata, id, held, refers, shown, how
<1>6. XcoffOnly(r, kept) /\ r.open = res.open /\ r.unsure = res.unsure /\ Mine(r.held, id) = held \cup linenos
  BY <1>2, XcoffTaken DEF held, id
<1> HIDE DEF r
<1>7. XcoffOnly(t, kept) /\ t.open = res.open /\ t.unsure = res.unsure /\ Mine(t.held, id) = held \cup linenos \cup fdata
  BY <1>2, <1>6, XcoffTaken DEF id
<1> HIDE DEF t
<1>8. XcoffOnly(t, more) /\ Mine(more, id) = refers \cup names /\ \A i : Mine(kept, i) \subseteq Mine(more, i)
  BY <1>2, <1>7, XcoffPlus DEF refers, id
<1> HIDE DEF more
<1>9. CASE X!Goes(g) /\ UNCHANGED <<main, res, kept, left, faults>>
  BY <1>1, <1>4, <1>9, XcoffSkips DEF shown
<1>10. ASSUME NEW fault, X!Count(fault),
              \/ fault # X!None /\ X!Fails(shown, res) /\ UNCHANGED kept
              \/ /\ X!Goes(h) /\ fault # X!None /\ (res' = r \/ res' = t) /\ kept' = kept
                 /\ main' = [main EXCEPT !.fileline = main.fileline] /\ UNCHANGED left
              \/ /\ X!Goes(h) /\ res' = t /\ kept' = more
                 /\ main' = [main EXCEPT !.fileline = how] /\ UNCHANGED left
       PROVE  XcoffInv'
  <2>1. XcoffFaults /\ (fault # X!None => faults' > 0) /\ res.unsure = {}
    <3>1. XcoffFaults /\ (fault # X!None => faults' > 0)
      BY <1>2, <1>10, XcoffCount
    <3>2. QED
      BY <1>2, <3>1 DEF XcoffFaults
  <2>2. /\ shown \subseteq held /\ refers \subseteq held /\ refers \cap SectsAndSyms = {}
        /\ shown \subseteq SectsAndSyms \cup Loose
        /\ held \cap SectsAndSyms \subseteq shown
        /\ \A w \in held \ refers : w \in SectsAndSyms \/ (w \in LinesAndData /\ faults' > 0)
    BY <1>2, <2>1 DEF XcoffHolds, XcoffFaults, shown
  <2>3. /\ XcoffObject(h) /\ h.at = q /\ h.views = valid /\ h.id = X!F.id /\ h.fd = X!F.fd /\ h.inside = X!F.inside
    BY <1>2, <1>4, XcoffShown DEF h
  <2> HIDE DEF h
  <2>4. h.views = shown \cup {"linenos"} /\ h.at = "close"
    BY <1>4, <2>3
  <2>5. main = [x \in XcoffMainFields |-> main[x]] /\ main.sym \in BOOLEAN /\ main.lib \in BOOLEAN
    BY DEF XcoffInv, XcoffMain
  <2>6. CASE fault # X!None /\ X!Fails(shown, res) /\ UNCHANGED kept
    <3>1. XcoffMayFail(shown, res)
      BY <1>2, <2>1, <2>2, <2>6 DEF XcoffMayFail, held, refers, id
    <3>2. QED
      BY <1>1, <1>4, <2>1, <2>6, <3>1, XcoffFails
  <2>7. CASE /\ X!Goes(h) /\ fault # X!None /\ (res' = r \/ res' = t) /\ kept' = kept
             /\ main' = [main EXCEPT !.fileline = main.fileline] /\ UNCHANGED left
    <3>1. /\ XcoffOnly(res', kept) /\ res'.open = res.open /\ res'.unsure = res.unsure
          /\ Mine(res'.held, id) = held \cup {"linenos"} \/ Mine(res'.held, id) = held \cup {"linenos", "fdata"}
      BY <1>4, <1>6, <1>7, <2>7
    <3>2. XcoffHolds(h.at, h.views, Mine(res'.held, id), refers, faults')
      <4>1. faults' > 0
        BY <2>1, <2>7
      <4>2. QED
        BY ONLY <2>2, <2>4, <3>1, <4>1 DEF XcoffHolds, SectsAndSyms, Loose, LinesAndData
    <3>3. main' = main /\ kept' = kept /\ left' = left
      BY <2>5, <2>7 DEF XcoffMainFields
    <3>4. XcoffMain'
      <4>1. stack' # <<>>
        BY <1>2, <2>7, XcoffStays
      <4>2. QED
        BY <1>2, <3>3, <4>1 DEF XcoffInv, XcoffMain
    <3>5. QED
      BY <1>1, <1>2, <1>4, <2>1, <2>3, <2>7, <3>1, <3>2, <3>3, <3>4, XcoffGoes DEF id, refers
  <2>8. CASE /\ X!Goes(h) /\ res' = t /\ kept' = more
             /\ main' = [main EXCEPT !.fileline = how] /\ UNCHANGED left
    <3>1. XcoffHolds(h.at, h.views, Mine(t.held, id), Mine(more, id), faults')
      <4>1. /\ Mine(t.held, id) = held \cup {"linenos", "fdata"}
            /\ Mine(more, id) = refers \cup ({"linenos", "fdata"} \cup (shown \cap {"str"}))
        BY <1>4, <1>7, <1>8
      <4>2. QED
        BY ONLY <2>2, <2>4, <4>1 DEF XcoffHolds, SectsAndSyms, Loose, LinesAndData
    <3>2. /\ main' = [x \in XcoffMainFields |-> main'[x]] /\ main'.lib = main.lib /\ main'.lib \in BOOLEAN
          /\ main'.at = main.at /\ (main'.sym <=> main.sym) /\ main'.sym \in BOOLEAN
      BY <2>5, <2>8 DEF XcoffMainFields
    <3>3. kept' = more /\ res' = t /\ left' = left
      BY <2>8
    <3>4. "linenos" \in Mine(more, id) /\ ("symbols" \in Mine(more, id) => "symbols" \in refers)
      BY <1>8
    <3>5. XcoffMain'
      <4>1. stack' # <<>>
        BY <1>2, <2>8, XcoffStays
      <4>2. QED
        BY <1>2, <1>8, <3>2, <3>3, <3>4, <4>1, XcoffMainMore
    <3>6. QED
      BY <1>1, <1>2, <1>4, <1>7, <1>8, <2>1, <2>3, <2>8, <3>1, <3>2, <3>3, <3>4, <3>5, XcoffGoes DEF id, refers
  <2>9. QED
    BY <1>10, <2>6, <2>7, <2>8
<1>11. QED
  BY <1>3, <1>9, <1>10

LEMMA XcoffClose == XcoffInv /\ X!Close => XcoffInv'
<1> SUFFICES ASSUME XcoffInv, X!Close PROVE XcoffInv'
  OBVIOUS
<1> DEFINE p == "close"
           id == X!NextId
           fd == X!F.fd
           held == Mine(res.held, id)
           refers == Mine(kept, id)
           shown == X!F.views
           gone == shown \cap X!Temporary
           rest == shown \ X!Temporary
           s == X!Released(res, X!F.id, gone)
           c == X!Closed(s, fd)
           d == X!CloseFails(s, fd)
           yes == TRUE
<1>1. X!Reading(p) /\ kept' = kept
  BY DEF X!Close
<1>2. /\ stack # <<>> /\ XcoffObject(X!F) /\ X!F.id = id /\ X!F.at = p
      /\ res.open = {fd}
      /\ XcoffHolds(p, shown, held, refers, faults)
      /\ XcoffOnly(res, kept) /\ res.unsure = {} /\ faults \in Nat
      /\ fd # NoFile
  BY <1>1, XcoffAt DEF ObjectPlaces, XcoffObject
<1>3. PICK fault : /\ X!Count(fault)
                   /\ \/ X!Returns(yes, c)
                      \/ fault # X!None /\ X!Fails(rest, d)
  BY DEF X!Close
<1>4. p \in ObjectPlaces /\ X!Temporary = SectsAndSyms /\ yes = TRUE
  BY DEF ObjectPlaces, X!Temporary, SectsAndSyms
<1> HIDE DEF p, id, held, refers, shown, yes, fd
<1>5. XcoffFaults /\ (fault # X!None => faults' > 0)
  BY <1>2, <1>3, XcoffCount
<1>6. res.unsure = {}
  BY <1>2, <1>5 DEF XcoffFaults
<1>7. /\ shown \subseteq held /\ refers \subseteq held /\ refers \cap SectsAndSyms = {}
      /\ shown \subseteq SectsAndSyms \cup Loose
      /\ held \cap SectsAndSyms \subseteq shown
      /\ \A w \in held \ refers : w \in SectsAndSyms \/ (w \in LinesAndData /\ faults' > 0)
  BY <1>2, <1>5 DEF XcoffHolds, XcoffFaults
<1>8. gone \subseteq held
  BY <1>7
<1> HIDE DEF gone
<1>9. XcoffOnly(s, kept) /\ s.open = res.open /\ s.unsure = res.unsure /\ Mine(s.held, id) = held \ gone
  BY <1>2, <1>8, XcoffReleased DEF held, id
<1> HIDE DEF s
<1>10. /\ Ledger(c) /\ c.held = s.held /\ c.open = s.open \ {fd}
       /\ c.unsure = s.unsure \ {fd}
       /\ Ledger(d) /\ d.held = s.held /\ d.open = s.open \ {fd} /\ d.unsure = {fd}
  BY <1>2, <1>6, <1>9, ClosedIs, CloseFailsIs, XcoffResources DEF XcoffOnly
<1> HIDE DEF c, d
<1>11. /\ XcoffOnly(c, kept) /\ c.open = {} /\ c.unsure = {}
       /\ XcoffOnly(d, kept) /\ d.open = {} /\ d.unsure = {X!F.fd}
  BY <1>2, <1>6, <1>9, <1>10 DEF XcoffOnly, fd
<1>12. Mine(c.held, id) = held \ SectsAndSyms /\ Mine(d.held, id) = held \ SectsAndSyms
  BY <1>4, <1>7, <1>9, <1>10 DEF gone
<1>13. CASE X!Returns(yes, c)
  <2>1. XcoffDone(Mine(c.held, id), Mine(kept, id), ~yes, faults')
    <3>1. XcoffDone(held \ SectsAndSyms, refers, ~yes, faults')
      BY <1>7 DEF XcoffDone
    <3>2. QED
      BY <1>12, <3>1 DEF refers
  <2>2. yes \in BOOLEAN /\ yes
    BY <1>4
  <2>3. QED
    BY <1>1, <1>4, <1>5, <1>11, <1>13, <2>1, <2>2, XcoffReturns DEF id
<1>14. CASE fault # X!None /\ X!Fails(rest, d)
  <2>1. rest = shown \ SectsAndSyms
    BY <1>4
  <2> HIDE DEF rest
  <2>2. XcoffMayFail(rest, d)
    BY <1>5, <1>7, <1>11, <1>12, <1>14, <2>1 DEF XcoffMayFail, refers, id
  <2>3. QED
    BY <1>1, <1>4, <1>5, <1>14, <2>2, XcoffFails
<1>15. QED
  BY <1>3, <1>13, <1>14

ArchivePlaces == {"archive", "member", "tried"}

LEMMA XcoffInArchive ==
  ASSUME XcoffInv, NEW place \in ArchivePlaces, X!Reading(place)
  PROVE  /\ stack = <<X!F>> /\ XcoffArchive(X!F) /\ X!F.at = place
         /\ ArchiveOpen(X!F, res)
         /\ Mine(res.held, X!NextId) = {} /\ Mine(kept, X!NextId) = {}
         /\ Ledger(res) /\ faults \in Nat
         /\ Mine(res.held, 0) = IF place = "tried" THEN {"member"} ELSE {}
         /\ main.at \in {"program", "libraries"} /\ Len(stack) = 1 /\ stack[1] = X!F /\ stack # <<>>
<1>1. stack # <<>> /\ X!F.at = place
  BY DEF X!Reading
<1>2. ASSUME NEW o, XcoffStack(stack, o), XcoffObject(o) PROVE FALSE
  <2>1. X!F = o
    BY <1>2, XcoffTop DEF XcoffStack
  <2>2. QED
    BY <1>1, <1>2, <2>1 DEF XcoffObject, ObjectPlaces, ArchivePlaces
<1>3. PICK a : /\ stack = <<a>> /\ XcoffArchive(a) /\ ArchiveOpen(a, res)
               /\ Mine(res.held, X!NextId) = {} /\ Mine(kept, X!NextId) = {}
  BY <1>1, <1>2 DEF XcoffInv, XcoffShape, AtWork
<1>4. X!F = a /\ Len(stack) = 1 /\ stack[1] = a
  BY <1>3, XcoffTop
<1>5. Ledger(res) /\ faults \in Nat
  BY DEF XcoffInv, XcoffLedger
<1>6. main.at \in {"program", "libraries"}
  BY <1>1 DEF XcoffInv, XcoffMain
<1>7. Mine(res.held, 0) = IF place = "tried" THEN {"member"} ELSE {}
  BY <1>1, <1>4 DEF XcoffInv, XcoffRest
<1>8. QED
  BY <1>1, <1>3, <1>4, <1>5, <1>6, <1>7

\* What is the member's is backtrace_initialize's ledger row 0; no reader's is touched.
XcoffOthers(r) == Ledger(r) /\ \A i : i # 0 => Mine(r.held, i) = Mine(res.held, i)

LEMMA XcoffMoves ==
  ASSUME XcoffInv, NEW place \in ArchivePlaces, X!Reading(place), UNCHANGED <<left, kept>>,
         XcoffFaults, XcoffOthers(res'),
         Mine(res'.held, 0) = IF stack' # <<>> /\ stack'[1].at = "tried" THEN {"member"} ELSE {},
         \/ stack' = <<>> /\ res'.open = {} /\ res'.unsure = {}
         \/ \E b : stack' = <<b>> /\ XcoffArchive(b) /\ ArchiveOpen(b, res') /\ ~X!F.ret,
         main' = main \/ \E ret : main' = [main EXCEPT !.ret = ret]
  PROVE  XcoffInv'
<1>1. /\ stack = <<X!F>> /\ XcoffArchive(X!F)
      /\ Mine(res.held, X!NextId) = {} /\ Mine(kept, X!NextId) = {}
      /\ main.at \in {"program", "libraries"} /\ stack[1] = X!F /\ stack # <<>>
  BY XcoffInArchive
<1>2. X!NextId \in Nat /\ X!NextId # 0 /\ X!NextId' = X!NextId /\ IsStack(left)
  BY XcoffNextId DEF X!NextId
<1>3. /\ main' = [x \in XcoffMainFields |-> main'[x]]
      /\ main'.at = main.at /\ main'.sym = main.sym /\ main'.lib = main.lib
      /\ main'.syminfo = main.syminfo /\ main'.fileline = main.fileline
  <2>1. main = [x \in XcoffMainFields |-> main[x]]
    BY DEF XcoffInv, XcoffMain
  <2>2. QED
    BY <2>1 DEF XcoffMainFields
<1>4. XcoffMain'
  <2>1. XcoffMain
    BY DEF XcoffInv
  <2>2. main.at \notin {"set", "done", "failed"}
    BY <1>1
  <2>3. kept' = kept
    OBVIOUS
  <2>4. QED
    BY <1>3, <2>1, <2>2, <2>3 DEF XcoffMain
<1>5. XcoffLedger'
  BY <1>2 DEF XcoffInv, XcoffLedger, XcoffOthers, XcoffFaults
<1>6. XcoffRest'
  <2>1. XcoffRest
    BY DEF XcoffInv
  <2>2. ASSUME NEW i, i # X!NextId, i # 0
        PROVE  XcoffDone(Mine(res'.held, i), Mine(kept, i), FailedIn(left, i), faults')
    <3>1. XcoffDone(Mine(res.held, i), Mine(kept, i), FailedIn(left, i), faults)
      BY <2>1, <2>2 DEF XcoffRest
    <3>2. Mine(res'.held, i) = Mine(res.held, i)
      BY <2>2 DEF XcoffOthers
    <3>3. QED
      BY <3>1, <3>2 DEF XcoffDone, XcoffFaults
  <2>3. ASSUME NEW i, Mine(res'.held, i) # {} \/ Mine(kept, i) # {} PROVE i \in 0 .. X!NextId
    <3>1. CASE i = 0
      BY <1>2, <3>1
    <3>2. CASE i # 0
      BY <2>1, <2>3, <3>2 DEF XcoffRest, XcoffOthers
    <3>3. QED
      BY <3>1, <3>2
  <2>4. XcoffSettled(main.at, stack') => XcoffSettled(main.at, stack)
    BY <1>1 DEF XcoffSettled, XcoffArchive
  <2>5. main'.sym = main.sym /\ main'.lib = main.lib /\ main'.at = main.at /\ kept' = kept /\ left' = left
    BY <1>3
  <2>6. XcoffAdded(X!NextId, left, kept) => main.sym \/ (main.lib /\ ~XcoffSettled(main.at, stack'))
    BY <2>1, <2>4 DEF XcoffRest
  <2>7. Mine(kept, 0) = {}
    BY <2>1 DEF XcoffRest
  <2>8. QED
    BY <1>2, <2>2, <2>3, <2>5, <2>6, <2>7 DEF XcoffRest
<1>7. XcoffShape(stack', X!NextId, res', Mine(res'.held, X!NextId), Mine(kept, X!NextId), main'.lib, faults')
  <2>1. Mine(res'.held, X!NextId) = {} /\ Mine(kept, X!NextId) = {}
    BY <1>1, <1>2 DEF XcoffOthers
  <2>2. QED
    BY <2>1 DEF XcoffShape
<1>8. QED
  BY <1>2, <1>4, <1>5, <1>6, <1>7 DEF XcoffInv

LEMMA XcoffGivesUp ==
  ASSUME XcoffInv, NEW place \in ArchivePlaces, X!Reading(place), ~X!F.ret, NEW r, X!GivesUp(r),
         XcoffOthers(r), r.open = res.open, r.unsure = res.unsure, Mine(r.held, 0) = {},
         XcoffFaults, UNCHANGED <<left, kept>>
  PROVE  XcoffInv'
<1> DEFINE fd == X!F.fd
           c == Closed(r, fd)
           no == FALSE
<1>1. stack' = <<>> /\ res' = c /\ main' = [main EXCEPT !.ret = no]
  BY XcoffResources DEF X!GivesUp
<1>2. ArchiveOpen(X!F, res) /\ fd # NoFile
  BY XcoffInArchive DEF XcoffArchive
<1>3. /\ Ledger(c) /\ c.held = r.held /\ c.open = r.open \ {fd}
      /\ c.unsure = r.unsure \ {fd}
  <2>1. fd \in r.open \cup r.unsure
    BY <1>2 DEF ArchiveOpen
  <2>2. QED
    BY <1>2, <2>1, ClosedIs DEF XcoffOthers
<1> HIDE DEF c, no
<1>4. c.open = {} /\ c.unsure = {}
  BY <1>2, <1>3 DEF ArchiveOpen
<1>5. XcoffOthers(c)
  BY <1>3 DEF XcoffOthers
<1>6. QED
  BY <1>1, <1>3, <1>4, <1>5, XcoffMoves

LEMMA XcoffSeek == XcoffInv /\ X!Seek => XcoffInv'
<1> SUFFICES ASSUME XcoffInv, X!Seek PROVE XcoffInv'
  OBVIOUS
<1> DEFINE p == "archive"
           q == "member"
           g == [X!F EXCEPT !.at = q]
<1>1. X!Reading(p) /\ UNCHANGED <<left, kept>>
  BY DEF X!Seek
<1>2. PICK fault : /\ X!Count(fault)
                   /\ X!GivesUp(res) \/ (X!Goes(g) /\ UNCHANGED <<main, res>>)
  BY DEF X!Seek
<1>3. p = "archive" /\ q = "member" /\ p \in ArchivePlaces
  BY DEF ArchivePlaces
<1> HIDE DEF p, q
<1>4. /\ stack = <<X!F>> /\ XcoffArchive(X!F) /\ X!F.at = p /\ Len(stack) = 1
      /\ ArchiveOpen(X!F, res)
      /\ Ledger(res) /\ faults \in Nat
      /\ Mine(res.held, 0) = {}
  BY <1>1, <1>3, XcoffInArchive
<1>5. XcoffFaults
  BY <1>2, <1>4, XcoffCount
<1>6. ~X!F.ret /\ XcoffOthers(res)
  BY <1>3, <1>4 DEF XcoffArchive, XcoffOthers
<1>7. CASE X!GivesUp(res)
  BY <1>1, <1>3, <1>4, <1>5, <1>6, <1>7, XcoffGivesUp
<1>8. CASE X!Goes(g) /\ UNCHANGED <<main, res>>
  <2>1. g = [x \in ArchiveFields |-> g[x]] /\ g.at = q /\ g.id = X!F.id /\ g.ret = X!F.ret /\ g.fd = X!F.fd
    BY <1>4 DEF XcoffArchive, ArchiveFields
  <2> DEFINE f == X!F
  <2>2. stack' = <<g>>
    <3>1. stack = <<f>> /\ stack' = [stack EXCEPT ![1] = g]
      BY <1>4, <1>8 DEF X!Goes
    <3> HIDE DEF g, f
    <3>2. QED
      BY <3>1
  <2> HIDE DEF g
  <2>3. XcoffArchive(g) /\ stack'[1] = g /\ g.at # "tried"
    BY <1>3, <1>4, <1>6, <2>1, <2>2 DEF XcoffArchive
  <2>4. ArchiveOpen(g, res')
    BY <1>4, <1>5, <1>8, <2>1 DEF ArchiveOpen, XcoffFaults
  <2>5. /\ XcoffOthers(res') /\ main' = main
        /\ Mine(res'.held, 0) = IF stack' # <<>> /\ stack'[1].at = "tried" THEN {"member"} ELSE {}
    BY <1>4, <1>5, <1>6, <1>8, <2>3 DEF XcoffFaults
  <2>6. \E b : stack' = <<b>> /\ XcoffArchive(b) /\ ArchiveOpen(b, res') /\ ~X!F.ret
    BY <1>6, <2>2, <2>3, <2>4
  <2>7. QED
    BY <1>1, <1>3, <1>5, <2>5, <2>6, XcoffMoves
<1>9. QED
  BY <1>2, <1>7, <1>8

\* The archive's frame at another member or place.
AtMember(f, place, i) == [f EXCEPT !.at = place, !.i = i]

LEMMA XcoffAtMember ==
  ASSUME NEW f, XcoffArchive(f), ~f.ret, NEW p \in ArchivePlaces, NEW i
  PROVE  LET g == AtMember(f, p, i)
         IN  XcoffArchive(g) /\ g.at = p /\ ~g.ret /\ g.fd = f.fd
<1> DEFINE g == AtMember(f, p, i)
<1>1. f = [x \in ArchiveFields |-> f[x]]
  BY DEF XcoffArchive
<1>2. g = [x \in ArchiveFields |-> g[x]] /\ g.at = p /\ g.id = f.id /\ g.fd = f.fd /\ g.ret = f.ret
  BY <1>1 DEF ArchiveFields, AtMember
<1> HIDE DEF g
<1>3. XcoffArchive(g)
  BY <1>2 DEF XcoffArchive, ArchivePlaces
<1>4. QED
  BY <1>2, <1>3 DEF g

\* The archive's frame goes to a place where no member is open.
LEMMA XcoffNextMember ==
  ASSUME XcoffInv, NEW place \in ArchivePlaces, X!Reading(place), ~X!F.ret,
         NEW i, X!Goes(AtMember(X!F, "member", i)), UNCHANGED <<left, kept, main>>,
         XcoffFaults, XcoffOthers(res'), res'.open = res.open, res'.unsure = res.unsure, Mine(res'.held, 0) = {}
  PROVE  XcoffInv'
<1> DEFINE p == "member"
           f == X!F
           g == AtMember(X!F, p, i)
<1>1. /\ stack = <<f>> /\ XcoffArchive(f) /\ Len(stack) = 1
      /\ ArchiveOpen(f, res)
  BY XcoffInArchive
<1>2. p \in ArchivePlaces /\ p # "tried" /\ X!Goes(g) /\ ~f.ret
  BY DEF ArchivePlaces
<1> HIDE DEF p
<1>3. XcoffArchive(g) /\ g.at = p /\ ~g.ret /\ g.fd = f.fd
  BY <1>1, <1>2, XcoffAtMember
<1> HIDE DEF g, f
<1>4. stack' = <<g>>
  <2>1. stack' = [stack EXCEPT ![1] = g]
    BY <1>1, <1>2 DEF X!Goes
  <2>2. QED
    BY <1>1, <2>1
<1>5. stack'[1] = g /\ g.at # "tried"
  BY <1>2, <1>3, <1>4
<1>6. ArchiveOpen(g, res')
  BY <1>1, <1>2, <1>3 DEF ArchiveOpen, XcoffFaults
<1>7. main' = main
  OBVIOUS
<1>8. Mine(res'.held, 0) = IF stack' # <<>> /\ stack'[1].at = "tried" THEN {"member"} ELSE {}
  BY <1>5
<1>9. \E b : stack' = <<b>> /\ XcoffArchive(b) /\ ArchiveOpen(b, res') /\ ~f.ret
  BY <1>2, <1>3, <1>4, <1>6
<1>10. QED
  BY <1>7, <1>8, <1>9, XcoffMoves DEF f

LEMMA XcoffTakes ==
  ASSUME NEW r, Ledger(r), NEW id, NEW whats
  PROVE  LET s == Taken(r, id, whats)
         IN  /\ Ledger(s) /\ s.open = r.open /\ s.unsure = r.unsure
             /\ Mine(r.held, id) = {} => Mine(s.held, id) = whats
             /\ \A i : i # id => Mine(s.held, i) = Mine(r.held, i)
<1> DEFINE s == Taken(r, id, whats)
<1>1. Ledger(s) /\ s.open = r.open /\ s.unsure = r.unsure
  BY TakenMine
<1>2. Mine(s.held, id) = Mine(r.held, id) \cup whats
  BY TakenMine
<1>3. \A i : i # id => Mine(s.held, i) = Mine(r.held, i)
  BY TakenMine
<1> HIDE DEF s
<1>4. Mine(r.held, id) = {} => Mine(s.held, id) = whats
  BY <1>2
<1>5. QED
  BY <1>1, <1>3, <1>4 DEF s

LEMMA AppendOne == \A x, y : Append(<<x>>, y) = <<x, y>>
<1> SUFFICES ASSUME NEW x, NEW y PROVE Append(<<x>>, y) = <<x, y>>
  OBVIOUS
<1> DEFINE T == {x, y}
           s == <<x>>
           t == <<x, y>>
<1>1. s \in Seq(T) /\ Len(s) = 1 /\ s[1] = x /\ y \in T
  OBVIOUS
<1>2. t \in Seq(T) /\ Len(t) = 2 /\ t[1] = x /\ t[2] = y
  OBVIOUS
<1> HIDE DEF s, t, T
<1>3. Append(s, y) \in Seq(T) /\ Len(Append(s, y)) = 2 /\ Append(s, y)[1] = x /\ Append(s, y)[2] = y
  <2>1. Append(s, y) \in Seq(T)
    BY ONLY <1>1
  <2>2. IsStack(s)
    BY <1>1 DEF IsStack
  <2>3. /\ Len(Append(s, y)) = Len(s) + 1 /\ Append(s, y)[Len(s) + 1] = y
        /\ \A j \in 1 .. Len(s) : Append(s, y)[j] = s[j]
    BY <2>2, Pushed
  <2>4. Len(s) + 1 = 2 /\ 1 \in 1 .. Len(s)
    BY <1>1
  <2>5. QED
    BY ONLY <1>1, <2>1, <2>3, <2>4
<1>4. \A i \in 1 .. 2 : Append(s, y)[i] = t[i]
  BY <1>2, <1>3
<1>5. Append(s, y) = t
  BY <1>2, <1>3, <1>4, SeqEqual
<1>6. QED
  BY <1>5 DEF s, t

\* The member is read: a call of xcoff_add above that of xcoff_armem_add.
LEMMA XcoffOpensMember ==
  ASSUME XcoffInv, X!Reading("member"), X!Readable, NEW m,
         stack' = Append([stack EXCEPT ![1].at = "tried"], X!Object(X!NextId, X!F.fd, m, FALSE, TRUE)),
         res' = X!Taken(res, 0, {"member"}), main' = [main EXCEPT !.lib = FALSE],
         XcoffFaults, UNCHANGED <<left, kept>>
  PROVE  XcoffInv'
<1> DEFINE p == "member"
           q == "tried"
           no == FALSE
           view == {"member"}
           id == X!NextId
           f == X!F
           a == AtMember(f, q, f.i)
           o == X!Object(id, f.fd, m, FALSE, TRUE)
           t == Taken(res, 0, view)
<1>1. X!Reading(p) /\ p \in ArchivePlaces /\ q \in ArchivePlaces /\ q = "tried" /\ p = "member" /\ view = {"member"}
      /\ no = FALSE
  BY DEF ArchivePlaces
<1>2. /\ stack = <<f>> /\ XcoffArchive(f) /\ f.at = p /\ Len(stack) = 1 /\ stack[1] = f /\ stack # <<>>
      /\ ArchiveOpen(f, res)
      /\ Ledger(res) /\ faults \in Nat
      /\ Mine(res.held, id) = {} /\ Mine(kept, id) = {}
      /\ Mine(res.held, 0) = {}
      /\ main.at \in {"program", "libraries"}
  BY <1>1, XcoffInArchive
<1>3. ~f.ret /\ f.fd # NoFile /\ f.id = 0
  BY <1>1, <1>2 DEF XcoffArchive
<1>4. res.open = {f.fd} /\ res.unsure = {}
  BY <1>2 DEF ArchiveOpen, X!Readable
<1>5. X!NextId \in Nat /\ X!NextId # 0 /\ X!NextId' = X!NextId /\ IsStack(left)
  BY XcoffNextId DEF X!NextId
<1>6. /\ XcoffObject(o) /\ o.id = id /\ o.fd = f.fd /\ o.at = "header" /\ o.views = {} /\ o.inside = TRUE
  BY <1>3 DEF X!Object, XcoffObject, ObjectFields, ObjectPlaces
<1>7. XcoffArchive(a) /\ a.at = q /\ ~a.ret /\ a.fd = f.fd /\ a.id = 0
  <2>1. XcoffArchive(a) /\ a.at = q /\ ~a.ret /\ a.fd = f.fd
    BY <1>1, <1>2, <1>3, XcoffAtMember
  <2> HIDE DEF a
  <2>2. QED
    BY <2>1 DEF XcoffArchive
<1>8. main' = [main EXCEPT !.lib = no] /\ res' = t /\ kept' = kept /\ left' = left
  BY XcoffResources
<1> HIDE DEF p, view, id, t, no
<1>9. stack' = <<a, o>>
  <2>1. f = [x \in ArchiveFields |-> f[x]]
    BY <1>2 DEF XcoffArchive
  <2> HIDE DEF f, o
  <2>2. [f EXCEPT !.at = "tried"] = a
    BY <2>1 DEF ArchiveFields, AtMember
  <2> HIDE DEF a
  <2>3. [stack EXCEPT ![1].at = "tried"] = <<a>>
    BY <1>2, <2>2
  <2>4. stack' = Append([stack EXCEPT ![1].at = "tried"], o)
    BY DEF o, id, f
  <2>5. stack' = Append(<<a>>, o)
    BY ONLY <2>3, <2>4
  <2>6. QED
    BY <2>5, AppendOne
<1> HIDE DEF a, o, f
<1>10. /\ Ledger(t) /\ t.open = res.open /\ t.unsure = res.unsure
       /\ Mine(t.held, 0) = view
       /\ \A i : i # 0 => Mine(t.held, i) = Mine(res.held, i)
  <2>1. Ledger(res) /\ Mine(res.held, 0) = {}
    BY <1>2
  <2>2. QED
    BY ONLY <2>1, XcoffTakes DEF t
<1>11. stack' # <<>> /\ stack'[1] = a /\ XcoffStack(stack', o)
  <2>1. stack' # <<>> /\ stack'[1] = a
    BY ONLY <1>9
  <2>2. stack' = <<a, o>> /\ XcoffArchive(a) /\ a.at = "tried" /\ ~a.ret /\ o.inside = TRUE /\ o.fd = a.fd
    BY <1>1, <1>6, <1>7, <1>9
  <2>3. QED
    BY ONLY <2>1, <2>2 DEF XcoffStack
<1>12. /\ main' = [x \in XcoffMainFields |-> main'[x]] /\ main'.lib = no
       /\ main'.at = main.at /\ (main'.sym <=> main.sym) /\ main'.sym \in BOOLEAN
       /\ main'.syminfo = main.syminfo /\ main'.fileline = main.fileline
  <2>1. main = [x \in XcoffMainFields |-> main[x]] /\ main.sym \in BOOLEAN
    BY DEF XcoffInv, XcoffMain
  <2>2. QED
    BY <1>8, <2>1 DEF XcoffMainFields
<1>13. XcoffMain'
  <2>1. XcoffMain
    BY DEF XcoffInv
  <2>2. main.at \notin {"set", "done", "failed"}
    BY <1>2
  <2>3. QED
    BY <1>1, <1>8, <1>12, <2>1, <2>2 DEF XcoffMain
<1>14. XcoffLedger'
  BY <1>2, <1>8, <1>10 DEF XcoffInv, XcoffLedger, XcoffFaults
<1>15. XcoffRest'
  <2>1. XcoffRest
    BY DEF XcoffInv
  <2>2. ASSUME NEW i, i # id, i # 0
        PROVE  XcoffDone(Mine(t.held, i), Mine(kept, i), FailedIn(left, i), faults')
    <3>1. XcoffDone(Mine(res.held, i), Mine(kept, i), FailedIn(left, i), faults)
      BY <2>1, <2>2 DEF XcoffRest, id
    <3>2. QED
      BY <1>10, <2>2, <3>1 DEF XcoffDone, XcoffFaults
  <2>3. ASSUME NEW i, Mine(t.held, i) # {} \/ Mine(kept, i) # {} PROVE i \in 0 .. id
    <3>1. CASE i = 0
      BY <1>5, <3>1 DEF id
    <3>2. CASE i # 0
      BY <1>10, <2>1, <2>3, <3>2 DEF XcoffRest, id
    <3>3. QED
      BY <3>1, <3>2
  <2>4. XcoffAdded(id, left, kept) => main.sym
    <3>1. XcoffSettled(main.at, stack)
      BY <1>2, <1>3 DEF XcoffSettled
    <3>2. QED
      BY <2>1, <3>1 DEF XcoffRest, id
  <2>5. Mine(kept, 0) = {} /\ stack'[1].at = "tried"
    BY <1>1, <1>7, <1>11, <2>1 DEF XcoffRest
  <2>6. X!NextId' = id /\ id = X!NextId
    BY <1>5 DEF id
  <2>7. Mine(t.held, 0) = {"member"}
    BY <1>1, <1>10
  <2> HIDE DEF id
  <2>8. QED
    BY <1>8, <1>11, <1>12, <2>2, <2>3, <2>4, <2>5, <2>6, <2>7 DEF XcoffRest
<1>16. XcoffShape(stack', X!NextId, res', Mine(res'.held, X!NextId), Mine(kept', X!NextId), main'.lib, faults')
  <2>1. Mine(t.held, id) = {} /\ t.open = {o.fd} /\ t.unsure = {}
    BY <1>2, <1>4, <1>5, <1>6, <1>10 DEF id
  <2>2. AtWork(o, id, t, {}, {}, main'.lib, faults')
    BY <1>6, <2>1 DEF AtWork, XcoffHolds
  <2>3. QED
    BY <1>2, <1>8, <1>11, <2>1, <2>2 DEF XcoffShape, id
<1>17. QED
  BY <1>5, <1>13, <1>14, <1>15, <1>16 DEF XcoffInv

LEMMA XcoffMember == XcoffInv /\ X!Member => XcoffInv'
<1> SUFFICES ASSUME XcoffInv, X!Member PROVE XcoffInv'
  OBVIOUS
<1> DEFINE p == "member"
           m == X!Members[X!F.i]
           o == X!Object(X!NextId, X!F.fd, m.object, FALSE, TRUE)
           g == [X!F EXCEPT !.i = @ + 1]
<1>1. X!Reading(p) /\ UNCHANGED <<left, kept>>
  BY DEF X!Member
<1>2. \/ X!GivesUp(res) /\ UNCHANGED faults
      \/ \E fault : /\ X!Count(fault)
                    /\ \/ X!GivesUp(res)
                       \/ X!Goes(g) /\ UNCHANGED <<main, res>>
                       \/ /\ X!Readable /\ stack' = Append([stack EXCEPT ![1].at = "tried"], o)
                          /\ res' = X!Taken(res, 0, {"member"}) /\ main' = [main EXCEPT !.lib = FALSE]
  BY DEF X!Member
<1>3. p = "member" /\ p \in ArchivePlaces
  BY DEF ArchivePlaces
<1>4. /\ XcoffArchive(X!F) /\ X!F.at = p
      /\ Ledger(res) /\ faults \in Nat
      /\ Mine(res.held, 0) = {}
  BY <1>1, <1>3, XcoffInArchive
<1>5. ~X!F.ret /\ XcoffOthers(res)
  BY <1>3, <1>4 DEF XcoffArchive, XcoffOthers
<1>6. g = AtMember(X!F, p, X!F.i + 1)
  <2> DEFINE f == X!F
             n == X!F.i + 1
  <2>1. f = [x \in ArchiveFields |-> f[x]] /\ f.at = p
    BY <1>4 DEF XcoffArchive
  <2>2. g = [f EXCEPT !.i = n]
    OBVIOUS
  <2> HIDE DEF g, f, n
  <2>3. QED
    BY <2>1, <2>2 DEF ArchiveFields, AtMember, f, n
<1> HIDE DEF p, g, o
<1>7. ASSUME XcoffFaults, X!GivesUp(res) PROVE XcoffInv'
  BY <1>1, <1>3, <1>4, <1>5, <1>7, XcoffGivesUp
<1>8. ASSUME XcoffFaults, X!Goes(g), UNCHANGED <<main, res>> PROVE XcoffInv'
  <2>1. X!Goes(AtMember(X!F, "member", X!F.i + 1))
    BY <1>3, <1>6, <1>8
  <2>2. res' = res /\ main' = main
    BY <1>8
  <2>3. QED
    BY <1>1, <1>3, <1>4, <1>5, <1>8, <2>1, <2>2, XcoffNextMember
<1>9. ASSUME XcoffFaults, X!Readable, stack' = Append([stack EXCEPT ![1].at = "tried"], o),
             res' = X!Taken(res, 0, {"member"}), main' = [main EXCEPT !.lib = FALSE]
      PROVE  XcoffInv'
  BY <1>1, <1>3, <1>9, XcoffOpensMember DEF o
<1>10. UNCHANGED faults => XcoffFaults
  BY <1>4 DEF XcoffFaults
<1>11. \A fault : X!Count(fault) => XcoffFaults
  BY <1>4, XcoffCount
<1>12. QED
  BY <1>2, <1>7, <1>8, <1>9, <1>10, <1>11

LEMMA XcoffAfterMember == XcoffInv /\ X!AfterMember => XcoffInv'
<1> SUFFICES ASSUME XcoffInv, X!AfterMember PROVE XcoffInv'
  OBVIOUS
<1> DEFINE p == "tried"
           q == "member"
           view == {"member"}
           r == Released(res, 0, view)
           g == [X!F EXCEPT !.i = @ + 1, !.at = q]
           yes == TRUE
<1>1. X!Reading(p) /\ UNCHANGED <<left, kept, faults>>
  BY DEF X!AfterMember
<1>2. \/ X!F.ret /\ stack' = <<>> /\ res' = r /\ main' = [main EXCEPT !.ret = yes]
      \/ ~X!F.ret /\ X!Goes(g) /\ res' = r /\ UNCHANGED main
      \/ ~X!F.ret /\ X!GivesUp(r)
  BY XcoffResources DEF X!AfterMember
<1>3. p = "tried" /\ p \in ArchivePlaces /\ q = "member" /\ view = {"member"}
  BY DEF ArchivePlaces
<1> HIDE DEF p, q, view, yes
<1>4. /\ XcoffArchive(X!F) /\ X!F.at = p /\ ArchiveOpen(X!F, res)
      /\ Ledger(res) /\ faults \in Nat
      /\ Mine(res.held, 0) = view
  BY <1>1, <1>3, XcoffInArchive
<1>5. /\ Ledger(r) /\ r.open = res.open /\ r.unsure = res.unsure /\ Mine(r.held, 0) = {}
      /\ \A i : i # 0 => Mine(r.held, i) = Mine(res.held, i)
  <2>1. view \subseteq Mine(res.held, 0) /\ Mine(res.held, 0) \ view = {}
    BY <1>4
  <2>2. Ledger(res)
    BY <1>4
  <2> HIDE DEF r
  <2>3. QED
    BY <2>1, <2>2, ReleasedMine DEF r
<1> HIDE DEF r
<1>6. XcoffOthers(r) /\ XcoffFaults
  BY <1>1, <1>4, <1>5 DEF XcoffOthers, XcoffFaults
<1>7. CASE X!F.ret /\ stack' = <<>> /\ res' = r /\ main' = [main EXCEPT !.ret = yes]
  <2>1. r.open = {} /\ r.unsure = {}
    BY <1>4, <1>5, <1>7 DEF ArchiveOpen
  <2>2. QED
    BY <1>1, <1>3, <1>5, <1>6, <1>7, <2>1, XcoffMoves
<1>8. CASE ~X!F.ret /\ X!Goes(g) /\ res' = r /\ UNCHANGED main
  <2>1. g = AtMember(X!F, q, X!F.i + 1)
    BY DEF AtMember
  <2> HIDE DEF g
  <2>2. X!Goes(AtMember(X!F, "member", X!F.i + 1)) /\ res' = r /\ main' = main
    BY <1>3, <1>8, <2>1
  <2>3. QED
    BY <1>1, <1>3, <1>5, <1>6, <1>8, <2>2, XcoffNextMember
<1>9. CASE ~X!F.ret /\ X!GivesUp(r)
  BY <1>1, <1>3, <1>5, <1>6, <1>9, XcoffGivesUp
<1>10. QED
  BY <1>2, <1>7, <1>8, <1>9

LEMMA XcoffIdle ==
  ASSUME XcoffInv, stack = <<>>
  PROVE  /\ res.open = {} /\ Mine(res.held, X!NextId) = {} /\ Mine(kept, X!NextId) = {}
         /\ Mine(res.held, 0) = {} /\ Mine(kept, 0) = {}
         /\ Ledger(res) /\ faults \in Nat /\ res.unsure = {} /\ XcoffMain /\ XcoffRest /\ XcoffLedger
         /\ XcoffAdded(X!NextId, left, kept) => main.sym \/ (main.lib /\ main.at \notin {"set", "done"})
<1>1. \A o : ~XcoffStack(stack, o)
  BY DEF XcoffStack
<1>2. \A a : stack # <<a>>
  OBVIOUS
<1>3. res.open = {} /\ res.unsure = {} /\ Mine(res.held, X!NextId) = {} /\ Mine(kept, X!NextId) = {}
  BY <1>1, <1>2 DEF XcoffInv, XcoffShape
<1>4. Mine(res.held, 0) = {} /\ Mine(kept, 0) = {}
  BY DEF XcoffInv, XcoffRest
<1>5. Ledger(res) /\ faults \in Nat /\ XcoffMain /\ XcoffRest /\ XcoffLedger
  BY DEF XcoffInv, XcoffLedger
<1>6. XcoffAdded(X!NextId, left, kept) => main.sym \/ (main.lib /\ main.at \notin {"set", "done"})
  BY DEF XcoffInv, XcoffRest, XcoffSettled
<1>7. QED
  BY <1>3, <1>4, <1>5, <1>6

\* backtrace_initialize goes on; a call it starts is one of which nothing is held yet.
LEMMA XcoffGoesOn ==
  ASSUME XcoffInv, stack = <<>>, UNCHANGED <<left, kept>>, XcoffFaults,
         res'.held = res.held, res'.unsure = res.unsure, Ledger(res'),
         XcoffMain',
         \/ stack' = <<>> /\ res'.open = {}
         \/ \E o : stack' = <<o>> /\ o.inside = FALSE /\ XcoffObject(o) /\ o.at = "header" /\ o.views = {}
                   /\ o.id = X!NextId /\ res'.open = {o.fd}
         \/ \E a : stack' = <<a>> /\ XcoffArchive(a) /\ a.at = "archive" /\ res'.open = {a.fd},
         main.sym \/ main.lib => main'.sym \/ (main'.lib /\ main'.at \notin {"set", "done"} /\ stack' = <<>>),
         main.sym => main'.sym
  PROVE  XcoffInv'
<1> DEFINE id == X!NextId
<1>1. /\ res.open = {} /\ Mine(res.held, id) = {} /\ Mine(kept, id) = {}
      /\ Mine(res.held, 0) = {} /\ Mine(kept, 0) = {}
      /\ res.unsure = {} /\ XcoffRest /\ XcoffLedger
      /\ XcoffAdded(id, left, kept) => main.sym \/ main.lib
  BY XcoffIdle
<1>2. id \in Nat /\ id # 0 /\ X!NextId' = id /\ IsStack(left)
  BY XcoffNextId DEF X!NextId
<1> HIDE DEF id
<1>3. XcoffLedger'
  BY <1>1, <1>2 DEF XcoffLedger, XcoffFaults
<1>4. stack' # <<>> => stack'[1].at # "tried"
  BY DEF XcoffObject, ObjectPlaces
<1>5. XcoffRest'
  <2>1. ASSUME NEW i, i # id, i # 0
        PROVE  XcoffDone(Mine(res.held, i), Mine(kept, i), FailedIn(left, i), faults')
    <3>1. XcoffDone(Mine(res.held, i), Mine(kept, i), FailedIn(left, i), faults)
      BY <1>1, <2>1 DEF XcoffRest, id
    <3>2. QED
      BY <3>1 DEF XcoffDone, XcoffFaults
  <2>2. \A i : Mine(res.held, i) # {} \/ Mine(kept, i) # {} => i \in 0 .. id
    BY <1>1 DEF XcoffRest, id
  <2>3. XcoffAdded(id, left, kept) => main'.sym \/ (main'.lib /\ ~XcoffSettled(main'.at, stack'))
    BY <1>1 DEF XcoffSettled
  <2>4. left' = left /\ kept' = kept /\ res'.held = res.held
    OBVIOUS
  <2>5. QED
    BY <1>1, <1>2, <1>4, <2>1, <2>2, <2>3, <2>4 DEF XcoffRest
<1>6. XcoffShape(stack', id, res', Mine(res.held, id), Mine(kept, id), main'.lib, faults')
  <2>1. CASE stack' = <<>> /\ res'.open = {}
    BY <1>1, <2>1 DEF XcoffShape
  <2>2. ASSUME NEW o, stack' = <<o>>, o.inside = FALSE, XcoffObject(o), o.at = "header", o.views = {},
               o.id = id, res'.open = {o.fd}
        PROVE  XcoffShape(stack', id, res', Mine(res.held, id), Mine(kept, id), main'.lib, faults')
    <3>1. AtWork(o, id, res', Mine(res.held, id), Mine(kept, id), main'.lib, faults')
      BY <1>1, <2>2 DEF AtWork, XcoffHolds
    <3>2. XcoffStack(stack', o)
      BY <2>2 DEF XcoffStack
    <3>3. QED
      BY <3>1, <3>2 DEF XcoffShape
  <2>3. ASSUME NEW a, stack' = <<a>>, XcoffArchive(a), a.at = "archive", res'.open = {a.fd}
        PROVE  XcoffShape(stack', id, res', Mine(res.held, id), Mine(kept, id), main'.lib, faults')
    <3>1. ArchiveOpen(a, res')
      BY <1>1, <2>3 DEF ArchiveOpen, XcoffArchive
    <3>2. QED
      BY <1>1, <2>3, <3>1 DEF XcoffShape
  <2>4. QED
    BY <2>1, <2>2, <2>3 DEF id
<1>7. QED
  BY <1>2, <1>3, <1>5, <1>6 DEF XcoffInv, id

LEMMA XcoffAfterProgram == XcoffInv /\ X!AfterProgram => XcoffInv'
<1> SUFFICES ASSUME XcoffInv, X!AfterProgram PROVE XcoffInv'
  OBVIOUS
<1>1. stack = <<>> /\ main.at = "program" /\ UNCHANGED <<disk, stack, res, kept, left>>
  BY DEF X!AfterProgram
<1>2. PICK fault : /\ X!Count(fault)
                   /\ main' = [main EXCEPT !.at = IF ~main.ret THEN "failed"
                                                  ELSE IF fault = X!None THEN "libraries" ELSE "set",
                                           !.sym = main.lib]
  BY DEF X!AfterProgram
<1> DEFINE place == IF ~main.ret THEN "failed" ELSE IF fault = X!None THEN "libraries" ELSE "set"
<1>3. place \in {"failed", "libraries", "set"} /\ main' = [main EXCEPT !.at = place, !.sym = main.lib]
  BY <1>2
<1> HIDE DEF place
<1>4. XcoffMain /\ faults \in Nat /\ res.open = {} /\ Ledger(res)
  BY <1>1, XcoffIdle
<1>5. /\ main' = [x \in XcoffMainFields |-> main'[x]] /\ main'.at = place /\ main'.sym = main.lib /\ main'.lib = main.lib
      /\ main'.fileline = main.fileline /\ main.lib \in BOOLEAN /\ main.sym \in BOOLEAN /\ ~main.sym
  <2>1. main = [x \in XcoffMainFields |-> main[x]] /\ main.lib \in BOOLEAN /\ main.sym \in BOOLEAN /\ ~main.sym
    BY <1>1, <1>4 DEF XcoffMain
  <2>2. QED
    BY <1>3, <2>1 DEF XcoffMainFields
<1>6. XcoffFaults
  BY <1>2, <1>4, XcoffCount
<1>7. stack' = <<>> /\ res' = res /\ kept' = kept /\ left' = left
  BY <1>1
<1>8. XcoffMain'
  <2>1. /\ main'.sym \/ main'.lib => \E i : "symbols" \in Mine(kept', i)
        /\ main'.fileline # "xcoff_nodebug" => \E i : "dwarf" \in Mine(kept', i) \/ "linenos" \in Mine(kept', i)
    BY <1>4, <1>5, <1>7 DEF XcoffMain
  <2>2. QED
    BY <1>3, <1>5, <1>7, <2>1 DEF XcoffMain
<1>9. main.sym \/ main.lib => main'.sym
  BY <1>5
<1>10. QED
  BY <1>1, <1>4, <1>5, <1>6, <1>7, <1>8, <1>9, XcoffGoesOn

LEMMA XcoffAfterLibraries == XcoffInv /\ X!AfterLibraries => XcoffInv'
<1> SUFFICES ASSUME XcoffInv, X!AfterLibraries PROVE XcoffInv'
  OBVIOUS
<1> DEFINE place == "set"
           both == main.sym \/ main.lib
<1>1. /\ stack = <<>> /\ main.at = "libraries" /\ UNCHANGED <<disk, stack, res, kept, left, faults>>
      /\ main' = [main EXCEPT !.at = place, !.sym = both]
  BY DEF X!AfterLibraries
<1>2. place = "set" /\ both \in BOOLEAN
  OBVIOUS
<1>3. XcoffMain /\ faults \in Nat /\ res.open = {} /\ Ledger(res)
  BY <1>1, XcoffIdle
<1> HIDE DEF place, both
<1>4. /\ main' = [x \in XcoffMainFields |-> main'[x]] /\ main'.at = place /\ main'.sym = both /\ main'.lib = main.lib
      /\ main'.fileline = main.fileline /\ main.lib \in BOOLEAN /\ main.sym \in BOOLEAN
  <2>1. main = [x \in XcoffMainFields |-> main[x]] /\ main.lib \in BOOLEAN /\ main.sym \in BOOLEAN
    BY <1>3 DEF XcoffMain
  <2>2. QED
    BY <1>1, <2>1 DEF XcoffMainFields
<1>5. stack' = <<>> /\ res' = res /\ kept' = kept /\ left' = left /\ XcoffFaults
  BY <1>1, <1>3 DEF XcoffFaults
<1>6. both <=> main.sym \/ main.lib
  BY DEF both
<1>7. XcoffMain'
  <2>1. /\ main'.sym \/ main'.lib => \E i : "symbols" \in Mine(kept', i)
        /\ main'.fileline # "xcoff_nodebug" => \E i : "dwarf" \in Mine(kept', i) \/ "linenos" \in Mine(kept', i)
    BY <1>3, <1>4, <1>5, <1>6 DEF XcoffMain
  <2>2. QED
    BY <1>2, <1>4, <1>5, <2>1 DEF XcoffMain
<1>8. main.sym \/ main.lib => main'.sym
  BY <1>4, <1>6
<1>9. QED
  BY <1>1, <1>3, <1>4, <1>5, <1>7, <1>8, XcoffGoesOn

LEMMA XcoffFinish == XcoffInv /\ X!Finish => XcoffInv'
<1> SUFFICES ASSUME XcoffInv, X!Finish PROVE XcoffInv'
  OBVIOUS
<1> DEFINE place == "done"
           some == "xcoff_syminfo"
           which == IF main.sym THEN some ELSE "xcoff_nosyms"
<1>1. /\ stack = <<>> /\ main.at = "set" /\ UNCHANGED <<disk, stack, res, kept, left, faults>>
      /\ main' = [main EXCEPT !.at = place, !.syminfo = which]
  BY DEF X!Finish
<1>2. place = "done" /\ (which = some <=> main.sym) /\ some = "xcoff_syminfo"
  OBVIOUS
<1>3. XcoffMain /\ faults \in Nat /\ res.open = {} /\ Ledger(res)
  BY <1>1, XcoffIdle
<1> HIDE DEF place, which, some
<1>4. /\ main' = [x \in XcoffMainFields |-> main'[x]] /\ main'.at = place /\ main'.sym = main.sym /\ main'.lib = main.lib
      /\ main'.syminfo = which
      /\ main'.fileline = main.fileline /\ main.lib \in BOOLEAN /\ main.sym \in BOOLEAN
  <2>1. main = [x \in XcoffMainFields |-> main[x]] /\ main.lib \in BOOLEAN /\ main.sym \in BOOLEAN
    BY <1>3 DEF XcoffMain
  <2>2. QED
    BY <1>1, <2>1 DEF XcoffMainFields
<1>5. stack' = <<>> /\ res' = res /\ kept' = kept /\ left' = left /\ XcoffFaults
  BY <1>1, <1>3 DEF XcoffFaults
<1>6. XcoffMain'
  BY <1>2, <1>3, <1>4, <1>5 DEF XcoffMain
<1>7. XcoffInv'
  <2>1. XcoffLedger /\ XcoffRest /\ X!NextId' = X!NextId
    BY <1>1, <1>5, XcoffIdle DEF X!NextId
  <2>2. XcoffLedger'
    BY <1>1, <2>1 DEF XcoffLedger
  <2>3. XcoffSettled(main.at, stack) /\ XcoffSettled(main'.at, stack')
    BY <1>1, <1>2, <1>4 DEF XcoffSettled
  <2>4. XcoffRest'
    BY <1>1, <1>4, <1>5, <2>1, <2>3 DEF XcoffRest
  <2>5. XcoffShape(stack, X!NextId, res, Mine(res.held, X!NextId), Mine(kept, X!NextId), main'.lib, faults)
    BY <1>1, XcoffIdle DEF XcoffShape
  <2>6. QED
    BY <1>1, <1>6, <2>1, <2>2, <2>4, <2>5 DEF XcoffInv
<1>8. QED
  BY <1>7

LEMMA XcoffLibrary == XcoffInv /\ X!Library => XcoffInv'
<1> SUFFICES ASSUME XcoffInv, X!Library PROVE XcoffInv'
  OBVIOUS
<1> DEFINE l == Head(main.todo)
           more == Tail(main.todo)
           both == main.sym \/ main.lib
           no == FALSE
           fd == Descriptor(X!NextId)
           o == X!Object(X!NextId, fd, disk[l.path], FALSE, FALSE)
           a == X!Archive(l.path, fd, l.member)
<1>1. /\ stack = <<>> /\ main.at = "libraries" /\ UNCHANGED <<disk, kept, left, faults>>
      /\ main' = [main EXCEPT !.todo = more, !.sym = both, !.lib = no]
      /\ \/ (stack' = <<o>> \/ stack' = <<a>>) /\ res' = Opened(res, fd)
         \/ UNCHANGED <<stack, res>>
  BY XcoffResources DEF X!Library
<1>2. both \in BOOLEAN /\ (both <=> main.sym \/ main.lib) /\ no = FALSE
  OBVIOUS
<1>3. XcoffMain /\ faults \in Nat /\ res.open = {} /\ Ledger(res)
  BY <1>1, XcoffIdle
<1>4. fd # NoFile
  BY DescriptorIs
<1>5. XcoffObject(o) /\ o.at = "header" /\ o.views = {} /\ o.id = X!NextId /\ o.fd = fd /\ o.inside = FALSE
  BY <1>4 DEF X!Object, XcoffObject, ObjectFields, ObjectPlaces
<1>6. XcoffArchive(a) /\ a.at = "archive" /\ a.fd = fd
  BY <1>4 DEF X!Archive, XcoffArchive, ArchiveFields
<1> HIDE DEF l, more, both, fd, o, a, no
<1>7. /\ main' = [x \in XcoffMainFields |-> main'[x]] /\ main'.at = main.at /\ main'.sym = both /\ main'.lib = no
      /\ main'.fileline = main.fileline /\ main.lib \in BOOLEAN /\ main.sym \in BOOLEAN
  <2>1. main = [x \in XcoffMainFields |-> main[x]] /\ main.lib \in BOOLEAN /\ main.sym \in BOOLEAN
    BY <1>3 DEF XcoffMain
  <2>2. QED
    BY <1>1, <2>1 DEF XcoffMainFields
<1>8. kept' = kept /\ left' = left /\ XcoffFaults
  BY <1>1, <1>3 DEF XcoffFaults
<1>9. XcoffMain'
  <2>1. /\ main'.sym \/ main'.lib => \E i : "symbols" \in Mine(kept', i)
        /\ main'.fileline # "xcoff_nodebug" => \E i : "dwarf" \in Mine(kept', i) \/ "linenos" \in Mine(kept', i)
    BY <1>2, <1>3, <1>7, <1>8 DEF XcoffMain
  <2>2. QED
    BY <1>1, <1>2, <1>7, <1>8, <2>1 DEF XcoffMain
<1>10. main.sym \/ main.lib => main'.sym
  BY <1>2, <1>7
<1>11. CASE UNCHANGED <<stack, res>>
  <2>1. stack' = <<>> /\ res' = res
    BY <1>1, <1>11
  <2>2. QED
    BY <1>1, <1>3, <1>7, <1>8, <1>9, <1>10, <2>1, XcoffGoesOn
<1>12. CASE (stack' = <<o>> \/ stack' = <<a>>) /\ res' = Opened(res, fd)
  <2>1. Ledger(res') /\ res'.held = res.held /\ res'.unsure = res.unsure /\ res'.open = {fd}
    BY <1>3, <1>12, OpenedIs
  <2>2. \/ \E o_ : stack' = <<o_>> /\ o_.inside = FALSE /\ XcoffObject(o_) /\ o_.at = "header" /\ o_.views = {}
                   /\ o_.id = X!NextId /\ res'.open = {o_.fd}
        \/ \E a_ : stack' = <<a_>> /\ XcoffArchive(a_) /\ a_.at = "archive" /\ res'.open = {a_.fd}
    BY <1>5, <1>6, <1>12, <2>1
  <2>3. QED
    BY <1>1, <1>7, <1>8, <1>9, <1>10, <2>1, <2>2, XcoffGoesOn
<1>13. QED
  BY <1>1, <1>11, <1>12

LEMMA XcoffStep ==
  XcoffInv /\ (X!Next \/ UNCHANGED <<disk, main, stack, res, kept, left, faults>>) => XcoffInv'
<1> SUFFICES ASSUME XcoffInv, X!Next \/ UNCHANGED <<disk, main, stack, res, kept, left, faults>> PROVE XcoffInv'
  OBVIOUS
<1>1. CASE UNCHANGED <<disk, main, stack, res, kept, left, faults>>
  <2>1. X!NextId' = X!NextId
    BY <1>1 DEF X!NextId
  <2>2. XcoffLedger' /\ XcoffMain' /\ XcoffRest'
    BY <1>1, <2>1 DEF XcoffInv, XcoffLedger, XcoffMain, XcoffRest
  <2>3. QED
    BY <1>1, <2>1, <2>2 DEF XcoffInv
<1>2. CASE X!Ended /\ UNCHANGED X!vars
  BY <1>1, <1>2 DEF X!vars
<1>3. QED
  BY <1>1, <1>2, XcoffHeader, XcoffSymbols, XcoffDebug, XcoffLines, XcoffClose, XcoffSeek, XcoffMember, XcoffAfterMember,
     XcoffAfterProgram, XcoffLibrary, XcoffAfterLibraries, XcoffFinish DEF X!Next

\* Of xcoff.c: what the state refers to is held but for some things of calls that failed, nothing is left when it
\* ends but what could not be read for want of memory, and what the functions installed look at
\* is there.
LEMMA XcoffGood == XcoffInv => X!NothingDangles /\ X!AllReleased /\ X!RightFile
<1> SUFFICES ASSUME XcoffInv PROVE X!NothingDangles /\ X!AllReleased /\ X!RightFile
  OBVIOUS
<1> DEFINE id == X!NextId
<1>1. XcoffLedger /\ XcoffMain /\ XcoffRest /\ Pairs(res.held) /\ Pairs(kept) /\ faults \in Nat
  BY DEF XcoffInv, XcoffLedger, Ledger
<1>2. \A i : X!Failed(i) <=> FailedIn(left, i)
  BY XcoffFront DEF X!Failed, FailedIn
<1>3. \A i, w : (w \in Mine(kept, i) <=> <<i, w>> \in kept) /\ (w \in Mine(res.held, i) <=> <<i, w>> \in res.held)
  BY <1>1, MineIs
<1>4. \A h \in kept : h = <<h[1], h[2]>> /\ h[2] \in Mine(kept, h[1])
  BY <1>1, <1>3 DEF Pairs
<1>5. \A h \in res.held : h = <<h[1], h[2]>> /\ h[2] \in Mine(res.held, h[1])
  BY <1>1, <1>3 DEF Pairs
<1>6. Mine(kept, id) \subseteq Mine(res.held, id)
  BY DEF XcoffInv, XcoffShape, AtWork, XcoffHolds
<1> HIDE DEF id
<1>7. Mine(kept, 0) = {} /\ \A i : i # id /\ i # 0 => XcoffDone(Mine(res.held, i), Mine(kept, i), FailedIn(left, i), faults)
  BY <1>1 DEF XcoffRest, id
<1>8. X!NothingDangles
  <2>1. ASSUME NEW h \in kept \ res.held PROVE h[2] \in Loose /\ X!Failed(h[1]) /\ faults > 0
    <3> DEFINE i == h[1]
               w == h[2]
    <3>1. w \in Mine(kept, i) /\ w \notin Mine(res.held, i)
      BY <1>3, <1>4, <2>1
    <3> HIDE DEF i, w
    <3>2. i # id /\ i # 0
      BY <1>6, <1>7, <3>1
    <3>3. XcoffDone(Mine(res.held, i), Mine(kept, i), FailedIn(left, i), faults)
      BY <1>7, <3>2
    <3>4. w \in Loose /\ FailedIn(left, i) /\ faults # 0
      BY <3>1, <3>3 DEF XcoffDone
    <3>5. faults > 0
      BY <1>1, <3>4
    <3>6. QED
      BY <1>2, <3>4, <3>5 DEF i, w
  <2>2. QED
    BY <1>1, <2>1 DEF X!NothingDangles, Loose, XcoffLedger, Ledger
<1>9. X!AllReleased
  <2>1. SUFFICES ASSUME stack = <<>>
                 PROVE  /\ res.open = {}
                        /\ \A h \in res.held \ kept : h[2] \in {"linenos", "fdata"} /\ faults > 0
    BY DEF X!AllReleased, X!Ended
  <2>2. res.open = {} /\ Mine(res.held, id) = {} /\ Mine(res.held, 0) = {}
    BY <2>1, XcoffIdle DEF id
  <2>3. ASSUME NEW h \in res.held \ kept PROVE h[2] \in {"linenos", "fdata"} /\ faults > 0
    <3> DEFINE i == h[1]
               w == h[2]
    <3>1. w \in Mine(res.held, i) /\ w \notin Mine(kept, i)
      BY <1>3, <1>5, <2>3
    <3> HIDE DEF i, w
    <3>2. i # id /\ i # 0
      BY <2>2, <3>1
    <3>3. w \in LinesAndData /\ faults > 0
      BY <1>7, <3>1, <3>2 DEF XcoffDone
    <3>4. QED
      BY <3>3 DEF w, LinesAndData
  <2>4. QED
    BY <2>2, <2>3
<1>10. X!RightFile
  <2>1. SUFFICES ASSUME main.at = "done"
                 PROVE  /\ (\E h \in kept : h[2] = "symbols" /\ ~X!Failed(h[1])) => main.syminfo = "xcoff_syminfo"
                        /\ main.syminfo = "xcoff_syminfo" => \E h \in kept : h[2] = "symbols"
                        /\ main.fileline # "xcoff_nodebug" => \E h \in kept : h[2] \in {"dwarf", "linenos"}
    BY DEF X!RightFile
  <2>2. stack = <<>> /\ (main.syminfo = "xcoff_syminfo" <=> main.sym)
    BY <1>1, <2>1 DEF XcoffMain
  <2>3. Mine(kept, id) = {} /\ (XcoffAdded(id, left, kept) => main.sym)
    BY <2>1, <2>2, XcoffIdle DEF id
  <2>4. ASSUME NEW h \in kept, h[2] = "symbols", ~X!Failed(h[1]) PROVE main.sym
    <3> DEFINE i == h[1]
    <3>1. "symbols" \in Mine(kept, i) /\ ~FailedIn(left, i)
      BY <1>2, <1>4, <2>4
    <3> HIDE DEF i
    <3>2. i # id /\ i # 0
      BY <1>7, <2>3, <3>1
    <3>3. QED
      BY <2>3, <3>1, <3>2 DEF XcoffAdded
  <2>5. main.sym => \E h \in kept : h[2] = "symbols"
    <3>1. ASSUME NEW i, "symbols" \in Mine(kept, i) PROVE \E h \in kept : h[2] = "symbols"
      <4>1. <<i, "symbols">> \in kept
        BY <1>3, <3>1
      <4>2. QED
        BY <4>1
    <3>2. QED
      BY <1>1, <3>1 DEF XcoffMain
  <2>6. main.fileline # "xcoff_nodebug" => \E h \in kept : h[2] \in {"dwarf", "linenos"}
    <3>1. ASSUME NEW i, NEW w \in {"dwarf", "linenos"}, w \in Mine(kept, i)
          PROVE  \E h \in kept : h[2] \in {"dwarf", "linenos"}
      <4>1. <<i, w>> \in kept
        BY <1>3, <3>1
      <4>2. QED
        BY <4>1
    <3>2. QED
      BY <1>1, <3>1 DEF XcoffMain
  <2>7. QED
    BY <2>2, <2>4, <2>5, <2>6
<1>11. QED
  BY <1>8, <1>9, <1>10
=============================================================================

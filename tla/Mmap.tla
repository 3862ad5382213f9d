--------------------------------- MODULE Mmap ---------------------------------
(***************************************************************************)
(* The allocator of pkg/rbase/backtrace/mmap.c: backtrace_alloc,           *)
(* backtrace_free and the vectors that use them.  It may be called from a  *)
(* signal handler, so that no thread ever waits for its lock: one that     *)
(* finds it taken maps a page, or leaks the block.                         *)
(***************************************************************************)
EXTENDS Integers, Sequences, SequencesExt, FiniteSets

CONSTANTS Threads,
          Align,       \* 8
          MinBlock,    \* sizeof (struct backtrace_freelist_struct)
          MaxEntries,  \* 16
          PageSize,
          Large,       \* 16 * 4096
          Sizes,       \* what is asked for
          MaxPages,    \* bounds the pages that were mapped
          MaxLive      \* bounds the blocks in use

VARIABLES
  freelist,  \* blocks, first the one that was freed last
  lock,      \* lock_alloc: the thread that has set it, or NoThread
  live,      \* the blocks in use, of the size that was asked for
  pages,     \* how many pages were mapped
  unmapped,  \* the pages of them that were given back
  pc         \* where each thread is, with the size, place or block it is at

vars == <<freelist, lock, live, pages, unmapped, pc>>

NoThread == "none"

Idle == [at |-> "idle"]

Block(from, size) == [from |-> from, size |-> size]

Up(n, unit) == ((n + unit - 1) \div unit) * unit

Goes(t, to) == pc' = [pc EXCEPT ![t] = to]

-----------------------------------------------------------------------------
(* backtrace_free_locked                                                   *)

\* The first of the smallest blocks of a list.
Smallest(l) ==
  CHOOSE i \in DOMAIN l : \A j \in DOMAIN l : l[i].size < l[j].size \/ (l[i].size = l[j].size /\ i <= j)

\* "Just leak small blocks"; of more than MaxEntries the smallest.
FreeLocked(l, b) ==
  IF b.size < MinBlock THEN l
  ELSE IF Len(l) < MaxEntries THEN <<b>> \o l
  ELSE IF b.size <= l[Smallest(l)].size THEN l
  ELSE <<b>> \o RemoveAt(l, Smallest(l))

-----------------------------------------------------------------------------
(* backtrace_alloc                                                         *)

CallAlloc(t) ==
  /\ pc[t].at = "idle" /\ Cardinality(live) < MaxLive
  /\ \E size \in Sizes : Goes(t, [at |-> "alloc", size |-> size])
  /\ UNCHANGED <<freelist, lock, live, pages, unmapped>>

\* Not the code: the lock is taken to be free.
AllocTry_Always(t) ==
  /\ pc[t].at = "alloc"
  /\ lock' = t
  /\ Goes(t, [at |-> "search", size |-> pc[t].size])
  /\ UNCHANGED <<freelist, live, pages, unmapped>>

\* "If we can't acquire the lock, drop straight into using mmap."
AllocTry(t) ==
  /\ pc[t].at = "alloc"
  /\ IF lock = NoThread
       THEN lock' = t /\ Goes(t, [at |-> "search", size |-> pc[t].size])
       ELSE UNCHANGED lock /\ Goes(t, [at |-> "map", size |-> pc[t].size])
  /\ UNCHANGED <<freelist, live, pages, unmapped>>

\* The place in the list, pp, of the first block that is large enough.
AllocSearch(t) ==
  /\ pc[t].at = "search"
  /\ LET fits == {i \in DOMAIN freelist : freelist[i].size >= pc[t].size}
     IN  \/ /\ fits = {}
            /\ lock' = NoThread
            /\ Goes(t, [at |-> "map", size |-> pc[t].size])
         \/ /\ \E i \in fits :
                 /\ \A j \in fits : i <= j
                 /\ Goes(t, [at |-> "take", size |-> pc[t].size, pp |-> i])
            /\ UNCHANGED lock
  /\ UNCHANGED <<freelist, live, pages, unmapped>>

\* Not the code: what is left of the block begins where the size that was asked for ends.
Rest_Overlaps(b, size) == Block(b.from + size - 1, b.size - size + 1)

\* What is left of a block.
Rest(b, size) == Block(b.from + Up(size, Align), b.size - Up(size, Align))

AllocTake(t) ==
  /\ pc[t].at = "take"
  /\ LET b    == freelist[pc[t].pp]
         rest == Rest(b, pc[t].size)
         list == RemoveAt(freelist, pc[t].pp)
     IN  /\ freelist' = IF rest.size > 0 THEN FreeLocked(list, rest) ELSE list
         /\ live'     = live \cup {Block(b.from, pc[t].size)}
  /\ lock' = NoThread
  /\ Goes(t, Idle)
  /\ UNCHANGED <<pages, unmapped>>

\* New pages, if the system has them; what is left of them is freed.
AllocMap(t) ==
  /\ pc[t].at = "map"
  /\ LET n    == Up(pc[t].size, PageSize) \div PageSize
         b    == Block(pages * PageSize, n * PageSize)
         rest == Rest(b, pc[t].size)
     IN  \/ /\ pages + n <= MaxPages
            /\ pages' = pages + n
            /\ live'  = live \cup {Block(b.from, pc[t].size)}
            /\ Goes(t, IF rest.size > 0 THEN [at |-> "free", block |-> rest] ELSE Idle)
         \/ /\ Goes(t, Idle)
            /\ UNCHANGED <<pages, live>>
  /\ UNCHANGED <<freelist, lock, unmapped>>

-----------------------------------------------------------------------------
(* backtrace_free                                                          *)

\* A block that is in use, or with backtrace_vector_release the end of one, which is
\* aligned; the rest stays in use.
CallFree(t) ==
  /\ pc[t].at = "idle"
  /\ \E b \in live :
       \/ /\ live' = live \ {b}
          /\ Goes(t, [at |-> "free", block |-> b])
       \/ \E used \in Sizes \cap (1 .. b.size - 1) :
            /\ b.size % Align = 0
            /\ live' = (live \ {b}) \cup {Block(b.from, used)}
            /\ Goes(t, [at |-> "free", block |-> Block(b.from + Up(used, Align), b.size - Up(used, Align))])
  /\ UNCHANGED <<freelist, lock, pages, unmapped>>

WholePages(b) == b.size >= Large /\ b.from % PageSize = 0 /\ b.size % PageSize = 0

\* munmap of a large block, unless it fails; else the list, or a leak.
FreeTry(t) ==
  /\ pc[t].at = "free"
  /\ LET b == pc[t].block
     IN  \/ /\ WholePages(b)
            /\ unmapped' = unmapped \cup {p \in 0 .. MaxPages - 1 : b.from <= p * PageSize /\ p * PageSize < b.from + b.size}
            /\ Goes(t, Idle)
            /\ UNCHANGED lock
         \/ /\ IF lock = NoThread
                 THEN lock' = t /\ Goes(t, [at |-> "put", block |-> b])
                 ELSE UNCHANGED lock /\ Goes(t, Idle)
            /\ UNCHANGED unmapped
  /\ UNCHANGED <<freelist, live, pages>>

FreePut(t) ==
  /\ pc[t].at = "put"
  /\ freelist' = FreeLocked(freelist, pc[t].block)
  /\ lock' = NoThread
  /\ Goes(t, Idle)
  /\ UNCHANGED <<live, pages, unmapped>>

-----------------------------------------------------------------------------

Init ==
  /\ freelist = <<>> /\ lock = NoThread /\ live = {} /\ pages = 0 /\ unmapped = {}
  /\ pc = [t \in Threads |-> Idle]

Step(t) ==
  \/ CallAlloc(t) \/ AllocTry(t) \/ AllocSearch(t) \/ AllocTake(t) \/ AllocMap(t)
  \/ CallFree(t) \/ FreeTry(t) \/ FreePut(t)

Next == \E t \in Threads : Step(t)

Spec == Init /\ [][Next]_vars

-----------------------------------------------------------------------------
(* Property.                                                               *)

Apart(b, c) == b.from + b.size <= c.from \/ c.from + c.size <= b.from

Mapped(b) ==
  /\ b.from >= 0 /\ b.from + b.size <= pages * PageSize
  /\ \A p \in unmapped : Apart(b, Block(p * PageSize, PageSize))

\* The blocks that are about to be freed.
Freed == {pc[t].block : t \in {u \in Threads : pc[u].at \in {"free", "put"}}}

\* No two blocks in use share a byte, and none shares one with a block of the list or one
\* that is being freed, in whatever order threads and signal handlers come; all of them
\* are mapped, aligned, and the list is short.  What a thread has found in the list is
\* there when it takes it.
OwnMemory ==
  /\ \A b, c \in live \cup Freed : b # c => Apart(b, c)
  /\ live \cap Freed = {}
  /\ \A i \in DOMAIN freelist :
       /\ \A b \in live \cup Freed : Apart(freelist[i], b)
       /\ \A j \in DOMAIN freelist : i # j => Apart(freelist[i], freelist[j])
       /\ Mapped(freelist[i])
  /\ \A b \in live : Mapped(b) /\ b.from % Align = 0
  /\ Len(freelist) <= MaxEntries
  /\ \A t \in Threads :
       pc[t].at = "take" =>
         pc[t].pp \in DOMAIN freelist /\ freelist[pc[t].pp].size >= pc[t].size
=============================================================================

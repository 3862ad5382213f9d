---------------------------- MODULE LinearAlloc ----------------------------
(***************************************************************************)
(* The linear allocator of pkg/rbase/mem_linear.c: a list of blocks of     *)
(* whole pages, the allocator itself at the start of the oldest.  An       *)
(* allocation is a header with its size and its data, on top of what the   *)
(* newest block has in use.  One client, which frees what it has once and  *)
(* uses nothing after.                                                     *)
(*                                                                         *)
(* Addresses are pairs of a block and an offset into its data; a block is  *)
(* named by its place from the oldest.  What the client writes is left     *)
(* out: it stays what it is while allocations do not share memory.         *)
(***************************************************************************)
EXTENDS Integers, Sequences, SequencesExt, FiniteSets

CONSTANTS PtrSize,    \* sizeof(void*) and of size_t
          PageSize,   \* mem_pagesize()
          RootPages,  \* npages_init of MemLinearAlloc
          Sizes,      \* what the client may ask for
          SizeWrap,   \* 2^64: size_t counts modulo SizeWrap
          MaxLive,    \* bounds the allocations the client has
          MaxBlocks   \* bounds the blocks

\* sizeof of AllocHeader, Block and LinearAllocator.
AllocHeader     == PtrSize
BlockHeader     == 3 * PtrSize
LinearAllocator == 5 * PtrSize

VARIABLES
  blocks,  \* the list at a->b, newest first; pages is what mmap was asked for
  live,    \* the allocations the client has: place, size in the header, size asked
  pages,   \* the pages that are mapped, as pairs of the block and their place in it
  broken   \* has memory outside of an allocation been written, or NULL?

vars == <<blocks, live, pages, broken>>

AlignAlloc(n) == ((n + PtrSize - 1) \div PtrSize) * PtrSize

\* MemLinearAlloc
Init ==
  /\ blocks = << [size |-> RootPages * PageSize - BlockHeader,
                  len |-> LinearAllocator, pages |-> RootPages] >>
  /\ live = {}
  /\ pages = {1} \X (1 .. RootPages)
  /\ broken = "no"

Newest == Head(blocks)
Named(b) == blocks[Len(blocks) + 1 - b]

\* Not the code: the header of the block is counted as data.
Grown_Whole(n) ==
  LET np == (n + PageSize - 1) \div PageSize
  IN  [size |-> np * PageSize, len |-> 0, pages |-> np]

\* mla_grow: one page more than is needed, rounded up to pages.
Grown(n) ==
  LET need == n + BlockHeader + PageSize
      np   == (need + PageSize - 1) \div PageSize
  IN  [size |-> np * PageSize - BlockHeader, len |-> 0, pages |-> np]

\* mla_alloc in block b, which has the room: the new block and the allocation.
Placed(b, n) == [b EXCEPT !.len = @ + AlignAlloc(n + AllocHeader)]

Fits(b, n) == b.size - b.len >= AlignAlloc(n + AllocHeader)

Item(name, b, n) ==
  [blk |-> name, off |-> b.len + AllocHeader,
   size |-> AlignAlloc(n + AllocHeader) - AllocHeader, req |-> n]

\* The client asks for n bytes in place of the allocation old, or of none.
Allocate(n, old) ==
  \/ /\ Fits(Newest, n)
     /\ blocks' = <<Placed(Newest, n)>> \o Tail(blocks)
     /\ live' = (live \ old) \cup {Item(Len(blocks), Newest, n)}
     /\ UNCHANGED pages
  \/ LET b == Grown(AlignAlloc(n + AllocHeader)) IN
     /\ ~Fits(Newest, n)
     /\ Len(blocks) < MaxBlocks
     /\ blocks' = <<Placed(b, n)>> \o blocks
     /\ live' = (live \ old) \cup {Item(Len(blocks) + 1, b, n)}
     /\ pages' = pages \cup ({Len(blocks) + 1} \X (1 .. b.pages))

Alloc(n) ==
  /\ Cardinality(live) < MaxLive
  /\ Allocate(n, {})
  /\ UNCHANGED broken

\* Not the code: any allocation of the newest block will do.
MostRecent_Any(a) == a.blk = Len(blocks)

\* is_most_recent_alloc: on top of the newest block.
MostRecent(a) == a.blk = Len(blocks) /\ a.off + a.size = Newest.len

\* mla_free: the most recent allocation is taken back, any other is forgotten.
Free(a) ==
  /\ live' = live \ {a}
  /\ blocks' = IF MostRecent(a)
                 THEN [blocks EXCEPT ![1].len = @ - (AllocHeader + a.size)]
                 ELSE blocks
  /\ UNCHANGED <<pages, broken>>

-----------------------------------------------------------------------------
(* mla_realloc.                                                            *)

Resize(a, n) ==
  /\ blocks' = [blocks EXCEPT ![1].len = @ + n - a.size]
  /\ live' = (live \ {a}) \cup {[a EXCEPT !.size = n, !.req = n]}
  /\ UNCHANGED pages

\* Nothing is written: the size is right, or smaller and not on top.
ReallocSame(a, n) ==
  /\ n = a.size \/ (n < a.size /\ ~MostRecent(a))
  /\ live' = (live \ {a}) \cup {[a EXCEPT !.req = n]}
  /\ UNCHANGED <<blocks, pages, broken>>

ReallocShrink(a, n) ==
  /\ MostRecent(a)
  /\ n < a.size
  /\ Resize(a, n)
  /\ UNCHANGED broken

\* "Fast path: grow in available space".  avail - ah->size is below zero where the
\* block has less room than the allocation is long, and a very large number then.
InPlace(a, n) ==
  MostRecent(a) /\ (Newest.size - Newest.len - a.size) % SizeWrap >= n

ReallocGrow(a, n) ==
  /\ n > a.size
  /\ InPlace(a, n)
  /\ Resize(a, n)
  /\ broken' = IF Newest.len + n - a.size > Newest.size THEN "overrun" ELSE "no"

\* A new allocation, and the data copied.
ReallocMove(a, n) ==
  /\ n > a.size
  /\ ~InPlace(a, n)
  /\ Allocate(n, {a})
  /\ UNCHANGED broken

\* mmap fails: mla_alloc returns NULL, to where memcpy copies.
ReallocNull(a, n) ==
  /\ n > a.size
  /\ ~InPlace(a, n)
  /\ ~Fits(Newest, n)
  /\ broken' = "null"
  /\ UNCHANGED <<blocks, live, pages>>

Realloc(a, n) ==
  \/ ReallocSame(a, n) \/ ReallocShrink(a, n) \/ ReallocGrow(a, n)
  \/ ReallocMove(a, n) \/ ReallocNull(a, n)

-----------------------------------------------------------------------------
\* mla_free_block: the pages go by the size of the block.
PagesOf(n) == {n} \X (1 .. (Named(n).size + BlockHeader) \div PageSize)

\* The blocks from place n on are freed.
FreeBlocks(n) == pages' = pages \ UNION { PagesOf(k) : k \in n .. Len(blocks) }

\* Not the code: the pages of the oldest block go with the others'.
Reset_Unmaps ==
  /\ blocks' = <<[Last(blocks) EXCEPT !.len = LinearAllocator]>>
  /\ FreeBlocks(1)
  /\ live' = {}
  /\ UNCHANGED broken

\* MemLinearReset keeps the oldest block, with the allocator in it.
Reset ==
  /\ blocks' = <<[Last(blocks) EXCEPT !.len = LinearAllocator]>>
  /\ FreeBlocks(2)
  /\ live' = {}
  /\ UNCHANGED broken

\* MemLinearFree, after which the allocator is gone.
Destroy ==
  /\ blocks' = <<>>
  /\ FreeBlocks(1)
  /\ live' = {}
  /\ UNCHANGED broken

Next ==
  /\ blocks # <<>>
  /\ broken = "no"
  /\ \/ \E n \in Sizes : Alloc(n)
     \/ \E a \in live : Free(a) \/ \E n \in Sizes : Realloc(a, n)
     \/ Reset
     \/ Destroy

Spec == Init /\ [][Next]_vars

-----------------------------------------------------------------------------
(* Properties.                                                             *)

\* What an allocation takes: its header and its data.
Extent(a) == (a.off - AllocHeader) .. (a.off + a.size - 1)

\* As long as the two reallocations of the findings have not happened, what the
\* client has is its own: as long as it asked for, in use in a block that is mapped,
\* clear of the allocator, of the block's header and of every other allocation.
OwnMemory ==
  broken = "no" =>
    /\ \A a \in live :
         /\ a.req <= a.size
         /\ a.blk \in 1 .. Len(blocks)
         /\ a.off - AllocHeader >= (IF a.blk = 1 THEN LinearAllocator ELSE 0)
         /\ a.off + a.size <= Named(a.blk).len
    /\ \A i \in DOMAIN blocks :
         blocks[i].len + BlockHeader <= blocks[i].pages * PageSize
    /\ \A a, b \in live : a.blk = b.blk /\ Extent(a) \cap Extent(b) # {} => a = b

\* The pages that are mapped are those of the blocks: none are left when the
\* allocator is freed, and none are unmapped that a block still has.
PagesAccounted ==
  pages = UNION { {n} \X (1 .. Named(n).pages) : n \in 1 .. Len(blocks) }
=============================================================================

# A verification development for ckit's rbase

ckit (`src/`) is a small C toolkit: a CMake front end, a file watcher, and the
library `rbase` (`src/pkg/rbase`). Its logic is in three layers. The first are the
concurrency primitives, which are built on each other:

    ChanSend / ChanRecv / ChanTrySend / ChanTryRecv / ChanClose    chan.c
       |  chan_lock                     |  thr_wait, thr_signal
       v                                v
    HybridMutex (thread_spinmutex.c)   LSema (thread_sema.c)
       |  SemaWait, SemaSignal          |  SemaWait, SemaTimedWait, SemaSignal
       v                                v
    Sema: the operating system's semaphore

Each layer has a module that models its code step by step, an abstract module
that says what the layer above relies on, and a check or a proof that the first
implements the second. `Chan` therefore takes its lock and the sleeping of its
threads as atomic. Beside them stand primitives that use only atomics and the
system's mutex: `rwmtx_t` and `r_sync_once` (thread.c), `MPSCQueue` and `Pool`.

The second layer is sequential: a linear allocator, growing strings, paths, numbers,
runes, buffered output, SHA-1.

The third is `backtrace`, which turns the addresses on a stack into functions, files
and lines, and is most of the code:

    os_stacktrace_fwrite                             os_stacktrace.c
       v
    backtrace_full                                   backtrace.c
       v                                              |
    fileline_initialize, backtrace_pcinfo            fileline.c
       |  once per state, by any thread               |  state->fileline_fn, syminfo_fn
       v                                              v
    elf.c, macho.c, pecoff.c, xcoff.c  ------->      dwarf.c; the symbol tables (sort.c)
       |  what was found is kept by the state
       v
    posix.c, mmapio.c, mmap.c: descriptors, views, memory

## Inventory

| Part | State | Operations | What is hard | What makes it correct |
|---|---|---|---|---|
| channel (`chan.c`) | ring buffer, `closed`, two wait queues, a `Thr` per thread | send, recv, trysend, tryrecv, close, open, free | reads without the lock; sleeping after the unlock; elements copied into or out of another thread's storage; a close that wakes waiters and leaves them queued | FIFO, each message received once, waiters served in order, nobody asleep with work to do, buffered messages survive the close |
| SpinMutex, HybridMutex (`thread.h`, `thread_spinmutex.c`) | `flag`, `nwait`, a `Sema` | lock, unlock | the waiter counts itself and looks again, the holder clears the flag and looks at the count; both relaxed | exclusion, no lost wakeup |
| LSema (`thread_sema.c`) | `count`, a `Sema` | wait, trywait, timedwait, signal | a timeout that races a signal; a count that is decremented unconditionally | permits neither lost nor invented |
| rwmtx (`thread.c`) | `r`, a mutex `w` | rlock, tryrlock, runlock, lock, trylock, unlock | readers add first and look afterwards; `r` and `w` change at different times | no reader with a writer; a lock that is released can be had again |
| r_sync_once (`thread.c`) | `flag`, a mutex | once | losers wait for a mutex the winner is still creating | the statement runs once, and before anybody goes on |
| MPSCQueue (`mpscq/mpscq.c`) | `count`, `head`, `tail`, slots | enqueue, dequeue, isempty, len | a producer counted but not arrived; `head` wraps | FIFO per producer, no item lost or overwritten |
| Pool (`pool/pool.c`) | head with a tag, `PoolNext` per entry | add, take | ABA | an entry has one owner or is in the list once |
| linear allocator (`mem_linear.c`) | a list of blocks, each with a length in use | alloc, free, realloc, reset | growing in place, accounting in `size_t` | allocations do not overlap, pages are accounted for |
| strings (`str.c`) | length and capacity in 32 bits, memory | reserve, append of every kind, setlen | room computed before it is known what is written, overflow | nothing is written past the memory |
| paths, numbers, runes (`path.c`, `parseint.c`, `unicode.c`, `str_splitn`) | none | parse, join, split, decode | limits of 64 bits, ends of strings | equal to a reference definition |
| buffered output (`util_io.c`) | a buffer | write, flush, close | partial writes, failures | what is written arrives, in order |
| SHA-1 (`util_sha1.c`) | a block, a count of bits in two words | update, final | where blocks and words end | the blocks are those of the padded message |
| stack traces (`os_stacktrace.c`) | limits, counts | write | three passes that must agree | the frames are the callers', to the limit |
| readers of program files (`elf.c`, `macho.c`, `pecoff.c`, `xcoff.c`) | descriptors, views, tables, what the state refers to | add a file, its libraries, the file with its debug information | recursion with a descriptor and views at each level; failure at any of many points | nothing released that is referred to, nothing kept that is not, the debug information is that of the program |
| symbol tables (the same, `sort.c`) | sorted tables | add, look up | boundaries, equal addresses, symbols without a size | the symbol is the one the address is in |
| DWARF (`dwarf.c`) | a list of modules, address maps, tables of units read on demand | add, look up | threads that read a unit at once; ranges nested in each other; functions inlined into functions | frames are those the debug information has; tables are seen whole |
| state of a program (`fileline.c`, `backtrace.c`) | two functions, a flag | look up | threads that initialize at once | nobody calls what is not set |
| allocator of backtrace (`mmap.c`) | a free list with a lock nobody waits for | alloc, free, vectors | a lock that is taken | memory has one owner |
| arena and sync wrapper (`mem_arena.c`, `mem.c`) | list of blocks; a mutex around an allocator | alloc, realloc, free | who owns a block | not modelled, see below |
| file watcher (`misc/cmd-watch.sh`) | pid files, children | watch, rebuild, restart, stop | events during a build | not modelled, see below |
| tests, benchmarks, thread shim, time, os, fs, hash, panic | - | - | thin layers | not modelled |

The hazards of this code, each at its line and with the properties that would
catch it going wrong, are in `PROJECT.json` under `hazards`.

## Modules

| Module | What it is |
|---|---|
| `Chan`, `ChanSpec`, `ChanProofs` | `chan.c` step by step; what a channel promises, without locks, buffers or signals; the mapping of the first to the second; proofs |
| `SpinMutexes`, `Mutex`, `SpinMutexesProofs` | `SpinMutex` and `HybridMutex`, one atomic operation per step, mapped to what a mutex promises; proofs |
| `LSema`, `Semaphore`, `LSemaProofs` | `thread_sema.c` step by step, mapped to what a counting semaphore promises; proofs |
| `RWMutex`, `RWMutexProofs` | `rwmtx_t` of `thread.c`, one atomic operation per step; proofs, of `SyncOnce` and `LazyRWMutex` too |
| `LazyRWMutex` | a read-write mutex that `r_sync_once` makes on first use: `RWMutex` with `SyncOnce` |
| `SyncOnce` | `r_sync_once` of `thread.h` and `thread.c`; proofs in `RWMutexProofs` |
| `MPSCQ`, `Queue` | `mpscq.c` step by step; places given in order, filled in any order, emptied in order; proofs in `PoolProofs` |
| `Pool`, `Stack`, `PoolProofs` | `pool.c` step by step; each entry has one owner, last in, first out; proofs, of the queue too, in the instance `MCLockFree` |
| `LinearAlloc`, `Str`, `Text`, `Writer`, `Sha1`, `Stacktrace` | the sequential parts of rbase |
| `Resources` | the ledger of descriptors, views and memory the readers keep |
| `Elf`, `MachO`, `Pecoff`, `Xcoff` | the readers of program files |
| `Readers`, `ReaderProofs` | the four in one specification, and what they are started with; the ledger, and the proofs for `Pecoff`, `Elf`, `Xcoff` |
| `Symbols`, `XcoffLines` | the symbol tables of the four and their search; the lines of XCOFF |
| `DwarfTables`, `Dwarf` | what a unit's debug information is made into; the threads that use it |
| `Fileline` | threads that initialize one state and walk their stacks |
| `Loader`, `LoaderProofs` | `Readers` with the lookups, `Dwarf` and `Fileline`; the proofs for `MachO`, `Fileline`, `Dwarf`, and the theorems about all |
| `Mmap` | the allocator of backtrace |
| `RbaseProofs` | proofs about `LinearAlloc`, `Str`, `Writer` and `Mmap`, in the instance `MCRbase` |
| `MCChan`, `MCLSema`, `MCLockFree`, `MCRbase`, `MCDwarf`, `MCLoader` | the instances TLC checks |

`LazyRWMutex` composes `RWMutex` with `SyncOnce`: a thread has passed `r_sync_once`
before it uses the lock. `MCLockFree`, `MCRbase` and `Loader` put parts that do not
share state into one specification: `part` says which of them a behaviour is of, and a
property is that of each part. `Loader` has the parts of backtrace, with the files, debug
information, threads and number of failures as constants; `MCLoader` gives them values.

### Chan and the code

A step of `Chan` is what the code does between `chan_lock` and `chan_unlock`,
named for the path taken (`SendDirect`, `SendBuffer`, `SendPark`, `RecvDirect`,
...). This is sound because all of it is done under the lock but for the words
the fast paths read, each of which changes at most once in a critical section.
Everything outside is a step of its own: the two reads of `chan_send`'s fast
path (`PeekClosed`, `PeekFull`) and the three of `chan_recv`'s (`PeekEmpty`,
`PeekOpen`, `PeekAgain`), `Signal` after the unlock, `Wait`, `Woken`. `ChanClose`
signals while it holds the lock, so its loops are steps (`CloseMark`,
`CloseWake`, `CloseSenders`, `CloseUnlock`), and it is the only operation that
holds `lock` between steps.

- `first`, `last`, `next` are the linked lists as the code leaves them: `last`
  of an emptied queue and the `next` of a thread in a queue ChanClose walked are
  stale, and stay so.
- `elemptr` holds the number of the call that lent its storage. A pointer kept
  past that call dangles: what is read through it is `Garbage`, what is written
  is lost.
- An element is `<<t, k>>`, the argument of the k-th call of thread t.
- `aborted` is set by `panic` and by `assertnotnull`.
- In debug builds a received slot of the buffer is zeroed. It is not read again
  before it is written (`RingInv`), so the model leaves it.

Callers are modelled by `Contract`. With `"docs"` a channel is closed once and
callers otherwise do as they like, as `chan.h` allows. With `"drained"` they do
what `chan_test.c` does: senders have returned before `ChanClose`, and a thread
that was told of the close makes no more calls. Several properties hold only in
the second case; what goes wrong in the first is below, under Findings.

### SpinMutexes and the code

Each atomic operation is one step. `kind` (which mutex) and `reorder` (does the
CPU let a load be done before an earlier relaxed addition) are chosen at the
start of a behaviour. `reorder` enables `CheckEarly` and `EnlistLate`, the outcome
in which `_hybridMutexWait` loads the flag before its addition to `nwait` is seen.
`Wrap` stands for 2^64 and `Tries` for `kYieldProcessorTries`.

### LSema and the code

The load of the count and the compare-and-swap after it are one step where the
swap succeeds only on the value that was loaded; the loop of a wait that timed
out keeps the loaded value in `old`, because it decides there which of two things
to try. A timeout may expire at any time. `SemaSignal` posts one permit per step.
`ssize_t` is taken to be wider than `u32`.

### RWMutex and the code

`r` and the mutex `w` are as in `rwmtx_t`; `mark` is `MTX_W_WATERMARK`, chosen at
the start. `Add` is the fetch-and-add of rlock and tryrlock with the decision on
what it returned, `Back` the subtraction of a reader that failed, `Await` and
`Pass` its `mtx_lock` and `mtx_unlock`. `Swap` is the compare-and-swap of a writer,
`Claim` its `mtx_lock` or `mtx_trylock`, `Unswap` and `Drop` the two steps of
unlock. A weak compare-and-swap that fails leads back to the load and so changes
nothing, but in trylock, which returns (`SwapBusy`). A thread releases what it
has before it asks again. `lost` remembers that a trylock has failed with the
watermark in r. The mutex goes to anybody who asks while it is free.

### SyncOnce and the code

`Enter` is the load in the macro. The winner's steps follow `_sync_once_start` and
`_sync_once_end`; the statement is two steps, its beginning and its end, so that
others come by meanwhile. `Spin` is the loop on the flag, `Wait` and `Pass` the
`mtx_lock` and `mtx_unlock` of a loser.

### MPSCQ and the code

`Enqueue` is the addition to `count` and the test, `Undo` the subtraction of a
producer that is refused, `Claim` the addition to `head`, `Check` and `Store` the
assertion and the exchange. `Take` is the exchange of Dequeue with the step of
`tail`, which only the consumer uses, `Taken` the subtraction. A Dequeue that
returns NULL changes nothing and is no step. `Wrap` stands for 2^64 and must be a
multiple of the capacity, else `head` and `tail` part when `head` wraps; on a
machine whose `size_t` has 32 bits that takes 2^32 calls.

### Pool and the code

`currhead` and `next` are the local variables of a call; `Return` forgets them.
`Link` is the store of `PoolNext`, `Follow` its load, `Push` and `Pop` the swaps,
`PushFails` and `PopFails` the swaps that fail and the load they do. Tags count
modulo `TagWrap`. `quota` is the number of entries a thread may have: with 1 the
pool never is empty when a thread takes, as in pool.c's test; with 2 it may be.

### The sequential parts of rbase

`LinearAlloc` has an action for each operation and one per outcome of `mla_realloc`.
An allocation is its place, the size in its header and the size asked for; sizes are
rounded up as in the code and `avail - ah->size` wraps at `SizeWrap`. A page is a pair of
the block it was mapped for and its place there. `broken` records
that a reallocation has written outside (see Findings), after which nothing is claimed.

`Str` keeps the header, how much memory there is, and how far the last operation wrote;
the bytes are left out. Each append is what it asks of `str_makeroom` and what it writes
after. `Text` has the functions that take text apart as operators: a number is a
sequence of digits, a path of `"/"`, `"."` and another character, a rune its value and
its encoding. `_parseu64` is the fold of its loop with its cutoff and its limit.

`Writer` is `WriterWrite` as the loop of copies and flushes that it is; `write` takes
any part or fails. `Sha1` keeps what is in the block and the two words of the count;
what a block does to the state is not modelled, so the state is the blocks that went in.
`Stacktrace` is a function of a stack, limits and an offset: the callbacks of the three
passes are folds over the stack.

### The readers of program files

A file is its sections (or load commands, or members of an archive), each with only what
the code decides on: is it a symbol table, is its name readable, is it compressed.
Contents and offsets are left out. `stack` has the calls of `elf_add` (`macho_add`,
`xcoff_add`), the innermost last, each with its descriptor, the views that are marked
valid, and where it is; a step is what a call does between two points at which a system
call can fail or another call begins. `res` is the ledger of `Resources`: what is open, the
descriptors that close has failed for, what is held, and whether anything was given back
that was none of these. A descriptor whose close fails is closed again by every path that
fails after it; this is the one thing that is given back twice, and it is noted as such and
not as an error of the path. `kept` is what the state refers
to from then on. Views are named for the variable that holds them, so that releasing
the wrong one, or one twice, shows. A failure at any of these points leads to the code's
`fail` label with what is marked valid there. A descriptor is named by the call that
opened it (`Descriptor`).

`Readers` says of the files what the code takes for granted or has just tested
(`ElfsAssumption`, `MachosAssumption`, `PecoffsAssumption`): `dl_iterate_phdr` calls back at
least for the program; sections of debug information are one of two, and those of the old
format are compressed; what `.gnu_debugdata` unpacks to is a file; a COFF symbol with a long name has it in the
string table, as `coff_expand_symbol` has looked; a Mach-O file has one symbol table, two
sections of debug information, and no fat file in a fat file.

`Symbols` makes the table of a file in each format, with the sort of `sort.c`, and does
the search with the comparison of each; `bsearch` is the C library's and any place where
the comparison says "equal" is possible. `XcoffLines` goes from a compiled program, the
lines of its functions and include files, to the tables in the file, and back.

### DwarfTables, Dwarf and the code

A unit is its entries in the order they are in `.debug_info` and its line program, as a
list of operations. How attributes are encoded is left out: an attribute is its value.
`DwarfTables` is what one thread computes: the address map (`find_address_ranges`,
`add_ranges_from_*`), which a thread builds before it adds the module, the functions and the calls inlined into them
(`read_function_entry`), the rows (`read_line_program`), and the lookups in each. The sort
of ranges that are alike (by the offset of the unit's lines, by the function's name) is left
out: no two of the debug information in the instance are. `Dwarf`
is what threads do to each other with it: the walk and the swap at the list of modules,
the load of `u->lines` (`Load`) or the reading of the unit (`ReadUnit`), and the four
stores in their order.

### Fileline, Mmap and the code

`Fileline` has every load, store and compare-and-swap on the three fields of the state.
Reading a file is one step of which the outcome counts; what that step does is in the
readers' modules. `Format` is the pair of readers: `elf.c` and `macho.c` set
`*fileline_fn` always, `pecoff.c` and `xcoff.c` only where the state has none.

In `Mmap` a block is where it begins and its size; a search of the free list is one step,
as it is done under the lock, but the test of the lock, the search, the taking, and the
release are apart; between search and taking the thread has the place `pp` in the list. A thread that finds the lock taken maps a page (`AllocTry`) or leaks
the block (`FreeTry`).

## Runs

| Run | Bounds | Shows |
|---|---|---|
| `ChanDrained` | 2 senders, 2 receivers, a closer; 2 calls each, blocking or not; 2 slots | parked receivers only on an empty and parked senders only on a full channel; ring indices; one signal per sleep; nobody forgotten by a close; `Chan` implements `ChanSpec` |
| `ChanTest` | 2 senders (2 and 1 messages), 2 receivers (4 calls), a closer; 2 slots | liveness: parked threads that were served or cancelled return; the buffer drains; nobody is left in a call on a closed channel |
| `ChanRefineTry` | 2 senders, a receiver, a closer; 2 calls, blocking or not; an unbuffered channel and one of 1 slot | `Chan` implements `ChanSpec` |
| `SpinMutexes` | 3 threads, 2 locks each, 2 tries, both mutexes, both kinds of machine | exclusion, waiters counted, no lost wakeup and everybody done in program order, implements `Mutex` |
| `LSema` | 3 waiters of every kind (2, 1, 1 calls), 2 signals of 1 or 2 permits | permits neither lost nor invented, implements `Semaphore`, nobody sleeps for ever while there is a permit |
| `LockFree` | pool: 3 threads, 3 calls each, 3 entries, quota 1 and 2, 7 tags; queue: 3 producers, 2 calls each, 2 slots, head wraps at 4 | each entry in one place, the pool implements `Stack` and every call returns; the assertions of `mpscq.c`, what `count` counts, the queue implements `Queue` and all that was accepted is received |
| `RWMutex` | 3 threads, `r_sync_once` once and then 2 calls each of any operation, watermark 2 and 4 | the mutex is made once and before use; readers or one writer, what r counts, who has the mutex, what a release may wait for, every call returns but in the three ways under Findings |
| `Rbase` | allocator: 2 blocks, 2 allocations; strings: u32 of 7 bits; texts of 4 characters, u64 of 5 bits; 20 bytes through a buffer of 8; messages of 60 bytes in blocks of 4, counts of 4 bits; stacks of 5 frames; 2 threads allocating 2 pages of backtrace's allocator | the sequential parts against reference definitions; memory with one owner in both allocators, strings in their memory |
| `Loader` | files of every shape in `MCLoader`, one failure; symbol tables of 4, two files; programs of 3 functions; debug information with two levels of inlining, one thread, and two on a few units and modules; 2 threads initializing | what the readers keep and release, the right debug file, lookups against the input, tables seen whole |
| `ChanDangling`, `FilelineRace`, `DwarfRetry` | smallest that show it | expected violations, see Findings |

Why these bounds are enough. One slot makes the buffer full, empty and wrap
with every message; two slots tell the order of messages in it, and four sends
wrap it twice. Two threads on
each side are the least with which one can overtake another in a queue, be left
behind in it, or be linked to by a stale pointer; two calls per thread are the
least with which a thread meets what its earlier call left behind in its `Thr`.
Three threads on a mutex are a holder, a sleeper, and one that takes the mutex
between the unlock and the wakeup. For the semaphore, one timed wait, one
plain wait and one that tries meet a signal of two permits. Three threads on
the read-write mutex are a writer that leaves, one that comes, and a reader;
watermark 2 is fewer than there are readers, 4 more. Six items in a queue of two
slots pass `head` around three times; three producers are one that is late, one that
overtakes it and one that is refused. ABA takes three threads: one stalls, one
takes and adds the entry, one keeps the next. While one call of Pool is under
way the others change the head six times at most, hence seven tags.

Of the allocator, an allocation below the top, one on the top, and a block that is not
the newest are all there is to tell apart. Small words make every limit one that strings
of a few characters reach. A message of 60 bytes overflows the low word of the count.
The readers hold something different at each of their points, and one failure at every
point in every shape of file shows what each path gives back; a second failure could
only happen while giving back, which has no failing path of its own but the close.
Four symbols make a search with two sides, with two that are alike; a second file is
searched when the first has nothing. Two levels of inlining and a sibling are a range in
a range beside a range; two threads on a unit are one that reads it and one that reads
it too, or comes between two of its stores.
Symmetry is used for safety and refinement only, between threads that run the
same program.

Deadlock checking is off where the bound on the number of calls ends a run; it is on in
`Loader`.

### Fairness

A thread in a call is scheduled (`WF` of its steps) in all liveness runs; this is
what any preemptive scheduler gives, and sleeping threads have no enabled step.
Starting a call is fair only in `TestSpec` (a receiver of `chan_test.c` calls
ChanRecv until it returns false), for the threads of `thread_spinmutex.c`'s
tests, which lock a fixed number of times, for those of `LSema`, for the threads
of `RWMutex`, which pass `r_sync_once` and call a fixed number of times like those of
thread.c's test, and for the consumer of `MPSCQ`, which polls. Nothing is assumed of the order
in which waiters get a lock or a permit: with finitely many calls, weak fairness
is enough. Of the mutex inside `rwmtx_t` no more is assumed than of any other, as POSIX
promises no more; that a writer may then wait for it for ever is one of the exceptions
that `AllReturn` names.

## Findings

Each of these is a run that TLC ends with a counterexample.

- `ChanDangling`. ChanClose leaves woken senders in the queue. A receiver that
  drains the channel afterwards takes the element of one of them through a
  pointer into a call that has returned.
- `FilelineRace`. In `pecoff.c` and `xcoff.c`, `backtrace_initialize` leaves its caller's
  `fileline_fn` as it is when another thread has set the state's in the meantime; the
  caller stores that NULL, and calls it.
- `DwarfRetry`. A unit whose lines cannot be read is chosen for an address that a later
  unit has lines for. The retry the comment describes depends on `new_data`, which only a
  successful read sets. (The next lookup does pass the unit by.)

Others, seen while modelling, without a run:

Concurrency.

- `Thr.closed` is set by ChanClose and never cleared. A thread once woken by a close,
  and later parked in ChanRecv on another channel, gets its message, zeroes it and
  returns false.
- A sender parked when the channel is closed is woken, and ChanSend returns true
  though no receiver has the message; `chan.h` says false. ChanSend panics on a
  closed channel where `chan.h` says that it returns false; ChanTrySend sets
  `*closed` to true where `chan.h` says false.
- The addition to `nwait` and the load of the flag after it are relaxed. On a machine
  that exchanges them a waiter sleeps for ever; `NoLostWakeup` and `AllDoneInOrder` are
  claimed for the others (`SpinMutexes` has both, by `reorder`).
- The spin counter of `_hybridMutexWait` is set only after a failed exchange in
  the outer loop, not after sleeping. If the flag is taken again before the
  waiter looks, the counter wraps and the thread spins 2^64 turns before it
  blocks again, where `thread.h` says "a short while".
- LSemaInit gives its initial count to the count and to the semaphore underneath,
  which then hands the permits out a second time. Every call in the repository
  passes 0. Where `ssize_t` has 32 bits, `LSemaSignal` compares unsigned numbers
  and posts permits nobody waits for.
- Calls of `rwmtx_t` may wait for ever in three ways, and `AllReturn` says that there
  is no fourth; without any one of them TLC finds it violated.
  rwmtx_trylock puts the watermark into `r` first and returns what `mtx_trylock`
  returns. The writer before it has already taken its watermark out but still holds the
  mutex: thrd_busy is returned, the watermark stays, and the lock is write-locked by
  nobody for ever (`lost`).
  `rwmtx_rlock` lets in as many readers as the watermark, one more than `thread.h`
  says; none of them can release then: `rwmtx_runlock` takes r for a writer's, and they
  loop over the mutex, which is free. Readers that are about to take back their
  addition count as well.
  Between a writer's swap and its `mtx_lock`, readers that wait for it take that mutex and
  give it back in a loop; a mutex that does not hand over to a waiter may keep the writer
  waiting.
- A producer of MPSCQueue that is refused is counted until it has taken itself
  out, so that others are refused by a queue with room, and MPSCQueueLen may
  exceed MPSCQueueCap.

Memory, strings, output.

- `mla_realloc` computes `avail - ah->size` in `size_t`: where the block has less room than
  the allocation is long it wraps, and the allocation grows past the block. When a new
  allocation fails it copies to NULL.
- `str_makeroom` overflows above 2^32 bytes; a failed realloc is not noticed;
  `str_appendrepr` formats a signed char with `"x%02X"`, which is eight digits for a
  negative one, and so writes up to six bytes past the string's memory;
  `str_appendu64` has no room for 64 binary digits in its own buffer. `InMemory` claims
  nothing after the first two, and has the six bytes of the third as a bound.
- `parsei64` looks for the sign after it has skipped it, and takes 2^64 - 1 for -1.
  `path_cwdrel` removes a character too many from a path that begins with the working
  directory but not at a slash.
- `WriterWrite` returns -1 on failure where `util.h` says an errno, and does not end
  when `write` returns 0. `os_stacktrace_fwrite` prints "+N+1 frames" for a negative limit.
- `mem_arena.c` never puts a block into its list, and so frees none; the sync wrapper
  of `mem.c` calls itself with the wrapped allocator.

backtrace.

- A thread that finds `u->lines` NULL or useless between two stores of another reports
  nothing (`FramesRight` has it as an exception). One thread's failure to initialize makes
  all later lookups fail.
- `elf_add` resets `*found_sym` on one path that its comment says leaves it; a view of a
  descriptor of a file read instead, the work space of the decompressors and what was
  uncompressed are leaked on some paths (`Leaked`); a descriptor whose close fails is
  closed again. `macho.c` leaks the table of a fat file without this architecture, and
  the program's descriptor when an image before it fails. `pecoff.c` reads an unset view
  for a long section name without a string table.
- `coff_add` that fails after it has added the symbols (pecoff.c:870-876) releases the
  string table their long names are in. The symbols stay with the state, and another thread
  that has initialized the state meanwhile looks them up (fileline.c:187). In `xcoff.c` a
  call that fails after its symbols were added has its strings, lines and DWARF released
  with the symbols in place, and backtrace_initialize goes on where it was a library's;
  `lib_found_sym` is what the last member sets. `NothingDangles` names both; everything
  else that the state refers to stays.
- `macho_symbol_search` never finds the last symbol before the sentinel; in ELF a symbol
  without a size hides one of its address that has one; XCOFF finds those exactly. A call
  as the last instruction of an XCOFF function is attributed to the next.
- dwarf.c: two ranges with a gap of one byte are merged; of ranges nested with another
  beginning the outer is not found; a unit's own low address 0 counts as absent; with
  several operations to an instruction the address advances by a product that is divided
  last; the failure path of reading lines frees NULL.

## Proofs

tlapm checks what follows for all values of the constants, with one assumption per
theorem where it says so.

- `ChanProofs`, for every number of threads and channels, every capacity and every program
  of calls. `TypeCorrect`, `WaitersCorrect` and `RingCorrect` hold for both contracts. The
  inductive invariant is the conjunction of the three. A sender parks only when the buffer
  is full, so `qlen` of a channel with parked senders must not change; it would
  if a receiver could take from the buffer past a parked sender, which
  `RecvBuffer`'s guard excludes, or if `chan_recv_direct`, which sets `sendx` from
  `recvx`, were called on a buffer that is not full, which `WaitersInv` excludes.
  That in turn needs the ring invariant, so none of the three is inductive alone.

  `SignalsCorrect` (`OneSignal`) and `NobodyForgotten` (`NoneForgotten`) are proved for
  `Contract = "drained"`; under `"docs"` a thread that was told of a close may call again
  while the channel it left still links to it, and the invariant they rest on does not
  hold. That invariant, `DrainedInv`, says that there is a list `Q[q]` for every wait
  queue such that: following `first` and `next` spells it, without repetitions, and no
  thread outside has a link (`Lists`); who is in it sleeps in a call that belongs there, or
  was told of a close (`Members`); who was told stays in it (`Told`); ChanClose has told
  the first n of the list of receivers, looks at the next, and finds no senders
  (`Walks`); and the permits of a thread with the peers about to signal it are one when it
  sleeps and is out of its list or was told, none otherwise (`Signals`). That `next` is
  cleared on the way out of a queue and never on the way in is what `Lists` carries from
  one parking of a thread to the next. `Queue` in the properties counts the links of a
  chain; `OneChain` and `QueueIs` show that it is the list.

  `Refinement` (`Chan` implements `ChanSpec`) is also for
  `Contract = "drained"`. The abstract channel is read off the lists of `DrainedInv`: the
  line is the list of receivers, the messages are the ring buffer from `recvx` on followed by
  what the listed senders lent (`View`). To this belongs `Holds`: what a thread lent stays
  while its call lasts, and `elemptr` tells a receiver that was handed a message from one
  that ChanClose woke. Parking is joining the line or an offer; a hand-over is a delivery
  or a take, done at one moment for both threads, though the other returns later
  (`HandView`); the ring is a sequence of which a send adds the last and a receive takes
  the first (`BufferedIs`, `PutIn`, `TakeOut`), and a receive with senders waiting does both
  at once (`Exchange`). Steps that change only where a thread is, and all signals, are
  no steps of `ChanSpec` (`Calm`, `Behind`). A call that fails on what it read without the
  lock could have failed at that moment, and `Noted` carries this to when it returns.

- `SpinMutexesProofs`: `Exclusion`; `Counted` (`nwait` is the number of threads
  between their addition and subtraction, on any machine); `NeverAsleep` (no lost
  wakeup where loads are not done early): a thread goes to sleep only while the
  flag is set, hence while there is a holder, who will find `nwait` above zero
  because the sleeper is counted; and `Refinement`: the code implements `Mutex`.

- `RWMutexProofs`: `ReadersOrWriter` (exclusion), `RCounts`, `MutexHasOwner`,
  `HoldersRelease` and `TypeCorrect`, for any watermark, also one that more
  readers reach. Exclusion follows from what r counts: a reader came in on an r
  below the watermark, hence when no watermark was in it, and a writer on an r of
  zero, hence when no reader was counted. The failing reader's addition and a lost
  watermark have their place in the sum. `HoldersRelease` says that no release returns
  `thrd_error` and that `rwmtx_runlock` waits only where as many readers as the watermark are
  counted: while somebody reads there is no watermark in r, so what it finds is their number.
  That nobody reads from the writer's swap
  on, and not only once it has the mutex (`NoReaders`), makes it inductive.
  `CreatedOnce` (`OnceInv`), `LazyLock` and `MadeBeforeUse` are about `LazyRWMutex`: both
  parts keep their invariants when their steps are interleaved, and nobody is in a call
  of the lock before the statement that makes it has ended.

  Of `r_sync_once` by itself: `RunsOnce` (the statement runs once) and `NotTooEarly`, for any
  number of threads and calls. The flag says where the winner is (`FlagTells`), there is one
  (`OneWinner`), and while the flag is 2 the winner holds the mutex (`MutexHeld`); so a
  loser that has seen 2 and gets the mutex gets it after the statement.

- `LSemaProofs`: `PermitsKept` (no permit lost or invented) and `Refinement` (LSema
  implements `Semaphore`), for any threads, programs and sizes of signals, where
  LSemaInit is given 0, as everywhere in the repository; with another number they are
  false (Findings). What a run checks, `PermitsMatch`, says nothing while posts are on
  their way, and is not inductive. The invariant counts these too: `Owed` is the set of
  posts to be made, as pairs of a thread and a number so that its size needs no sum over
  threads, and permits, posts and the shortage the count shows are together the sleepers
  (`Balance`). A thread that takes back its decrement must have seen the count below zero.

- `PoolProofs`, of the queue: `CountersAgree` (`QueueInv`) and `QueueRefinement` (`IsQueue`), for any
  producers, any capacity, and a `head` that wraps at any multiple of it. The slots in use
  are the first ones from `tail` on, `head` is behind them (`InOrder`), and those in use
  with those promised are at most as many as there are (`Admitted`), because a producer
  that is admitted was counted before it claims, and the consumer takes an item out before
  it subtracts it. The abstract queue's places are the slots in use, in order; a claim
  is a place given, a store fills it, in any order.
- `PoolProofs`, of the pool: `EntriesKept` (`PoolInv`) and `Refinement` (`IsStack`), for any threads,
  number of calls, entries, and quotas. There is a list of the entries nobody has, which
  following `PoolNext` from the head spells. Every swap is one more change of the head, of a
  call (`Logged`), and the tag is their number modulo `TagWrap`. A thread that finds the tag
  it has seen has missed only changes of others, and those are fewer than there are tags,
  so it missed none, and the pointer it loaded is still the second of the list: this is
  where ABA is excluded. That PoolTake does not answer NULL while the threads cannot have
  all entries is a count of quotas (`SomeLeft`). Its last part is about `MCLockFree`, where
  a behaviour is of one structure and the other stays as it is: each step is one of `MPSCQ`
  or leaves the queue alone, so `CountersBesidePool` and `QueueBesidePool` are the queue's
  theorems as the run states them.

- `RbaseProofs` is about the parts of `MCRbase` that own memory or data, for any sizes,
  limits, threads and sequences of calls. Each part has an invariant of its own, and `Inv`
  is that of the part a behaviour is of.

  `SpecOwnMemory` (`OwnMemory`), for the linear allocator: allocations are in the part in
  use of their block and clear of each other (`Owned`), a block's size is that of its pages
  without its header (`Shape`), and the mapped pages are those of the blocks. An allocation
  that grows or shrinks in place is the most recent one, so it ends where the part in use
  ends and all others of its block end below it (`BelowTop`): this is why the top may
  move (`ResizeKeeps`). That blocks are named by age makes a new one in front of the others
  leave their names as they are. The claim ends where `broken` says that one of the findings
  has happened.

  For the allocator of backtrace: blocks in use, on the list and about to be freed are
  apart (`Disjoint`), all of them on mapped pages and aligned (`AllSound`), and a thread
  that searches, takes or puts has the lock, so that the place it has found is
  still there (`LockHeld`). Cutting a block gives two that are apart and inside it
  (`CutInTwo`), whatever it was apart from stays apart from its parts (`PartsFree`), and
  rounding up keeps both on the alignment. The list that `backtrace_free_locked` leaves has
  nothing that was not on it or freed, whichever entry it drops (`FreeLockedIs`).

  `SpecInMemory` (`InMemory`): until a length passes 32 bits (`MakeRoom` cuts off at `U32`)
  or a `realloc` fails (`Hopeless`), there is the room asked for after `str_makeroom`, and
  each append asks for no less than it writes with its terminator. `str_appendrepr` looks for
  room for two digits before each escape and writes eight where the byte has a sign: its last
  escape ends six bytes past its room at most (`Past`), which is the bound from then on.

  `SpecNothingLost` (`NothingLost`): bytes are numbered as they are written, the file
  followed by the buffer is 1, 2, 3, ... (`InOrder`), a `write` that takes the first n of
  the buffer moves them from one to the other, and while `WriterWrite` copies, its `cap` is
  the room that is left.

- `ReaderProofs` and `LoaderProofs` are about `Loader`: any files on the disk, any libraries
  and program, any debug information, any number of failures, threads and frames.

  `LoaderNothingDangles` (`NothingDangles`), `LoaderAllReleased` (`AllReleased`),
  `LoaderRightFile` (`RightFile`). They follow from one invariant for each reader
  (`ElfInv`, `MachoInv`, `PecoffInv`, `XcoffInv`), none of which speaks of all that is held at
  once: `Mine(res.held, id)` is what one call has taken, the lemmas on the ledger (`TakenMine`,
  `ReleasedMine`, `ClosedIs`, `CloseFailsIs`) say that a step changes only what is its own, and the
  invariant says for every point of a call what it holds there, which of it is referred to,
  and whether its descriptor is open (`ElfHolds`, `MachoHolds`, ...). A call that has another one on
  top of it stays as it is, and what it needs afterwards is that the descriptors below are
  others than the one on top, so that a call closes none but its own. What a call leaves when
  it ends is either referred to, or what the findings say is leaked, or the call failed
  (`ElfDone`, `MachoDone`, `XcoffDone`). Without the exact set at every point nothing can be
  said of the `fail` labels, which release what is marked valid: neither property is inductive.
  A descriptor whose close failed stays known (`unsure`), so that closing it once more is told
  from closing one that never was open. What is referred to and yet released is bounded at
  the one point where each of `coff_add` and `xcoff_add` releases it (`PecoffFailed`, `Loose`).
  `RightFile` needs in addition that what identifies a file, its build ID, CRC or UUID, is
  carried from the call that looks for it to the one that reads it. That symbols are reported
  found by the call that added them takes the list of calls that have ended (`left`).

  `LoaderSeenWhole` (`SeenWhole`) is about threads. `ThreadsInv` for `Dwarf`: a unit whose
  lines are set has all else that its reader stores before (`Whole`), whoever is between two
  stores has the same to store as who came first (`StoresOk`), and a module is to be added,
  or being added by one thread, or in the list once (`AddedInv`): the compare-and-swap succeeds
  only on an end of the list that is still the end. For `Fileline`: the function for
  symbols is set before that for lines, and what a thread is about to store is a function
  (`FilelineInv`). This holds for `elf.c` and `macho.c` (`FormatAssumption`); that it is false
  for the others is the finding `FilelineRace`. `LoaderFramesInOrder` (`FramesInOrder`, a part of
  `ReportsRight`) is that a walk reports each frame once, in order, whatever part of the walk
  another thread's failure or success changes.

The assumptions are those the modules name: `ChanAssumption`, `SpinMutexAssumption`,
`RWMutexAssumption`, `LSemaAssumption`, `MPSCQAssumption` (as
`QueueAssumption` in `MCLockFree`), `PoolAssumption`, and `MemAssumption`,
`StrAssumption`, `WriterAssumption` and `MapAssumption` of `MCRbase`, `ElfsAssumption`,
`PecoffsAssumption` and `MachosAssumption` of `Readers` (see there), `FormatAssumption` and
`BacktraceAssumption` of `Loader`. The constants have their types, there are finitely many threads, and `NULL` is no
thread, channel or entry; `Wrap` of `MPSCQ` is a multiple of its capacity; `Pool` starts
with entries that are all different, and has more tags than the other threads' calls, which
2^64 is for any program that ends. The linear allocator fits into its first block, which
has whole pages; a string's header with a first allocation is less than 2^32 bytes; and
pages are multiples of the alignment.

Only model-checked: texts, SHA-1 and stack traces (`TakenApart`, `HashesMessage`,
`PrintsWithinLimit`), which are folds over data; that lookups of symbols, lines and frames
agree with what the tables were made from (`ReportsRight`, but for the order of the frames),
whose tables and searches are recursive functions over data;
what the findings are about; and all liveness. Liveness under fairness and induction over data are
out of the prover's reach.

## Not modelled

- ChanOpen's and ChanFree's arithmetic: the address is aligned up to the size of a cache
  line but only half of it is added to the size.
- `mem_arena.c`, `mem.c`: neither does what it is for, and nothing uses them.
- `misc/cmd-watch.sh` and the build scripts: processes, pid files and an external
  program; their behaviour is that of the tools.
- In backtrace: zlib and LZMA decompression and CRC (functions on bytes), the reading of
  DWARF attributes and forms and their bounds checks, the alternatives `alloc.c`, `read.c`,
  `nounwind.c`, `unknown.c`, and the formatting of `print.c` and `simple.c`.
- The rounds of SHA-1, hashing, comparison of strings, and which characters an append writes.
- `mem_page.c`, the thread shim, time, os, fs: calls of the system. The test and
  benchmark harness.

------------------------------ MODULE MCRbase ------------------------------
(***************************************************************************)
(* The sequential parts of rbase and the allocator of backtrace, each in   *)
(* behaviours of its own: part says which, and its state is in s1 .. s6,   *)
(* under the names its module gives them below.                            *)
(***************************************************************************)
EXTENDS Integers, Sequences

\* Of mem_linear.c, str.c, util_io.c and mmap.c; their modules say what they are.
CONSTANTS PtrSize, PageSize, RootPages, AllocSizes, SizeWrap, MaxLive, MaxBlocks,
          U32, StrHeader, Word, StrLarge, Line, Digits, StrSizes,
          BufSize, Lengths, MaxBytes,
          Threads, Align, MinBlock, MaxEntries, MapPage, Large, MapSizes, MaxPages, MaxInUse

\* The allocator fits into its first block.
ASSUME MemAssumption ==
  /\ PtrSize \in Nat \ {0} /\ PageSize \in Nat \ {0} /\ RootPages \in Nat \ {0}
  /\ AllocSizes \subseteq Nat /\ SizeWrap \in Nat \ {0}
  /\ RootPages * PageSize >= 8 * PtrSize

\* A string of any of the sizes fits into 32 bits with its header.
ASSUME StrAssumption ==
  /\ U32 \in Nat \ {0} /\ StrHeader \in Nat /\ Word \in Nat \ {0}
  /\ StrLarge \in Nat /\ Line \in Nat \ {0} /\ Digits \in Nat /\ StrSizes \subseteq Nat
  /\ StrHeader + Word < U32 /\ \A n \in StrSizes : StrHeader + n + 1 < U32

ASSUME WriterAssumption == BufSize \in Nat /\ Lengths \subseteq Nat /\ MaxBytes \in Nat

\* Pages are aligned, and what is on the list has room for its own header.
ASSUME MapAssumption ==
  /\ Align \in Nat \ {0} /\ MapPage \in Nat \ {0} /\ MapPage % Align = 0
  /\ MinBlock \in Nat \ {0} /\ MaxEntries \in Nat \ {0}
  /\ MapSizes \subseteq Nat \ {0} /\ Large \in Nat /\ MaxPages \in Nat
  /\ "none" \notin Threads

VARIABLES part, s1, s2, s3, s4, s5, s6

vars == <<part, s1, s2, s3, s4, s5, s6>>

\* Digits, among them what is no digit in any base, and the sign.
DigitChars == {0, 1, 2, 9, -1, -2}

\* Stacks of up to five frames: without a file, with a source that can be read, or that is
\* gone.
Stacks ==
  UNION { { [i \in 1 .. n |-> [n |-> i, file |-> f[i]]] : f \in [1 .. n -> {"none", "there", "gone"}] } :
          n \in 0 .. 5 }

\* Arguments limit and limit_src: negative is unlimited, 0 is the default.
Limits == {-2, 0, 1, 2, 9}

\* mem_linear.c
Mem == INSTANCE LinearAlloc
  WITH blocks <- s1, live <- s2, pages <- s3, broken <- s4, Sizes <- AllocSizes

\* str.c
Strings == INSTANCE Str
  WITH len <- s1, cap <- s2, mem <- s3, wrote <- s4, broken <- s5,
       Header <- StrHeader, Large <- StrLarge, Sizes <- StrSizes

\* parseint.c, path.c, unicode.c
Texts == INSTANCE Text
  WITH call <- s1, result <- s2,
       U64 <- 32, Cutoffs <- {31, 7}, Bases <- {2, 3, 10}, Digits <- DigitChars,
       Chars <- {"/", ".", "a"}, MaxLen <- 4,
       Runes <- {0, 127, 128, 2047, 2048, 4096, 65535, 65536, 1114111}

\* util_io.c
Output == INSTANCE Writer
  WITH buf <- s1, file <- s2, inlen <- s3, cap <- s4, pc <- s5, next <- s6, Cap <- BufSize

\* util_sha1.c
Hash == INSTANCE Sha1
  WITH state <- s1, buffer <- s2, count <- s3, sum <- s4, pc <- s5,
       Block <- 4, Count <- 2, Bits <- 2, U32 <- 16, Lengths <- {0, 1, 3, 6, 13}, MaxBytes <- 60

\* os_stacktrace.c
Traces == INSTANCE Stacktrace
  WITH call <- s1, result <- s2,
       Stacks <- Stacks, Limits <- Limits, Offsets <- {0, 1}

\* backtrace/mmap.c
Maps == INSTANCE Mmap
  WITH freelist <- s1, lock <- s2, live <- s3, pages <- s4, unmapped <- s5, pc <- s6,
       PageSize <- MapPage, Sizes <- MapSizes, MaxLive <- MaxInUse

Unused == 0

Init ==
  \/ part = "mem"     /\ Mem!Init     /\ s5 = Unused /\ s6 = Unused
  \/ part = "strings" /\ Strings!Init /\ s6 = Unused
  \/ part = "texts"   /\ Texts!Init   /\ s3 = Unused /\ s4 = Unused /\ s5 = Unused /\ s6 = Unused
  \/ part = "output"  /\ Output!Init
  \/ part = "hash"    /\ Hash!Init    /\ s6 = Unused
  \/ part = "traces"  /\ Traces!Init  /\ s3 = Unused /\ s4 = Unused /\ s5 = Unused /\ s6 = Unused
  \/ part = "maps"    /\ Maps!Init

Next ==
  /\ \/ part = "mem"     /\ Mem!Next     /\ UNCHANGED <<s5, s6>>
     \/ part = "strings" /\ Strings!Next /\ UNCHANGED s6
     \/ part = "texts"   /\ Texts!Next   /\ UNCHANGED <<s3, s4, s5, s6>>
     \/ part = "output"  /\ Output!Next
     \/ part = "hash"    /\ Hash!Next    /\ UNCHANGED s6
     \/ part = "traces"  /\ Traces!Next  /\ UNCHANGED <<s3, s4, s5, s6>>
     \/ part = "maps"    /\ Maps!Next
  /\ UNCHANGED part

Spec == Init /\ [][Next]_vars

-----------------------------------------------------------------------------
(* The properties of the parts, stated in their modules.                   *)

\* mem_linear.c, mmap.c: as long as none of the findings has happened, what is in use is
\* nobody else's, mapped, and not on a list of what is free, and the pages of an allocator
\* are those of its blocks.
OwnMemory ==
  /\ part = "mem"  => Mem!OwnMemory /\ Mem!PagesAccounted
  /\ part = "maps" => Maps!OwnMemory

\* str.c: until a length is more than 32 bits can say or an allocation fails, no append
\* writes past the memory of the string; but str_appendrepr of bytes from 128 on does, by
\* at most six bytes.
InMemory == part = "strings" => Strings!InMemory

\* parseint.c, path.c, str_splitn, utf8decode: numbers are parsed to their values or refused
\* at every limit, paths and strings are taken apart into what they are made of, and runes
\* decode to what was encoded.
TakenApart ==
  part = "texts" =>
    Texts!ParsesNumbers /\ Texts!TakesPathsApart /\ Texts!SplitsWhole /\ Texts!DecodesRunes

\* util_io.c: what was written is in the file and the buffer, in order, whatever write took.
NothingLost == part = "output" => Output!NothingLost

\* util_sha1.c: the blocks hashed are those of the padded message, however it was cut up.
HashesMessage == part = "hash" => Hash!HashesMessage

\* os_stacktrace.c: the frames printed are those of the callers, as many as the limit allows.
PrintsWithinLimit == part = "traces" => Traces!PrintsWithinLimit
=============================================================================

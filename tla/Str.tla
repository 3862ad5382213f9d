-------------------------------- MODULE Str --------------------------------
(***************************************************************************)
(* The growing strings of pkg/rbase/str.c.  A string is a header with u32  *)
(* len and cap, cap bytes and one for the terminator; what the bytes are   *)
(* is left out.  Each operation is one action, which says how far it wrote.*)
(* What can go wrong in one is a value of broken, after which the string   *)
(* is not used.                                                            *)
(***************************************************************************)
EXTENDS Integers, FiniteSetsExt

CONSTANTS U32,     \* 2^32: u32 counts modulo U32
          Header,  \* sizeof(StrHeader)
          Word,    \* sizeof(size_t), ALLOC_MIN
          Large,   \* 4096: a capacity below it is doubled
          Line,    \* 80: str_appendrepr begins a new line after so many
          Digits,  \* 20: what the buffer of str_appendu64 holds
          Sizes    \* how much is asked for or appended

VARIABLES
  len, cap,  \* the header
  mem,       \* the bytes that were asked of malloc or realloc
  wrote,     \* one more than the last byte of p written by the last operation
  broken     \* "u32": a length was more than u32 can say, "null": realloc failed,
             \* "sprintf": an escape was longer than its room, "digits": so was a number

vars == <<len, cap, mem, wrote, broken>>

AlignWord(n) == ((n + Word - 1) \div Word) * Word

\* str_new
Init ==
  \E n \in Sizes :
    /\ len = 0
    /\ cap = Max({n + 1, Word}) - 1
    /\ mem = Header + Max({n + 1, Word})
    /\ wrote = 1
    /\ broken = "no"

-----------------------------------------------------------------------------
\* The string: what str_makeroom and the writes after it work on.
Now == [len |-> len, cap |-> cap, mem |-> mem, broken |-> broken]

\* What leaves nothing to say of the string's memory.
Hopeless == {"u32", "null"}

\* s, which is broken if that is so.
BrokenIf(s, p, how) == IF p /\ s.broken \notin Hopeless THEN [s EXCEPT !.broken = how] ELSE s

\* More than is needed, for what comes next.
Capacity(c) == IF c < Large THEN AlignWord(2 * c) ELSE c

\* realloc, to a capacity of at least so many.
Resized(s, least) ==
  LET c    == Capacity(least % U32)
      size == Header + c + 1
  IN  BrokenIf([s EXCEPT !.cap = c, !.mem = size % U32], least >= U32 \/ size >= U32, "u32")

\* Not the code: the room is taken for the length.
MakeRoom_OffByOne(s, n) == IF s.cap - s.len + 1 >= n THEN s ELSE Resized(s, s.len + n)

\* str_makeroom: the string with room for n more bytes.
MakeRoom(s, n) == IF s.cap - s.len >= n THEN s ELSE Resized(s, s.len + n)

\* s is the string now, n bytes longer, and what was written ends so far past them and
\* the terminator.
BecomesPast(s, n, past) ==
  /\ len' = (s.len + n) % U32
  /\ cap' = s.cap
  /\ mem' = s.mem
  /\ wrote' = s.len + n + past + 1
  /\ broken' = s.broken

Becomes(s, n) == BecomesPast(s, n, 0)

Extend(n) == Becomes(MakeRoom(Now, n), n)

\* A length that was computed in u32 before it is asked for.
ExtendBy(k, n) == Becomes(BrokenIf(MakeRoom(Now, (k * n) % U32), k * n >= U32, "u32"), k * n)

Reserve(n)    == Extend(n)       \* str_reserve
AppendN(n)    == Extend(n)       \* str_append, str_appendstr, str_appendcstr
AppendC       == Extend(1)       \* str_appendc
AppendFill(n) == Extend(n)       \* str_appendfill
AppendHex(n)  == ExtendBy(2, n)  \* str_appendhex

\* str_appendu64 of a number with n digits in its base, which buf has room for in base
\* ten and above.
AppendU64(n) == n > 0 /\ Becomes(BrokenIf(MakeRoom(Now, n), n > Digits, "digits"), n)

\* realloc returns NULL to whichever operation needs the room, and that goes on with it.
OutOfMemory ==
  /\ broken' = "null"
  /\ UNCHANGED <<len, cap, mem, wrote>>

\* str_setlen, whose assertion stops what is longer than the capacity.
SetLen(n) ==
  /\ n <= cap
  /\ len' = n
  /\ wrote' = n + 1
  /\ UNCHANGED <<cap, mem, broken>>

\* Not the code: no room is asked for the terminator vsnprintf writes.
AppendFmt_Exact(f, n) ==
  LET s == MakeRoom(Now, 2 * f)
  IN  Becomes(IF n < 2 * f + 2 THEN s ELSE MakeRoom(s, n), n)

\* str_appendfmtv of a format of f bytes that comes to n: vsnprintf is given twice
\* the format, and once more, if that was too little, what it says it needs.
AppendFmt(f, n) ==
  LET room == 2 * f + 1
      s    == MakeRoom(Now, room)
  IN  Becomes(IF n < room THEN s ELSE MakeRoom(s, n + 1), n)

\* How much str_appendrepr may write for n bytes: one to four for each, and one
\* more where a line is full.
Represented(n) == UNION {{m + k : k \in 0 .. m \div Line} : m \in n .. 4 * n}

\* The first of the tries that has room for all of what is written for n bytes.  An escape
\* has room for \xHH, but sprintf is given a char: where that has a sign, a byte from 128 on
\* is written with eight digits, of which the next character takes the place of six.  The
\* last escape before the end of the room does so in a try that has too little of it, too.
WriteRepr(tries, n) ==
  \E m \in Represented(n), i \in 1 .. 4, past \in {0, 6} :
    LET s    == tries[i]
        room == s.cap - s.len
        fits == Min({m, room})
    IN  /\ \A j \in 1 .. i - 1 : m > tries[j].cap - tries[j].len
        /\ m > room => past > 0
        /\ past > 0 => fits >= 4
        /\ BecomesPast(BrokenIf(s, fits + past > room, "sprintf"), fits, past)

\* str_appendrepr: each try asks for twice the room of the last; four are more than it takes.
AppendRepr(n) ==
  \E first \in {MakeRoom(BrokenIf(Now, 4 * n >= U32, "u32"), (4 * n) % U32)} :
  \E second \in {MakeRoom(first, (8 * n) % U32)} :
  \E third \in {MakeRoom(second, (16 * n) % U32)} :
  \E fourth \in {MakeRoom(third, (32 * n) % U32)} :
    WriteRepr(<<first, second, third, fourth>>, n)

Next ==
  /\ broken = "no"
  /\ \/ AppendC
     \/ OutOfMemory
     \/ \E n \in Sizes :
          \/ Reserve(n) \/ AppendN(n) \/ AppendFill(n) \/ AppendHex(n) \/ SetLen(n)
          \/ AppendU64(n)
          \/ AppendRepr(n)
          \/ \E f \in Sizes : AppendFmt(f, n)

Spec == Init /\ [][Next]_vars

-----------------------------------------------------------------------------
\* Until a length is more than u32 can say or realloc fails, the header never claims more
\* than there is, the length is in the capacity (the assertion of str_setlen holds after
\* every append), and no operation writes past the memory the string has - but for
\* str_appendrepr of bytes from 128 on, where char has a sign: that writes up to six bytes
\* past it.  (str_appendu64 in a base below ten overflows its own buffer, not the string.)
InMemory ==
  broken \notin Hopeless => /\ wrote <= mem - Header + (IF broken = "sprintf" THEN 6 ELSE 0)
                            /\ len <= cap
                            /\ Header + cap + 1 <= mem
=============================================================================

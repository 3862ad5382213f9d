-------------------------------- MODULE Text --------------------------------
(***************************************************************************)
(* The functions of pkg/rbase that take text apart: parseint.c, path.c,    *)
(* str_splitn of str.c and utf8decode of unicode.c.  A string is a         *)
(* sequence; positions count from 1.  An integer is of U64 values.         *)
(***************************************************************************)
EXTENDS Integers, Sequences, SequencesExt, FiniteSetsExt

CONSTANTS U64,      \* 2^64
          Cutoffs,  \* the largest results of the callers of _parseu64
          Bases,
          Digits,   \* characters of numbers: the values of digits, Minus, or another
          Chars,    \* characters of paths
          Runes,    \* Unicode code points
          MaxLen    \* bounds the strings

Slash == "/"
Dot   == "."
Minus == -1  \* '-'
VARIABLES call, result  \* which function with what, and <<what it returned>> when it has

vars == <<call, result>>

UpTo(S) == SeqOf(S, MaxLen)

-----------------------------------------------------------------------------
(* parseint.c                                                              *)

\* Not the code: the last digit is let through at the cutoff.
ParseU64_NoLimit(s, base, cutoff) ==
  LET limit == cutoff \div base
      step(st, c) ==
        IF st.any < 0 \/ st.acc > limit
          THEN [st EXCEPT !.any = -1]
          ELSE [acc |-> (st.acc * base + c) % U64, any |-> 1]
      last == FoldLeft(step, [acc |-> 0, any |-> 0], s)
  IN  IF (\E i \in DOMAIN s : s[i] \notin 0 .. base - 1) \/ last.any <= 0
        THEN <<>>
        ELSE <<last.acc>>

\* _parseu64: any is 0 before the first digit and -1 once it is too much.
ParseU64(s, base, cutoff) ==
  LET limit  == cutoff \div base
      cutlim == cutoff % base
      step(st, c) ==
        IF st.any < 0 \/ st.acc > limit \/ (st.acc = limit /\ c > cutlim)
          THEN [st EXCEPT !.any = -1]
          ELSE [acc |-> (st.acc * base + c) % U64, any |-> 1]
      last == FoldLeft(step, [acc |-> 0, any |-> 0], s)
  IN  IF (\E i \in DOMAIN s : s[i] \notin 0 .. base - 1) \/ last.any <= 0
        THEN <<>>
        ELSE <<last.acc>>

\* The signs in front, which parsei64 skips and does not find where it looks later.
Signs(s) == CHOOSE n \in 0 .. Len(s) :
              /\ \A i \in 1 .. n : s[i] = Minus
              /\ n < Len(s) => s[n + 1] # Minus

Signed(v) == IF 2 * v >= U64 THEN v - U64 ELSE v

ParseI64(s, base) ==
  LET r == ParseU64(SubSeq(s, Signs(s) + 1, Len(s)), base, U64 - 1)
  IN  IF r = <<>> THEN <<>> ELSE <<Signed(r[1])>>

-----------------------------------------------------------------------------
(* path.c                                                                  *)

Slashes(s) == {i \in DOMAIN s : s[i] = Slash}

\* last_slash, strrchr: 0 where there is none.
LastSlash(s) == Max(Slashes(s) \cup {0})

PathIsAbs(s) == s = <<>> \/ s[1] = Slash

PathJoin(a, b) == a \o <<Slash>> \o b

PathDir(s) == IF Slashes(s) = {} THEN <<Dot>> ELSE SubSeq(s, 1, LastSlash(s) - 1)

\* path_base_append strips the slashes at the end, and then what is before the last.
Stripped(s) == SubSeq(s, 1, Max({i \in DOMAIN s : s[i] # Slash} \cup {0}))

\* Not the code: the slashes at the end are part of the path.
PathBase_Unstripped(s) ==
  LET b == SubSeq(s, LastSlash(s) + 1, Len(s))
  IN  IF s = <<>> THEN <<Dot>> ELSE IF b = <<>> THEN <<Slash>> ELSE b

PathBase(s) ==
  LET t == Stripped(s)
      b == SubSeq(t, LastSlash(t) + 1, Len(t))
  IN  IF s = <<>> THEN <<Dot>> ELSE IF b = <<>> THEN <<Slash>> ELSE b

\* path_ext goes backwards to a slash, but never looks at the first character.
PathExt(s) ==
  LET dots == {i \in LastSlash(s) + 1 .. Len(s) : i > 1 /\ s[i] = Dot /\ s[i - 1] # Slash}
  IN  IF dots = {} THEN <<>> ELSE SubSeq(s, Max(dots), Len(s))

\* path_cwdrel with cwd for the working directory; past the end is nothing.
PathCwdRel(s, cwd) ==
  IF PathIsAbs(s) /\ cwd # <<>> /\ Len(cwd) < Len(s) /\ IsPrefix(cwd, s)
    THEN SubSeq(s, Len(cwd) + 2, Len(s))
    ELSE s

-----------------------------------------------------------------------------
\* Not the code: the end of the string ends the parts as well.
SplitN_NoLast(s, delim) ==
  LET from[p \in 1 .. Len(s) + 2] ==
        LET q == Min({i \in p .. Len(s) : s[i] = delim} \cup {Max({Len(s) + 1, p})})
        IN  IF p > Len(s) THEN <<>> ELSE <<SubSeq(s, p, q - 1)>> \o from[q + 1]
  IN  from[1]

\* str_splitn, called until it returns NULL: the slices it returns, from p on.
SplitN(s, delim) ==
  LET from[p \in 1 .. Len(s) + 2] ==
        LET q == Min({i \in p .. Len(s) : s[i] = delim} \cup {Max({Len(s) + 1, p})})
        IN  IF p > Len(s) + 1 THEN <<>> ELSE <<SubSeq(s, p, q - 1)>> \o from[q + 1]
  IN  from[1]

-----------------------------------------------------------------------------
(* unicode.c                                                               *)

RuneErr == 65533

Width(b) == CASE b \div 32 = 6  -> 2
              [] b \div 16 = 14 -> 3
              [] b \div 8 = 30  -> 4
              [] OTHER         -> 1

\* Not the code: the same bits are taken of every lead byte.
Utf8Decode_Bits(s) ==
  LET w == Width(s[1])
  IN  <<w, IF Len(s) < w THEN RuneErr
           ELSE IF w = 1 THEN IF s[1] < 128 THEN s[1] ELSE RuneErr
           ELSE FoldLeft(LAMBDA r, c : r * 64 + (c % 64), s[1] % 32, SubSeq(s, 2, w))>>

\* utf8decode: the width and the rune.  The width is that of the lead byte also where
\* the bytes end before it.
Utf8Decode(s) ==
  LET w == Width(s[1])
  IN  <<w, IF Len(s) < w THEN RuneErr
           ELSE IF w = 1 THEN IF s[1] < 128 THEN s[1] ELSE RuneErr
           ELSE FoldLeft(LAMBDA r, c : r * 64 + (c % 64), s[1] % 2 ^ (7 - w), SubSeq(s, 2, w))>>

-----------------------------------------------------------------------------
\* What text is made of: the definition of UTF-8.
Utf8(r) ==
  LET tail(n) == 128 + ((r \div n) % 64)
  IN  CASE r < 128   -> <<r>>
        [] r < 2048  -> <<192 + r \div 64, tail(1)>>
        [] r < 65536 -> <<224 + r \div 4096, tail(64), tail(1)>>
        [] OTHER     -> <<240 + r \div 262144, tail(4096), tail(64), tail(1)>>

Init ==
  /\ result = <<>>
  /\ \/ \E s \in UpTo(Digits), b \in Bases, c \in Cutoffs :
          call = [fn |-> "parseu64", s |-> s, base |-> b, cutoff |-> c]
     \/ \E s \in UpTo(Digits), b \in Bases : call = [fn |-> "parsei64", s |-> s, base |-> b]
     \/ \E s \in UpTo(Chars) : call = [fn |-> "path", s |-> s]
     \/ \E s, cwd \in UpTo(Chars) : call = [fn |-> "cwdrel", s |-> s, cwd |-> cwd]
     \/ \E r \in Runes, more \in Runes : \E n \in 1 .. Len(Utf8(r) \o Utf8(more)) :
          call = [fn |-> "utf8decode", rune |-> r, s |-> SubSeq(Utf8(r) \o Utf8(more), 1, n)]
     \/ \E s \in UpTo(Chars), d \in Chars : call = [fn |-> "splitn", s |-> s, delim |-> d]

Next ==
  /\ result = <<>>
  /\ UNCHANGED call
  /\ \/ call.fn = "parseu64" /\ result' = <<ParseU64(call.s, call.base, call.cutoff)>>
     \/ call.fn = "parsei64" /\ result' = <<ParseI64(call.s, call.base)>>
     \/ /\ call.fn = "path"
        /\ result' = <<[dir |-> PathDir(call.s), base |-> PathBase(call.s),
                          ext |-> PathExt(call.s)]>>
     \/ call.fn = "cwdrel" /\ result' = <<PathCwdRel(call.s, call.cwd)>>
     \/ call.fn = "utf8decode" /\ result' = <<Utf8Decode(call.s)>>
     \/ call.fn = "splitn" /\ result' = <<SplitN(call.s, call.delim)>>

Spec == Init /\ [][Next]_vars

-----------------------------------------------------------------------------
(* Properties.                                                             *)

Returned(fn) == call.fn = fn /\ result # <<>>

Value == result[1]

\* The number that s stands for.
ValueOf(s, base) == FoldLeft(LAMBDA v, c : v * base + c, 0, s)

IsNumber(s, base) == s # <<>> /\ \A i \in DOMAIN s : s[i] \in 0 .. base - 1

\* parseu64 and parseu32 return the number the text stands for, and fail exactly when
\* it is no number or more than the cutoff, whatever the digits after that; parsei64
\* does so for what has no sign and fits.
ParsesNumbers ==
  /\ Returned("parseu64") =>
       Value = IF IsNumber(call.s, call.base) /\ ValueOf(call.s, call.base) <= call.cutoff
                  THEN <<ValueOf(call.s, call.base)>>
                  ELSE <<>>
  /\ Returned("parsei64") /\ IsNumber(call.s, call.base)
       /\ 2 * ValueOf(call.s, call.base) < U64
       => Value = <<ValueOf(call.s, call.base)>>

\* The elements of a path.
Elements(s) == SelectSeq(SplitN(s, Slash), LAMBDA e : e # <<>>)

\* path_base is the last element, "." of nothing and "/" of slashes; the directory
\* joined with it is the path again where the path does not end in slashes; the
\* extension is the end of the base from its last dot, unless the base begins there.
\* path_cwdrel undoes path_join with the working directory, and leaves alone what does
\* not begin with it.
TakesPathsApart ==
  /\ Returned("path") =>
       LET s == call.s
           e == Elements(s)
           d == {i \in DOMAIN Last(e) : Last(e)[i] = Dot}
       IN  /\ Value.base = IF s = <<>> THEN <<Dot>> ELSE IF e = <<>> THEN <<Slash>> ELSE Last(e)
           /\ s # <<>> /\ Last(s) # Slash =>
                /\ PathJoin(Value.dir, Value.base) = IF Slashes(s) = {} THEN <<Dot, Slash>> \o s ELSE s
                /\ Value.ext = IF d \subseteq {1} THEN <<>> ELSE SubSeq(Last(e), Max(d), Len(Last(e)))
  /\ Returned("cwdrel") =>
       LET rel == SubSeq(call.s, Len(call.cwd) + 2, Len(call.s))
       IN  /\ PathIsAbs(call.cwd) /\ call.cwd # <<>> /\ call.s = PathJoin(call.cwd, rel) =>
                Value = rel
           /\ ~IsPrefix(call.cwd, call.s) => Value = call.s

\* The first rune of a text is found with its width, and what is cut off in it is not
\* taken for another rune.
DecodesRunes ==
  Returned("utf8decode") =>
    Value = <<Len(Utf8(call.rune)),
              IF IsPrefix(Utf8(call.rune), call.s) THEN call.rune ELSE RuneErr>>

\* Joining the parts with the delimiter gives the string back, and no part has it.
SplitsWhole ==
  Returned("splitn") =>
    /\ Value # <<>>
    /\ \A i \in DOMAIN Value : ~Contains(Value[i], call.delim)
    /\ FoldLeft(LAMBDA s, p : s \o <<call.delim>> \o p, Value[1], Tail(Value)) = call.s
=============================================================================

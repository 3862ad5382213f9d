------------------------------ MODULE Stacktrace ------------------------------
(***************************************************************************)
(* os_stacktrace_fwrite of pkg/rbase/os_stacktrace.c: three backtraces of  *)
(* the same stack, one to measure, one to print the frames and one to      *)
(* print them with their source, each up to a limit.  Of what is printed   *)
(* the frames, and whether their source is, are kept.                      *)
(***************************************************************************)
EXTENDS Integers, Sequences, SequencesExt, FiniteSets

CONSTANTS Stacks,  \* sequences of frames: whether the source is known, and can be opened
          Limits,  \* arguments
          Offsets

VARIABLES call, result  \* the stack and the arguments, and <<what was printed>>

vars == <<call, result>>

\* backtrace_full: what is left without the first frames, and its own.
Frames(stack, skip) == SubSeq(stack, skip + 2, Len(stack))

\* Not the code: a frame past the limit is not counted.
Over_NotCounted(st, limit) == limit >= 0 /\ st.count > limit + 1

\* Past the limit frames are only counted.
Over(st, limit) == limit >= 0 /\ st.count > limit

\* _bt_full_cb, in the passes that print; source is include_source.
Callback(st, f, limit, source) ==
  LET c == [st EXCEPT !.count = @ + 1]
      open == source /\ f.file = "there"
  IN  IF Over(c, limit) THEN c
      ELSE IF source /\ f.file = "gone" /\ c.sources = 0 THEN c
      ELSE [c EXCEPT !.out = Append(@, [frame |-> f.n, source |-> open]),
                     !.sources = IF open THEN @ + 1 ELSE @]

Pass(frames, limit, source) ==
  FoldLeft(LAMBDA st, f : Callback(st, f, limit, source), [count |-> 0, sources |-> 0, out |-> <<>>], frames)

\* The number of frames that print_limit_reached says are left, or none.
More(st, limit) == IF st.count > limit THEN <<st.count - limit>> ELSE <<>>

\* With libbacktrace, and the callbacks never end a backtrace.
Fwrite(stack, offset, limit, limit_src) ==
  LET frames == Frames(stack, offset + 1)
      l      == IF limit < 0 THEN -1 ELSE limit
      ls     == IF limit_src < 0 THEN -1 ELSE IF limit_src > l THEN l ELSE limit_src
      two    == Pass(frames, l, FALSE)
      three  == Pass(frames, ls, TRUE)
  IN  [frames |-> two.out, more |-> More(two, l),
       sources |-> three.out, moresources |-> IF three.sources > 1 THEN More(three, ls) ELSE <<>>]

Init ==
  /\ call \in [stack : Stacks, offset : Offsets, limit : Limits, limit_src : Limits]
  /\ result = <<>>

Next ==
  /\ result = <<>>
  /\ result' = <<Fwrite(call.stack, call.offset, call.limit, call.limit_src)>>
  /\ UNCHANGED call

Spec == Init /\ [][Next]_vars

-----------------------------------------------------------------------------
(* Property.                                                               *)

Numbers(out) == {out[i].frame : i \in DOMAIN out}

\* The frames that are printed are those of the callers, in order, as many as the limit
\* allows; the number that is said to be left is how many are not, if the limit is one
\* (without a limit it says one more than there are, as it counts from -1); and those
\* printed with their source are some of these where both have a limit.
PrintsWithinLimit ==
  result # <<>> =>
    LET r       == result[1]
        callers == {n \in DOMAIN call.stack : n > call.offset + 2}
        shown   == IF call.limit < 0 THEN callers
                   ELSE {n \in callers : n <= call.offset + 2 + call.limit}
    IN  /\ Numbers(r.frames) = shown
        /\ \A i, j \in DOMAIN r.frames : i < j => r.frames[i].frame < r.frames[j].frame
        /\ call.limit >= 0 =>
             r.more = IF Cardinality(callers \ shown) = 0 THEN <<>> ELSE <<Cardinality(callers \ shown)>>
        /\ call.limit >= 0 /\ call.limit_src >= 0 => Numbers(r.sources) \subseteq shown
=============================================================================

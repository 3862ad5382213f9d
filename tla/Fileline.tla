------------------------------- MODULE Fileline -------------------------------
(***************************************************************************)
(* Backtraces of several threads with one state of pkg/rbase/backtrace:    *)
(* backtrace_full of backtrace.c walks the stack of its thread and looks   *)
(* up every frame; the first lookup finds and reads the program            *)
(* (fileline.c), and what it has found is set by backtrace_initialize of   *)
(* the reader for the format of the program.                               *)
(*                                                                         *)
(* The state is created with threaded set.  Reading a file is one step of  *)
(* which only the outcome is kept (see Elf, MachO, Pecoff, Xcoff).         *)
(***************************************************************************)
EXTENDS Integers, Sequences, FiniteSets

CONSTANTS Threads,
          Format,  \* the reader: "elf" and "macho", or "coff" and "xcoff"
          Depth,   \* the frames on the stack of a thread
          Skips    \* arguments of backtrace_full

VARIABLES
  failed,      \* fileline_initialization_failed
  fileline_fn, \* these two are NULL or what is called for an address
  syminfo_fn,
  pc,          \* where each thread is
  frame,       \* the frame it is at
  skip,        \* what it has left to skip, and what it was told to
  asked,
  alloc,       \* can_alloc
  fn,          \* its variable fileline_fn
  read,        \* what it has read: symbols, debug information
  out          \* the frames it was told of, or the errors

vars == <<failed, fileline_fn, syminfo_fn, pc, frame, skip, asked, alloc, fn, read, out>>
shared == <<failed, fileline_fn, syminfo_fn>>

NULL == "NULL"

Goes(t, to) == pc' = [pc EXCEPT ![t] = to]

Reported(t, what) == out' = [out EXCEPT ![t] = Append(@, [frame |-> frame[t], what |-> what])]

\* The frame was dealt with.
NextFrame(t) == Goes(t, "unwind") /\ frame' = [frame EXCEPT ![t] = @ + 1]

\* The callback was called, which may end the backtrace.
CalledBack(t, what) ==
  /\ Reported(t, what)
  /\ \/ NextFrame(t)
     \/ Goes(t, "stopped") /\ UNCHANGED frame

-----------------------------------------------------------------------------
(* backtrace_full                                                          *)

\* Not the code: backtrace_full itself is not skipped.
Skipped_Own(s) == s

\* The frame of backtrace_full itself is skipped.
Skipped(s) == s + 1

\* Whether there is memory is tried first.
Begin(t) ==
  /\ pc[t] = "start"
  /\ \E s \in Skips, a \in BOOLEAN :
       /\ skip'  = [skip EXCEPT ![t] = Skipped(s)]
       /\ asked' = [asked EXCEPT ![t] = s]
       /\ alloc' = [alloc EXCEPT ![t] = a]
  /\ Goes(t, "unwind")
  /\ UNCHANGED <<shared, frame, fn, read, out>>

\* unwind, for one frame.
Unwind(t) ==
  /\ pc[t] = "unwind" /\ frame[t] <= Depth
  /\ IF skip[t] > 0
       THEN /\ skip'  = [skip EXCEPT ![t] = @ - 1]
            /\ frame' = [frame EXCEPT ![t] = @ + 1]
            /\ UNCHANGED <<pc, out>>
     ELSE IF ~alloc[t] THEN CalledBack(t, "address") /\ UNCHANGED skip
     ELSE Goes(t, "check") /\ UNCHANGED <<skip, frame, out>>
  /\ UNCHANGED <<shared, asked, alloc, fn, read>>

-----------------------------------------------------------------------------
(* fileline_initialize                                                     *)

CheckFailed(t) ==
  /\ pc[t] = "check"
  /\ IF failed THEN NextFrame(t) /\ Reported(t, "error")
               ELSE Goes(t, "checkfn") /\ UNCHANGED <<frame, out>>
  /\ UNCHANGED <<shared, skip, asked, alloc, fn, read>>

CheckFn(t) ==
  /\ pc[t] = "checkfn"
  /\ fn' = [fn EXCEPT ![t] = fileline_fn]
  /\ Goes(t, IF fileline_fn # NULL THEN "initialized" ELSE "open")
  /\ UNCHANGED <<shared, frame, skip, asked, alloc, read, out>>

\* The names are tried in their order until one has a file, which is opened and read, or not.
Open(t) ==
  /\ pc[t] = "open"
  /\ \/ Goes(t, "fail") /\ UNCHANGED read  \* no name has a file, or its file fails
     \/ /\ \E s \in BOOLEAN, d \in BOOLEAN :
              read' = [read EXCEPT ![t] = [sym |-> s, dwarf |-> d]]
        /\ Goes(t, "setsym")
  /\ UNCHANGED <<shared, frame, skip, asked, alloc, fn, out>>

\* backtrace_initialize: the symbols that are found replace that there are none.
SetSyminfo(t) ==
  /\ pc[t] = "setsym"
  /\ syminfo_fn' = IF read[t].sym THEN "syminfo"
                   ELSE IF syminfo_fn = NULL THEN "nosyms" ELSE syminfo_fn
  /\ Goes(t, "choose")
  /\ UNCHANGED <<failed, fileline_fn, frame, skip, asked, alloc, fn, read, out>>

Found(t) == IF read[t].dwarf THEN "dwarf" ELSE "nodebug"

\* What pecoff.c and xcoff.c do.
Chosen_Coff(t, current) == IF current \in {NULL, "nodebug"} THEN Found(t) ELSE fn[t]

\* *fileline_fn: pecoff.c and xcoff.c leave it alone where the state has one.
Chosen(t, current) ==
  IF current \in {NULL, "nodebug"} THEN Found(t)
  ELSE IF Format \in {"coff", "xcoff"} THEN fn[t] ELSE current

Choose(t) ==
  /\ pc[t] = "choose"
  /\ fn' = [fn EXCEPT ![t] = Chosen(t, fileline_fn)]
  /\ Goes(t, "store")
  /\ UNCHANGED <<shared, frame, skip, asked, alloc, read, out>>

Store(t) ==
  /\ pc[t] = "store"
  /\ fileline_fn' = fn[t]
  /\ Goes(t, "initialized")
  /\ UNCHANGED <<failed, syminfo_fn, frame, skip, asked, alloc, fn, read, out>>

Fail(t) ==
  /\ pc[t] = "fail"
  /\ failed' = TRUE
  /\ NextFrame(t) /\ Reported(t, "error")
  /\ UNCHANGED <<fileline_fn, syminfo_fn, skip, asked, alloc, fn, read>>

-----------------------------------------------------------------------------
(* backtrace_pcinfo, after fileline_initialize                             *)

CheckAgain(t) ==
  /\ pc[t] = "initialized"
  /\ IF failed THEN NextFrame(t) /\ Reported(t, "nothing")
               ELSE Goes(t, "call") /\ UNCHANGED <<frame, out>>
  /\ UNCHANGED <<shared, skip, asked, alloc, fn, read>>

\* dwarf_fileline; or elf_nodebug and the like, which try the symbols.  Of NULL this is the
\* end of the program.
CallFileline(t) ==
  /\ pc[t] = "call" /\ fileline_fn # NULL
  /\ IF fileline_fn = "dwarf" THEN CalledBack(t, "line")
     ELSE IF syminfo_fn \notin {NULL, "nosyms"} THEN CalledBack(t, "symbol")
     ELSE Reported(t, "error") /\ NextFrame(t)
  /\ UNCHANGED <<shared, skip, asked, alloc, fn, read>>

Init ==
  /\ failed = FALSE /\ fileline_fn = NULL /\ syminfo_fn = NULL
  /\ pc    = [t \in Threads |-> "start"]
  /\ frame = [t \in Threads |-> 1]
  /\ skip  = [t \in Threads |-> 0] /\ asked = skip
  /\ alloc = [t \in Threads |-> TRUE]
  /\ fn    = [t \in Threads |-> NULL]
  /\ read  = [t \in Threads |-> [sym |-> FALSE, dwarf |-> FALSE]]
  /\ out   = [t \in Threads |-> <<>>]

Step(t) ==
  \/ Begin(t) \/ Unwind(t) \/ CheckFailed(t) \/ CheckFn(t) \/ Open(t) \/ SetSyminfo(t)
  \/ Choose(t) \/ Store(t) \/ Fail(t) \/ CheckAgain(t) \/ CallFileline(t)

Done(t) == pc[t] = "unwind" /\ frame[t] > Depth

Ended(t) == Done(t) \/ pc[t] = "stopped"

Next ==
  \/ \E t \in Threads : Step(t)
  \/ (\A t \in Threads : Ended(t)) /\ UNCHANGED vars

Spec == Init /\ [][Next]_vars

-----------------------------------------------------------------------------
(* Properties.                                                             *)

\* "If THREADED is non-zero the state may be accessed by multiple threads simultaneously":
\* whatever the order in which they initialize it, no thread ever calls a function that
\* is not set.
NeverCallsNull ==
  \A t \in Threads : pc[t] \in {"initialized", "call"} => fileline_fn # NULL /\ syminfo_fn # NULL

\* Every frame from the one after those to be skipped is reported once, in order and to the
\* last unless the callback says so, with whatever is known of it.
FramesInOrder ==
  \A t \in Threads :
    /\ \A i \in DOMAIN out[t] : out[t][i].frame = asked[t] + 1 + i
    /\ Done(t) => Len(out[t]) = IF asked[t] + 1 >= Depth THEN 0 ELSE Depth - asked[t] - 1
=============================================================================

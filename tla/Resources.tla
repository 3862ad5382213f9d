------------------------------ MODULE Resources ------------------------------
(***************************************************************************)
(* What the readers of pkg/rbase/backtrace hold while they read a file:    *)
(* descriptors (posix.c), views of a part of a file and blocks of memory   *)
(* (mmapio.c, alloc.c).  A ledger has what is open, the descriptors that   *)
(* close has failed for (unsure), what is held, each thing with the reader *)
(* that took it, and whether anything was given back that was none of      *)
(* these.                                                                  *)
(***************************************************************************)
LOCAL INSTANCE Integers
LOCAL INSTANCE Sequences

\* A stack of calls, or a path: its last item, and the others.  (They are those of
\* SequencesExt; a proof carries along all of a module, and this is all the readers need.)
Last(s)  == s[Len(s)]
Front(s) == SubSeq(s, 1, Len(s) - 1)

None == "none"

\* No descriptor; one is named for the call whose file it is, 0 being backtrace_initialize.
NoFile == <<>>
Descriptor(id) == <<id>>

NoResources == [open |-> {}, unsure |-> {}, held |-> {}, twice |-> FALSE]

\* backtrace_open, of a file that is there.
Opened(r, fd) == [r EXCEPT !.open = @ \cup {fd}]

\* backtrace_close.  The descriptor is returned to the system even where close fails, but
\* who has been told so closes it again.
Closed(r, fd) ==
  IF fd = NoFile THEN r
  ELSE [r EXCEPT !.open   = @ \ {fd},
                 !.unsure = @ \ {fd},
                 !.twice  = @ \/ fd \notin r.open \cup r.unsure]

CloseFails(r, fd) == [Closed(r, fd) EXCEPT !.unsure = @ \cup {fd}]

\* backtrace_get_view, backtrace_alloc: by reader id.
Taken(r, id, whats) == [r EXCEPT !.held = @ \cup ({id} \X whats)]

\* backtrace_release_view, backtrace_free.
Released(r, id, whats) ==
  [r EXCEPT !.held  = @ \ ({id} \X whats),
            !.twice = @ \/ ~(({id} \X whats) \subseteq r.held)]
=============================================================================

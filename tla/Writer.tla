------------------------------- MODULE Writer -------------------------------
(***************************************************************************)
(* The buffered writer of pkg/rbase/util_io.c on top of write(2), which    *)
(* may take a part of what it is given, nothing, or fail.  The bytes a     *)
(* client writes are numbered.                                             *)
(***************************************************************************)
EXTENDS Integers, Sequences, SequencesExt

CONSTANTS Cap,       \* countof(w->buf)
          Lengths,   \* how much the client writes at a time
          MaxBytes   \* bounds what it writes in all

VARIABLES
  buf,     \* the first len bytes of w->buf
  file,    \* what the file descriptor has taken
  inlen,   \* what WriterWrite has left to copy
  cap,     \* its idea of the room in the buffer
  pc,      \* "idle", "copy" or "flush" in WriterWrite, "closed"
  next     \* the number of the next byte of the client

vars == <<buf, file, inlen, cap, pc, next>>

FlushLow == Cap \div 8

\* WriterInit
Init ==
  /\ buf = <<>>
  /\ file = <<>>
  /\ inlen = 0
  /\ cap = 0
  /\ pc = "idle"
  /\ next = 1

Drop(s, n) == SubSeq(s, n + 1, Len(s))

\* Not the code: what was not written is lost.
Take_All(n) ==
  /\ file' = file \o SubSeq(buf, 1, n)
  /\ buf' = <<>>

\* WriterFlush: write takes n bytes, and what remains moves to the front.
Take(n) ==
  /\ file' = file \o SubSeq(buf, 1, n)
  /\ buf' = Drop(buf, n)

\* A call of write by WriterFlush and what it returns: -1 changes nothing.
Flushed(n) ==
  IF n = -1 THEN UNCHANGED <<file, buf>> ELSE Take(n)

Returns == IF buf = <<>> THEN {0} ELSE -1 .. Len(buf)

-----------------------------------------------------------------------------
(* WriterWrite: one iteration of its loop is Copy, and Low or High.        *)

Write(n) ==
  /\ pc = "idle"
  /\ next + n <= MaxBytes + 1
  /\ inlen' = n
  /\ cap' = Cap - Len(buf)
  /\ pc' = "copy"
  /\ UNCHANGED <<buf, file, next>>

Copy ==
  LET chunk == IF inlen < cap THEN inlen ELSE cap
  IN  /\ pc = "copy"
      /\ inlen > 0
      /\ buf' = buf \o [i \in 1 .. chunk |-> next + i - 1]
      /\ next' = next + chunk
      /\ cap' = cap - chunk
      /\ inlen' = inlen - chunk
      /\ pc' = "flush"
      /\ UNCHANGED file

Done ==
  /\ pc = "copy"
  /\ inlen = 0
  /\ pc' = "idle"
  /\ UNCHANGED <<buf, file, inlen, cap, next>>

High ==
  /\ pc = "flush"
  /\ cap > FlushLow
  /\ pc' = "copy"
  /\ UNCHANGED <<buf, file, inlen, cap, next>>

\* Not the code: the room is not counted again after the flush.
Low_KeepsCap(n) ==
  /\ pc = "flush"
  /\ cap <= FlushLow
  /\ Flushed(n)
  /\ cap' = Cap
  /\ pc' = IF n = -1 THEN "idle" ELSE "copy"
  /\ UNCHANGED <<inlen, next>>

\* The room left is low: flush.  An error returns to the client, which does not learn
\* how much of its data the buffer has.
Low(n) ==
  /\ pc = "flush"
  /\ cap <= FlushLow
  /\ Flushed(n)
  /\ cap' = IF n = -1 THEN cap ELSE cap + n
  /\ pc' = IF n = -1 THEN "idle" ELSE "copy"
  /\ UNCHANGED <<inlen, next>>

-----------------------------------------------------------------------------
Flush(n) ==
  /\ pc = "idle"
  /\ Flushed(n)
  /\ UNCHANGED <<inlen, cap, pc, next>>

\* WriterClose flushes once, and what that leaves in the buffer stays there.
Close(n) ==
  /\ pc = "idle"
  /\ Flushed(n)
  /\ pc' = "closed"
  /\ UNCHANGED <<inlen, cap, next>>

Next ==
  \/ \E n \in Lengths : Write(n)
  \/ Copy \/ Done \/ High
  \/ \E n \in Returns : Low(n) \/ Flush(n) \/ Close(n)

Spec == Init /\ [][Next]_vars

-----------------------------------------------------------------------------
\* The file has what was written up to some point and the buffer the rest of it, in
\* order, each byte once, whatever write took and however often it failed; and the
\* buffer never has more than it can hold, for which cap has to be right in the loop.
NothingLost ==
  /\ file \o buf = [i \in 1 .. next - 1 |-> i]
  /\ Len(buf) <= Cap
  /\ pc \in {"copy", "flush"} => cap = Cap - Len(buf)
=============================================================================

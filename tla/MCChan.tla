------------------------------- MODULE MCChan -------------------------------
(***************************************************************************)
(* Instances of Chan for TLC: which thread calls what, and how often.      *)
(***************************************************************************)
EXTENDS Chan, TLC

CONSTANTS s1, s2,  \* threads that send
          r1, r2,  \* threads that receive
          k,       \* the thread that closes
          a, b     \* channels

Cap1 == [c \in Chans |-> 1]
Cap2 == [c \in Chans |-> 2]

\* One unbuffered and one buffered channel.
CapBoth == [c \in Chans |-> IF c = a THEN 0 ELSE 1]

\* The division of labour of chan_test.c: senders, receivers, one closer.
Roles ==
  [t \in Threads |-> CASE t \in {s1, s2} -> {"send"}
                       [] t \in {r1, r2} -> {"recv"}
                       [] t = k          -> {"close"}]

\* The same with calls that do not block among them.
TryRoles ==
  [t \in Threads |-> CASE t = s1 -> {"send", "trysend"}
                       [] t = s2 -> {"trysend"}
                       [] t = r1 -> {"recv", "tryrecv"}
                       [] t = r2 -> {"tryrecv"}
                       [] t = k  -> {"close"}]

\* The same, each with both kinds of call.
BothRoles ==
  [t \in Threads |-> CASE t \in {s1, s2} -> {"send", "trysend"}
                       [] t \in {r1, r2} -> {"recv", "tryrecv"}
                       [] t = k          -> {"close"}]

CallsOf(n) == [t \in Threads |-> IF t = k THEN 1 ELSE n]
TwoCalls   == CallsOf(2)
\* chan_test.c receives until ChanRecv returns false: a receiver has a call for
\* every message there can be, and one more.
UntilClosed == [t \in Threads |-> CASE t = s1 -> 2 [] t \in {s2, k} -> 1 [] OTHER -> 4]

\* Receivers that go on calling, as those of chan_test.c do.
TestSpec ==
  FairSpec /\ \A t \in Threads :
                WF_vars(~aborted /\ \E o \in Recvs, c \in Chans : Start(t, o, c))

RoleSymmetry == Permutations({s1, s2} \cap Threads) \cup Permutations({r1, r2} \cap Threads)
=============================================================================

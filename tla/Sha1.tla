-------------------------------- MODULE Sha1 --------------------------------
(***************************************************************************)
(* How pkg/rbase/util_sha1.c cuts a message into blocks, pads it and       *)
(* counts its bits.  What a block does to the state is external to this    *)
(* module: the state is the sequence of blocks that went into it.          *)
(***************************************************************************)
EXTENDS Integers, Sequences, SequencesExt

CONSTANTS Block,     \* 64 bytes
          Count,     \* 8 bytes of the block are the length of the message
          Bits,      \* 8 bits to the byte
          U32,       \* 2^32
          Lengths,   \* how much the client hashes at a time
          MaxBytes   \* bounds the message

VARIABLES
  state,   \* the blocks sha1_transform was given
  buffer,  \* context->buffer, of which what is past the last byte is old
  count,   \* context->count: the bits, modulo U32, and the carry
  sum,     \* the length of the message
  pc       \* "open", "final" or, after a length that sha1_update cannot add, "overrun"

vars == <<state, buffer, count, sum, pc>>

\* A byte of the message is its number; those of sha1_final have names.
Mark == "0200"
Zero == "0000"

\* The bytes of the two words of the length.
Length(high, low) == [i \in 1 .. Count |-> <<IF 2 * i <= Count THEN high ELSE low, i>>]

\* sha1_init
Init ==
  /\ state = <<>>
  /\ buffer = <<>>
  /\ count = <<0, 0>>
  /\ sum = 0
  /\ pc = "open"

Context == [state |-> state, buffer |-> buffer, count |-> count]

\* Not the code: the buffer is taken for full only when one more byte has come.
Update_Late(c, data) ==
  LET n     == Len(data)
      low   == (c.count[1] + (n * Bits)) % U32
      j     == (c.count[1] \div Bits) % Block
      all   == SubSeq(c.buffer, 1, j) \o data
      whole == IF j + n > Block THEN Len(all) \div Block ELSE 0
  IN  [state  |-> c.state \o [k \in 1 .. whole |-> SubSeq(all, (k - 1) * Block + 1, k * Block)],
       buffer |-> SubSeq(all, whole * Block + 1, Len(all)),
       count  |-> <<low, c.count[2] + IF low < c.count[1] THEN 1 ELSE 0>>]

\* sha1_update: fill the buffer up, hash it and every whole block of the data after
\* that, and keep the rest.
Update(c, data) ==
  LET n     == Len(data)
      low   == (c.count[1] + (n * Bits)) % U32
      carry == (IF low < c.count[1] THEN 1 ELSE 0) + ((n * Bits) \div U32)
      j     == (c.count[1] \div Bits) % Block
      all   == SubSeq(c.buffer, 1, j) \o data
      whole == IF j + n > Block - 1 THEN Len(all) \div Block ELSE 0
  IN  [state  |-> c.state \o [k \in 1 .. whole |-> SubSeq(all, (k - 1) * Block + 1, k * Block)],
       buffer |-> SubSeq(all, whole * Block + 1, Len(all)),
       count  |-> <<low, (c.count[2] + carry) % U32>>]

Becomes(c) ==
  /\ state' = c.state
  /\ buffer' = c.buffer
  /\ count' = c.count

\* j + len wraps around in 32 bits: nothing is hashed, and all of the data is copied
\* into the buffer.
Wraps(n) == ((count[1] \div Bits) % Block) + n >= U32

Hash(n) ==
  /\ pc = "open"
  /\ sum + n <= MaxBytes
  /\ sum' = sum + n
  /\ IF Wraps(n)
       THEN pc' = "overrun" /\ UNCHANGED <<state, buffer, count>>
       ELSE UNCHANGED pc /\ Becomes(Update(Context, [i \in 1 .. n |-> sum + i]))

\* sha1_final: a mark, zeros until the length just fits, and the length as it was.
Final ==
  LET marked  == Update(Context, <<Mark>>)
      with(n) == FoldLeft(LAMBDA c, z : Update(c, <<z>>), marked, [i \in 1 .. n |-> Zero])
      fits(n) == (with(n).count[1] \div Bits) % Block = Block - Count
      fewest  == CHOOSE n \in 0 .. Block - 1 : fits(n) /\ \A m \in 0 .. n - 1 : ~fits(m)
  IN  /\ pc = "open"
      /\ pc' = "final"
      /\ Becomes(Update(with(fewest), Length(count[2], count[1])))
      /\ UNCHANGED sum

Next == Final \/ \E n \in Lengths : Hash(n)

Spec == Init /\ [][Next]_vars

-----------------------------------------------------------------------------
\* FIPS 180: the message, a one, as few zeros as it takes, and the number of its bits.
Padded(n) ==
  LET fill == CHOOSE z \in 0 .. Block - 1 : (n + 1 + z + Count) % Block = 0
  IN  [i \in 1 .. n |-> i] \o <<Mark>> \o [i \in 1 .. fill |-> Zero]
        \o Length((n * Bits) \div U32, (n * Bits) % U32)

\* However the message was cut into calls, the blocks that were hashed are those of
\* the padded message, in order, with the right length at the end, also when that has
\* gone past 32 bits; and nothing is left in the buffer.
HashesMessage ==
  pc = "final" => /\ FlattenSeq(state) = Padded(sum)
                  /\ \A i \in DOMAIN state : Len(state[i]) = Block
                  /\ buffer = <<>>
=============================================================================

------------------------------ MODULE Blake2s ------------------------------
(***************************************************************************)
(* The BLAKE2s-256 hasher of lib/src/crypto/blake2s.rs: the streaming       *)
(* Blake2s256, and node_hash, the one-block path of every Merkle node. The  *)
(* permutation blake2sf is left uninterpreted, so compress is an injective  *)
(* function of its four arguments. Message bytes are integers; a slot is    *)
(* the SLOT_BYTES bytes it packs. The sizes are constants: the code's are   *)
(* 64, 32 and 8 bytes.                                                      *)
(***************************************************************************)
EXTENDS Integers, Sequences

CONSTANTS BLOCK_BYTES, SLOT_BYTES

DIGEST_BYTES == BLOCK_BYTES \div 2
BLOCK_SLOTS == BLOCK_BYTES \div SLOT_BYTES

ASSUME BlockSizes ==
  /\ SLOT_BYTES \in Nat \ {0}
  /\ BLOCK_BYTES \in Nat \ {0}
  /\ BLOCK_BYTES % (2 * SLOT_BYTES) = 0

INITIAL_STATE == <<"IV ^ parameters">>

\* F(h, m, t, last): the working vector of h, the IV, the counter and the
\* last-block flag, permuted with m and folded back into h.
compress(h, m, t, last) == <<"compress", h, m, t, last>>

SlotsOf(bytes) ==
  [i \in 1..(Len(bytes) \div SLOT_BYTES) |->
     SubSeq(bytes, (i - 1) * SLOT_BYTES + 1, i * SLOT_BYTES)]

node_hash(lhs, rhs) ==
  compress(INITIAL_STATE, SlotsOf(lhs) \o SlotsOf(rhs), BLOCK_BYTES, TRUE)

new == [h |-> INITIAL_STATE, buf |-> [i \in 1..BLOCK_BYTES |-> 0],
        buf_len |-> 0, t |-> 0]

min(a, b) == IF a =< b THEN a ELSE b

\* mutant: compresses a buffer as soon as it is full.
absorb_eager(s, data) ==
  LET take == min(BLOCK_BYTES - s.buf_len, Len(data))
      buf  == [i \in 1..BLOCK_BYTES |->
                 IF i \in (s.buf_len + 1)..(s.buf_len + take)
                 THEN data[i - s.buf_len] ELSE s.buf[i]]
  IN  IF s.buf_len + take = BLOCK_BYTES
      THEN [h |-> compress(s.h, SlotsOf(buf), s.t + BLOCK_BYTES, FALSE),
            buf |-> buf, buf_len |-> 0, t |-> s.t + BLOCK_BYTES]
      ELSE [s EXCEPT !.buf = buf, !.buf_len = @ + take]

\* One turn of update's loop: a full buffer is compressed only now that more
\* input follows, then as much of the input as fits is copied in.
absorb(s, data) ==
  LET full  == s.buf_len = BLOCK_BYTES
      t     == IF full THEN s.t + BLOCK_BYTES ELSE s.t
      start == IF full THEN 0 ELSE s.buf_len
      take  == min(BLOCK_BYTES - start, Len(data))
  IN  [h       |-> IF full THEN compress(s.h, SlotsOf(s.buf), t, FALSE) ELSE s.h,
       buf     |-> [i \in 1..BLOCK_BYTES |->
                      IF i \in (start + 1)..(start + take)
                      THEN data[i - start] ELSE s.buf[i]],
       buf_len |-> start + take,
       t       |-> t]

\* How much of the input that turn takes.
taken(s, data) ==
  min(BLOCK_BYTES - (IF s.buf_len = BLOCK_BYTES THEN 0 ELSE s.buf_len), Len(data))

finalize(s) ==
  LET buf == [i \in 1..BLOCK_BYTES |-> IF i =< s.buf_len THEN s.buf[i] ELSE 0]
  IN  compress(s.h, SlotsOf(buf), s.t + s.buf_len, TRUE)
-----------------------------------------------------------------------------
(***************************************************************************)
(* The reference, after RFC 7693: the message is cut into blocks, the last  *)
(* one (the empty one of an empty message included) padded with zeros.      *)
(***************************************************************************)
Blocks(msg) ==
  IF msg = << >> THEN 1 ELSE (Len(msg) + BLOCK_BYTES - 1) \div BLOCK_BYTES

PaddedBlock(msg, b) ==
  [i \in 1..BLOCK_BYTES |->
     LET j == (b - 1) * BLOCK_BYTES + i IN IF j =< Len(msg) THEN msg[j] ELSE 0]

Digest(msg) ==
  LET h[b \in 0..Blocks(msg)] ==
        IF b = 0 THEN INITIAL_STATE
        ELSE compress(h[b - 1], SlotsOf(PaddedBlock(msg, b)),
                      min(b * BLOCK_BYTES, Len(msg)), b = Blocks(msg))
  IN  h[Blocks(msg)]
=============================================================================

---------------------------- MODULE ProofStream ----------------------------
(***************************************************************************)
(* The byte formats a ZiSK proof travels in: the serialized vadcop_final    *)
(* stream (guest-aggregator/src/lib.rs), the files cargo-zisk writes and    *)
(* the values the daemon takes out of them (prover/src/prover.rs), the      *)
(* framed input of a guest (prover/src/aggregator_input.rs) and the         *)
(* off-chain checks of zisk-verifier.                                       *)
(*                                                                         *)
(* Bytes are modelled four at a time. A "quad" is four bytes, named by the  *)
(* u32 they spell in little-endian order; reading them big-endian is        *)
(* swap32. A u64 is a record of its low and high half. The section sizes    *)
(* are constants: the code's are 4, 64, 4, 8 and 46141 words. Nothing below *)
(* depends on which values they have, but that a shift of the commitment    *)
(* leaves something of it.                                                  *)
(***************************************************************************)
EXTENDS Integers, Sequences, SequencesExt

CONSTANTS PROGRAM_VK_WORDS, PUBLICS_WORDS, VADCOP_VK_WORDS,
          COMMITMENT_WORDS, VADCOP_FINAL_BODY_WORDS

ASSUME SectionSizes ==
  /\ {PROGRAM_VK_WORDS, PUBLICS_WORDS, VADCOP_VK_WORDS, COMMITMENT_WORDS,
      VADCOP_FINAL_BODY_WORDS} \subseteq Nat \ {0}
  /\ COMMITMENT_WORDS > 1
  /\ COMMITMENT_WORDS =< PUBLICS_WORDS
-----------------------------------------------------------------------------
(***************************************************************************)
(* Words and bytes.                                                         *)
(***************************************************************************)
u32(n) == <<"u32", n>>

swap32(q) == IF q[1] = "swapped" THEN q[2] ELSE <<"swapped", q>>

u64(n) == [lo |-> u32(n), hi |-> u32(0)]

widen(q) == [lo |-> q, hi |-> u32(0)]

to_le_bytes(w) == <<w.lo, w.hi>>

to_be_bytes(w) == <<swap32(w.hi), swap32(w.lo)>>

LeBytes(words) == FlattenSeq([i \in DOMAIN words |-> to_le_bytes(words[i])])

extend_be(words) == FlattenSeq([i \in DOMAIN words |-> to_be_bytes(words[i])])

\* A 32-byte digest: COMMITMENT_WORDS quads that no other preimage has.
keccak256(bytes) ==
  [i \in 1..COMMITMENT_WORDS |-> <<"keccak256", bytes, i>>]

Slice(s, from, count) == SubSeq(s, from + 1, from + count)
-----------------------------------------------------------------------------
(***************************************************************************)
(* The serialized stream, and ProofFrame over it.                           *)
(***************************************************************************)
HEADER_WORDS == 2

LEAF_FLAG_WORDS == 1

HASH_TAG_WORDS == 1

EXPECTED_HASH_TAG == u64(0)

IS_VADCOP_FINAL_PROOF == u64(1)

EXPECTED_N_PUBLICS == u64(LEAF_FLAG_WORDS + PROGRAM_VK_WORDS + PUBLICS_WORDS)

PROOF_STREAM_WORDS ==
  HEADER_WORDS + LEAF_FLAG_WORDS + PROGRAM_VK_WORDS + PUBLICS_WORDS
    + VADCOP_FINAL_BODY_WORDS + VADCOP_VK_WORDS + HASH_TAG_WORDS

ProofFrame_parse_ok(words) ==
  /\ Len(words) = PROOF_STREAM_WORDS
  /\ words[1] = u64(0)
  /\ words[2] = EXPECTED_N_PUBLICS
  /\ words[PROOF_STREAM_WORDS - HASH_TAG_WORDS + 1] = EXPECTED_HASH_TAG
  /\ words[HEADER_WORDS + 1] = IS_VADCOP_FINAL_PROOF

program_vk(words) ==
  Slice(words, HEADER_WORDS + LEAF_FLAG_WORDS, PROGRAM_VK_WORDS)

publics(words) ==
  Slice(words, HEADER_WORDS + LEAF_FLAG_WORDS + PROGRAM_VK_WORDS, PUBLICS_WORDS)

body(words) ==
  Slice(words, HEADER_WORDS + LEAF_FLAG_WORDS + PROGRAM_VK_WORDS + PUBLICS_WORDS,
        VADCOP_FINAL_BODY_WORDS)

vadcop_vk(words) ==
  Slice(words, Len(words) - HASH_TAG_WORDS - VADCOP_VK_WORDS, VADCOP_VK_WORDS)

\* The low half of each of the first words of the publics.
commitment(words) ==
  [i \in 1..COMMITMENT_WORDS |-> publics(words)[i].lo]

\* `at` is the offset of the bytes in memory, in quads: a slice that does not
\* begin and end on a word boundary is refused.
words_from_bytes_ok(at, bytes) == at % 2 = 0 /\ Len(bytes) % 2 = 0

words_from_bytes(bytes) ==
  [i \in 1..(Len(bytes) \div 2) |->
     [lo |-> bytes[2 * i - 1], hi |-> bytes[2 * i]]]
-----------------------------------------------------------------------------
(***************************************************************************)
(* What a guest commits, and what ziskos makes of it: commit_slice fills    *)
(* the output region one u32 per word, and leaves the rest zero.            *)
(***************************************************************************)
commit_slice(bytes) ==
  [i \in 1..PUBLICS_WORDS |->
     IF i =< Len(bytes) THEN widen(bytes[i]) ELSE u64(0)]

\* A STARK proof body that verifies for exactly these values.
StarkBody(vk, pub, setup, leaf) ==
  [i \in 1..VADCOP_FINAL_BODY_WORDS |->
     widen(<<"stark", vk, pub, setup, leaf, i>>)]

\* The verifier ZiSK generates: it checks the body for the stream's own
\* publics and flag under the keys it is given, and ignores the appended key.
verify_zisk_proof(words, setup, vk) ==
  /\ program_vk(words) = vk
  /\ body(words) = StarkBody(vk, publics(words), setup, words[HEADER_WORDS + 1])

verify_saved_words(words, setup) ==
  body(words) = StarkBody(program_vk(words), publics(words), setup,
                          words[HEADER_WORDS + 1])
-----------------------------------------------------------------------------
(***************************************************************************)
(* Guest input framing: [length][payload][padding to a whole word].         *)
(***************************************************************************)
BytesPerQuad == 4

div_ceil2(n) == (n + 1) \div 2

Zeros(n) == [i \in 1..n |-> u32(0)]

encode_frame(payload) ==
  to_le_bytes(u64(Len(payload) * BytesPerQuad)) \o payload
    \o Zeros((div_ceil2(Len(payload)) * 2) - Len(payload))

\* Where the frame that begins at byte position `pos` (in quads) ends, what it
\* holds, and where the next one begins.
FrameLen(bytes, pos) == bytes[pos + 1][2] \div BytesPerQuad

FrameOk(bytes, pos) ==
  /\ pos + 2 =< Len(bytes)
  /\ bytes[pos + 1][1] = "u32"
  /\ bytes[pos + 2] = u32(0)
  /\ pos + 2 + FrameLen(bytes, pos) =< Len(bytes)

FramePayload(bytes, pos) == Slice(bytes, pos + 2, FrameLen(bytes, pos))

NextFrame(bytes, pos) == pos + 2 + div_ceil2(FrameLen(bytes, pos)) * 2

Decoded(frames) == [ok |-> TRUE, frames |-> frames]

Undecodable == [ok |-> FALSE, frames |-> << >>]

decode_frames(bytes) ==
  LET from[k \in 0..Len(bytes)] ==
        \* the frames from position Len(bytes) - k on
        LET pos  == Len(bytes) - k
            next == NextFrame(bytes, pos)
            rest == IF next >= Len(bytes) THEN Decoded(<< >>)
                    ELSE from[Len(bytes) - next]
        IN  IF k = 0 THEN Decoded(<< >>)
            ELSE IF FrameOk(bytes, pos) /\ rest.ok
            THEN Decoded(<<FramePayload(bytes, pos)>> \o rest.frames)
            ELSE Undecodable
  IN  from[Len(bytes)]
-----------------------------------------------------------------------------
(***************************************************************************)
(* cargo-zisk's proof files. A SNARK file is a record of what bincode       *)
(* decodes from it; a vadcop_final file is plain bytes.                     *)
(***************************************************************************)
SNARK_FILE_MAGIC == <<<<"ZISK">>, <<"PLNK">>>>

SEED_TRAILER_TAG == [lo |-> <<"ZISK">>, hi |-> <<"SEED">>]

SEED_TRAILER_WORDS == 4 + 1

EndsWithTag(bytes) ==
  /\ Len(bytes) >= 2
  /\ Slice(bytes, Len(bytes) - 2, 2) = to_le_bytes(SEED_TRAILER_TAG)

without_seed_trailer(bytes) ==
  IF Len(bytes) >= 2 * SEED_TRAILER_WORDS /\ EndsWithTag(bytes)
  THEN SubSeq(bytes, 1, Len(bytes) - 2 * SEED_TRAILER_WORDS)
  ELSE bytes

\* A whole proof is read from a file or decoded from base64 into a buffer of
\* its own, which the allocator aligns: offset 0.
vadcop_stream_ok(bytes) ==
  /\ ~ IsPrefix(SNARK_FILE_MAGIC, bytes)
  /\ LET data == without_seed_trailer(bytes)
     IN  /\ words_from_bytes_ok(0, data)
         /\ ProofFrame_parse_ok(words_from_bytes(data))

vadcop_stream_from_proof_file(bytes) == without_seed_trailer(bytes)

ZISK_PROOF_HASH_MODE == "Poseidon1"

ZISK_SNARK_PROOF_BYTES == 69 * 32

\* Public values in quads: two keys and the guest publics at full width.
ZISK_PUBLIC_VALUES_QUADS ==
  2 * (PROGRAM_VK_WORDS + PUBLICS_WORDS + VADCOP_VK_WORDS)

parse_proof_file_ok(file) ==
  /\ file.magic
  /\ file.variant = "pilfflonk"
  /\ ~ file.trailing
  /\ file.hash_mode = ZISK_PROOF_HASH_MODE
  /\ file.proof.len = ZISK_SNARK_PROOF_BYTES
  /\ Len(file.program_vk) = PROGRAM_VK_WORDS
  /\ Len(file.rootc) = VADCOP_VK_WORDS
  /\ Len(file.publics_full) = PROGRAM_VK_WORDS + PUBLICS_WORDS
  /\ Slice(file.publics_full, 0, PROGRAM_VK_WORDS) = file.program_vk

parse_proof_file(file) ==
  [proof |-> file.proof,
   public_values |->
     extend_be(file.program_vk)
       \o LeBytes(Slice(file.publics_full, PROGRAM_VK_WORDS, PUBLICS_WORDS))
       \o extend_be(file.rootc)]

\* inspect_proof's own unpacking of the commitment: the low half of every
\* full-width word, whose high half must be zero.
inspect_commitment_ok(public_values) ==
  \A i \in 1..COMMITMENT_WORDS :
    public_values[2 * PROGRAM_VK_WORDS + 2 * i] = u32(0)

inspect_commitment(public_values) ==
  [i \in 1..COMMITMENT_WORDS |-> public_values[2 * PROGRAM_VK_WORDS + 2 * i - 1]]
-----------------------------------------------------------------------------
(***************************************************************************)
(* zisk-verifier's checks of a final proof.                                 *)
(***************************************************************************)
check_wire_form(out) ==
  /\ out.proof.len = ZISK_SNARK_PROOF_BYTES
  /\ Len(out.public_values) = ZISK_PUBLIC_VALUES_QUADS

public_signal(public_values) == <<"sha256 mod r", public_values>>

wire_program_vk(public_values) == Slice(public_values, 0, 2 * PROGRAM_VK_WORDS)

\* mutant: reads the setup key where the narrow wire form had it.
wire_root_c_narrow(public_values) ==
  Slice(public_values, 2 * PROGRAM_VK_WORDS + PUBLICS_WORDS, 2 * VADCOP_VK_WORDS)

wire_root_c_vadcop_final(public_values) ==
  Slice(public_values, 2 * (PROGRAM_VK_WORDS + PUBLICS_WORDS), 2 * VADCOP_VK_WORDS)

verify_snark_bound(out, expected) ==
  /\ check_wire_form(out)
  /\ wire_program_vk(out.public_values) = expected.program_vk
  /\ wire_root_c_vadcop_final(out.public_values) = expected.root_c_vadcop_final

\* mutant: verifies the proof under the key it ships with.
verify_vadcop_final_stream_carried(bytes, trusted) ==
  /\ words_from_bytes_ok(0, bytes)
  /\ LET words == words_from_bytes(bytes)
     IN  /\ ProofFrame_parse_ok(words)
         /\ verify_saved_words(words, vadcop_vk(words))

verify_vadcop_final_stream(bytes, trusted) ==
  /\ words_from_bytes_ok(0, bytes)
  /\ LET words == words_from_bytes(bytes)
     IN  /\ ProofFrame_parse_ok(words)
         /\ vadcop_vk(words) = trusted
         /\ verify_saved_words(words, trusted)

\* The verifier's own reading of a file: a whole number of words, less the
\* seed trailer.
stream_from_proof_file_ok(bytes) == Len(bytes) % 2 = 0

verify_vadcop_final_proof_file(bytes, trusted) ==
  /\ stream_from_proof_file_ok(bytes)
  /\ verify_vadcop_final_stream(without_seed_trailer(bytes), trusted)
-----------------------------------------------------------------------------
(***************************************************************************)
(* The range public input of the aggregator guest.                          *)
(***************************************************************************)
shr32(word) == <<u32(0)>> \o SubSeq(word, 1, Len(word) - 1)

\* mutant: hashes a range of one batch as well.
range_public_input_folded(inputs) == shr32(keccak256(FlattenSeq(inputs)))

range_public_input(inputs) ==
  IF Len(inputs) = 1 THEN shr32(inputs[1])
  ELSE shr32(keccak256(FlattenSeq(inputs)))

\* check_binding_digest.rs recomputes the committed value from the layout the
\* settlement layer documents; it is what the range verifier on L1 expects.
binding_digest(inner_vk, root_c, public_inputs) ==
  LET folded == IF Len(public_inputs) = 1 THEN public_inputs[1]
                ELSE keccak256(FlattenSeq(public_inputs))
  IN  keccak256(inner_vk \o root_c
                  \o [i \in 1..COMMITMENT_WORDS |->
                        IF i = 1 THEN u32(0) ELSE folded[i - 1]])
=============================================================================

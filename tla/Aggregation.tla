---------------------------- MODULE Aggregation ----------------------------
(***************************************************************************)
(* The aggregated lane, from the per-batch proof files to the settlement    *)
(* layer: the assembler (prover/src/aggregator_input.rs and its binary)     *)
(* loads the files and frames them, the aggregator guest                    *)
(* (guest-aggregator/src/main.rs and lib.rs) verifies them and commits one  *)
(* digest, cargo-zisk wraps its proof, the daemon reads the file            *)
(* (parse_proof_file), the server checks it off chain (zisk-verifier) and   *)
(* the range verifier on L1 settles.                                        *)
(*                                                                         *)
(* The proofs given need not be honest: they may come from another guest,   *)
(* another setup, another batch, another format, or be no proof at all, and *)
(* the public inputs L1 holds need not be those of an execution.            *)
(***************************************************************************)
EXTENDS ProofStream, FiniteSets

CONSTANTS MaxBatches,   \* the longest range considered
          MaxOdd        \* bound: kinds of files given beside plain STF proofs,
                        \* and bad claims of a range

ASSUME RangeBounds == MaxBatches \in Nat \ {0} /\ MaxOdd \in Nat

VARIABLES
  given,        \* the per-batch proof files, in the order they are given
  claims,       \* the batches of the range on L1: each "real" or "bad"
  phase,        \* the step the lane is at
  streams,      \* the assembler's loaded streams
  input,        \* the guest's framed input
  pos,          \* how far the guest has read it
  left,         \* proofs the guest has still to read
  vks,          \* Aggregator.vks, as a sequence of at most one pair
  batch_public_inputs,  \* Aggregator.batch_public_inputs
  committed,    \* what the guest committed
  snark,        \* the proof file of the aggregated range
  out           \* ZiskSnarkOutput, what is submitted

guestVars == <<pos, left, vks, batch_public_inputs, committed>>
vars == <<given, claims, phase, streams, input, guestVars, snark, out>>
-----------------------------------------------------------------------------
(***************************************************************************)
(* The world outside: keys, proofs and files.                               *)
(***************************************************************************)
Key(name, words) == [i \in 1..words |-> [lo |-> <<"key lo", name, i>>,
                                         hi |-> <<"key hi", name, i>>]]

StfVk == Key("stf guest", PROGRAM_VK_WORDS)
AggregatorVk == Key("aggregator guest", PROGRAM_VK_WORDS)
OtherVk == Key("other guest", PROGRAM_VK_WORDS)
TRUSTED_VADCOP_VK == Key("release setup", VADCOP_VK_WORDS)
OtherSetup == Key("other setup", VADCOP_VK_WORDS)

\* The public input of a batch: the one its execution commits, or another.
PublicInput(b, claim) == [i \in 1..COMMITMENT_WORDS |-> <<claim, b, i>>]

\* Who made a proof. Only the STF guest under the release setup is bound to
\* what was executed; another guest, another setup and no proof at all
\* (synthetic_stream) can carry any public input.
Shapes == {"plain", "trailer", "minimal", "publics", "family", "short",
           "ragged", "snark"}

Proofs ==
  [batch : 1..MaxBatches, claim : {"real"}, maker : {"stf"}, shape : Shapes]
    \cup [batch : 1..MaxBatches, claim : {"bad"},
          maker : {"other guest", "other setup", "synthetic", "fold"},
          shape : {"plain"}]

StreamWords(p) ==
  LET vk    == IF p.maker = "other guest" THEN OtherVk ELSE StfVk
      setup == IF p.maker = "other setup" THEN OtherSetup ELSE TRUSTED_VADCOP_VK
      pub   == commit_slice(PublicInput(p.batch, p.claim))
      flag  == IF p.maker = "fold" THEN u64(0) ELSE IS_VADCOP_FINAL_PROOF
  IN  <<IF p.shape = "minimal" THEN u64(1) ELSE u64(0),
        IF p.shape = "publics" THEN u64(PROGRAM_VK_WORDS + PUBLICS_WORDS)
                               ELSE EXPECTED_N_PUBLICS,
        flag>>
        \o vk \o pub
        \o (IF p.maker = "synthetic" THEN StarkBody(<< >>, << >>, << >>, flag)
                                     ELSE StarkBody(vk, pub, setup, flag))
        \o setup
        \o <<IF p.shape = "family" THEN u64(1) ELSE EXPECTED_HASH_TAG>>

Trailer == LeBytes([i \in 1..4 |-> widen(<<"seed", i>>)] \o <<SEED_TRAILER_TAG>>)

ProofFile(p) ==
  LET bytes == LeBytes(StreamWords(p))
  IN  CASE p.shape = "trailer" -> bytes \o Trailer
        [] p.shape = "short"   -> SubSeq(bytes, 1, Len(bytes) - 2)
        [] p.shape = "ragged"  -> SubSeq(bytes, 1, Len(bytes) - 1)
        [] p.shape = "snark"   -> SNARK_FILE_MAGIC \o bytes
        [] OTHER               -> bytes

\* An aggregator proof that the pilfflonk wrap turns into a SNARK file. The
\* SNARK attests the public signal of exactly its own keys and publics.
SnarkFile(vk, setup, pub) ==
  [magic |-> TRUE, variant |-> "pilfflonk", trailing |-> FALSE,
   hash_mode |-> "Poseidon1", program_vk |-> vk, rootc |-> setup,
   publics_full |-> vk \o pub,
   proof |-> [len |-> ZISK_SNARK_PROOF_BYTES,
              attests |-> public_signal(extend_be(vk) \o LeBytes(pub)
                                          \o extend_be(setup))]]

\* The range verifier on L1 rebuilds the public values from its pins and from
\* the public inputs it holds, then runs the pairing.
L1PublicInputs == [b \in DOMAIN claims |-> PublicInput(b, claims[b])]

L1Digest ==
  binding_digest(extend_be(StfVk), extend_be(TRUSTED_VADCOP_VK), L1PublicInputs)

L1Accepts(o) ==
  /\ check_wire_form(o)
  /\ o.proof.attests =
       public_signal(extend_be(AggregatorVk) \o LeBytes(commit_slice(L1Digest))
                       \o extend_be(TRUSTED_VADCOP_VK))

ExpectedProgram == [program_vk |-> extend_be(AggregatorVk),
                    root_c_vadcop_final |-> extend_be(TRUSTED_VADCOP_VK)]
-----------------------------------------------------------------------------
(***************************************************************************)
(* The assembler.                                                           *)
(***************************************************************************)
OddKinds(g) == {<<g[i].maker, g[i].shape>> : i \in DOMAIN g} \ {<<"stf", "plain">>}

SeqsUpTo(S, low, high) == UNION {[1..k -> S] : k \in low..high}

Init ==
  /\ given \in {g \in SeqsUpTo(Proofs, 0, MaxBatches) :
                 Cardinality(OddKinds(g)) <= MaxOdd}
  /\ claims \in {c \in SeqsUpTo({"real", "bad"}, 1, MaxBatches) :
                  Cardinality({b \in DOMAIN c : c[b] = "bad"}) <= MaxOdd}
  /\ phase = "load"
  /\ streams = << >>
  /\ input = << >>
  /\ pos = 0
  /\ left = 0
  /\ vks = << >>
  /\ batch_public_inputs = << >>
  /\ committed = << >>
  /\ snark = << >>
  /\ out = << >>

Fail(why) == phase' = why

\* load_proof_stream, one file after another.
LoadProof ==
  /\ phase = "load"
  /\ Len(streams) < Len(given)
  /\ LET file == ProofFile(given[Len(streams) + 1])
     IN  IF vadcop_stream_ok(file)
         THEN /\ streams' = Append(streams, vadcop_stream_from_proof_file(file))
              /\ UNCHANGED phase
         ELSE Fail("load error") /\ UNCHANGED streams
  /\ UNCHANGED <<given, claims, input, guestVars, snark, out>>

\* Aggregator::ingest, on the keys seen so far.
\* mutant: compares the program key only.
ingest_ok_program(seen, words) ==
  seen # << >> => seen[1].program_vk = program_vk(words)

ingest_ok(seen, words) ==
  seen # << >> =>
    /\ seen[1].program_vk = program_vk(words)
    /\ seen[1].vadcop_vk = vadcop_vk(words)

ingest_vks(seen, words) ==
  IF seen # << >> THEN seen
  ELSE <<[program_vk |-> program_vk(words), vadcop_vk |-> vadcop_vk(words)]>>

\* mutant: checks every stream alone and not that they share their keys.
DryRunOk_each ==
  \A i \in DOMAIN streams :
    /\ words_from_bytes_ok(0, streams[i])
    /\ ProofFrame_parse_ok(words_from_bytes(streams[i]))

\* The dry run of the guest's own parsing over every stream.
DryRunOk ==
  \A i \in DOMAIN streams :
    LET words == words_from_bytes(streams[i])
        first == words_from_bytes(streams[1])
    IN  /\ words_from_bytes_ok(0, streams[i])
        /\ ProofFrame_parse_ok(words)
        /\ i > 1 => ingest_ok(ingest_vks(<< >>, first), words)

Assemble ==
  /\ phase = "load"
  /\ Len(streams) = Len(given)
  /\ IF streams # << >> /\ DryRunOk
     THEN /\ input' = encode_frame(to_le_bytes(u64(Len(streams))))
                        \o FlattenSeq([i \in DOMAIN streams |->
                                         encode_frame(streams[i])])
          /\ phase' = "count"
     ELSE Fail("assemble error") /\ UNCHANGED input
  /\ UNCHANGED <<given, claims, streams, guestVars, snark, out>>

\* A prover need not use the assembler: it may frame any files, under any
\* count, and run the guest on that.
FrameUnchecked ==
  /\ phase = "load"
  /\ streams = << >>
  /\ \E n \in 0..MaxBatches :
       input' = encode_frame(to_le_bytes(u64(n)))
                  \o FlattenSeq([i \in DOMAIN given |->
                                   encode_frame(ProofFile(given[i]))])
  /\ phase' = "count"
  /\ UNCHANGED <<given, claims, streams, guestVars, snark, out>>
-----------------------------------------------------------------------------
(***************************************************************************)
(* The aggregator guest. A panic ends the run without a proof.              *)
(***************************************************************************)
parse_count_frame_ok(bytes) == Len(bytes) = 2 /\ bytes # to_le_bytes(u64(0))

parse_count_frame(bytes) == bytes[1][2]

ReadCount ==
  /\ phase = "count"
  /\ IF FrameOk(input, 0) /\ parse_count_frame_ok(FramePayload(input, 0))
     THEN /\ left' = parse_count_frame(FramePayload(input, 0))
          /\ pos' = NextFrame(input, 0)
          /\ phase' = "proofs"
     ELSE Fail("count panic") /\ UNCHANGED <<left, pos>>
  /\ UNCHANGED <<given, claims, streams, input, vks, batch_public_inputs,
                 committed, snark, out>>

\* One turn of the guest's loop: the frame is read, parsed and ingested, and
\* only then verified, under the keys the stream itself carries.
ReadProof ==
  /\ phase = "proofs"
  /\ left > 0
  /\ LET bytes == FramePayload(input, pos)
         words == words_from_bytes(bytes)
     IN  CASE \/ ~ FrameOk(input, pos)
              \/ ~ words_from_bytes_ok(pos + 2, bytes)
              \/ ~ ProofFrame_parse_ok(words)
              \/ ~ ingest_ok(vks, words) ->
                /\ Fail("parse panic")
                /\ UNCHANGED guestVars
           [] OTHER ->
                /\ vks' = ingest_vks(vks, words)
                /\ batch_public_inputs' =
                     Append(batch_public_inputs, commitment(words))
                /\ pos' = NextFrame(input, pos)
                /\ left' = left - 1
                /\ IF verify_zisk_proof(words, vadcop_vk(words), program_vk(words))
                   THEN UNCHANGED phase
                   ELSE Fail("verify panic")
                /\ UNCHANGED committed
  /\ UNCHANGED <<given, claims, streams, input, snark, out>>

finalize ==
  keccak256(extend_be(vks[1].program_vk) \o extend_be(vks[1].vadcop_vk)
              \o range_public_input(batch_public_inputs))

Finalize ==
  /\ phase = "proofs"
  /\ left = 0
  /\ committed' = finalize
  /\ phase' = "wrap"
  /\ UNCHANGED <<given, claims, streams, input, pos, left, vks,
                 batch_public_inputs, snark, out>>
-----------------------------------------------------------------------------
(***************************************************************************)
(* From the guest's output to L1.                                           *)
(***************************************************************************)
\* cargo-zisk prove, external: it writes the file of the proof it was asked
\* for, or of a run with the wrong flags, family, guest or setup. A guest or
\* a setup of one's own can commit the very digest L1 expects.
WrappedFiles ==
  LET good == SnarkFile(AggregatorVk, TRUSTED_VADCOP_VK, commit_slice(committed))
  IN  {good,
       SnarkFile(OtherVk, TRUSTED_VADCOP_VK, commit_slice(L1Digest)),
       SnarkFile(AggregatorVk, OtherSetup, commit_slice(L1Digest)),
       [good EXCEPT !.magic = FALSE],
       [good EXCEPT !.variant = "plonk"],
       [good EXCEPT !.trailing = TRUE],
       [good EXCEPT !.hash_mode = "Poseidon2"],
       [good EXCEPT !.proof.len = 768],
       [good EXCEPT !.proof.attests = <<"no proof">>],
       [good EXCEPT !.rootc = Tail(@)],
       [good EXCEPT !.publics_full = <<u64(1)>> \o @],
       [good EXCEPT !.publics_full = OtherVk \o commit_slice(committed)]}

Wrap ==
  /\ phase = "wrap"
  /\ snark' \in WrappedFiles
  /\ phase' = "parse"
  /\ UNCHANGED <<given, claims, streams, input, guestVars, out>>

ParseProofFile ==
  /\ phase = "parse"
  /\ IF parse_proof_file_ok(snark)
     THEN out' = parse_proof_file(snark) /\ phase' = "check"
     ELSE Fail("file error") /\ UNCHANGED out
  /\ UNCHANGED <<given, claims, streams, input, guestVars, snark>>

\* verify_aggregated_range_bound, run by the server before it submits.
CheckRange ==
  /\ phase = "check"
  /\ phase' = IF verify_snark_bound(out, ExpectedProgram) THEN "submit"
              ELSE "bound error"
  /\ UNCHANGED <<given, claims, streams, input, guestVars, snark, out>>

Settle ==
  /\ phase = "submit"
  /\ phase' = IF L1Accepts(out) THEN "accepted" ELSE "L1 rejects"
  /\ UNCHANGED <<given, claims, streams, input, guestVars, snark, out>>

Next ==
  \/ LoadProof \/ Assemble \/ FrameUnchecked
  \/ ReadCount \/ ReadProof \/ Finalize
  \/ Wrap \/ ParseProofFile \/ CheckRange \/ Settle

Spec == Init /\ [][Next]_vars
-----------------------------------------------------------------------------
(***************************************************************************)
(* Properties.                                                              *)
(***************************************************************************)
\* The guest pins no key: it verifies every proof under the keys the proof
\* carries, insists that all carry the same ones and commits them
\* (guest-aggregator/src/main.rs:40-63, lib.rs:345-389). Whatever proofs are
\* given, L1 therefore accepts a range only when every public input it holds
\* is the one that batch's execution committed, in that order.
RangeSound ==
  phase = "accepted" => \A b \in DOMAIN claims : claims[b] = "real"

Honest ==
  /\ streams # << >> \/ phase \in {"load", "load error", "assemble error"}
  /\ Len(given) = Len(claims)
  /\ \A b \in DOMAIN given :
       /\ claims[b] = "real"
       /\ given[b].batch = b
       /\ given[b].maker = "stf"
       /\ given[b].shape \in {"plain", "trailer"}
  /\ phase \notin {"load", "count", "proofs", "wrap"} /\ snark # << >>
       => snark = SnarkFile(AggregatorVk, TRUSTED_VADCOP_VK, commit_slice(committed))

\* Honest proofs of a range, with or without a seed trailer and for a range of
\* one batch as for a longer one, are never refused on the way and L1 accepts
\* what they lead to: the fold and the single shift of range_public_input
\* (lib.rs:297-325) and the wire layout (prover.rs:671-747) are L1's.
HonestRangeAccepted ==
  Honest => phase \in {"load", "count", "proofs", "wrap", "parse", "check",
                       "submit", "accepted"}

\* "assembler and guest can never disagree on layout" (lib.rs:12-13): on an
\* input the assembler wrote (aggregator_input.rs:54-73) the guest reads back
\* exactly the streams it was given and can only stop inside the proof
\* verification.
HostGuestAgree ==
  streams # << >> =>
  /\ phase \notin {"count panic", "parse panic"}
  /\ phase = "count" =>
       decode_frames(input) =
         Decoded(<<to_le_bytes(u64(Len(streams)))>> \o streams)
  /\ phase = "proofs" => left + Len(batch_public_inputs) = Len(streams)

\* A submitted proof settles exactly when the off-chain check passed
\* (zisk-verifier/src/lib.rs:208-228), the SNARK attests the submitted public
\* values and inspect_proof reads L1's digest out of them: the checks before
\* the pairing turn away nothing L1 would accept and leave nothing but the
\* pairing and the digest to L1.
WireChecksMatchL1 ==
  phase \in {"submit", "bound error", "accepted", "L1 rejects"} =>
    (L1Accepts(out) <=>
       /\ verify_snark_bound(out, ExpectedProgram)
       /\ out.proof.attests = public_signal(out.public_values)
       /\ inspect_commitment_ok(out.public_values)
       /\ inspect_commitment(out.public_values) = L1Digest)

\* The native verifier accepts a file only when the STF guest or another guest
\* really proved it under the release setup (stark.rs:46-66: never under the
\* key the stream carries), and accepts every honest file the loader accepts.
NativeVerifierExact ==
  phase = "load" =>
    \A i \in DOMAIN given :
      LET file == ProofFile(given[i])
      IN  verify_vadcop_final_proof_file(file, TRUSTED_VADCOP_VK) <=>
            /\ given[i].maker \in {"stf", "other guest"}
            /\ given[i].shape \in {"plain", "trailer"}

\* "These bytes are also exactly wire public-values bytes [32..64]"
\* (guest-aggregator/src/lib.rs:283, and lib.rs:63), said of the commitment of
\* a proof: of a proof that passes every check before L1, the wire bytes that
\* follow the program key are the digest the guest committed.
CommitmentIsWireBytes32To64 ==
  /\ phase = "submit"
  /\ snark.program_vk = AggregatorVk
  /\ snark.rootc = TRUSTED_VADCOP_VK
  /\ out.proof.attests = public_signal(out.public_values)
  => Slice(out.public_values, 2 * PROGRAM_VK_WORDS, COMMITMENT_WORDS) = committed
=============================================================================

----------------------------- MODULE WireFormat -----------------------------
(***************************************************************************)
(* The released schemas of BatchInput and their normalisation into the      *)
(* current one (lib/src/wire.rs, wire/v3.rs, wire/v5.rs, types.rs).         *)
(*                                                                         *)
(* A schema is the set of the fields that its version carries beside the    *)
(* ones all versions share.  The shared fields keep their names and values  *)
(* in every conversion and are the opaque field `rest`: blocks, proofs,     *)
(* the tree update and the state before the batch.  ct stands for the       *)
(* commitment_tree proofs inside interop_proofs: NONE or present.           *)
(***************************************************************************)
EXTENDS Integers

V3 == 3
V5 == 5
BATCH_INPUT_VERSION == 6
SUPPORTED_BATCH_INPUT_VERSIONS == {V3, V5, BATCH_INPUT_VERSION}

AtlasV1 == 0
AtlasV2 == 1
AtlasV3 == 2
AtlasV4 == 3
AtlasV5 == 4

FULL == 0        \* PUBDATA_CONTENT_FULL
NONE == "none"

\* Fields of BatchMeta (and of InteropSlotProofs) that a version carries.
SchemaFields(version) ==
    CASE version = V3 -> {}
      [] version = V5 -> {"pubdata_content", "ct"}
      [] version = BATCH_INPUT_VERSION ->
            {"pubdata_content", "ct", "l1_tx_filtering", "large_contracts"}

Defaults == [pubdata_content |-> FULL, ct |-> NONE,
             l1_tx_filtering |-> FALSE, large_contracts |-> FALSE]
LaterFields == DOMAIN Defaults

\* What every version has is copied: proofs, leaves, write operations, the tree
\* update.
Shared(b) == [f \in DOMAIN b \ LaterFields |-> b[f]]

\* The From implementations: a field the version lacks takes its default.
normalize(b) ==
    [f \in DOMAIN Shared(b) \cup LaterFields |->
        IF f \in DOMAIN Shared(b) THEN Shared(b)[f]
        ELSE IF f \in SchemaFields(b.version) THEN b[f] ELSE Defaults[f]]

\* decode_batch_input: dispatch on the leading version.  b holds every field;
\* the ones its version lacks are not on the wire and are not read.
decode_batch_input(b) ==
    IF b.version \in SUPPORTED_BATCH_INPUT_VERSIONS
    THEN [ok |-> TRUE, input |-> normalize(b)] ELSE [ok |-> FALSE]

\* What wire v3 cannot say.
ConversionError(b) ==
    \/ b.spec_id > AtlasV3            \* UnsupportedSpec
    \/ b.pubdata_content # FULL       \* UnsupportedPubdataContent
    \/ b.ct # NONE                    \* InteropCommitmentTree

\* TryFrom<types::BatchInput> for v3::BatchInput: the input as it is on wire
\* v3.  The two flags are neither checked nor carried.
to_v3(b) ==
    IF ConversionError(b)
    THEN [ok |-> FALSE]
    ELSE [ok |-> TRUE, input |-> normalize([b EXCEPT !.version = V3])]

zk_spec_id(byte) == byte \in AtlasV1..AtlasV5

\* The newest spec a released version may select.
newest_spec(version) ==
    CASE version = V3 -> AtlasV3
      [] version = V5 -> AtlasV4
      [] OTHER -> AtlasV5

ATLAS_V4_MIN_PROTOCOL_MINOR == 32
ATLAS_V5_MIN_PROTOCOL_MINOR == 34

minor_ok(spec, minor) ==
    CASE spec \in {AtlasV1, AtlasV2} -> minor <= 30
      [] spec = AtlasV3 -> minor \in {31, 32}
      [] spec = AtlasV4 -> /\ minor >= ATLAS_V4_MIN_PROTOCOL_MINOR
                           /\ minor < ATLAS_V5_MIN_PROTOCOL_MINOR
      [] spec = AtlasV5 -> minor >= ATLAS_V5_MIN_PROTOCOL_MINOR

\* mutant: the AtlasV5 flags are taken on every spec
resolve_spec_ok_flags(b) ==
    /\ b.version \in SUPPORTED_BATCH_INPUT_VERSIONS
    /\ b.spec_id <= newest_spec(b.version) /\ zk_spec_id(b.spec_id)
    /\ minor_ok(b.spec_id, b.minor)

\* The first half of resolve_spec_and_validate; the block sequence follows.
resolve_spec_ok(b) ==
    /\ b.version \in SUPPORTED_BATCH_INPUT_VERSIONS
    /\ b.spec_id <= newest_spec(b.version) /\ zk_spec_id(b.spec_id)
    /\ minor_ok(b.spec_id, b.minor)
    /\ b.spec_id >= AtlasV5 \/ ~(b.l1_tx_filtering \/ b.large_contracts)
=============================================================================

----------------------------- MODULE Commitment -----------------------------
(***************************************************************************)
(* The hashes a batch commits (lib/src/commitment.rs, block_header.rs and   *)
(* block_roots.rs): fixed-height Merkle roots, block headers, the state     *)
(* commitment, the batch output and the batch public input of each spec.    *)
(*                                                                         *)
(* A hash is injective: it is the tagged sequence of the words it is taken  *)
(* of.  Every value is a tuple that starts with a tag, a word of a number   *)
(* included, so any two of them can be compared.  Concatenation is that of  *)
(* the word sequences: two layouts of one hash are told apart only by what  *)
(* the bytes hold, never by a name.  RLP is one such concatenation.       *)
(***************************************************************************)
EXTENDS Integers, Sequences, SequencesExt

CONSTANTS L2_TO_L1_TREE_HEIGHT,   \* 14 in the code
          BLOCK_TX_TREE_DEPTH     \* 32 in the code

ASSUME TreeHeightAssumption ==
    /\ L2_TO_L1_TREE_HEIGHT \in Nat
    /\ BLOCK_TX_TREE_DEPTH \in Nat

ZERO == << >>                                  \* B256::ZERO
Word(n) == IF n = 0 THEN ZERO ELSE <<"word", n>>
Flag(b) == Word(IF b THEN 1 ELSE 0)
keccak256(words) == <<"keccak", words>>
blake2s(words) == <<"blake2s", words>>

\* keccak_compress, and blake2s_compress on node_hash.
compress(hash, l, r) == <<hash, <<l, r>>>>

(***************************************************************************)
(* Fixed-height trees.  hash is "keccak" or "blake2s".                       *)
(***************************************************************************)
empty_subtree_hashes(hash, leaf, height) ==
    LET entry[i \in 0..height] ==
            IF i = 0 THEN leaf ELSE compress(hash, entry[i - 1], entry[i - 1])
    IN  entry

\* merkle_root and fixed_height_keccak_root: `nodes` is overwritten in place,
\* so an entry past the level's count is a stale one of the level below.
\* mutant: the odd entry of a level takes the stale right neighbour
fixed_height_root_stale(hash, leaves, height, empty) ==
    LET e == empty_subtree_hashes(hash, empty, height)
        Fold(n, level) ==
            [n EXCEPT !.count = (n.count + 1) \div 2,
                      !.nodes = [i \in DOMAIN n.nodes |->
                          IF i > (n.count + 1) \div 2 THEN n.nodes[i]
                          ELSE compress(hash, n.nodes[2 * i - 1],
                                    IF 2 * i <= Len(n.nodes) THEN n.nodes[2 * i]
                                    ELSE e[level])]]
    IN  IF leaves = << >> THEN e[height]
        ELSE FoldLeft(Fold, [nodes |-> leaves, count |-> Len(leaves)],
                      [i \in 1..height |-> i - 1]).nodes[1]

fixed_height_root(hash, leaves, height, empty) ==
    LET e == empty_subtree_hashes(hash, empty, height)
        Fold(n, level) ==
            [n EXCEPT !.count = (n.count + 1) \div 2,
                      !.nodes = [i \in DOMAIN n.nodes |->
                          IF i > (n.count + 1) \div 2 THEN n.nodes[i]
                          ELSE compress(hash, n.nodes[2 * i - 1],
                                    IF 2 * i <= n.count THEN n.nodes[2 * i]
                                    ELSE e[level])]]
    IN  IF leaves = << >> THEN e[height]
        ELSE FoldLeft(Fold, [nodes |-> leaves, count |-> Len(leaves)],
                      [i \in 1..height |-> i - 1]).nodes[1]

\* The assertion both folds start with.
FitsTree(leaves, height) == Len(leaves) <= 2 ^ height

L2ToL1Log(log) == <<"log", log>>               \* L2ToL1LogEntry::encode
EmptyLog == <<"log", 0>>                       \* 88 zero bytes

l2_to_l1_logs_root(logs) ==
    fixed_height_root("keccak",
                      [i \in DOMAIN logs |-> keccak256(<<L2ToL1Log(logs[i])>>)],
                      L2_TO_L1_TREE_HEIGHT, keccak256(<<EmptyLog>>))

block_tx_tree_root(leaves) ==
    fixed_height_root("blake2s", leaves, BLOCK_TX_TREE_DEPTH, ZERO)

CHAIN_BATCH_ROOT_TREE_HEIGHT == 3

\* ChainBatchRootLayout: TwoPreimageKeccak before AtlasV4, then
\* HeightThreeMerkle.
chain_batch_root(layout, logs_root, multichain, begin, end) ==
    IF layout = "TwoPreimageKeccak" THEN compress("keccak", logs_root, multichain)
    ELSE fixed_height_root("keccak", <<logs_root, multichain, begin, end>>,
                           CHAIN_BATCH_ROOT_TREE_HEIGHT, ZERO)

(***************************************************************************)
(* Block headers.                                                           *)
(***************************************************************************)
KECCAK_EMPTY == keccak256(<< >>)

transactions_rolling_hash(hashes, seed) ==
    FoldLeft(LAMBDA rolling, h : compress("keccak", rolling, h), seed, hashes)

\* The type byte prefixes the RLP of every receipt that is not a legacy one.
receipt_leaf(type, success, cumulative, logs) ==
    blake2s((IF type = 0 THEN << >> ELSE <<Word(type)>>)
            \o <<Flag(success), Word(cumulative), ZERO, <<"logs", logs>>>>)

\* The RLP list without the fields that are constant here: the ones the code
\* fixes, and the block's beneficiary, randao and base fee.
compute_block_header_hash(parent, block, tx_root, receipts_root, gas_used) ==
    keccak256(<<parent, tx_root, receipts_root, Word(block.number),
                Word(block.gas_limit), Word(gas_used), Word(block.timestamp)>>)

(***************************************************************************)
(* The state commitment and the batch output.                               *)
(***************************************************************************)
block_hashes_blake(previous, current) == blake2s(Append(previous, current))

state_commitment_hash(tree_root, leaf_count, number, hashes_blake, timestamp) ==
    blake2s(<<tree_root, Word(leaf_count), Word(number), hashes_blake,
              Word(timestamp)>>)

priority_ops_rolling_hash(hashes) ==
    FoldLeft(LAMBDA rolling, h : compress("keccak", rolling, h), KECCAK_EMPTY, hashes)

PUBDATA_CONTENT_FULL == 0
PUBDATA_CONTENT_LOGS_ONLY == 1
PUBDATA_ENCODING_VERSION == 3

\* One section per block: the envelope header, the log count, the records.
logs_only_pubdata(logs_by_block) ==
    FlattenSeq([b \in DOMAIN logs_by_block |->
        <<Word(PUBDATA_ENCODING_VERSION), Word(PUBDATA_CONTENT_LOGS_ONLY),
          Word(Len(logs_by_block[b]))>>
        \o [i \in DOMAIN logs_by_block[b] |-> L2ToL1Log(logs_by_block[b][i])]])

da_commitment_calldata(pubdata) ==
    keccak256(<<ZERO, keccak256(pubdata), Word(1), ZERO>>)

da_commitment_blobs(versioned_hashes) == keccak256(versioned_hashes)

\* The layout is "V30", "V31" or "AtlasV4"; f holds the fields.
batch_output_hash_native(layout, f) ==
    LET tail == layout # "V30"
    IN  keccak256((IF layout # "AtlasV4" THEN <<Word(f.chain_id)>> ELSE << >>)
                  \o <<Word(f.first_ts), Word(f.last_ts),
                       Word(f.da_scheme), f.da_commitment, Word(f.n_l1)>>
                  \o (IF tail THEN <<Word(f.n_l2)>> ELSE << >>)
                  \o <<f.priority_ops, f.logs_root, f.upgrade_tx_hash, f.interop_roots>>
                  \o (IF tail THEN <<Word(f.sl_chain_id)>> ELSE << >>))

\* ChainConfigLayout "AtlasV4" cuts the two AtlasV5 flags off.
chain_config_hash(layout, c) ==
    keccak256(<<Word(c.chain_id), Flag(c.fri), Word(c.max_tx_gas_limit),
                Word(c.pubdata_content)>>
              \o (IF layout = "AtlasV5"
                  THEN <<Flag(c.l1_tx_filtering), Flag(c.large_contracts)>>
                  ELSE << >>))

\* config is << >> for None or <<hash>>.
batch_public_input_hash(before, after, config, output) ==
    keccak256(<<before, after>> \o config \o <<output>>)

(***************************************************************************)
(* Reference: the root of the tree of 2^height leaves, written top down     *)
(* over the list padded with empty leaves.                                  *)
(***************************************************************************)
PaddedRoot(hash, leaves, height, empty) ==
    LET Leaf(i) == IF i <= Len(leaves) THEN leaves[i] ELSE empty
        row[h \in 0..height] ==
            [i \in 1..(2 ^ (height - h)) |->
                IF h = 0 THEN Leaf(i)
                ELSE compress(hash, row[h - 1][2 * i - 1], row[h - 1][2 * i])]
    IN  row[height][1]
=============================================================================

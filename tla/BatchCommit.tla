---------------------------- MODULE BatchCommit ----------------------------
(***************************************************************************)
(* A batch through the guest (lib/src/executor/mod.rs and evm.rs): decode   *)
(* the wire input, admit it, execute its blocks, and commit the result for  *)
(* the settlement layer.                                                    *)
(*                                                                         *)
(* The operator chooses every part of the input, each when the guest first  *)
(* reads it.  What was authenticated elsewhere is taken as given: storage   *)
(* reads (WitnessStream), the tree root after the batch (LinkedTree,        *)
(* AccountWrites) and the block-hash ring (BlockHashRing), here the list    *)
(* of all header hashes.  REVM is external: a transaction does what its     *)
(* encoding says.                                                           *)
(***************************************************************************)
EXTENDS WireFormat, Transactions, Interop

CONSTANTS DEFAULT_MAX_TX_GAS_LIMIT,  \* 2^24 in the code
          ERGS_PER_GAS,              \* 256 in the code
          Encodings,                 \* the transactions that exist
          Caps, Contents, Minors,    \* values of chain-config fields
          DaSchemes,                 \* values of da_commitment_scheme
          BlockGas, Timestamps,      \* values of block fields
          MaxBlocks, MaxTxs          \* bounds: blocks, transactions of a batch

ASSUME BatchAssumption ==
    /\ DEFAULT_MAX_TX_GAS_LIMIT \in Nat /\ ERGS_PER_GAS \in Nat \ {0}
    /\ Caps \subseteq Nat /\ BlockGas \subseteq Nat /\ Timestamps \subseteq Nat
    /\ MaxBlocks \in Nat /\ MaxTxs \in Nat
    /\ MaxU64 >= 8               \* the settlement-layer ids below fit a u64

\* What the decoders guarantee: the id stands for the bytes, so it determines
\* the rest; gas is a u64; an EIP-2718 envelope has none of the protocol's
\* types; only the calldata of an import holds roots.
ASSUME EncodingsAssumption ==
    /\ IsFiniteSet(Encodings)
    /\ \A e \in Encodings :
          /\ e.kind \in {"abi", "envelope", "system"}
          /\ e.gas \in 0..MaxU64
          /\ e.kind = "envelope" =>
                e.type \notin {L1_TX_TYPE, UPGRADE_TX_TYPE, SYSTEM_TX_TYPE}
          /\ e.roots \in Seq([chain_id : Nat, number : Nat, ts : Nat,
                              sides : Seq(STRING \X Nat)])
          /\ e.roots # << >> =>
                e.sel \in {selector("WithTimestamp"), selector("WithoutTimestamp")}
    /\ \A e, f \in Encodings : (e.kind = f.kind /\ e.id = f.id) => e = f

MAX_BLOCK_GAS_LIMIT == MaxU64 \div ERGS_PER_GAS
MAX_TX_GAS_LIMIT == MAX_BLOCK_GAS_LIMIT
CHAIN == 1                       \* the chain id, the same for every input

VARIABLES
    pc,       \* "wire", "admit", "exec", "commit", "done" or "rejected"
    input,    \* the normalised header: version, spec_id, chain config
    blocks,   \* the headers of the blocks
    txs,      \* the transactions executed so far, per block
    tree,     \* the state as the batch's cache sees it
    headers,  \* computed_block_hashes of the batch
    honest,   \* every choice so far is one the server makes (history)
    meta,     \* what the commitment used of BatchMeta (history)
    out       \* the batch public input

vars == <<pc, input, blocks, txs, tree, headers, honest, meta, out>>

(***************************************************************************)
(* The chain before the batch: block 0 at time 1, a commitment tree of one  *)
(* level.                                                                   *)
(***************************************************************************)
Tree0 == [s \in Slots |->
            CASE s = SlChainSlot -> 5
              [] s = NodesSlot("InteropCommitmentTree", 0) -> 6
              [] OTHER -> 0]
Header0 == keccak256(<<ZERO>>)
Number0 == 0
Timestamp0 == 1

Init ==
    /\ pc = "wire"
    /\ input = << >> /\ blocks = << >> /\ txs = << >> /\ headers = << >>
    /\ tree = Tree0
    /\ honest = TRUE
    /\ meta = << >> /\ out = << >>

\* A panic: the guest stops and leaves nothing behind.
Reject(h) ==
    /\ pc' = "rejected" /\ honest' = h
    /\ input' = << >> /\ blocks' = << >> /\ txs' = << >> /\ headers' = << >>
    /\ tree' = Tree0 /\ meta' = << >> /\ out' = << >>

(***************************************************************************)
(* Decode and admit.                                                        *)
(***************************************************************************)
\* Bound: the commitment-tree proofs and the pubdata mode vary only where a
\* spec reads them.
Inputs ==
    {b \in [version : 3..6, spec_id : 0..5, minor : Minors,
            max_tx_gas_limit : Caps, pubdata_content : Contents,
            ct : {NONE, "present"},
            l1_tx_filtering : BOOLEAN, large_contracts : BOOLEAN] :
        b.spec_id < AtlasV4 => b.ct = NONE /\ b.pubdata_content \in {0, 1}}

\* What the server sends for a batch of a spec.
HonestMinors(spec) ==
    CASE spec \in {AtlasV1, AtlasV2} -> {30}
      [] spec = AtlasV3 -> {31, 32}
      [] spec = AtlasV4 -> {32, 33}
      [] spec = AtlasV5 -> {34}
HonestInput(b) ==
    /\ b.version \in {3, 5, 6} /\ b.spec_id \in AtlasV1..AtlasV5
    /\ b.version = 3 => b.spec_id <= AtlasV3
    /\ b.version = 5 => b.spec_id <= AtlasV4
    /\ b.minor \in HonestMinors(b.spec_id)
    /\ b.spec_id < AtlasV5 => ~b.l1_tx_filtering /\ ~b.large_contracts
    /\ b.spec_id >= AtlasV4 =>
          b.max_tx_gas_limit >= DEFAULT_MAX_TX_GAS_LIMIT /\ b.pubdata_content \in {0, 1}
    /\ b.spec_id >= AtlasV4 <=> b.ct # NONE

\* The sender may downgrade the input to wire v3, where that is possible; then
\* decode_batch_input and the header half of resolve_spec_and_validate.
DecodeInput ==
    /\ pc = "wire"
    /\ \E b \in Inputs, downgrade \in BOOLEAN :
        LET w == IF downgrade THEN to_v3(b) ELSE [ok |-> TRUE, input |-> b]
            d == decode_batch_input(w.input)
        IN  /\ w.ok
            /\ IF d.ok /\ resolve_spec_ok(d.input)
               THEN /\ pc' = "admit"
                    /\ input' = [d.input EXCEPT !.version = 0, !.minor = 0]
                    /\ honest' = HonestInput(b)
                    /\ UNCHANGED <<blocks, txs, tree, headers, meta, out>>
               ELSE Reject(HonestInput(b))

spec == input.spec_id
IsAtlasV4 == spec >= AtlasV4

validate_atlas_v4_block_invariants(bs) ==
    IsAtlasV4 =>
        /\ input.max_tx_gas_limit >= DEFAULT_MAX_TX_GAS_LIMIT
        /\ input.pubdata_content \in {PUBDATA_CONTENT_FULL, PUBDATA_CONTENT_LOGS_ONLY}
        /\ \A i \in DOMAIN bs :
              /\ bs[i].number >= 1
              /\ bs[i].gas_limit <= MAX_BLOCK_GAS_LIMIT
              /\ Minimum(bs[i].gas_limit, input.max_tx_gas_limit) <= MAX_TX_GAS_LIMIT

validate_block_sequence(bs) ==
    /\ bs # << >>
    /\ validate_atlas_v4_block_invariants(bs)
    /\ bs[1].number = Number0 + 1 /\ bs[1].timestamp >= Timestamp0
    /\ \A i \in 1..(Len(bs) - 1) :
          /\ bs[i + 1].number = bs[i].number + 1
          /\ bs[i + 1].timestamp >= bs[i].timestamp

\* Bound: the blocks of a batch have one gas limit.
BlockSeqs ==
    UNION {UNION {[1..n -> [number : 0..(MaxBlocks + 1), timestamp : Timestamps,
                            gas_limit : {g}]] : g \in BlockGas} : n \in 0..MaxBlocks}

HonestBlocks(bs) ==
    /\ Len(bs) >= 1
    /\ \A i \in DOMAIN bs :
          /\ bs[i].number = Number0 + i
          /\ bs[i].timestamp >= IF i = 1 THEN Timestamp0 ELSE bs[i - 1].timestamp
          /\ IsAtlasV4 => bs[i].gas_limit <= MAX_BLOCK_GAS_LIMIT

AdmitBlocks ==
    /\ pc = "admit"
    /\ \E bs \in BlockSeqs :
        IF validate_block_sequence(bs)
        THEN /\ pc' = "exec" /\ blocks' = bs /\ txs' = <<<< >>>>
             /\ honest' = (honest /\ HonestBlocks(bs))
             /\ UNCHANGED <<input, tree, headers, meta, out>>
        ELSE Reject(honest /\ HonestBlocks(bs))

(***************************************************************************)
(* Execute.                                                                 *)
(***************************************************************************)
Block == blocks[Len(txs)]
FlatTxs == FlattenSeq(txs)

\* The elements of list at the positions in S, in order.
Picked(list, S) ==
    LET upto[i \in 0..Len(list)] ==
            IF i = 0 THEN << >>
            ELSE IF i \in S THEN Append(upto[i - 1], list[i]) ELSE upto[i - 1]
    IN  upto[Len(list)]
Labelled(auths) == Picked(FlatTxs, {i \in DOMAIN FlatTxs : FlatTxs[i].auth \in auths})

\* An effect is external: what REVM does with the encoding.
Does(tx) == tx.enc.does
Grown(t, address) ==
    LET h == t[HeightSlot(address)] + 1
    IN  [t EXCEPT ![HeightSlot(address)] = h,
                  ![NodesSlot(address, h)] = 10 + h]
Applied(t, tx) ==
    CASE Does(tx) = "grow" -> Grown(t, "InteropCommitmentTree")
      [] Does(tx) = "settle" -> Grown(t, "MessageRoot")
      [] Does(tx) = "set_sl" -> [t EXCEPT ![SlChainSlot] = 8]
      [] OTHER -> t

\* mutant: the EIP-7825 cap also reaches the older specs
MaxTxGasLimit_always == <<input.max_tx_gas_limit>>

MaxTxGasLimit == IF IsAtlasV4 THEN <<input.max_tx_gas_limit>> ELSE << >>

\* evm.transact: no blob type in the older EVMs, and gas_used_override stays
\* within the gas limit the transaction runs under.
Transacts(built, tx) == built.type # BLOB_TX_TYPE /\ tx.gas_used <= built.gas_limit

import_abi == IF IsAtlasV4 THEN "WithTimestamp" ELSE "WithoutTimestamp"

HonestTx(tx) ==
    /\ CASE tx.enc.kind = "abi" ->
              /\ tx.tx_hash = Hash(tx.enc) /\ tx.enc.type \in {L1_TX_TYPE, UPGRADE_TX_TYPE}
              /\ tx.auth = IF tx.enc.type = UPGRADE_TX_TYPE THEN "Upgrade" ELSE "L1"
              /\ tx.gas_used <= tx.enc.gas
         [] tx.enc.kind = "envelope" ->
              /\ tx.auth = "L2" /\ tx.enc.signed /\ tx.enc.type # BLOB_TX_TYPE
              /\ tx.enc.gas <= Block.gas_limit
              /\ IsAtlasV4 => tx.enc.gas <= input.max_tx_gas_limit
              /\ tx.gas_used <= tx.enc.gas
         [] tx.enc.kind = "system" ->
              /\ tx.auth = "System" /\ tx.tx_hash = Hash(tx.enc)
              /\ tx.enc.type = SYSTEM_TX_TYPE /\ tx.gas_used <= Block.gas_limit
              /\ interop_selector_ok(tx, import_abi)
    /\ tx.auth = "Upgrade" =>
          \A i \in DOMAIN FlatTxs : FlatTxs[i].auth # "Upgrade"

\* An operator's transaction: an existing encoding under any label, the claimed
\* hash its own or another's.
TxInputs ==
    {[auth |-> a, tx_hash |-> Hash(h), enc |-> e, gas_used |-> e.gas] :
        a \in {"L1", "Upgrade", "L2", "System"}, h \in Encodings, e \in Encodings}

Plausible(tx) ==     \* bound: one forged hash per encoding is enough
    /\ tx.enc.kind = "envelope" <=> tx.auth = "L2"
    /\ tx.enc.kind = "system" <=> tx.auth = "System"
    /\ tx.tx_hash # Hash(tx.enc) =>
          tx.auth # "L2" /\ tx.tx_hash = Hash(CHOOSE e \in Encodings : e # tx.enc)

\* One turn of run_evm_block's loop.
ExecuteTx ==
    /\ pc = "exec" /\ Len(FlatTxs) < MaxTxs
    /\ \E tx \in TxInputs :
        LET built == build_proven_tx(tx, Block.gas_limit, MaxTxGasLimit)
            ok == /\ built.ok /\ ~(IsAtlasV4 /\ built.type = BLOB_TX_TYPE)
                  /\ Transacts(built, tx)
            h == honest /\ HonestTx(tx)
        IN  /\ Plausible(tx)
            /\ IF ok
               THEN /\ txs' = [txs EXCEPT ![Len(txs)] = Append(@, tx)]
                    /\ tree' = Applied(tree, tx)
                    /\ honest' = h
                    /\ UNCHANGED <<pc, input, blocks, headers, meta, out>>
               ELSE Reject(h)

TxHashOf(tx) == IF tx.auth = "L2" THEN Hash(tx.enc) ELSE tx.tx_hash
TypeOf(tx) == IF tx.auth = "System" THEN SYSTEM_TX_TYPE ELSE tx.enc.type
LogsOf(list) ==
    LET logging == Picked(list, {i \in DOMAIN list : Does(list[i]) = "log"})
    IN  [i \in DOMAIN logging |-> logging[i].enc.id]
GasUpTo(list, i) == FoldLeft(LAMBDA g, t : g + t.gas_used, 0, SubSeq(list, 1, i))

receipt_leaves(list) ==
    [i \in DOMAIN list |->
        receipt_leaf(TypeOf(list[i]), TRUE, GasUpTo(list, i), << >>)]

\* The roots of the header and its hash, in execute_block_proven.
computed_header_hash(list) ==
    LET hashes == [i \in DOMAIN list |-> TxHashOf(list[i])]
        seed == IF spec >= AtlasV3 THEN KECCAK_EMPTY ELSE ZERO
        parent == IF headers = << >> THEN Header0 ELSE Last(headers)
    IN  compute_block_header_hash(
            parent, Block,
            IF IsAtlasV4 THEN block_tx_tree_root(hashes)
            ELSE transactions_rolling_hash(hashes, seed),
            IF IsAtlasV4 THEN block_tx_tree_root(receipt_leaves(list)) ELSE ZERO,
            GasUpTo(list, Len(list)))

\* The end of execute_block_proven: the sealed hash is mandatory at AtlasV4.
SealBlock ==
    /\ pc = "exec"
    /\ \E sealed \in {"zero", "right", "wrong"} :
        LET list == Last(txs)
            ok == /\ IsAtlasV4 => sealed # "zero"
                  /\ sealed # "wrong"
                  /\ IsAtlasV4 => FitsTree(list, BLOCK_TX_TREE_DEPTH)
            h == /\ honest /\ (sealed = "right" \/ (sealed = "zero" /\ ~IsAtlasV4))
                 /\ Len(list) <= 2 ^ BLOCK_TX_TREE_DEPTH
        IN  IF ~ok THEN Reject(h)
            ELSE /\ headers' = Append(headers, computed_header_hash(list))
                 /\ honest' = h
                 /\ IF Len(txs) < Len(blocks)
                    THEN txs' = Append(txs, << >>) /\ UNCHANGED pc
                    ELSE pc' = "commit" /\ UNCHANGED txs
                 /\ UNCHANGED <<input, blocks, tree, meta, out>>

(***************************************************************************)
(* Commit: the second half of run_execution_and_commit.                     *)
(***************************************************************************)
AbiHashes == {Hash(e) : e \in {x \in Encodings : x.kind = "abi"}}

\* Every source for each interop proof; slot is the tree whose height picks
\* the root slot proved for the end of the batch.
ProofsFrom(sl, mr, begin, end, slot) ==
    LET At(t, k) == Proof(t, NodesSlot("InteropCommitmentTree",
                                       k[HeightSlot("InteropCommitmentTree")]))
        H(t) == Proof(t, HeightSlot("InteropCommitmentTree"))
    IN  [sl |-> Proof(sl, SlChainSlot),
         mr_height |-> Proof(mr, HeightSlot("MessageRoot")),
         mr_root |-> Proof(mr, NodesSlot("MessageRoot", mr[HeightSlot("MessageRoot")])),
         ct |-> IF input.ct = NONE THEN << >>
                ELSE <<H(begin), At(begin, begin), H(end), At(end, slot)>>]

HonestProofs(post) == ProofsFrom(post, post, Tree0, post, post)
InteropProofs(post) ==
    LET S == {Tree0, post}
    IN  {<< >>} \cup {<<ProofsFrom(a, a, c, d, e)>> : a \in S, c \in S, d \in S, e \in S}

\* The counting loop over the batch's transactions and the checks after it.
\* mutant: the committed hash needs no upgrade transaction
upgrade_ok_one_way(hash) ==
    LET ups == Labelled({"Upgrade"})
    IN  /\ \A i \in DOMAIN ups : ups[i].tx_hash = hash
        /\ Len(ups) <= 1

upgrade_ok(hash) ==
    LET ups == Labelled({"Upgrade"})
    IN  /\ \A i \in DOMAIN ups : ups[i].tx_hash = hash
        /\ Len(ups) <= 1
        /\ (Len(ups) = 1) <=> (hash # ZERO)

L1TxHashes ==
    LET l1 == Labelled({"L1"})
    IN  [i \in DOMAIN l1 |-> l1[i].tx_hash]
NumL2 == Len(Labelled({"L2", "System"}))
SystemTxs == Labelled({"System"})
InteropRollingHash ==
    FoldLeft(LAMBDA r, t : fold_system_tx_interop_roots(t, import_abi, r), ZERO, SystemTxs)

LogsByBlock == [b \in DOMAIN txs |-> LogsOf(txs[b])]
AllLogs == FlattenSeq(LogsByBlock)

\* p is << >> or <<proofs>>; the derivation is skipped before AtlasV3.
interop_ok(p, post) ==
    spec >= AtlasV3 =>
        /\ p # << >>
        /\ derive_multichain_root_ok(p[1], TreeRoot(post))
        /\ derive_sl_chain_id_ok(p[1].sl, TreeRoot(post), MaxU64)
        /\ IsAtlasV4 => /\ p[1].ct # << >>
                        /\ derive_interop_commitment_tree_roots_ok(
                               p[1].ct, TreeRoot(Tree0), TreeRoot(post))

chain_batch_root_of(p) ==
    LET mr == IF spec >= AtlasV3 THEN Word(Value(p[1].mr_root)) ELSE ZERO
        ct(i) == IF IsAtlasV4 THEN Word(Value(p[1].ct[i])) ELSE ZERO
    IN  chain_batch_root(IF IsAtlasV4 THEN "HeightThreeMerkle" ELSE "TwoPreimageKeccak",
                         l2_to_l1_logs_root(AllLogs), mr, ct(2), ct(4))

da_commitment(scheme, pubdata) ==
    LET committed == IF IsAtlasV4 /\ input.pubdata_content = PUBDATA_CONTENT_LOGS_ONLY
                     THEN logs_only_pubdata(LogsByBlock) ELSE pubdata
    IN  CASE scheme \in {0, 1} -> ZERO
          [] scheme \in {2, 3} -> da_commitment_calldata(committed)
          [] scheme = 4 -> da_commitment_blobs(<<<<"blob", 0>>>>)

batch_output_layout ==
    CASE spec \in {AtlasV1, AtlasV2} -> "V30"
      [] spec = AtlasV3 -> "V31"
      [] OTHER -> "AtlasV4"

ChainConfigOf ==
    [chain_id |-> CHAIN, fri |-> FALSE, max_tx_gas_limit |-> input.max_tx_gas_limit,
     pubdata_content |-> input.pubdata_content,
     l1_tx_filtering |-> input.l1_tx_filtering,
     large_contracts |-> input.large_contracts]
chain_config ==
    CASE spec < AtlasV4 -> << >>
      [] spec = AtlasV4 -> <<chain_config_hash("AtlasV4", ChainConfigOf)>>
      [] spec = AtlasV5 -> <<chain_config_hash("AtlasV5", ChainConfigOf)>>

state_before ==
    state_commitment_hash(TreeRoot(Tree0), LeafCount(Tree0), Number0,
                          block_hashes_blake(<< >>, Header0), Timestamp0)
state_after(post) ==
    state_commitment_hash(TreeRoot(post), LeafCount(post), Last(blocks).number,
                          block_hashes_blake(<<Header0>> \o Front(headers), Last(headers)),
                          Last(blocks).timestamp)

batch_hash(m, p) ==
    batch_output_hash_native(batch_output_layout,
        [chain_id |-> CHAIN, first_ts |-> blocks[1].timestamp,
         last_ts |-> Last(blocks).timestamp,
         da_scheme |-> m.da_scheme, da_commitment |-> da_commitment(m.da_scheme, m.pubdata),
         n_l1 |-> Len(L1TxHashes), n_l2 |-> NumL2,
         priority_ops |-> priority_ops_rolling_hash(L1TxHashes),
         logs_root |-> chain_batch_root_of(p),
         upgrade_tx_hash |-> m.upgrade_tx_hash,
         interop_roots |-> InteropRollingHash,
         sl_chain_id |-> IF spec >= AtlasV3 THEN Value(p[1].sl) ELSE m.sl_chain_id])

\* forced: the tree update also force-deploys an account no transaction
\* deployed, which build_revm_write_map takes only under an upgrade hash.
Metas == [upgrade_tx_hash : AbiHashes \cup {ZERO}, da_scheme : DaSchemes,
          pubdata : {<<<<"pubdata", 0>>>>}, sl_chain_id : {7}, forced : BOOLEAN]

HonestMeta(m) ==
    /\ LET ups == Labelled({"Upgrade"})
       IN  m.upgrade_tx_hash = IF ups = << >> THEN ZERO ELSE ups[1].tx_hash
    /\ m.forced => m.upgrade_tx_hash # ZERO
    /\ m.da_scheme \in 0..4
    /\ Len(AllLogs) <= 2 ^ L2_TO_L1_TREE_HEIGHT
HonestProof(p, post) == spec >= AtlasV3 => p = <<HonestProofs(post)>>

Commit ==
    /\ pc = "commit"
    /\ \E m \in Metas :
        LET post == [tree EXCEPT ![ForcedSlot] = IF m.forced THEN 1 ELSE 0]
            ok == /\ m.forced => m.upgrade_tx_hash # ZERO
                  /\ upgrade_ok(m.upgrade_tx_hash)
                  /\ \A i \in DOMAIN SystemTxs :
                        interop_selector_ok(SystemTxs[i], import_abi)
                  /\ FitsTree(AllLogs, L2_TO_L1_TREE_HEIGHT)
                  /\ m.da_scheme \in 0..4
        IN  IF ~ok THEN Reject(honest /\ HonestMeta(m))
            ELSE \E p \in InteropProofs(post) :
                LET h == honest /\ HonestMeta(m) /\ HonestProof(p, post)
                IN  IF ~interop_ok(p, post) THEN Reject(h)
                    ELSE /\ pc' = "done" /\ honest' = h
                         /\ tree' = post /\ meta' = m
                         /\ out' = batch_public_input_hash(state_before, state_after(post),
                                                           chain_config, batch_hash(m, p))
                         /\ UNCHANGED <<input, blocks, txs, headers>>

Next == DecodeInput \/ AdmitBlocks \/ ExecuteTx \/ SealBlock \/ Commit

Spec == Init /\ [][Next]_vars

(***************************************************************************)
(* The settlement layer, external: it recomputes the public input of its    *)
(* protocol version from what it stores and what the batch declares, so it  *)
(* accepts a value that its own layout can open with the fields it knows.   *)
(***************************************************************************)
L1Fields(s) ==
    CASE s <= AtlasV2 ->
            <<"chain_id", "first_ts", "last_ts", "da_scheme", "da_commitment", "n_l1",
              "priority_ops", "logs_root", "upgrade_tx_hash", "interop_roots">>
      [] s = AtlasV3 ->
            <<"chain_id", "first_ts", "last_ts", "da_scheme", "da_commitment", "n_l1",
              "n_l2", "priority_ops", "logs_root", "upgrade_tx_hash", "interop_roots",
              "sl_chain_id">>
      [] OTHER ->
            <<"first_ts", "last_ts", "da_scheme", "da_commitment", "n_l1", "n_l2",
              "priority_ops", "logs_root", "upgrade_tx_hash", "interop_roots",
              "sl_chain_id">>

Words(hash) == hash[2]
L1Shape(s, o) ==
    /\ Len(Words(o)) = IF s >= AtlasV4 THEN 4 ELSE 3
    /\ Len(Words(Last(Words(o)))) = Len(L1Fields(s))
L1Field(s, o, name) ==
    Words(Last(Words(o)))[CHOOSE i \in DOMAIN L1Fields(s) : L1Fields(s)[i] = name]

L1Configs(s) ==
    {c \in [chain_id : {CHAIN}, fri : {FALSE}, max_tx_gas_limit : Caps,
            pubdata_content : {0, 1}, l1_tx_filtering : BOOLEAN,
            large_contracts : BOOLEAN] :
        s < AtlasV5 => ~c.l1_tx_filtering /\ ~c.large_contracts}
L1ConfigHash(s, c) ==
    LET four == <<Word(c.chain_id), Flag(c.fri), Word(c.max_tx_gas_limit),
                  Word(c.pubdata_content)>>
    IN  keccak256(IF s = AtlasV4 THEN four
                  ELSE four \o <<Flag(c.l1_tx_filtering), Flag(c.large_contracts)>>)

\* The priority queue, and the upgrades that can be pending.
PriorityQueue ==
    [i \in DOMAIN SetToSeq({e \in Encodings : e.kind = "abi" /\ e.type = L1_TX_TYPE}) |->
        Hash(SetToSeq({e \in Encodings : e.kind = "abi" /\ e.type = L1_TX_TYPE})[i])]
L1Upgrades ==
    {ZERO} \cup {Hash(e) : e \in {x \in Encodings : x.kind = "abi" /\ x.type = UPGRADE_TX_TYPE}}

L1Accepts(s, c, upgrade, o) ==
    /\ L1Shape(s, o)
    /\ Words(o)[1] = state_before
    /\ IF s >= AtlasV4 THEN Words(o)[3] = L1ConfigHash(s, c)
       ELSE L1Field(s, o, "chain_id") = Word(CHAIN)
    /\ L1Field(s, o, "upgrade_tx_hash") = upgrade
    /\ \E n \in 0..Len(PriorityQueue) :
          /\ L1Field(s, o, "n_l1") = Word(n)
          /\ L1Field(s, o, "priority_ops")
                = priority_ops_rolling_hash(SubSeq(PriorityQueue, 1, n))

\* A property holds of a batch whenever a settlement layer at spec s, with
\* chain config c and a pending upgrade (or none), accepts it.
WhenAccepted(P(_, _, _)) ==
    pc = "done" =>
        \A s \in AtlasV1..AtlasV5 : L1Shape(s, out) =>
            \A c \in L1Configs(s), u \in L1Upgrades :
                L1Accepts(s, c, u, out) => P(s, c, u)

(***************************************************************************)
(* Properties.                                                              *)
(***************************************************************************)
\* mod.rs:106-154: an accepted batch ran under the spec of the settlement
\* layer's protocol version (AtlasV1 and AtlasV2 commit alike), and every
\* chain-config value that execution reads is the one L1 holds, so no L2
\* transaction ran above the cap of the chain.
SpecPinned ==
    WhenAccepted(LAMBDA s, c, u :
        /\ spec = s \/ {spec, s} = {AtlasV1, AtlasV2}
        /\ input.large_contracts = c.large_contracts
        /\ input.l1_tx_filtering = c.l1_tx_filtering
        /\ IsAtlasV4 => /\ input.max_tx_gas_limit = c.max_tx_gas_limit
                        /\ input.pubdata_content = c.pubdata_content
                        /\ \A i \in DOMAIN FlatTxs :
                              FlatTxs[i].enc.kind = "envelope" =>
                                  FlatTxs[i].enc.gas <= c.max_tx_gas_limit)

\* mod.rs:338-348: an accepted batch ran the pending upgrade exactly once and
\* no other upgrade, and force-deployed nothing unless it ran one, whatever
\* labels and hashes the operator put on the transactions.
UpgradeFromL1 ==
    WhenAccepted(LAMBDA s, c, u :
        LET ran == {i \in DOMAIN FlatTxs : FlatTxs[i].enc.type = UPGRADE_TX_TYPE}
        IN  IF u = ZERO THEN ran = {} /\ ~meta.forced
            ELSE \E i \in DOMAIN FlatTxs :
                    ran = {i} /\ Hash(FlatTxs[i].enc) = u)

\* What ran, from the executed transactions alone.
RanType(type) ==
    Picked(FlatTxs, {i \in DOMAIN FlatTxs : FlatTxs[i].enc.type = type})
ImportedRoots ==
    FlattenSeq([i \in DOMAIN RanType(SYSTEM_TX_TYPE) |-> RanType(SYSTEM_TX_TYPE)[i].enc.roots])
RanHeaders ==
    LET Hashes(b) == [i \in DOMAIN txs[b] |-> Hash(txs[b][i].enc)]
        Receipts(b) ==
            [i \in DOMAIN txs[b] |->
                receipt_leaf(txs[b][i].enc.type, TRUE,
                             FoldLeft(LAMBDA g, t : g + t.gas_used, 0, SubSeq(txs[b], 1, i)),
                             << >>)]
        Gas(b) == FoldLeft(LAMBDA g, t : g + t.gas_used, 0, txs[b])
        Padded(l) == PaddedRoot("blake2s", l, BLOCK_TX_TREE_DEPTH, ZERO)
        header[b \in 0..Len(txs)] ==
            IF b = 0 THEN Header0
            ELSE compute_block_header_hash(
                    header[b - 1], blocks[b],
                    IF IsAtlasV4 THEN Padded(Hashes(b))
                    ELSE transactions_rolling_hash(
                            Hashes(b), IF spec = AtlasV3 THEN KECCAK_EMPTY ELSE ZERO),
                    IF IsAtlasV4 THEN Padded(Receipts(b)) ELSE ZERO, Gas(b))
    IN  [b \in 1..(Len(txs) + 1) |-> header[b - 1]]

\* mod.rs:413-507, evm.rs:101-139: what an accepted batch declares is what
\* ran: the counts, the priority operations in queue order, the imported
\* interop roots, the time span, the DA commitment of a logs-only chain, and
\* a state whose block headers hold padded-tree roots over the very
\* transactions and receipts executed.
CommitsWhatRan ==
    WhenAccepted(LAMBDA s, c, u :
        LET ops == RanType(L1_TX_TYPE)
        IN  /\ L1Field(s, out, "n_l1") = Word(Len(ops))
            /\ \A i \in DOMAIN ops : PriorityQueue[i] = Hash(ops[i].enc)
            /\ s >= AtlasV3 =>
                  /\ L1Field(s, out, "n_l2")
                        = Word(Len(FlatTxs) - Len(ops) - Len(RanType(UPGRADE_TX_TYPE)))
                  /\ L1Field(s, out, "sl_chain_id") = Word(tree[SlChainSlot])
            /\ L1Field(s, out, "first_ts") = Word(blocks[1].timestamp)
            /\ L1Field(s, out, "last_ts") = Word(Last(blocks).timestamp)
            /\ L1Field(s, out, "interop_roots")
                  = FoldLeft(LAMBDA r, root :
                                keccak256(IF s >= AtlasV4
                                    THEN <<r, Word(root.chain_id), Word(root.number),
                                           Word(root.ts)>> \o root.sides
                                    ELSE <<r, Word(root.chain_id), Word(root.number)>>
                                         \o root.sides),
                             ZERO, ImportedRoots)
            /\ (s >= AtlasV4 /\ c.pubdata_content = 1 /\ meta.da_scheme = 3) =>
                  L1Field(s, out, "da_commitment")
                     = da_commitment_calldata(logs_only_pubdata(LogsByBlock))
            /\ Words(out)[2]
                  = state_commitment_hash(
                        TreeRoot(tree), LeafCount(tree), Number0 + Len(blocks),
                        blake2s(RanHeaders), Last(blocks).timestamp))

\* interop.rs:145, mod.rs:360-446: the chain batch root of an accepted batch
\* holds the logs that were emitted, the multichain root after the batch, and
\* the commitment-tree root at each end of it, each in the state it belongs
\* to, also when the batch itself raises the height of the trees.
InteropBoundaries ==
    WhenAccepted(LAMBDA s, c, u :
        LET logs == PaddedRoot("keccak",
                        [i \in DOMAIN AllLogs |-> keccak256(<<L2ToL1Log(AllLogs[i])>>)],
                        L2_TO_L1_TREE_HEIGHT, keccak256(<<EmptyLog>>))
            multichain == EngineRoot(tree, "MessageRoot")
        IN  L1Field(s, out, "logs_root") =
                CASE s <= AtlasV2 -> compress("keccak", logs, ZERO)
                  [] s = AtlasV3 -> compress("keccak", logs, multichain)
                  [] OTHER -> PaddedRoot("keccak",
                                  <<logs, multichain,
                                    EngineRoot(Tree0, "InteropCommitmentTree"),
                                    EngineRoot(tree, "InteropCommitmentTree")>>, 3, ZERO))

\* mod.rs:213-216, 549-598, tx.rs:67-88: a batch the server sends, in any wire
\* version that can carry it, is never refused: no rule of a later spec reaches
\* an earlier one, and every L2, L1, upgrade and system transaction native
\* executes is executed.  The settlement layer of its spec accepts the result
\* when the priority operations are its next ones.
HonestAccepted ==
    /\ pc = "rejected" => ~honest
    /\ pc = "done" /\ honest /\ IsPrefix(L1TxHashes, PriorityQueue) =>
          \E u \in L1Upgrades : L1Accepts(spec, ChainConfigOf, u, out)
=============================================================================

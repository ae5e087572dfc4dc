---------------------------- MODULE Transactions ----------------------------
(***************************************************************************)
(* How the guest authenticates a transaction and builds what it executes    *)
(* (lib/src/executor/tx.rs).                                                *)
(*                                                                         *)
(* An encoding is a record: its kind, an id its bytes stand for, and the    *)
(* fields its decoder extracts.  kind "abi" is an L2CanonicalTransaction,   *)
(* "envelope" an EIP-2718 signed transaction, "system" a protocol           *)
(* transaction.  A TxInput is [auth, tx_hash, enc, gas_used]: the variant   *)
(* of TxAuth, the hash it claims (unused for L2), the encoding and          *)
(* gas_used_override.  gas_used and auth are the operator's; so is the      *)
(* claimed hash.                                                            *)
(***************************************************************************)
EXTENDS Commitment

CONSTANTS MaxU64     \* the largest u64, scaled

ASSUME MaxU64Assumption == MaxU64 \in Nat

L1_TX_TYPE == 127          \* 0x7f
UPGRADE_TX_TYPE == 126     \* 0x7e
SYSTEM_TX_TYPE == 125      \* 0x7d
BLOB_TX_TYPE == 3

RootStorage == "L2_INTEROP_ROOT_STORAGE"
SystemContext == "SYSTEM_CONTEXT"
InteropCenter == "L2_INTEROP_CENTER"

Hash(enc) == keccak256(<<<<enc.kind, enc.id>>>>)

Minimum(a, b) == IF a < b THEN a ELSE b
saturating_mul(a, b) == Minimum(a * b, MaxU64)

\* What a builder returns: the hash, type and gas limit REVM runs under, or
\* a panic.
Panic == [ok |-> FALSE]
Built(hash, type, gas_limit) ==
    [ok |-> TRUE, hash |-> hash, type |-> type, gas_limit |-> gas_limit]

\* The ABI carries the type: the label L1 or Upgrade is not compared with it.
build_l1_upgrade_tx(tx) ==
    IF Hash(tx.enc) # tx.tx_hash \/ tx.enc.kind # "abi" THEN Panic
    ELSE Built(tx.tx_hash, tx.enc.type,
               IF tx.enc.type = UPGRADE_TX_TYPE THEN saturating_mul(tx.enc.gas, 10)
               ELSE tx.enc.gas)

build_l2_tx(tx, individual_tx_gas_limit) ==
    IF tx.enc.kind # "envelope" \/ ~tx.enc.signed
       \/ tx.enc.gas > individual_tx_gas_limit
    THEN Panic
    ELSE Built(Hash(tx.enc), tx.enc.type, tx.enc.gas)

\* An encoding of kind "system" is the strict RLP `0x7d ++ rlp([to, input, salt])`.
decode_system_tx_ok(tx) ==
    /\ Hash(tx.enc) = tx.tx_hash
    /\ tx.enc.kind = "system" /\ tx.enc.type = SYSTEM_TX_TYPE

\* The transaction's own gas limit is zero: the block's stands in for it.
build_system_tx(tx, block_gas_limit) ==
    IF ~decode_system_tx_ok(tx) THEN Panic
    ELSE Built(tx.tx_hash, SYSTEM_TX_TYPE, block_gas_limit)

\* cap is << >> for None or <<max_tx_gas_limit>>.
build_proven_tx(tx, block_gas_limit, cap) ==
    CASE tx.auth \in {"L1", "Upgrade"} -> build_l1_upgrade_tx(tx)
      [] tx.auth = "L2" ->
            build_l2_tx(tx, IF cap = << >> THEN block_gas_limit
                            ELSE Minimum(block_gas_limit, cap[1]))
      [] tx.auth = "System" -> build_system_tx(tx, block_gas_limit)

(***************************************************************************)
(* Interop roots a system transaction imports.  import_abi is               *)
(* "WithTimestamp" or "WithoutTimestamp"; a root is a record whose words    *)
(* are raw, with ts = ZERO when its ABI carries none.                       *)
(***************************************************************************)
selector(import_abi) ==
    IF import_abi = "WithTimestamp" THEN "addInteropRootsInBatch_ts"
    ELSE "addInteropRootsInBatch"

InteropRootWords(import_abi, root) ==
    <<Word(root.chain_id), Word(root.number)>>
    \o (IF import_abi = "WithTimestamp" THEN <<Word(root.ts)>> ELSE << >>)
    \o root.sides

\* Whether the fold accepts the calldata: one whitelisted target a selector.
interop_selector_ok(tx, import_abi) ==
    \/ tx.enc.sel = selector(import_abi) /\ tx.enc.to = RootStorage
    \/ tx.enc.sel = "setSettlementLayerChainId" /\ tx.enc.to = SystemContext
    \/ tx.enc.sel = "setInteropFee" /\ tx.enc.to = InteropCenter

fold_system_tx_interop_roots(tx, import_abi, rolling) ==
    IF tx.enc.sel # selector(import_abi) THEN rolling
    ELSE FoldLeft(LAMBDA r, root : keccak256(<<r>> \o InteropRootWords(import_abi, root)),
                  rolling, tx.enc.roots)
=============================================================================

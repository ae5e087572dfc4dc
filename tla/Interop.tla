------------------------------- MODULE Interop -------------------------------
(***************************************************************************)
(* The interop values of a batch, read from proofs of fixed system-contract *)
(* slots (lib/src/executor/interop.rs).                                     *)
(*                                                                         *)
(* A tree is a function from slots to naturals, 0 for an absent slot, and   *)
(* its root is injective.  A proof is [tree, slot], the tree and the slot   *)
(* it was extracted from: it recovers that tree's root for that slot and no *)
(* other (LinkedTree and TreeWalk are about this).                          *)
(***************************************************************************)
EXTENDS Commitment, FiniteSets

CONSTANTS MaxHeight    \* bound: the height of a Merkle engine

ASSUME MaxHeightAssumption == MaxHeight \in Nat

Heights == 0..MaxHeight
SlChainSlot == <<"SystemContext", "slot", 0>>
HeightSlot(address) == <<address, "height", 0>>
NodesSlot(address, height) == <<address, "node", height>>   \* nodes_root_slot
Engines == {"MessageRoot", "InteropCommitmentTree"}
ForcedSlot == <<"AccountProperties", "forced", 0>>
Slots == {SlChainSlot, ForcedSlot}
         \cup {HeightSlot(a) : a \in Engines}
         \cup {NodesSlot(a, h) : a \in Engines, h \in Heights}

TreeRoot(tree) == <<"root", tree>>
LeafCount(tree) == 2 + Cardinality({s \in Slots : tree[s] # 0})

Proof(tree, slot) == [tree |-> tree, slot |-> slot]

\* verify_slot: the value, or a panic.
Proves(proof, slot, root) == proof.slot = slot /\ TreeRoot(proof.tree) = root
Value(proof) == proof.tree[proof.slot]

derive_sl_chain_id_ok(proof, root_after, max_u64) ==
    Proves(proof, SlChainSlot, root_after) /\ Value(proof) <= max_u64

\* The root slot follows from the height that the first proof proves.
derive_merkle_engine_root_ok(address, height_proof, root_proof, anchor) ==
    /\ Proves(height_proof, HeightSlot(address), anchor)
    /\ Proves(root_proof, NodesSlot(address, Value(height_proof)), anchor)

\* p is [sl, mr_height, mr_root, ct], ct << >> for None or a sequence of the
\* four commitment-tree proofs: height and root at begin, height and root at end.
derive_multichain_root_ok(p, root_after) ==
    derive_merkle_engine_root_ok("MessageRoot", p.mr_height, p.mr_root, root_after)

\* mutant: both boundaries are anchored to the state after the batch
commitment_tree_roots_ok_after(ct, root_before, root_after) ==
    /\ derive_merkle_engine_root_ok("InteropCommitmentTree", ct[1], ct[2], root_after)
    /\ derive_merkle_engine_root_ok("InteropCommitmentTree", ct[3], ct[4], root_after)

derive_interop_commitment_tree_roots_ok(ct, root_before, root_after) ==
    /\ derive_merkle_engine_root_ok("InteropCommitmentTree", ct[1], ct[2], root_before)
    /\ derive_merkle_engine_root_ok("InteropCommitmentTree", ct[3], ct[4], root_after)

(***************************************************************************)
(* Reference: what the contracts hold.                                      *)
(***************************************************************************)
EngineRoot(tree, address) ==
    Word(tree[NodesSlot(address, tree[HeightSlot(address)])])
=============================================================================

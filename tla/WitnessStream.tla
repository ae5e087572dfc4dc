---------------------------- MODULE WitnessStream ----------------------------
(***************************************************************************)
(* The streaming reader of lib/src/executor/stream.rs, the path the guest    *)
(* runs: storage proofs are verified and dropped one at a time, before the   *)
(* field that holds the root they must recover has been read.                *)
(*                                                                          *)
(* The input is whatever the prover supplied; a refused one ends in an       *)
(* error or a panic, which no proof survives.                                *)
(***************************************************************************)
EXTENDS ProvenDb, FiniteSets, Functions

CONSTANTS ExpectedRoots,\* what block.expected_tree_root is tried with
          MaxBlocks,    \* bound: blocks of an input
          MaxProofs,    \* bound: storage proofs of a block
          MaxTotal,     \* bound: storage proofs of an input
          MaxFaults     \* bound: wrong elements of an input

ASSUME RootsAssumption == ExpectedRoots \subseteq {Zero, Pinned, Other}
ASSUME StreamBounds ==
    MaxBlocks \in Nat /\ MaxProofs \in Nat /\ MaxTotal \in Nat /\ MaxFaults \in Nat

VARIABLES
    pre,        \* the committed pre-state, a function on Keys
    input,      \* the batch input
    pc,         \* the field of the input to be read next
    block,      \* index of the block being read
    proof,      \* index of the storage proof to be read next
    storage,    \* StreamState.verified_storage
    current,    \* StreamState.current_block_recovered_root
    recovered,  \* StreamState.block_recovered_roots
    outcome     \* the database, or the refusal

vars == <<pre, input, pc, block, proof, storage, current, recovered, outcome>>

NoRoot == "none"
Blocks == input.blocks

-----------------------------------------------------------------------------
(* Inputs.  A proof that recovers the pinned root tells the truth: this is   *)
(* what LinkedTree's ProofsSound says of the tree.                           *)

Honest(p)  == p.ok /\ p.root = Pinned
AllProofs  == {p \in Proof : /\ p.value \in LeafValues(p.key)
                             /\ ~p.ok => p.root = Other /\ p.value = None
                             /\ Honest(p) => p.value = pre[p.key]}
AtMost(n, S) == UNION {[1..m -> S] : m \in 0..n}

BlockInputs == [proofs : AtMost(MaxProofs, AllProofs),
                preimages : AtMost(1, Accounts \X Preimages),
                expected : ExpectedRoots]

Fault(good) == IF good THEN 0 ELSE 1
BlockFaults(b) ==
    Cardinality({j \in DOMAIN b.proofs : ~Honest(b.proofs[j])})
    + Cardinality({j \in DOMAIN b.preimages :
                      pre[b.preimages[j][1]] \notin {None, Blake2s(b.preimages[j][2])}})
    + Fault(b.expected # Other)
BlocksFaults(bs) == SumFunction([b \in DOMAIN bs |-> BlockFaults(bs[b])])

ChooseInput ==
    \E few \in {{b \in BlockInputs : BlockFaults(b) <= MaxFaults}} :
    \E bs \in AtMost(MaxBlocks, few) :
        /\ SumFunction([b \in DOMAIN bs |-> Len(bs[b].proofs)]) <= MaxTotal
        /\ BlocksFaults(bs) <= MaxFaults
        /\ \E codes \in AtMost(1, {Keccak256(c) : c \in Codes} \X Preimages) :
           \E supported, complete, hashesOk \in BOOLEAN :
              /\ BlocksFaults(bs) + Fault(BytecodesOk(codes))
                   + Fault(supported) + Fault(complete) + Fault(hashesOk) <= MaxFaults
              /\ input = [supported |-> supported, complete |-> complete, hashesOk |-> hashesOk,
                          blocks |-> bs, bytecodes |-> codes]

Init ==
    /\ pre \in {f \in [Keys -> UNION {LeafValues(k) : k \in Keys}] :
                  \A k \in Keys : f[k] \in LeafValues(k)}
    /\ ChooseInput
    /\ pc = "version"
    /\ block = 1
    /\ proof = 1
    /\ storage = << >>
    /\ current = NoRoot
    /\ recovered = << >>
    /\ outcome = Pending

Refuse ==
    /\ pc' = "done"
    /\ outcome' = Refused
    /\ UNCHANGED <<pre, input, block, proof, storage, current, recovered>>

-----------------------------------------------------------------------------
(* Reading. *)

\* batch_input_version and the test against the supported versions.
ProbeVersion ==
    /\ pc = "version"
    /\ IF input.supported
       THEN pc' = "blocks" /\ UNCHANGED <<pre, input, block, proof, storage, current, recovered, outcome>>
       ELSE Refuse

BeginBlock ==
    /\ pc = "blocks"
    /\ block <= Len(Blocks)
    /\ pc' = "proofs"
    /\ proof' = 1
    /\ current' = NoRoot
    /\ UNCHANGED <<pre, input, block, storage, recovered, outcome>>

\* mutant: a block's proofs need not agree, the last root is kept.
LastRootKept(known, root) == TRUE

\* All proofs of a block recover one root.
SameRoot(known, root) == known \in {NoRoot, root}

\* OneProofSeed: verify, compare with the block's root so far, keep the value.
ReadProof ==
    /\ pc = "proofs"
    /\ proof <= Len(Blocks[block].proofs)
    /\ LET p == Blocks[block].proofs[proof]
       IN  IF p.ok /\ SameRoot(current, p.root)
           THEN /\ current' = p.root
                /\ storage' = IF p.key \in DOMAIN storage THEN storage
                              ELSE [k \in DOMAIN storage \cup {p.key} |->
                                      IF k = p.key THEN p.value ELSE storage[k]]
                /\ proof' = proof + 1
                /\ UNCHANGED <<pre, input, pc, block, recovered, outcome>>
           ELSE Refuse

Recorded(rs, root) == Append(rs, root)

EndBlock ==
    /\ pc = "proofs"
    /\ proof > Len(Blocks[block].proofs)
    /\ recovered' = Recorded(recovered, current)
    /\ block' = block + 1
    /\ pc' = "blocks"
    /\ UNCHANGED <<pre, input, proof, storage, current, outcome>>

\* batch_meta and the bytecodes follow the last block.
ReadRest ==
    /\ pc = "blocks"
    /\ block > Len(Blocks)
    /\ IF input.complete
       THEN pc' = "roots" /\ UNCHANGED <<pre, input, block, proof, storage, current, recovered, outcome>>
       ELSE Refuse

-----------------------------------------------------------------------------
(* After the last byte. *)

\* mutant: a block without proofs fails the comparison.
ProoflessRefused(root, b) == root = expected_root_for_block(b)

RootExpected(root, b) == root = NoRoot \/ root = expected_root_for_block(b)

\* mutant: the comparison is left to the first block.
FirstBlockOnly(rs) == rs = << >> \/ RootExpected(rs[1], Blocks[1])

\* The comparison deferred until tree_root_before is known; blocks and roots
\* are zipped.
RootsExpected(rs) ==
    \A b \in DOMAIN rs \cap DOMAIN Blocks : RootExpected(rs[b], Blocks[b])

CheckRoots ==
    /\ pc = "roots"
    /\ IF RootsExpected(recovered)
       THEN pc' = "build" /\ UNCHANGED <<pre, input, block, proof, storage, current, recovered, outcome>>
       ELSE Refuse

\* load_bytecodes, build_verified_accounts and verify_witness_block_hashes,
\* then resolve_spec_and_validate of execute_and_commit_streaming.
BuildDb ==
    /\ pc = "build"
    /\ IF /\ BytecodesOk(input.bytecodes)
          /\ AccountsOk(Blocks, storage)
          /\ input.hashesOk
          /\ Validates(input)
       THEN /\ outcome' = Ready(Database(Blocks, storage, input.bytecodes))
            /\ pc' = "done"
            /\ UNCHANGED <<pre, input, block, proof, storage, current, recovered>>
       ELSE Refuse

Next == ProbeVersion \/ BeginBlock \/ ReadProof \/ EndBlock \/ ReadRest \/ CheckRoots \/ BuildDb

Spec == Init /\ [][Next]_vars

-----------------------------------------------------------------------------
(* Properties. *)

Db == outcome.db
Served == outcome.status = "ready"

\* What the committed state says of an account.
TrueAccount(a) ==
    IF pre[a] = None THEN <<FALSE, KECCAK_EMPTY>>
    ELSE <<TRUE, Keccak256(CHOOSE p \in Preimages : Blake2s(p) = pre[a])>>

\* Whatever the prover supplied, execution reads the committed pre-state or
\* stops: no slot, account or code is ever answered with a forged value.
ReadsAuthentic ==
    Served =>
        /\ \A k \in Slots : storage_ref(Db, k) \in {Error, Ok(pre[k])}
        /\ \A a \in Accounts : basic_ref(Db, a) \in {Error, Ok(TrueAccount(a))}
        /\ \A c \in Preimages : code_by_hash_ref(Db, Keccak256(c)) \in {Error, Ok(<<c>>)}

\* An input without a fault is served, every slot it proves can be read, and
\* every account it proves and, when it exists, names too.
HonestInput ==
    /\ Decodes(input) /\ Validates(input) /\ input.hashesOk
    /\ BytecodesOk(input.bytecodes)
    /\ \A b \in DOMAIN Blocks :
        /\ \A j \in DOMAIN Blocks[b].proofs : Honest(Blocks[b].proofs[j])
        /\ \A j \in DOMAIN Blocks[b].preimages :
              LET x == Blocks[b].preimages[j]
              IN  x[1] \in ProvenKeys(Blocks) /\ pre[x[1]] \in {None, Blake2s(x[2])}

HonestServed ==
    (pc = "done" /\ HonestInput) =>
        /\ Served
        /\ \A k \in ProvenKeys(Blocks) \cap Slots : storage_ref(Db, k) = Ok(pre[k])
        /\ \A a \in ProvenKeys(Blocks) \cap Accounts :
              pre[a] = None \/ a \in NamedAccounts(Blocks) => basic_ref(Db, a) = Ok(TrueAccount(a))

\* The streaming reader accepts exactly the inputs the collecting path accepts
\* and hands over the same database, although it refuses early and learns the
\* root last.
Collecting == INSTANCE CollectingPath
RefinesCollecting == Collecting!Spec
=============================================================================

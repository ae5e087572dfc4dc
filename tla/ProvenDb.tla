------------------------------ MODULE ProvenDb ------------------------------
(***************************************************************************)
(* The proof-verified database of lib/src/executor/proven_db.rs: what a      *)
(* batch input carries, when build_proven_db accepts it, the database it     *)
(* builds and what execution reads from it.                                  *)
(*                                                                          *)
(* A storage proof is abstracted to what StorageProof::verify returns for    *)
(* it: an error, or the root it recovers and the value it claims.  Hashes    *)
(* are injective constructors; an account is named by its property key.      *)
(***************************************************************************)
EXTENDS Integers, Sequences

CONSTANTS Accounts,     \* account-property keys
          Slots,        \* flat keys of storage slots
          Codes,        \* bytecodes
          NoCode,       \* the code of an account without one
          SlotValues    \* non-zero values of a slot

Keys == Accounts \cup Slots

\* AccountProperties, reduced to the code the blob names; nonce and balance
\* travel with the blob and are compared through its hash.
Preimages == Codes \cup {NoCode}

Blake2s(p)   == <<"account", p>>
Keccak256(c) == <<"code", c>>
KECCAK_EMPTY == Keccak256(NoCode)

\* What the tree holds at a key: None when the key is absent.
None == << >>
LeafValues(k) == IF k \in Accounts
                 THEN {None} \cup {Blake2s(p) : p \in Preimages}
                 ELSE {None} \cup {<<"slot", v>> : v \in SlotValues}

\* Roots a proof can recover and a block can name: the root pinned by the
\* previous batch, some other tree's, or (for a block) no root at all.
Pinned == "tree_root_before"
Other  == "other"
Zero   == "zero"

Proof == [key : Keys, ok : BOOLEAN, root : {Pinned, Other},
          value : UNION {LeafValues(k) : k \in Keys}]

-----------------------------------------------------------------------------
(* Verification of the parts of an input. *)

\* SOUNDNESS note of the code: never block.expected_tree_root.
expected_root_for_block(block) == Pinned

validate_expected_tree_roots(blocks) ==
    \A b \in DOMAIN blocks : blocks[b].expected \in {Zero, Pinned}

BytecodesOk(bytecodes) == \A j \in DOMAIN bytecodes : bytecodes[j][1] = Keccak256(bytecodes[j][2])

\* Entries of one hash hold one code, so it does not matter which is kept.
load_bytecodes(bytecodes) ==
    [h \in {bytecodes[j][1] : j \in DOMAIN bytecodes} |->
        bytecodes[CHOOSE j \in DOMAIN bytecodes : bytecodes[j][1] = h][2]]

\* Elements of the blocks are named by block and index; wire order.
Before(x, y) == x[1] < y[1] \/ (x[1] = y[1] /\ x[2] < y[2])
First(S) == CHOOSE x \in S : \A y \in S \ {x} : Before(x, y)

PreimagesOf(blocks, a) ==
    UNION {{<<b, j>> : j \in {i \in DOMAIN blocks[b].preimages : blocks[b].preimages[i][1] = a}}
              : b \in DOMAIN blocks}
FirstPreimage(blocks, a) ==
    LET x == First(PreimagesOf(blocks, a)) IN blocks[x[1]].preimages[x[2]][2]
NamedAccounts(blocks) == {a \in Accounts : PreimagesOf(blocks, a) # {}}

\* The first block to name an account decides; a preimage offered for a proven
\* absent account is not looked at.
AccountsOk(blocks, storage) ==
    \A a \in NamedAccounts(blocks) :
        /\ a \in DOMAIN storage
        /\ storage[a] # None => storage[a] = Blake2s(FirstPreimage(blocks, a))

NoAccount == [exists |-> FALSE, code_hash |-> KECCAK_EMPTY, code |-> None]

build_verified_accounts(blocks, storage, bytecodes) ==
    [a \in NamedAccounts(blocks) |->
        IF storage[a] = None THEN NoAccount
        ELSE LET h == Keccak256(FirstPreimage(blocks, a))
             IN  [exists |-> TRUE, code_hash |-> h,
                  code |-> IF h \in DOMAIN bytecodes THEN <<bytecodes[h]>> ELSE None]]

Database(blocks, storage, bytecodes) ==
    [storage |-> storage, bytecodes |-> load_bytecodes(bytecodes),
     infos |-> build_verified_accounts(blocks, storage, load_bytecodes(bytecodes))]

-----------------------------------------------------------------------------
(* The collecting path: decode everything, validate, then build.            *)

ProofsOf(blocks, k) ==
    UNION {{<<b, j>> : j \in {i \in DOMAIN blocks[b].proofs : blocks[b].proofs[i].key = k}}
              : b \in DOMAIN blocks}
ProvenKeys(blocks) == {k \in Keys : ProofsOf(blocks, k) # {}}
FirstValue(blocks, k) ==
    LET x == First(ProofsOf(blocks, k)) IN blocks[x[1]].proofs[x[2]].value

ProofsOk(blocks) ==
    \A b \in DOMAIN blocks : \A j \in DOMAIN blocks[b].proofs :
        /\ blocks[b].proofs[j].ok
        /\ blocks[b].proofs[j].root = expected_root_for_block(blocks[b])

verified_storage(blocks) == [k \in ProvenKeys(blocks) |-> FirstValue(blocks, k)]

\* decode_batch_input and resolve_spec_and_validate.
Decodes(in)   == in.supported /\ in.complete
Validates(in) == in.blocks # << >> /\ validate_expected_tree_roots(in.blocks)

Accepts(in) ==
    /\ Decodes(in)
    /\ Validates(in)
    /\ BytecodesOk(in.bytecodes)
    /\ ProofsOk(in.blocks)
    /\ AccountsOk(in.blocks, verified_storage(in.blocks))
    /\ in.hashesOk                           \* verify_witness_block_hashes

Pending  == [status |-> "pending",  db |-> << >>]
Refused  == [status |-> "refused",  db |-> << >>]
Ready(d) == [status |-> "ready",    db |-> d]

build_proven_db(in) ==
    IF Accepts(in)
    THEN Ready(Database(in.blocks, verified_storage(in.blocks), in.bytecodes))
    ELSE Refused

-----------------------------------------------------------------------------
(* Reads during execution: an answer, or an error that ends the proof.      *)

Error == [error |-> TRUE,  answer |-> None]
Ok(x) == [error |-> FALSE, answer |-> x]

\* The answer names whether the account exists and the hash of its code.
basic_ref(db, a) ==
    IF a \in DOMAIN db.infos
    THEN Ok(<<db.infos[a].exists, db.infos[a].code_hash>>)
    ELSE IF a \in DOMAIN db.storage /\ db.storage[a] = None
         THEN Ok(<<FALSE, KECCAK_EMPTY>>)
         ELSE Error

code_by_hash_ref(db, h) ==
    IF h = KECCAK_EMPTY THEN Ok(<<NoCode>>)
    ELSE IF h \in DOMAIN db.bytecodes THEN Ok(<<db.bytecodes[h]>>) ELSE Error

\* An absent slot reads as zero (None).
storage_ref(db, k) == IF k \in DOMAIN db.storage THEN Ok(db.storage[k]) ELSE Error
=============================================================================

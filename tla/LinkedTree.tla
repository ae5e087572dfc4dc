----------------------------- MODULE LinkedTree -----------------------------
(***************************************************************************)
(* The flat storage tree of lib/src/merkle.rs and the batch update that     *)
(* lib/src/executor/verify.rs lets through.                                 *)
(*                                                                         *)
(* The tree is a dense array of leaves (key, value, next_index): position 0 *)
(* holds the MIN guard, position 1 the MAX guard, a new key is appended and *)
(* linked between its neighbours, so the leaves form one sorted list.       *)
(*                                                                         *)
(* The update is an UNTRUSTED witness: the entries, the operations, the     *)
(* leaves and the leaf count all come from the prover's input and any of    *)
(* them may be wrong.  What is checked is that a wrong one is refused or    *)
(* harmless.  A failed assertion of the code panics the guest: no proof     *)
(* exists and the committed tree is what it was (Reject).                   *)
(*                                                                         *)
(* Hashing is collision resistant: the old root matches exactly when the    *)
(* old side of the walk is the committed tree, leaf by leaf.  TreeWalk      *)
(* checks that abstraction on the walk itself.                              *)
(***************************************************************************)
EXTENDS Integers, Sequences, FiniteSets

CONSTANTS MaxKey,       \* the MAX guard's key (0xff..ff); 0 is the MIN guard's
          Values,       \* slot values
          ZeroValue,    \* the value B256::ZERO
          Forgeries,    \* leaves a wrong witness may put at any position
          MaxForged,    \* bound: forged leaves in one witness
          MaxWrites,    \* bound: entries of one batch
          MaxLeaves,    \* bound: positions of the tree that are enumerated
          MaxBatches    \* bound: batches committed

ASSUME KeyAssumption == MaxKey \in Nat /\ MaxKey > 0
ASSUME ValueAssumption == ZeroValue \in Values
ASSUME BoundAssumption ==
    MaxForged \in Nat /\ MaxWrites \in Nat /\ MaxLeaves \in Nat /\ MaxBatches \in Nat

Keys == 0..MaxKey
Leaf == [key: Keys, value: Values, next: Nat]

ASSUME ForgeryAssumption == Forgeries \subseteq Leaf

\* Flat keys are Blake2s outputs: a real slot never sits on a guard.
SlotKeys == 1..(MaxKey - 1)
WriteSets == UNION {[K -> Values] : K \in SUBSET SlotKeys}

VARIABLES
    tree,       \* the committed leaves: a function on 0..leafCount-1
    leafCount,  \* meta.leaf_count_before of the next batch
    batches,    \* batches committed
    phase,      \* "idle", "executed", "verified" or "apply"
    writes,     \* revm_writes of the batch being proven
    entries,    \* tree_update.entries
    witness,    \* tree_update.sorted_leaves, a function on positions
    lcb,        \* tree_update.leaf_count_before
    leaves,     \* the working copy `leaves` of apply_writes
    nextIdx,    \* next_tree_index
    done        \* operations applied so far

batchVars == <<writes, entries, witness, lcb, leaves, nextIdx, done>>
vars == <<tree, leafCount, batches, phase, batchVars>>

EmptyLeaf == [key |-> 0, value |-> ZeroValue, next |-> 0]
MinGuard  == [key |-> 0, value |-> ZeroValue, next |-> 1]
MaxGuard  == [key |-> MaxKey, value |-> ZeroValue, next |-> 1]

Positions == 0..(leafCount - 1)

\* The leaf the committed root holds at any position: empty beyond the count.
LeafAt(i) == IF i \in Positions THEN tree[i] ELSE EmptyLeaf

NoBatch ==
    /\ writes = << >> /\ entries = << >> /\ witness = << >> /\ leaves = << >>
    /\ lcb = 0 /\ nextIdx = 0 /\ done = 0

Init ==
    /\ tree = [i \in 0..1 |-> IF i = 0 THEN MinGuard ELSE MaxGuard]
    /\ leafCount = 2
    /\ batches = 0
    /\ phase = "idle"
    /\ NoBatch

-----------------------------------------------------------------------------
(* The inputs of a batch.                                                  *)

\* Bounded sequences of (key, value) pairs the witness may carry as entries.
EntryLists == UNION {[1..n -> SlotKeys \X Values] : n \in 0..MaxWrites}

\* Witness leaves: the committed leaves of some positions, up to MaxForged of
\* them replaced by a forgery.
WitnessOn(S, bad, f) == [i \in S |-> IF i \in bad THEN f ELSE LeafAt(i)]
Witnesses ==
    UNION {{WitnessOn(S, bad, f) : f \in Forgeries,
                bad \in {T \in SUBSET S : Cardinality(T) <= MaxForged}} :
           S \in SUBSET (0..(MaxLeaves - 1))}

\* The batch has been executed: revm_writes is what build_revm_write_map returns.
Execute ==
    /\ phase = "idle"
    /\ writes' \in WriteSets
    /\ phase' = "executed"
    /\ UNCHANGED <<tree, leafCount, batches, entries, witness, lcb, leaves,
                   nextIdx, done>>

-----------------------------------------------------------------------------
(* verify_tree_update: what is asked of the witness before it is applied.  *)

\* mutant: a truncated operations vector is let through
TruncationAllowed(ops, es) == ops <= Len(es)

\* operations.len() == entries.len(): zip() would stop at the shorter one.
EveryEntryHasAnOperation(ops, es) == ops = Len(es)

\* The entries' keys are a set, as large as the computed write set, and each
\* entry carries the computed value.
EntriesMatch(es, w) ==
    /\ \A i, j \in 1..Len(es) : es[i][1] = es[j][1] => i = j
    /\ Cardinality(DOMAIN w) = Len(es)
    /\ \A i \in 1..Len(es) : es[i][1] \in DOMAIN w /\ es[i][2] = w[es[i][1]]

\* mutant: an inflated leaf count is let through
InflatedCountAllowed(n) == n >= leafCount

\* The count that drives the update is the committed one.
LeafCountBound(n) == n = leafCount

\* The checks of verify_tree_update, in front of the call of `apply`.
VerifyUpdate ==
    /\ phase = "executed"
    /\ \E es \in EntryLists :
         /\ EntriesMatch(es, writes)
         /\ \E ops \in 0..Len(es), n \in 2..MaxLeaves :
              /\ EveryEntryHasAnOperation(ops, es)
              /\ LeafCountBound(n)
              /\ entries' = SubSeq(es, 1, ops)
              /\ lcb' = n
    /\ phase' = "verified"
    /\ UNCHANGED <<tree, leafCount, batches, writes, witness, leaves, nextIdx, done>>

\* Without a tree_update the batch must have written nothing.
NoUpdateNeeded == writes = << >>

CommitNoUpdate ==
    /\ phase = "executed"
    /\ batches < MaxBatches
    /\ NoUpdateNeeded
    /\ batches' = batches + 1
    /\ phase' = "idle"
    /\ writes' = << >>
    /\ UNCHANGED <<tree, leafCount, entries, witness, lcb, leaves, nextIdx, done>>

-----------------------------------------------------------------------------
(* BatchTreeUpdate::apply: the positions, then one step per operation.     *)

\* assert_leaves_name_distinct_old_positions; a function has distinct positions.
NamesOldPositions(wit) == \A i \in DOMAIN wit : i < lcb

\* `apply` starts on a copy of the witness leaves.
StartApply ==
    /\ phase = "verified"
    /\ \E wit \in Witnesses :
         /\ NamesOldPositions(wit)
         /\ witness' = wit
         /\ leaves' = wit
    /\ phase' = "apply"
    /\ nextIdx' = lcb
    /\ UNCHANGED <<tree, leafCount, batches, writes, entries, lcb, done>>

Applying == phase = "apply" /\ done < Len(entries)
Key == entries[done + 1][1]
NewValue == entries[done + 1][2]

\* WriteOp::Update { index }
ApplyUpdate(index) ==
    /\ Applying
    /\ index \in DOMAIN leaves
    /\ leaves[index].key = Key
    /\ leaves' = [leaves EXCEPT ![index].value = NewValue]
    /\ done' = done + 1
    /\ UNCHANGED <<tree, leafCount, batches, phase, writes, entries, witness,
                   lcb, nextIdx>>

\* mutant: the successor is not compared
PredecessorOnly(prev, key) == prev \in DOMAIN leaves /\ leaves[prev].key < key

\* The predecessor and its successor, both in the witness, bracket the key.
Brackets(prev, key) ==
    /\ prev \in DOMAIN leaves
    /\ leaves[prev].key < key
    /\ leaves[prev].next \in DOMAIN leaves
    /\ key < leaves[leaves[prev].next].key

\* mutant: the predecessor keeps its old link
NotRelinked(prev, key, val) ==
    [i \in DOMAIN leaves \cup {nextIdx} |->
        IF i = nextIdx
        THEN [key |-> key, value |-> val, next |-> leaves[prev].next]
        ELSE leaves[i]]

\* mutant: the new leaf reads the predecessor's link after it was rewritten
LinkedToItself(prev, key, val) ==
    [i \in DOMAIN leaves \cup {nextIdx} |->
        IF i = nextIdx
        THEN [key |-> key, value |-> val, next |-> nextIdx]
        ELSE IF i = prev THEN [leaves[i] EXCEPT !.next = nextIdx]
                         ELSE leaves[i]]

\* The working copy with a leaf for key linked in after prev.
Linked(prev, key, val) ==
    [i \in DOMAIN leaves \cup {nextIdx} |->
        IF i = nextIdx
        THEN [key |-> key, value |-> val, next |-> leaves[prev].next]
        ELSE IF i = prev THEN [leaves[i] EXCEPT !.next = nextIdx]
                         ELSE leaves[i]]

\* WriteOp::Insert { prev_index }
ApplyInsert(prev) ==
    /\ Applying
    /\ Brackets(prev, Key)
    /\ leaves' = Linked(prev, Key, NewValue)
    /\ nextIdx' = nextIdx + 1
    /\ done' = done + 1
    /\ UNCHANGED <<tree, leafCount, batches, phase, writes, entries, witness, lcb>>

-----------------------------------------------------------------------------
(* walk_old_and_new, at the level of leaves.                               *)

\* The old tree the walk reconstructs.  A node of the working copy carries its
\* witness leaf below lcb and the empty leaf above; an off-path region is empty
\* from lcb on and is otherwise an anchor of the old tree.
OldSide(i) ==
    IF i \in DOMAIN leaves
    THEN IF i < lcb THEN witness[i] ELSE EmptyLeaf
    ELSE IF i >= lcb THEN EmptyLeaf ELSE LeafAt(i)

\* The new tree: off-path regions are shared with the old one.
NewSide(i) == IF i \in DOMAIN leaves THEN leaves[i] ELSE OldSide(i)

\* mutant: the old root is not compared
OldRootIgnored == phase = "apply"

\* assert_eq!(old_root, expected_old_root)
OldRootMatches == \A i \in Positions \cup DOMAIN leaves : OldSide(i) = LeafAt(i)

\* The end of `apply`: the walk reduces to one root only if it has a node.
Commit ==
    /\ phase = "apply"
    /\ done = Len(entries)
    /\ batches < MaxBatches
    /\ DOMAIN leaves # {}
    /\ OldRootMatches
    /\ tree' = [i \in 0..(nextIdx - 1) |-> NewSide(i)]
    /\ leafCount' = nextIdx
    /\ batches' = batches + 1
    /\ phase' = "idle"
    /\ writes' = << >> /\ entries' = << >> /\ witness' = << >> /\ leaves' = << >>
    /\ lcb' = 0 /\ nextIdx' = 0 /\ done' = 0

\* An assertion fails: the guest panics and nothing is committed.
Reject ==
    /\ phase # "idle"
    /\ phase' = "idle"
    /\ writes' = << >> /\ entries' = << >> /\ witness' = << >> /\ leaves' = << >>
    /\ lcb' = 0 /\ nextIdx' = 0 /\ done' = 0
    /\ UNCHANGED <<tree, leafCount, batches>>

-----------------------------------------------------------------------------
Next ==
    \/ Execute
    \/ CommitNoUpdate
    \/ VerifyUpdate
    \/ StartApply
    \/ \E i \in DOMAIN leaves : ApplyUpdate(i)
    \/ \E i \in DOMAIN leaves : ApplyInsert(i)
    \/ Commit
    \/ Reject

Spec == Init /\ [][Next]_vars

-----------------------------------------------------------------------------
(* Type invariant.                                                         *)

PartialLeaves(f) == DOMAIN f \subseteq Nat /\ \A i \in DOMAIN f : f[i] \in Leaf

\* Every variable has its type, and the working copy its shape: it covers the
\* witness and the dense block of inserted positions, nothing else.
TypeOK ==
    /\ leafCount \in Nat /\ leafCount >= 2
    /\ tree \in [0..(leafCount - 1) -> Leaf]
    /\ batches \in 0..MaxBatches
    /\ phase \in {"idle", "executed", "verified", "apply"}
    /\ entries \in Seq(SlotKeys \X Values)
    /\ PartialLeaves(witness) /\ PartialLeaves(leaves)
    /\ lcb \in Nat /\ nextIdx \in Nat
    /\ done \in 0..Len(entries)
    /\ phase # "apply" => done = 0
    /\ phase \in {"verified", "apply"} => lcb = leafCount
    /\ phase = "apply" =>
         /\ nextIdx >= lcb
         /\ DOMAIN witness \subseteq 0..(lcb - 1)
         /\ DOMAIN leaves = DOMAIN witness \cup lcb..(nextIdx - 1)

-----------------------------------------------------------------------------
(* Safety.                                                                 *)

\* The leaves of t, a function on 0..n-1, are one sorted list from the MIN guard
\* to the MAX guard: keys are distinct, each link goes to a larger key, and no
\* leaf's key lies between the two ends of a link.
SortedList(t, n) ==
    /\ t[0].key = 0 /\ t[1].key = MaxKey
    /\ \A i, j \in 0..(n - 1) : t[i].key = t[j].key => i = j
    /\ \A i \in 0..(n - 1) : i # 1 =>
         /\ t[i].next \in 0..(n - 1)
         /\ t[i].key < t[t[i].next].key
    /\ \A i, j \in 0..(n - 1) :
         (i # 1 /\ t[i].key < t[j].key) => t[t[i].next].key <= t[j].key

\* Whatever the witnesses of the batches before it, the committed tree is one
\* gap-free sorted list: the assertions of apply_writes and the old-root check
\* keep the list that non-existence proofs read (merkle.rs, WriteOp::Insert).
ListSound == SortedList(tree, leafCount)

\* The tree a batch is building: the working copy over the committed leaves.
Merged == [i \in 0..(nextIdx - 1) |->
              IF i \in DOMAIN leaves THEN leaves[i] ELSE LeafAt(i)]

\* The witness leaves are the committed ones.
Authentic == \A i \in DOMAIN witness : witness[i] = LeafAt(i)

\* The strengthening that makes ListSound inductive: half way through a batch
\* with an authentic witness, the tree under construction is one sorted list too
\* -- each insertion is checked against the leaves the earlier ones relinked.
WorkingListSound == (phase = "apply" /\ Authentic) => SortedList(Merged, nextIdx)

ListInv == TypeOK /\ ListSound /\ WorkingListSound

\* The map the tree stands for.
KeyPresent == {tree[i].key : i \in Positions}
ValueOf(k) == tree[CHOOSE i \in Positions : tree[i].key = k].value
Map == [k \in KeyPresent |-> ValueOf(k)]

\* StorageProof::verify against the committed root.  An entry recovers that
\* root exactly when it is the leaf at its index.
RecoversRoot(index, key, val, next) ==
    LeafAt(index) = [key |-> key, value |-> val, next |-> next]

\* The index of a proof is any u64: positions past the count hold empty leaves.
ProofIndices == 0..leafCount

ExistingAccepted(key, index, val) ==
    RecoversRoot(index, key, val, LeafAt(index).next)

NonExistingAccepted(key, left, right) ==
    /\ LeafAt(left).key < key
    /\ key < LeafAt(right).key
    /\ LeafAt(left).next = right

\* A storage proof the guest accepts tells the truth: an existence proof gives
\* the slot's one value, and a non-existence proof is accepted for no present
\* key -- even with an index past the populated part, where the leaf is empty.
ProofsSound ==
    \A key \in SlotKeys :
      /\ \A i \in ProofIndices, val \in Values :
            ExistingAccepted(key, i, val) => key \in KeyPresent /\ ValueOf(key) = val
      /\ \A i, j \in ProofIndices :
            NonExistingAccepted(key, i, j) => key \notin KeyPresent

\* Every absent key has an accepted non-existence proof and every present one
\* an existence proof: no read the EVM makes is unprovable.
ProofsComplete ==
    \A key \in SlotKeys :
      IF key \in KeyPresent
      THEN \E i \in ProofIndices : ExistingAccepted(key, i, ValueOf(key))
      ELSE \E i, j \in ProofIndices : NonExistingAccepted(key, i, j)

\* The next free index is exactly the number of keys: no batch leaves a hole or
\* a phantom position behind (tree_update.leaf_count_before is bound to meta's).
LeafCountExact == Cardinality(KeyPresent) = leafCount

\* Positions are stable and dense: a batch never moves or drops a key, and
\* a leaf is only added at the end (indices in earlier proofs keep their key).
PositionsStable ==
    [][ /\ leafCount <= leafCount'
        /\ \A i \in Positions : tree'[i].key = tree[i].key ]_vars

\* The tree implements the map of KVStore: every batch committed through the
\* untrusted witness changes the map by exactly its computed write set.
GuardMap == [k \in {0, MaxKey} |-> ZeroValue]
Abstract == INSTANCE KVStore WITH kv <- Map, pending <- writes, InitialMap <- GuardMap
RefinesKVStore == Abstract!Spec
=============================================================================

------------------------------ MODULE TreeWalk ------------------------------
(***************************************************************************)
(* The hash level of lib/src/merkle.rs: BatchTreeUpdate::walk_old_and_new,  *)
(* the one bottom-up pass that recomputes the old root and the new root     *)
(* together, apply_reference, the two passes it replaced, and               *)
(* SlotProofEntry::recover_root.  LinkedTree takes from here that a         *)
(* matching old root pins every leaf of both trees.                         *)
(*                                                                         *)
(* Blake2s is a free constructor: a leaf hash is <<leaf>>, a node hash is   *)
(* <<left, right>>, and different terms are different hashes.  A leaf is    *)
(* an opaque number.  Every hash the witness supplies may be wrong: the     *)
(* list intermediate_hashes is chosen one entry at a time, when the walk    *)
(* reads it.  A list that is too short or too long panics the guest, so it  *)
(* takes no step here.                                                      *)
(***************************************************************************)
EXTENDS Integers, Sequences, FiniteSets

CONSTANTS Depth,        \* TREE_DEPTH (64 in the code)
          MaxSorted,    \* bound: leaves in sorted_leaves
          MaxInserts,   \* bound: leaves inserted by the batch
          MaxWrong      \* bound: wrong intermediate hashes in one witness

ASSUME WalkAssumption ==
    /\ Depth \in Nat \ {0} /\ MaxSorted \in Nat /\ MaxInserts \in Nat
    /\ MaxWrong \in Nat

Cap == 2^Depth
Indices == 0..(Cap - 1)

\* Leaves hold their key, so the leaves of one tree are pairwise different.
EmptyLeaf == 0
OldLeaf(i) == 100 + i
NewLeaf(i) == 200 + i
ForgedLeaf == 999

VARIABLES
    lcb,       \* leaf_count_before
    sorted,    \* sorted_leaves: a sequence of <<index, leaf>>
    updated,   \* indices whose leaf the operations change
    inserts,   \* number of inserted leaves
    phase,     \* "given", "walk" or "done"
    depth,     \* the level being reduced
    level,     \* its nodes <<index, old hash, new hash>>
    pos,       \* the node of the level under the cursor
    next,      \* the level above, as far as it is built
    hashes,    \* intermediate_hashes, as far as the walk has consumed them
    wrong      \* how many of them were not the old tree's

input == <<lcb, sorted, updated, inserts>>
vars == <<input, phase, depth, level, pos, next, hashes, wrong>>

-----------------------------------------------------------------------------
(* Hashes.                                                                 *)

hash_leaf(leaf) == <<leaf>>
Compress(l, r) == <<l, r>>

\* empty_subtree_hashes
Empty[d \in 0..Depth] ==
    IF d = 0 THEN hash_leaf(EmptyLeaf) ELSE Compress(Empty[d - 1], Empty[d - 1])

\* The reference: the hash of node i at height d of the tree t.
NodeHash(t) ==
    LET N[d \in 0..Depth] ==
          [i \in 0..(2^(Depth - d) - 1) |->
              IF d = 0 THEN hash_leaf(t[i])
              ELSE Compress(N[d - 1][2 * i], N[d - 1][2 * i + 1])]
    IN N

Root(t) == NodeHash(t)[Depth][0]

\* The old tree, and the tree the batch should produce from it.
OldTree == [i \in Indices |-> IF i < lcb THEN OldLeaf(i) ELSE EmptyLeaf]
NewTree == [i \in Indices |->
              IF i \in updated \/ (lcb <= i /\ i < lcb + inserts)
              THEN NewLeaf(i) ELSE OldTree[i]]

\* Hashes a witness can hold: any node of the old tree, or something else.
Forged == hash_leaf(ForgedLeaf)
Supplied ==
    LET N == NodeHash(OldTree) IN
    UNION {{N[d][i] : i \in DOMAIN N[d]} : d \in 0..Depth} \cup {Forged}

-----------------------------------------------------------------------------
\* Any sequence of positions, each with the old tree's leaf or a forged one.
SortedLeaves ==
    UNION {[1..n -> {<<i, OldLeaf(i)>> : i \in Indices} \cup (Indices \X {ForgedLeaf})] :
           n \in 0..MaxSorted}

Init ==
    /\ lcb \in 2..Cap
    /\ sorted \in SortedLeaves
    /\ updated \in SUBSET {sorted[j][1] : j \in 1..Len(sorted)}
    /\ inserts \in 0..MaxInserts /\ lcb + inserts <= Cap
    /\ phase = "given"
    /\ depth = 0 /\ level = << >> /\ pos = 1 /\ next = << >> /\ hashes = << >> /\ wrong = 0

\* assert_leaves_name_distinct_old_positions, the order
StrictlyAscending(s) == \A j \in 1..(Len(s) - 1) : s[j][1] < s[j + 1][1]

\* mutant: positions past leaf_count_before are let through
AnyIndex(s) == \A j \in 1..Len(s) : s[j][1] < Cap

\* assert_leaves_name_distinct_old_positions, the range
InOldTree(s) == \A j \in 1..Len(s) : s[j][1] < lcb

\* The witness leaf of an index and the position of its last copy: a HashMap
\* collected from the sequence keeps the last one.
LastCopy(j) == \A m \in 1..Len(sorted) : sorted[m][1] = sorted[j][1] => m <= j
OrigLeaf(i) ==
    sorted[CHOOSE j \in 1..Len(sorted) : sorted[j][1] = i /\ LastCopy(j)][2]

\* mutant: the new side keeps the leaf from before the writes
StaleNode(j) ==
    LET i == sorted[j][1]
    IN  <<i, IF i < lcb THEN hash_leaf(OrigLeaf(i)) ELSE Empty[0], hash_leaf(sorted[j][2])>>

\* Depth-0 nodes: the witness leaves, then the inserted ones.
WitnessNode(j) ==
    LET i == sorted[j][1]
        leaf == IF i \in updated /\ LastCopy(j) THEN NewLeaf(i) ELSE sorted[j][2]
    IN  <<i, IF i < lcb THEN hash_leaf(OrigLeaf(i)) ELSE Empty[0], hash_leaf(leaf)>>
InsertedNode(m) == <<lcb + m - 1, Empty[0], hash_leaf(NewLeaf(lcb + m - 1))>>

Leaves0 ==
    [j \in 1..(Len(sorted) + inserts) |->
        IF j <= Len(sorted) THEN WitnessNode(j) ELSE InsertedNode(j - Len(sorted))]

\* `apply`: the assertions, apply_writes, and the first level of the walk.
Start ==
    /\ phase = "given"
    /\ StrictlyAscending(sorted)
    /\ InOldTree(sorted)
    /\ phase' = "walk"
    /\ level' = Leaves0
    /\ UNCHANGED <<input, depth, pos, next, hashes, wrong>>

-----------------------------------------------------------------------------
(* walk_old_and_new, one node at a time.                                   *)

Walking == phase = "walk" /\ depth < Depth /\ pos <= Len(level)
Idx == level[pos][1]
Old == level[pos][2]
New == level[pos][3]

\* mutant: everything beyond the last touched leaf is taken to be empty
BeyondLastTouched(sib) == sib > level[Len(level)][1]

\* mutant: the subtree that starts right at leaf_count_before is read
EmptyPastBoundary(sib) == sib * 2^depth > lcb

\* resolve_offpath_sibling: a subtree from leaf_count_before on is empty.
ProvablyEmpty(sib) == sib * 2^depth >= lcb

\* The hash h stands for the off-path sibling sib.
OffPathSibling(sib, h) ==
    IF ProvablyEmpty(sib)
    THEN h = Empty[depth] /\ UNCHANGED <<hashes, wrong>>
    ELSE /\ wrong' = wrong + IF h = NodeHash(OldTree)[depth][sib] THEN 0 ELSE 1
         /\ wrong' <= MaxWrong
         /\ hashes' = Append(hashes, h)

Push(old, new, consumed) ==
    /\ next' = Append(next, <<Idx \div 2, old, new>>)
    /\ pos' = pos + consumed
    /\ UNCHANGED <<input, phase, depth, level>>

\* A right child whose left sibling is off the path.
StepRight ==
    /\ Walking /\ Idx % 2 = 1
    /\ \E h \in Supplied \cup {Empty[depth]} :
         /\ OffPathSibling(Idx - 1, h)
         /\ Push(Compress(h, Old), Compress(h, New), 1)

\* The computed right sibling follows.
HasRightSibling == pos < Len(level) /\ level[pos + 1][1] = Idx + 1

StepPair ==
    /\ Walking /\ Idx % 2 = 0
    /\ HasRightSibling
    /\ Push(Compress(Old, level[pos + 1][2]), Compress(New, level[pos + 1][3]), 2)
    /\ UNCHANGED <<hashes, wrong>>

\* A left child whose right sibling is off the path.
StepLeft ==
    /\ Walking /\ Idx % 2 = 0
    /\ ~HasRightSibling
    /\ \E h \in Supplied \cup {Empty[depth]} :
         /\ OffPathSibling(Idx + 1, h)
         /\ Push(Compress(Old, h), Compress(New, h), 1)

LevelDone ==
    /\ phase = "walk" /\ depth < Depth /\ pos > Len(level)
    /\ level' = next /\ next' = << >> /\ pos' = 1 /\ depth' = depth + 1
    /\ UNCHANGED <<input, phase, hashes, wrong>>

\* The walk is over: one root left.
Finish ==
    /\ phase = "walk" /\ depth = Depth
    /\ Len(level) = 1
    /\ phase' = "done"
    /\ UNCHANGED <<input, depth, level, pos, next, hashes, wrong>>

Next == Start \/ StepRight \/ StepPair \/ StepLeft \/ LevelDone \/ Finish

Spec == Init /\ [][Next]_vars

-----------------------------------------------------------------------------
(* Properties.                                                             *)

Done == phase = "done"
OldRootMatches == level[1][2] = Root(OldTree)

\* A walk whose old root is the committed one returns the root of exactly the
\* tree that the batch's writes produce: no supplied hash, forged leaf or
\* repeated position can put anything else under the new root.
WalkSound == (Done /\ OldRootMatches) => level[1][3] = Root(NewTree)

\* A matching old root means that every witness leaf and every intermediate
\* hash was the old tree's own (what LinkedTree calls authentic).
WalkAuthenticates ==
    (Done /\ OldRootMatches) =>
        wrong = 0 /\ \A j \in 1..Len(sorted) : sorted[j][2] = OldLeaf(sorted[j][1])

\* An honest witness is never refused: with the old tree's own leaves and hashes
\* the walk ends at the committed old root, however the touched positions lie
\* around the boundary of the populated part.
HonestAccepted ==
    (Done /\ wrong = 0 /\ \A j \in 1..Len(sorted) : sorted[j][2] = OldLeaf(sorted[j][1]))
        => OldRootMatches

-----------------------------------------------------------------------------
(* apply_reference, the two passes over the same witness.                  *)

Sibling(i) == IF i % 2 = 0 THEN i + 1 ELSE i - 1
Positions == {sorted[j][1] : j \in 1..Len(sorted)}

\* The node of a level, or the empty subtree to the right of the last one.
NodeOrEmpty(nodes, d, i) == IF i \in DOMAIN nodes THEN nodes[i] ELSE Empty[d]

\* Pass one, level by level: the touched positions, the hashes read so far and
\* the nodes authenticated, which are the computed ones and the siblings read
\* from the list. It takes a right sibling for empty only next to the last
\* position of the level. Running out of hashes shows in `used`.
zip_and_record ==
    LET nth(n) == IF n <= Len(hashes) THEN hashes[n] ELSE Forged
        L[d \in 0..Depth] ==
          LET below   == L[d - 1]
              touched == IF d = 0 THEN Positions ELSE {i \div 2 : i \in below.touched}
              alone   == {i \in touched : Sibling(i) \notin touched}
              read    == {Sibling(i) : i \in {t \in alone :
                                               t % 2 = 1 \/ t # (lcb - 1) \div 2^d}}
              before  == IF d = 0 THEN 0 ELSE below.used
              node(i) == IF d = 0 THEN hash_leaf(OrigLeaf(i))
                         ELSE Compress(NodeOrEmpty(below.nodes, d - 1, 2 * i),
                                       NodeOrEmpty(below.nodes, d - 1, 2 * i + 1))
          IN  [touched |-> touched,
               used    |-> before + Cardinality(read),
               nodes   |-> [i \in touched \cup read |->
                             IF i \in touched THEN node(i)
                             ELSE nth(before + Cardinality({r \in read : r <= i}))]]
    IN  L

\* A sibling the second pass does not find: the reference panics.
Unauthenticated == << >>

resolve_sibling(authenticated, d, i) ==
    IF i \in DOMAIN authenticated[d].nodes THEN authenticated[d].nodes[i]
    ELSE IF i * 2^d >= lcb THEN Empty[d]
    ELSE Unauthenticated

\* Pass two: the new leaves, beside what the first pass authenticated.
zip_from_authenticated(authenticated) ==
    LET L[d \in 0..Depth] ==
          LET below   == L[d - 1]
              child(i) == IF i \in DOMAIN below.nodes THEN below.nodes[i]
                          ELSE resolve_sibling(authenticated, d - 1, i)
              parents == {i \div 2 : i \in DOMAIN below.nodes}
              used    == {child(2 * i) : i \in parents} \cup {child(2 * i + 1) : i \in parents}
          IN  IF d = 0
              THEN [ok    |-> TRUE,
                    nodes |-> [i \in {Leaves0[j][1] : j \in 1..Len(Leaves0)} |->
                                Leaves0[CHOOSE j \in 1..Len(Leaves0) : Leaves0[j][1] = i][3]]]
              ELSE [ok    |-> below.ok /\ Unauthenticated \notin used,
                    nodes |-> [i \in parents |-> Compress(child(2 * i), child(2 * i + 1))]]
    IN  [ok |-> L[Depth].ok, root |-> L[Depth].nodes[0]]

\* The result of the two passes; `fits` says that the list could be right.
apply_reference ==
    LET authenticated == zip_and_record
        new           == zip_from_authenticated(authenticated)
    IN  [fits     |-> new.ok,
         used     |-> authenticated[Depth].used,
         accepted |-> /\ authenticated[Depth].used = Len(hashes)
                      /\ authenticated[Depth].nodes[0] = Root(OldTree)
                      /\ new.ok,
         new_root |-> new.root]

\* The one-pass walk reproduces the two passes it replaced (merkle.rs:233-246,
\* 450-455): on every witness whose second pass finds its siblings both consume
\* the same number of intermediate hashes, and a witness the reference accepts
\* is accepted by the walk with the same new root.
TwoPassAgrees ==
    (Done /\ sorted # << >>) =>
      LET ref == apply_reference
      IN  /\ ref.fits => ref.used = Len(hashes)
          /\ ref.accepted => OldRootMatches /\ level[1][3] = ref.new_root

-----------------------------------------------------------------------------
(* SlotProofEntry::recover_root.                                           *)

\* mutant: the order of the two children is not taken from the index
IgnoresParity(index, hash, sibling) == Compress(hash, sibling)

\* One level up: the parity of the index says which child is known.
ParentHash(index, hash, sibling) ==
    IF index % 2 = 0 THEN Compress(hash, sibling) ELSE Compress(sibling, hash)

\* Siblings missing at the end of the list are empty subtrees.
SiblingAt(siblings, d) == IF d < Len(siblings) THEN siblings[d + 1] ELSE Empty[d]

recover_root(index, leaf, siblings) ==
    LET H[d \in 0..Depth] ==
          IF d = 0 THEN hash_leaf(leaf)
          ELSE ParentHash(index \div 2^(d - 1), H[d - 1], SiblingAt(siblings, d - 1))
    IN  H[Depth]

\* The old tree's own siblings of a position.
Path(i) == [d \in 1..Depth |->
              NodeHash(OldTree)[d - 1][IF (i \div 2^(d - 1)) % 2 = 0
                                       THEN i \div 2^(d - 1) + 1
                                       ELSE i \div 2^(d - 1) - 1]]

\* A proof with at most one sibling replaced by any other hash, possibly cut
\* short, recovers the committed root only with the leaf that is at its index;
\* and the old tree's own path always recovers it.
RecoverSound ==
    (phase = "walk" /\ depth = 0 /\ pos = 1 /\ sorted = << >>) =>
      \A i \in Indices :
        /\ recover_root(i, OldTree[i], Path(i)) = Root(OldTree)
        /\ \A leaf \in {OldTree[m] : m \in Indices} \cup {ForgedLeaf},
              d \in 1..Depth, h \in Supplied, len \in 0..Depth :
             LET siblings == SubSeq([Path(i) EXCEPT ![d] = h], 1, len) IN
             recover_root(i, leaf, siblings) = Root(OldTree) => leaf = OldTree[i]
=============================================================================

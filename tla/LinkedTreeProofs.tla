-------------------------- MODULE LinkedTreeProofs --------------------------
(***************************************************************************)
(* Proofs about LinkedTree, for every number of keys, values, leaves,       *)
(* batches and every forged witness: the invariants of the linked list      *)
(* first, then that LinkedTree implements KVStore, a batch committed        *)
(* through an untrusted witness changing the map by exactly its computed    *)
(* write set.                                                               *)
(***************************************************************************)
EXTENDS LinkedTree, FiniteSetTheorems, SequenceTheorems, WellFoundedInduction, TLAPS

\* t, a list on 0..n-1, with a leaf for k linked in after p at position n.
InsertAfter(t, n, p, k, v) ==
    [i \in 0..n |->
        IF i = n THEN [key |-> k, value |-> v, next |-> t[p].next]
        ELSE IF i = p THEN [t[i] EXCEPT !.next = n]
                      ELSE t[i]]

\* Linking a bracketed key into a sorted list gives a sorted list: the
\* assertions of WriteOp::Insert are enough.
LEMMA InsertKeepsSorted ==
    ASSUME NEW n \in Nat, n >= 2,
           NEW t \in [0..(n - 1) -> Leaf],
           NEW p \in 0..(n - 1), NEW k \in SlotKeys, NEW v \in Values,
           SortedList(t, n),
           t[p].key < k, k < t[t[p].next].key
    PROVE  SortedList(InsertAfter(t, n, p, k, v), n + 1)
<1> DEFINE u == InsertAfter(t, n, p, k, v)
           s == t[p].next
           D == 0..(n - 1)
<1>k. k \in Nat /\ k < MaxKey /\ MaxKey \in Nat
  BY KeyAssumption DEF SlotKeys
<1>t. \A i \in D : t[i].key \in Nat /\ t[i].next \in Nat /\ t[i] \in Leaf
  BY KeyAssumption DEF Leaf, Keys
<1>p1. p # 1
  BY <1>k, <1>t DEF SortedList
<1>s. s \in D
  BY <1>p1 DEF SortedList
<1>gap. \A j \in D : t[p].key < t[j].key => t[s].key <= t[j].key
  BY <1>p1 DEF SortedList
<1>un. u[n].key = k /\ u[n].next = s
  BY DEF InsertAfter
<1>up. u[p].key = t[p].key /\ u[p].next = n
  BY <1>t DEF InsertAfter, Leaf
<1>uo. \A i \in D : i # p => u[i] = t[i]
  BY DEF InsertAfter
<1>uk. \A i \in D : u[i].key = t[i].key
  BY <1>up, <1>uo
<1>fresh. \A j \in D : t[j].key # k
  <2> SUFFICES ASSUME NEW j \in D, t[j].key = k PROVE FALSE
    OBVIOUS
  <2>1. t[s].key <= t[j].key
    BY <1>gap
  <2> QED
    BY <2>1, <1>t, <1>s, <1>k
<1>1. u[0].key = 0 /\ u[1].key = MaxKey
  BY <1>uk DEF SortedList
<1>2. ASSUME NEW i \in 0..n, NEW j \in 0..n, u[i].key = u[j].key PROVE i = j
  <2>1. CASE i = n /\ j \in D
    BY <2>1, <1>2, <1>un, <1>uk, <1>fresh
  <2>2. CASE j = n /\ i \in D
    BY <2>2, <1>2, <1>un, <1>uk, <1>fresh
  <2>3. CASE i \in D /\ j \in D
    BY <2>3, <1>2, <1>uk DEF SortedList
  <2> QED
    BY <2>1, <2>2, <2>3
<1>3. ASSUME NEW i \in 0..n, i # 1
      PROVE  u[i].next \in 0..n /\ u[i].key < u[u[i].next].key
  <2>1. CASE i = n
    BY <2>1, <1>un, <1>s, <1>uk
  <2>2. CASE i = p
    BY <2>2, <1>up, <1>un
  <2>3. CASE i \in D /\ i # p
    <3>1. t[i].next \in D /\ t[i].key < t[t[i].next].key
      BY <2>3, <1>3 DEF SortedList
    <3> QED
      BY <3>1, <2>3, <1>uo, <1>uk
  <2> QED
    BY <2>1, <2>2, <2>3
<1>4. ASSUME NEW i \in 0..n, NEW j \in 0..n, i # 1, u[i].key < u[j].key
      PROVE  u[u[i].next].key <= u[j].key
  <2>1. CASE i = n /\ j \in D
    <3>1. t[p].key < t[j].key
      BY <2>1, <1>4, <1>un, <1>uk, <1>t, <1>k
    <3>2. t[s].key <= t[j].key
      BY <2>1, <3>1, <1>gap
    <3> QED
      BY <2>1, <3>2, <1>un, <1>uk, <1>s
  <2>2. CASE i = p /\ j \in D
    <3>1. t[s].key <= t[j].key
      BY <2>2, <1>4, <1>uk, <1>gap
    <3> QED
      BY <2>2, <3>1, <1>up, <1>un, <1>uk, <1>t, <1>s, <1>k
  <2>3. CASE i = p /\ j = n
    BY <2>3, <1>up, <1>un, <1>k
  <2>4. CASE i \in D /\ i # p /\ j \in D
    <3>1. t[i].next \in D /\ t[t[i].next].key <= t[j].key
      BY <2>4, <1>4, <1>uk DEF SortedList
    <3> QED
      BY <2>4, <3>1, <1>uo, <1>uk
  <2>5. CASE i \in D /\ i # p /\ j = n
    <3>1. t[i].key < k
      BY <2>5, <1>4, <1>un, <1>uk
    <3>2. t[i].key < t[p].key
      <4>1. t[i].key # t[p].key
        BY <2>5 DEF SortedList
      <4>2. CASE t[p].key < t[i].key
        BY <4>2, <3>1, <1>gap, <1>t, <1>s, <1>k, <2>5, SMTT(30)
      <4> QED
        BY <4>1, <4>2, <1>t, <2>5
    <3>3. t[i].next \in D /\ t[t[i].next].key <= t[p].key
      BY <2>5, <1>4, <3>2 DEF SortedList
    <3> QED
      BY <2>5, <3>3, <1>uo, <1>uk, <1>un, <1>t, <1>k
  <2>6. CASE i = n /\ j = n
    BY <2>6, <1>4, <1>un, <1>k
  <2> QED
    BY <2>1, <2>2, <2>3, <2>4, <2>5, <2>6
<1> QED
  <2> DEFINE m == n + 1
  <2>1. 0..(m - 1) = 0..n
    OBVIOUS
  <2>2. SortedList(u, m)
    BY <2>1, <1>1, <1>2, <1>3, <1>4 DEF SortedList
  <2> QED
    BY <2>2

-----------------------------------------------------------------------------
(* Types.                                                                  *)

\* The three constant leaves (TreeLeaf::empty, min_guard, max_guard) are leaves.
LEMMA GuardsAreLeaves ==
    EmptyLeaf \in Leaf /\ MinGuard \in Leaf /\ MaxGuard \in Leaf
BY KeyAssumption, ValueAssumption DEF EmptyLeaf, MinGuard, MaxGuard, Leaf, Keys

\* Every position holds a leaf: one of the tree, or the empty leaf past its end.
LEMMA LeafAtType == TypeOK => \A i : LeafAt(i) \in Leaf
BY GuardsAreLeaves DEF TypeOK, LeafAt, Positions

\* Whatever a witness is made of, it is a partial function to leaves.
LEMMA WitnessType == TypeOK => \A wit \in Witnesses : PartialLeaves(wit)
<1> SUFFICES ASSUME TypeOK, NEW wit \in Witnesses PROVE PartialLeaves(wit)
  OBVIOUS
<1>1. PICK S \in SUBSET (0..(MaxLeaves - 1)) :
          \E bad \in SUBSET S, f \in Forgeries : wit = WitnessOn(S, bad, f)
  BY DEF Witnesses
<1>2. \A i \in S : wit[i] \in Leaf
  BY <1>1, LeafAtType, ForgeryAssumption DEF WitnessOn
<1>3. DOMAIN wit = S /\ S \subseteq Nat
  BY <1>1, BoundAssumption DEF WitnessOn
<1> QED
  BY <1>2, <1>3 DEF PartialLeaves

\* The tree of the two guards, with no batch in progress, is well typed.
LEMMA InitType == Init => TypeOK
<1> SUFFICES ASSUME Init PROVE TypeOK
  OBVIOUS
<1>1. tree \in [0..(leafCount - 1) -> Leaf] /\ leafCount \in Nat /\ leafCount >= 2
  BY GuardsAreLeaves DEF Init
<1>2. PartialLeaves(<< >>)
  BY DEF PartialLeaves
<1>3. batches \in 0..MaxBatches
  BY BoundAssumption DEF Init
<1> QED
  BY <1>1, <1>2, <1>3 DEF Init, NoBatch, TypeOK

\* The current entry is a slot key and a value.
LEMMA CurrentEntry == TypeOK /\ Applying => Key \in SlotKeys /\ NewValue \in Values
<1> SUFFICES ASSUME TypeOK, Applying PROVE entries[done + 1] \in SlotKeys \X Values
  BY DEF Key, NewValue
<1> QED
  BY DEF TypeOK, Applying

\* Every step keeps the types, one case per action of Next.
LEMMA NextType == TypeOK /\ [Next]_vars => TypeOK'
<1> SUFFICES ASSUME TypeOK, [Next]_vars PROVE TypeOK'
  OBVIOUS
<1> USE DEF TypeOK
<1>e. PartialLeaves(<< >>)
  BY DEF PartialLeaves
<1>1. CASE Execute
  BY <1>1 DEF Execute
<1>2. CASE CommitNoUpdate
  BY <1>2, BoundAssumption DEF CommitNoUpdate
<1>3. CASE VerifyUpdate
  <2>0. PICK es \in EntryLists : \E ops \in 0..Len(es), n \in 2..MaxLeaves :
           LeafCountBound(n) /\ entries' = SubSeq(es, 1, ops) /\ lcb' = n
    BY <1>3 DEF VerifyUpdate
  <2>1. PICK ops \in 0..Len(es), n \in 2..MaxLeaves :
           LeafCountBound(n) /\ entries' = SubSeq(es, 1, ops) /\ lcb' = n
    BY <2>0
  <2>2. es \in Seq(SlotKeys \X Values)
    <3>1. PICK k \in 0..MaxWrites : es \in [1..k -> SlotKeys \X Values]
      BY DEF EntryLists
    <3>2. k \in Nat
      BY BoundAssumption
    <3> QED
      BY <3>1, <3>2, SeqDef
  <2>3. entries' \in Seq(SlotKeys \X Values)
    BY <2>1, <2>2
  <2>4. lcb' = leafCount
    BY <2>1 DEF LeafCountBound
  <2>5. done' = 0 /\ 0 \in 0..Len(entries')
    BY <1>3, <2>3 DEF VerifyUpdate
  <2> QED
    BY <1>3, <2>3, <2>4, <2>5 DEF VerifyUpdate
<1>4. CASE StartApply
  <2>1. PICK wit \in Witnesses :
           NamesOldPositions(wit) /\ witness' = wit /\ leaves' = wit
    BY <1>4 DEF StartApply
  <2>2. PartialLeaves(wit)
    BY WitnessType
  <2>3. DOMAIN wit \subseteq 0..(lcb - 1)
    BY <2>1, <2>2 DEF NamesOldPositions, PartialLeaves
  <2>4. lcb..(lcb - 1) = {}
    OBVIOUS
  <2> QED
    BY <1>4, <2>1, <2>2, <2>3, <2>4, SMTT(30) DEF StartApply
<1>5. CASE \E i \in DOMAIN leaves : ApplyUpdate(i)
  <2>1. PICK i \in DOMAIN leaves : ApplyUpdate(i)
    BY <1>5
  <2>2. NewValue \in Values
    BY <2>1, CurrentEntry DEF ApplyUpdate
  <2>3. PartialLeaves(leaves') /\ DOMAIN leaves' = DOMAIN leaves
    BY <2>1, <2>2 DEF ApplyUpdate, PartialLeaves, Leaf
  <2> QED
    BY <2>1, <2>3 DEF ApplyUpdate, Applying
<1>6. CASE \E i \in DOMAIN leaves : ApplyInsert(i)
  <2>1. PICK i \in DOMAIN leaves : ApplyInsert(i)
    BY <1>6
  <2>2. Key \in SlotKeys /\ NewValue \in Values
    BY <2>1, CurrentEntry DEF ApplyInsert
  <2>3. Key \in Keys
    BY <2>2, KeyAssumption DEF SlotKeys, Keys
  <2>4. DOMAIN leaves' = DOMAIN leaves \cup {nextIdx}
    BY <2>1 DEF ApplyInsert, Linked
  <2>5. PartialLeaves(leaves')
    BY <2>1, <2>2, <2>3, <2>4 DEF ApplyInsert, Linked, PartialLeaves, Leaf
  <2>6. lcb..nextIdx = (lcb..(nextIdx - 1)) \cup {nextIdx}
    BY <2>1 DEF ApplyInsert, Applying
  <2> QED
    BY <2>1, <2>4, <2>5, <2>6 DEF ApplyInsert, Applying
<1>7. CASE Commit
  <2>1. nextIdx \in Nat /\ nextIdx >= 2
    BY <1>7 DEF Commit
  <2>2. \A i \in 0..(nextIdx - 1) : NewSide(i) \in Leaf
    BY <1>7, LeafAtType, GuardsAreLeaves DEF Commit, NewSide, OldSide, PartialLeaves
  <2> QED
    BY <1>7, <1>e, <2>1, <2>2, BoundAssumption DEF Commit
<1>8. CASE Reject
  BY <1>8, <1>e DEF Reject
<1>9. CASE UNCHANGED vars
  BY <1>9 DEF vars, batchVars, PartialLeaves
<1> QED
  BY <1>1, <1>2, <1>3, <1>4, <1>5, <1>6, <1>7, <1>8, <1>9 DEF Next

\* Every behaviour keeps the types and the shape of the working copy: it
\* covers the witness positions and the dense block of inserted ones.
THEOREM TypeCorrect == Spec => []TypeOK
BY InitType, NextType, PTL DEF Spec

-----------------------------------------------------------------------------
(* The sorted list.                                                        *)

\* The order of the list depends on the keys and the links only.
LEMMA SameLinksSorted ==
    ASSUME NEW n \in Nat, NEW t, NEW u, n >= 2, SortedList(t, n),
           \A i \in 0..(n - 1) : u[i].key = t[i].key /\ u[i].next = t[i].next
    PROVE  SortedList(u, n)
BY DEF SortedList

\* The tree under construction fills the positions below next_index densely.
LEMMA MergedType == TypeOK /\ phase = "apply" => Merged \in [0..(nextIdx - 1) -> Leaf]
BY LeafAtType DEF TypeOK, Merged, PartialLeaves

\* When the old root matches, the witness is authentic and what is committed is
\* the tree under construction.
LEMMA RootMatchAuthenticates ==
    ASSUME TypeOK, phase = "apply", OldRootMatches
    PROVE  Authentic /\ \A i \in 0..(nextIdx - 1) : NewSide(i) = Merged[i]
<1>1. Authentic
  BY DEF TypeOK, OldRootMatches, Authentic, OldSide, PartialLeaves
<1>2. \A i \in 0..(nextIdx - 1) : NewSide(i) = Merged[i]
  BY DEF TypeOK, NewSide, OldSide, Merged
<1> QED
  BY <1>1, <1>2

\* A witness leaf keeps its key through the whole batch.
WitnessKeysKept ==
    phase = "apply" => \A i \in DOMAIN witness : leaves[i].key = witness[i].key

\* What one insertion does to the tree under construction.
LEMMA InsertOnMerged ==
    ASSUME TypeOK, NEW i \in DOMAIN leaves, ApplyInsert(i)
    PROVE  /\ Merged' = InsertAfter(Merged, nextIdx, i, Key, NewValue)
           /\ i \in 0..(nextIdx - 1)
           /\ Merged[i].key < Key
           /\ Merged[i].next \in 0..(nextIdx - 1)
           /\ Key < Merged[Merged[i].next].key
<1> USE DEF TypeOK, ApplyInsert, Applying
<1>1. DOMAIN leaves \subseteq 0..(nextIdx - 1)
  OBVIOUS
<1>2. \A j \in DOMAIN leaves : Merged[j] = leaves[j]
  BY <1>1 DEF Merged
<1>3. /\ Merged[i].key < Key
      /\ Merged[i].next \in 0..(nextIdx - 1)
      /\ Key < Merged[Merged[i].next].key
  BY <1>1, <1>2 DEF Brackets
<1>4. (0..(nextIdx - 1))' = 0..nextIdx
  OBVIOUS
<1>5. DOMAIN leaves' = DOMAIN leaves \cup {nextIdx}
  BY DEF Linked
<1>6. \A j : LeafAt(j)' = LeafAt(j)
  BY DEF LeafAt, Positions
<1>7. ASSUME NEW j \in 0..nextIdx
      PROVE  Merged'[j] = InsertAfter(Merged, nextIdx, i, Key, NewValue)[j]
  <2>1. Merged'[j] = IF j \in DOMAIN leaves' THEN leaves'[j] ELSE LeafAt(j)
    BY <1>4, <1>6 DEF Merged
  <2>2. CASE j = nextIdx
    BY <2>1, <2>2, <1>2, <1>5 DEF Linked, InsertAfter
  <2>3. CASE j \in DOMAIN leaves /\ j # nextIdx
    BY <2>1, <2>3, <1>1, <1>2, <1>5 DEF Linked, InsertAfter
  <2>4. CASE j \notin DOMAIN leaves /\ j # nextIdx
    BY <2>1, <2>4, <1>5 DEF InsertAfter, Merged
  <2> QED
    BY <2>2, <2>3, <2>4
<1>8. Merged' = [j \in 0..nextIdx |-> Merged'[j]]
  BY <1>4 DEF Merged
<1>9. InsertAfter(Merged, nextIdx, i, Key, NewValue)
        = [j \in 0..nextIdx |-> InsertAfter(Merged, nextIdx, i, Key, NewValue)[j]]
  BY DEF InsertAfter
<1> QED
  BY <1>1, <1>3, <1>7, <1>8, <1>9

\* The two guards linked to each other are a sorted list with no witness yet.
LEMMA InitList == Init => ListInv /\ WitnessKeysKept
<1> SUFFICES ASSUME Init PROVE ListInv /\ WitnessKeysKept
  OBVIOUS
<1>1. TypeOK
  BY InitType
<1>2. ListSound
  BY KeyAssumption DEF Init, ListSound, SortedList, MinGuard, MaxGuard
<1> QED
  BY <1>1, <1>2 DEF Init, ListInv, WorkingListSound, WitnessKeysKept

\* Every step keeps both lists sorted: the committed one, and the one under
\* construction as long as the witness is the tree's own.
LEMMA NextList == ListInv /\ WitnessKeysKept /\ [Next]_vars
                    => (ListInv /\ WitnessKeysKept)'
<1> SUFFICES ASSUME ListInv, WitnessKeysKept, [Next]_vars
             PROVE  (ListInv /\ WitnessKeysKept)'
  OBVIOUS
<1>t. TypeOK /\ TypeOK'
  BY NextType DEF ListInv
<1> USE DEF ListInv
<1> SUFFICES ListSound' /\ WorkingListSound' /\ WitnessKeysKept'
  BY <1>t
<1>1. CASE Execute \/ CommitNoUpdate \/ VerifyUpdate
  BY <1>1 DEF Execute, CommitNoUpdate, VerifyUpdate, ListSound, WorkingListSound,
              WitnessKeysKept
<1>2. CASE StartApply
  <2>1. witness' = leaves' /\ nextIdx' = leafCount /\ leafCount' = leafCount
        /\ tree' = tree
    BY <1>2, <1>t DEF StartApply, TypeOK
  <2>2. ASSUME Authentic' PROVE SortedList(Merged', leafCount)
    <3>1. \A i \in 0..(leafCount - 1) : Merged'[i] = tree[i]
      BY <2>1, <2>2 DEF Merged, Authentic, LeafAt, Positions
    <3> QED
      BY <3>1, <1>t, SameLinksSorted DEF ListSound, TypeOK
  <2> QED
    BY <1>2, <2>1, <2>2 DEF StartApply, ListSound, WorkingListSound, WitnessKeysKept
<1>3. CASE \E i \in DOMAIN leaves : ApplyUpdate(i)
  <2>1. PICK i \in DOMAIN leaves : ApplyUpdate(i)
    BY <1>3
  <2>2. DOMAIN leaves' = DOMAIN leaves
    BY <2>1 DEF ApplyUpdate
  <2>3. \A j \in DOMAIN leaves : leaves'[j].key = leaves[j].key
                              /\ leaves'[j].next = leaves[j].next
    BY <2>1, <1>t DEF ApplyUpdate, TypeOK, PartialLeaves, Leaf
  <2>4. \A j \in 0..(nextIdx - 1) : Merged'[j].key = Merged[j].key
                                 /\ Merged'[j].next = Merged[j].next
    BY <2>1, <2>2, <2>3 DEF ApplyUpdate, Merged, LeafAt, Positions
  <2>5. Authentic' => Authentic
    BY <2>1 DEF ApplyUpdate, Authentic, LeafAt, Positions
  <2>6. nextIdx' = nextIdx /\ phase = "apply" /\ nextIdx >= 2
    BY <2>1, <1>t DEF ApplyUpdate, Applying, TypeOK
  <2>7. WorkingListSound'
    BY <2>4, <2>5, <2>6, <1>t, SameLinksSorted DEF WorkingListSound, TypeOK
  <2>8. WitnessKeysKept'
    BY <2>1, <2>3, <1>t DEF ApplyUpdate, Applying, WitnessKeysKept, TypeOK
  <2> QED
    BY <2>1, <2>7, <2>8 DEF ApplyUpdate, ListSound
<1>4. CASE \E i \in DOMAIN leaves : ApplyInsert(i)
  <2>1. PICK i \in DOMAIN leaves : ApplyInsert(i)
    BY <1>4
  <2>2. Key \in SlotKeys /\ NewValue \in Values
    BY <2>1, <1>t, CurrentEntry DEF ApplyInsert
  <2>3. phase = "apply" /\ nextIdx \in Nat /\ nextIdx >= 2 /\ nextIdx' = nextIdx + 1
    BY <2>1, <1>t DEF ApplyInsert, Applying, TypeOK
  <2>4. Authentic' => Authentic
    BY <2>1 DEF ApplyInsert, Authentic, LeafAt, Positions
  <2>5. ASSUME Authentic' PROVE SortedList(Merged', nextIdx')
    <3>1. SortedList(Merged, nextIdx)
      BY <2>3, <2>4, <2>5 DEF WorkingListSound
    <3>2. SortedList(InsertAfter(Merged, nextIdx, i, Key, NewValue), nextIdx + 1)
      BY <2>1, <2>2, <2>3, <3>1, <1>t, MergedType, InsertOnMerged, InsertKeepsSorted
    <3> QED
      BY <3>2, <2>1, <2>3, <1>t, InsertOnMerged
  <2>6. WitnessKeysKept'
    <3>1. \A j \in DOMAIN witness : j \in DOMAIN leaves /\ j # nextIdx
      BY <2>3, <1>t DEF TypeOK
    <3>2. \A j \in DOMAIN leaves : j # nextIdx => leaves'[j].key = leaves[j].key
      BY <2>1, <1>t DEF ApplyInsert, Linked, TypeOK, PartialLeaves, Leaf
    <3> QED
      BY <2>1, <2>3, <3>1, <3>2 DEF ApplyInsert, WitnessKeysKept
  <2> QED
    BY <2>1, <2>5, <2>6 DEF ApplyInsert, ListSound, WorkingListSound
<1>5. CASE Commit
  <2>1. /\ phase = "apply" /\ OldRootMatches /\ leafCount' = nextIdx /\ phase' = "idle"
        /\ nextIdx \in Nat /\ nextIdx >= 2
    BY <1>5, <1>t DEF Commit, TypeOK
  <2>2. Authentic /\ \A i \in 0..(nextIdx - 1) : tree'[i] = Merged[i]
    BY <2>1, <1>5, <1>t, RootMatchAuthenticates DEF Commit
  <2>3. SortedList(Merged, nextIdx)
    BY <2>1, <2>2 DEF WorkingListSound
  <2>4. SortedList(tree', nextIdx)
    BY <2>1, <2>2, <2>3, SameLinksSorted
  <2> QED
    BY <2>1, <2>4 DEF ListSound, WorkingListSound, WitnessKeysKept
<1>6. CASE Reject
  BY <1>6 DEF Reject, ListSound, WorkingListSound, WitnessKeysKept
<1>7. CASE UNCHANGED vars
  BY <1>7 DEF vars, batchVars, ListSound, WorkingListSound, WitnessKeysKept,
              Authentic, Merged, LeafAt, Positions
<1> QED
  BY <1>1, <1>2, <1>3, <1>4, <1>5, <1>6, <1>7 DEF Next

\* The committed leaves are always one gap-free sorted list, whatever witnesses
\* the batches were proven with.
THEOREM ListAlwaysSound == Spec => []ListSound
<1>1. Spec => [](ListInv /\ WitnessKeysKept)
  BY InitList, NextList, PTL DEF Spec
<1>2. ListInv /\ WitnessKeysKept => ListSound
  BY DEF ListInv
<1> QED
  BY <1>1, <1>2, PTL

\* Storage proofs accepted against the committed root tell the truth, with any
\* index: one value per present key, no non-existence proof of a present key.
THEOREM ProofsAlwaysSound == Spec => []ProofsSound
<1>1. TypeOK /\ ListSound => ProofsSound
  <2> SUFFICES ASSUME TypeOK, ListSound, NEW key \in SlotKeys
               PROVE  /\ \A i \in ProofIndices, val \in Values :
                           ExistingAccepted(key, i, val)
                             => key \in KeyPresent /\ ValueOf(key) = val
                      /\ \A i, j \in ProofIndices :
                           NonExistingAccepted(key, i, j) => key \notin KeyPresent
    BY DEF ProofsSound
  <2>k. key \in Nat /\ 0 < key /\ key < MaxKey /\ MaxKey \in Nat
    BY KeyAssumption DEF SlotKeys
  <2>p. 0 \in Positions /\ 1 \in Positions
    BY DEF TypeOK, Positions
  <2>t. \A i \in Positions : tree[i].key \in Nat
    BY KeyAssumption DEF TypeOK, Positions, Leaf, Keys
  <2>1. ASSUME NEW i \in ProofIndices, NEW val \in Values, ExistingAccepted(key, i, val)
        PROVE  key \in KeyPresent /\ ValueOf(key) = val
    <3>1. LeafAt(i).key = key /\ LeafAt(i).value = val
      BY <2>1 DEF ExistingAccepted, RecoversRoot
    <3>2. i \in Positions /\ tree[i].key = key /\ tree[i].value = val
      BY <3>1, <2>k DEF LeafAt, EmptyLeaf
    <3>3. \A j \in Positions : tree[j].key = key => j = i
      BY <3>2 DEF ListSound, SortedList, Positions
    <3>4. (CHOOSE j \in Positions : tree[j].key = key) = i
      BY <3>2, <3>3
    <3> QED
      BY <3>2, <3>4 DEF KeyPresent, ValueOf
  <2>2. ASSUME NEW i \in ProofIndices, NEW j \in ProofIndices,
               NonExistingAccepted(key, i, j), key \in KeyPresent
        PROVE  FALSE
    <3>1. LeafAt(i).key < key /\ key < LeafAt(j).key /\ LeafAt(i).next = j
      BY <2>2 DEF NonExistingAccepted
    <3>2. PICK m \in Positions : tree[m].key = key
      BY <2>2 DEF KeyPresent
    <3>3. CASE i \notin Positions
      <4>1. j = 0
        BY <3>1, <3>3 DEF LeafAt, EmptyLeaf
      <4>2. LeafAt(j).key = 0
        BY <4>1, <2>p DEF LeafAt, ListSound, SortedList
      <4> QED
        BY <3>1, <4>2, <2>k
    <3>4. CASE i \in Positions
      <4>1. i # 1 /\ tree[i].key < key /\ tree[i].next = j
        BY <3>1, <3>4, <2>k DEF LeafAt, ListSound, SortedList
      <4>2. j \in Positions /\ tree[j].key <= key
        BY <3>2, <3>4, <4>1 DEF ListSound, SortedList, Positions
      <4> QED
        BY <3>1, <4>2, <2>t, <2>k DEF LeafAt
    <3> QED
      BY <3>3, <3>4
  <2> QED
    BY <2>1, <2>2
<1> QED
  BY <1>1, TypeCorrect, ListAlwaysSound, PTL

\* A nonempty set of naturals has a least element.
LEMMA LeastElement ==
    ASSUME NEW T, T \subseteq Nat, T # {}
    PROVE  \E x \in T : \A y \in T : x <= y
<1> DEFINE R == {ss \in Nat \X Nat : ss[1] < ss[2]}
<1>1. IsWellFoundedOn(R, Nat)
  BY NatLessThanWellFounded DEF OpToRel
<1>2. \E x \in T : \A y \in T : ~ (<<y, x>> \in R)
  <2> HIDE DEF R
  <2> QED
    BY <1>1, WFMin
<1>3. PICK x \in T : \A y \in T : ~ (<<y, x>> \in R)
  BY <1>2
<1>4. ASSUME NEW y \in T PROVE x <= y
  <2>1. x \in Nat /\ y \in Nat
    OBVIOUS
  <2>2. ~ (y < x)
    BY <1>3, <2>1
  <2> QED
    BY <2>1, <2>2
<1> QED
  BY <1>4

\* Every slot has a storage proof the guest accepts: a present key by its leaf, an
\* absent one by the leaf with the largest key below it and that leaf's successor
\* (StorageProof::verify in merkle.rs), so no read of the EVM is unprovable.
THEOREM ProofsAlwaysComplete == Spec => []ProofsComplete
<1>1. TypeOK /\ ListSound => ProofsComplete
  <2> SUFFICES ASSUME TypeOK, ListSound, NEW key \in SlotKeys
               PROVE  /\ key \in KeyPresent =>
                           \E i \in ProofIndices : ExistingAccepted(key, i, ValueOf(key))
                      /\ key \notin KeyPresent =>
                           \E i, j \in ProofIndices : NonExistingAccepted(key, i, j)
    BY DEF ProofsComplete
  <2>k. key \in Nat /\ 0 < key /\ key < MaxKey /\ MaxKey \in Nat
    BY KeyAssumption DEF SlotKeys
  <2>p. 0 \in Positions /\ 1 \in Positions /\ Positions \subseteq ProofIndices
    BY DEF TypeOK, Positions, ProofIndices
  <2>t. \A i \in Positions : tree[i].key \in Nat /\ tree[i] \in Leaf /\ LeafAt(i) = tree[i]
    BY KeyAssumption DEF TypeOK, Positions, Leaf, Keys, LeafAt
  <2>1. ASSUME key \in KeyPresent
        PROVE  \E i \in ProofIndices : ExistingAccepted(key, i, ValueOf(key))
    <3> DEFINE i == CHOOSE i \in Positions : tree[i].key = key
    <3>1. i \in Positions /\ tree[i].key = key
      BY <2>1 DEF KeyPresent
    <3>2. ValueOf(key) = tree[i].value
      BY DEF ValueOf
    <3> HIDE DEF i
    <3>3. tree[i] = [key |-> tree[i].key, value |-> tree[i].value, next |-> tree[i].next]
      BY <2>t, <3>1 DEF Leaf
    <3> QED
      BY <2>p, <2>t, <3>1, <3>2, <3>3 DEF ExistingAccepted, RecoversRoot
  <2>2. ASSUME key \notin KeyPresent
        PROVE  \E i, j \in ProofIndices : NonExistingAccepted(key, i, j)
    <3> DEFINE B == {i \in Positions : tree[i].key < key}
               T == {key - tree[i].key : i \in B}
    <3>1. T \subseteq Nat /\ T # {}
      <4>1. 0 \in B
        BY <2>k, <2>p DEF ListSound, SortedList
      <4>2. ASSUME NEW i \in B PROVE key - tree[i].key \in Nat
        BY <2>k, <2>t
      <4> QED
        BY <4>1, <4>2
    <3>2. PICK x \in T : \A y \in T : x <= y
      <4> HIDE DEF T
      <4> QED
        BY <3>1, LeastElement
    <3>3. PICK i \in B : x = key - tree[i].key
      BY <3>2
    <3>4. ASSUME NEW m \in B PROVE tree[m].key <= tree[i].key
      <4>1. key - tree[i].key <= key - tree[m].key
        BY <3>2, <3>3
      <4> QED
        BY <4>1, <2>k, <2>t
    <3> DEFINE j == tree[i].next
    <3>5. i \in Positions /\ tree[i].key < key /\ i # 1
      BY <2>k, <2>t DEF ListSound, SortedList
    <3>6. j \in Positions /\ tree[i].key < tree[j].key
      BY <3>5 DEF ListSound, SortedList, Positions
    <3>7. tree[j].key # key
      BY <2>2, <3>6 DEF KeyPresent
    <3>8. key < tree[j].key
      <4>1. CASE j \in B
        BY <2>t, <3>4, <3>5, <3>6, <4>1
      <4>2. CASE j \notin B
        BY <2>k, <2>t, <3>6, <3>7, <4>2
      <4> QED
        BY <4>1, <4>2
    <3> QED
      BY <2>p, <2>t, <3>5, <3>6, <3>8 DEF NonExistingAccepted
  <2> QED
    BY <2>1, <2>2
<1> QED
  BY <1>1, TypeCorrect, ListAlwaysSound, PTL

\* A batch never moves or drops a key and only appends leaves.
THEOREM PositionsAlwaysStable == Spec => PositionsStable
<1>1. ListInv /\ WitnessKeysKept /\ [Next]_vars =>
        [leafCount <= leafCount' /\ \A i \in Positions : tree'[i].key = tree[i].key]_vars
  <2> SUFFICES ASSUME ListInv, WitnessKeysKept, Next
               PROVE  leafCount <= leafCount'
                      /\ \A i \in Positions : tree'[i].key = tree[i].key
    OBVIOUS
  <2>t. TypeOK
    BY DEF ListInv
  <2>1. CASE UNCHANGED <<tree, leafCount>>
    BY <2>1, <2>t DEF TypeOK
  <2>2. CASE Commit
    <3>1. phase = "apply" /\ leafCount' = nextIdx /\ OldRootMatches /\ leafCount <= nextIdx
      BY <2>2, <2>t DEF Commit, TypeOK
    <3>2. Authentic /\ \A i \in 0..(nextIdx - 1) : tree'[i] = Merged[i]
      BY <3>1, <2>2, <2>t, RootMatchAuthenticates DEF Commit
    <3>3. \A i \in Positions : Merged[i].key = tree[i].key
      <4> SUFFICES ASSUME NEW i \in Positions PROVE Merged[i].key = tree[i].key
        OBVIOUS
      <4>1. i \in 0..(nextIdx - 1)
        BY <3>1, <2>t DEF Positions, TypeOK
      <4>2. CASE i \in DOMAIN leaves
        <5>1. i \in DOMAIN witness
          BY <4>2, <3>1, <2>t DEF TypeOK, Positions
        <5>2. leaves[i].key = witness[i].key /\ witness[i] = tree[i]
          BY <5>1, <3>1, <3>2 DEF WitnessKeysKept, Authentic, LeafAt
        <5> QED
          BY <4>1, <4>2, <5>2 DEF Merged
      <4>3. CASE i \notin DOMAIN leaves
        BY <4>1, <4>3 DEF Merged, LeafAt
      <4> QED
        BY <4>2, <4>3
    <3> QED
      BY <3>1, <3>2, <3>3, <2>t DEF Positions, TypeOK
  <2> QED
    BY <2>1, <2>2 DEF Next, Execute, CommitNoUpdate, VerifyUpdate, StartApply,
                      ApplyUpdate, ApplyInsert, Reject
<1>2. Spec => [](ListInv /\ WitnessKeysKept)
  BY InitList, NextList, PTL DEF Spec
<1> QED
  BY <1>1, <1>2, PTL DEF Spec, PositionsStable

-----------------------------------------------------------------------------
(* The refinement of KVStore.                                              *)

\* The number of leaves is the number of keys: the count neither skips nor
\* repeats a position.
THEOREM LeafCountAlwaysExact == Spec => []LeafCountExact
<1>1. TypeOK /\ ListSound => LeafCountExact
  <2> SUFFICES ASSUME TypeOK, ListSound PROVE LeafCountExact
    OBVIOUS
  <2> DEFINE f == [i \in Positions |-> tree[i].key]
  <2>1. f \in Surjection(Positions, KeyPresent)
    BY DEF Surjection, KeyPresent
  <2>2. f \in Injection(Positions, KeyPresent)
    BY DEF Injection, IsInjective, KeyPresent, ListSound, SortedList, Positions
  <2>3. IsFiniteSet(Positions) /\ Cardinality(Positions) = leafCount
    BY FS_Interval DEF Positions, TypeOK
  <2>4. Cardinality(KeyPresent) = Cardinality(Positions)
    BY <2>1, <2>2, <2>3, FS_Surjection
  <2> QED
    BY <2>3, <2>4 DEF LeafCountExact
<1> QED
  BY <1>1, TypeCorrect, ListAlwaysSound, PTL

-----------------------------------------------------------------------------
(* The checks of verify_tree_update bind the entries to the write set.     *)

\* The entries are an enumeration of the write set.
EntriesAre(es, w) ==
    /\ \A i \in 1..Len(es) : es[i][1] \in DOMAIN w /\ es[i][2] = w[es[i][1]]
    /\ \A k \in DOMAIN w : \E i \in 1..Len(es) : es[i][1] = k

\* Distinct keys, the same count and matching values make the entries an
\* enumeration of the computed writes: no write is missing.
LEMMA EntriesMatchComplete ==
    ASSUME NEW w \in WriteSets, NEW es \in Seq(SlotKeys \X Values), EntriesMatch(es, w)
    PROVE  EntriesAre(es, w)
<1> DEFINE n == Len(es)
           f == [i \in 1..n |-> es[i][1]]
<1>1. n \in Nat /\ n = Cardinality(DOMAIN w)
  BY DEF EntriesMatch
<1>2. PICK K \in SUBSET SlotKeys : w \in [K -> Values]
  BY DEF WriteSets
<1>3. IsFiniteSet(DOMAIN w)
  <2>1. IsFiniteSet(SlotKeys)
    BY FS_Interval, KeyAssumption DEF SlotKeys
  <2>2. DOMAIN w \in SUBSET SlotKeys
    BY <1>2
  <2> QED
    BY <2>1, <2>2, FS_Subset
<1>4. f \in Injection(1..n, DOMAIN w)
  BY DEF Injection, IsInjective, EntriesMatch
<1>5. Cardinality(1..n) = n
  BY <1>1, FS_Interval
<1>6. f \in Surjection(1..n, DOMAIN w)
  BY <1>1, <1>3, <1>4, <1>5, FS_Injection
<1>7. \A k \in DOMAIN w : \E i \in 1..n : es[i][1] = k
  BY <1>6 DEF Surjection
<1> QED
  BY <1>7 DEF EntriesAre, EntriesMatch

-----------------------------------------------------------------------------
(* The invariant that carries the values.                                  *)

DoneKeys == {entries[i][1] : i \in 1..done}

WritesBound ==
    /\ phase = "idle" => writes = << >>
    /\ phase \in {"verified", "apply"} => EntriesAre(entries, writes)
    /\ phase # "idle" => writes \in WriteSets

\* Half way through a batch, the tree under construction holds the written value
\* for every key done, and the committed leaf's value for every other.
ValuesInv ==
    (phase = "apply" /\ Authentic) =>
      /\ \A i \in 0..(nextIdx - 1) :
           IF Merged[i].key \in DoneKeys
           THEN Merged[i].value = writes[Merged[i].key]
           ELSE i \in Positions /\ Merged[i].value = tree[i].value
      /\ \A k \in DoneKeys : \E i \in 0..(nextIdx - 1) : Merged[i].key = k

RefInv == ListInv /\ WitnessKeysKept /\ WritesBound /\ ValuesInv

\* The initial state satisfies the invariant of the refinement.
LEMMA InitRef == Init => RefInv
BY InitList DEF Init, NoBatch, RefInv, WritesBound, ValuesInv

\* The entries being applied stay an enumeration of the computed writes.
LEMMA NextWritesBound == TypeOK /\ WritesBound /\ [Next]_vars => WritesBound'
<1> SUFFICES ASSUME TypeOK, WritesBound, [Next]_vars PROVE WritesBound'
  OBVIOUS
<1>1. CASE Execute
  BY <1>1 DEF Execute, WritesBound
<1>2. CASE CommitNoUpdate \/ Commit \/ Reject
  BY <1>2 DEF CommitNoUpdate, Commit, Reject, WritesBound
<1>3. CASE VerifyUpdate
  <2>1. PICK es \in EntryLists : /\ EntriesMatch(es, writes)
                                 /\ \E ops \in 0..Len(es) :
                                      /\ EveryEntryHasAnOperation(ops, es)
                                      /\ entries' = SubSeq(es, 1, ops)
    BY <1>3 DEF VerifyUpdate
  <2>2. es \in Seq(SlotKeys \X Values)
    <3>1. PICK k \in 0..MaxWrites : es \in [1..k -> SlotKeys \X Values]
      BY DEF EntryLists
    <3>2. k \in Nat
      BY BoundAssumption
    <3> QED
      BY <3>1, <3>2, SeqDef
  <2>3. entries' = es
    BY <2>1, <2>2 DEF EveryEntryHasAnOperation
  <2>4. writes \in WriteSets /\ writes' = writes /\ phase' = "verified"
    BY <1>3 DEF VerifyUpdate, WritesBound
  <2>5. EntriesAre(es, writes)
    BY <2>1, <2>2, <2>4, EntriesMatchComplete
  <2> QED
    BY <2>3, <2>4, <2>5 DEF WritesBound
<1>4. CASE StartApply \/ \E i \in DOMAIN leaves : ApplyUpdate(i) \/ ApplyInsert(i)
  BY <1>4 DEF StartApply, ApplyUpdate, ApplyInsert, Applying, WritesBound
<1>5. CASE UNCHANGED vars
  BY <1>5 DEF vars, batchVars, WritesBound
<1> QED
  BY <1>1, <1>2, <1>3, <1>4, <1>5 DEF Next

\* One more operation: its key joins the keys done, with the written value.
LEMMA NextDone ==
    ASSUME TypeOK, WritesBound, Applying, done' = done + 1, entries' = entries
    PROVE  /\ DoneKeys' = DoneKeys \cup {Key}
           /\ Key \in DOMAIN writes /\ NewValue = writes[Key]
<1>1. 1..(done + 1) = (1..done) \cup {done + 1}
  BY DEF TypeOK
<1>2. DoneKeys' = DoneKeys \cup {Key}
  BY <1>1 DEF DoneKeys, Key
<1>3. done + 1 \in 1..Len(entries) /\ EntriesAre(entries, writes)
  BY DEF Applying, TypeOK, WritesBound
<1> QED
  BY <1>2, <1>3 DEF EntriesAre, Key, NewValue

\* Every step keeps the values of the tree under construction: the written
\* value for the keys already done, the committed value for the others.
LEMMA NextValues ==
    ASSUME RefInv, [Next]_vars, ListInv'
    PROVE  ValuesInv'
<1>t. TypeOK /\ TypeOK'
  BY DEF RefInv, ListInv
<1> USE DEF RefInv
<1>1. CASE Execute \/ CommitNoUpdate \/ VerifyUpdate \/ Commit \/ Reject
  BY <1>1 DEF Execute, CommitNoUpdate, VerifyUpdate, Commit, Reject, ValuesInv
<1>2. CASE StartApply
  <2>1. witness' = leaves' /\ nextIdx' = leafCount /\ leafCount' = leafCount
        /\ tree' = tree /\ done' = 0
    BY <1>2, <1>t DEF StartApply, TypeOK
  <2>2. ASSUME Authentic' PROVE \A i \in Positions : Merged'[i] = tree[i]
    BY <2>1, <2>2 DEF Merged, Authentic, LeafAt, Positions
  <2>3. DoneKeys' = {}
    BY <2>1 DEF DoneKeys
  <2> QED
    BY <2>1, <2>2, <2>3 DEF ValuesInv, Positions
<1>3. CASE \E i \in DOMAIN leaves : ApplyUpdate(i)
  <2>1. PICK i \in DOMAIN leaves : ApplyUpdate(i)
    BY <1>3
  <2> SUFFICES ASSUME Authentic'
               PROVE  /\ \A j \in 0..(nextIdx - 1) :
                           IF Merged'[j].key \in DoneKeys'
                           THEN Merged'[j].value = writes[Merged'[j].key]
                           ELSE j \in Positions /\ Merged'[j].value = tree[j].value
                      /\ \A k \in DoneKeys' : \E j \in 0..(nextIdx - 1) : Merged'[j].key = k
    BY <2>1 DEF ApplyUpdate, ValuesInv, Positions
  <2>2. Authentic /\ phase = "apply"
    BY <2>1 DEF ApplyUpdate, Applying, Authentic, LeafAt, Positions
  <2>3. /\ DoneKeys' = DoneKeys \cup {Key}
        /\ Key \in DOMAIN writes /\ NewValue = writes[Key]
    BY <2>1, <1>t, NextDone DEF ApplyUpdate
  <2>4. i \in 0..(nextIdx - 1) /\ Merged[i] = leaves[i] /\ Merged[i].key = Key
    BY <2>1, <2>2, <1>t DEF ApplyUpdate, TypeOK, Merged
  <2>5. Merged'[i].key = Key /\ Merged'[i].value = NewValue
    BY <2>1, <2>4, <1>t DEF ApplyUpdate, TypeOK, Merged, PartialLeaves, Leaf
  <2>6. \A j \in 0..(nextIdx - 1) : j # i => Merged'[j] = Merged[j]
    BY <2>1, <1>t DEF ApplyUpdate, TypeOK, Merged, LeafAt, Positions, PartialLeaves
  <2>7. \A j \in 0..(nextIdx - 1) : j # i => Merged[j].key # Key
    <3>1. SortedList(Merged, nextIdx)
      BY <2>2 DEF ListInv, WorkingListSound
    <3> QED
      BY <3>1, <2>4 DEF SortedList
  <2>8. \A j \in 0..(nextIdx - 1) :
           IF Merged'[j].key \in DoneKeys'
           THEN Merged'[j].value = writes[Merged'[j].key]
           ELSE j \in Positions /\ Merged'[j].value = tree[j].value
    <3> TAKE j \in 0..(nextIdx - 1)
    <3>1. CASE j = i
      BY <3>1, <2>3, <2>5
    <3>2. CASE j # i
      BY <3>2, <2>2, <2>3, <2>6, <2>7 DEF ValuesInv
    <3> QED
      BY <3>1, <3>2
  <2>9. ASSUME NEW k \in DoneKeys' PROVE \E j \in 0..(nextIdx - 1) : Merged'[j].key = k
    <3>1. CASE k = Key
      BY <3>1, <2>4, <2>5
    <3>2. CASE k \in DoneKeys
      <4>1. PICK j \in 0..(nextIdx - 1) : Merged[j].key = k
        BY <3>2, <2>2 DEF ValuesInv
      <4> QED
        BY <4>1, <2>4, <2>5, <2>6
    <3> QED
      BY <3>1, <3>2, <2>3
  <2> QED
    BY <2>8, <2>9
<1>4. CASE \E i \in DOMAIN leaves : ApplyInsert(i)
  <2>1. PICK i \in DOMAIN leaves : ApplyInsert(i)
    BY <1>4
  <2>n. nextIdx' = nextIdx + 1 /\ nextIdx \in Nat /\ nextIdx >= 2 /\ tree' = tree
        /\ leafCount' = leafCount /\ writes' = writes /\ phase = "apply" /\ phase' = "apply"
    BY <2>1, <1>t DEF ApplyInsert, Applying, TypeOK
  <2>m. Merged' = InsertAfter(Merged, nextIdx, i, Key, NewValue) /\ i \in 0..(nextIdx - 1)
    BY <2>1, <1>t, InsertOnMerged
  <2> SUFFICES ASSUME Authentic'
               PROVE  /\ \A j \in 0..nextIdx :
                           IF Merged'[j].key \in DoneKeys'
                           THEN Merged'[j].value = writes[Merged'[j].key]
                           ELSE j \in Positions /\ Merged'[j].value = tree[j].value
                      /\ \A k \in DoneKeys' : \E j \in 0..nextIdx : Merged'[j].key = k
    BY <2>n DEF ValuesInv, Positions
  <2>2. Authentic
    BY <2>1 DEF ApplyInsert, Authentic, LeafAt, Positions
  <2>3. /\ DoneKeys' = DoneKeys \cup {Key}
        /\ Key \in DOMAIN writes /\ NewValue = writes[Key]
    BY <2>1, <1>t, NextDone DEF ApplyInsert
  <2>4. Merged'[nextIdx].key = Key /\ Merged'[nextIdx].value = NewValue
    BY <2>m, <2>n DEF InsertAfter
  <2>5. \A j \in 0..(nextIdx - 1) : Merged'[j].key = Merged[j].key
                                 /\ Merged'[j].value = Merged[j].value
    <3>1. \A j \in 0..(nextIdx - 1) : Merged[j] \in Leaf
      BY <1>t, <2>n, MergedType
    <3> QED
      BY <2>m, <2>n, <3>1 DEF InsertAfter, Leaf
  <2>6. \A j \in 0..(nextIdx - 1) : Merged[j].key # Key
    <3>1. SortedList(Merged', nextIdx')
      BY <2>n DEF ListInv, WorkingListSound
    <3>2. \A j \in 0..(nextIdx - 1) : Merged'[j].key # Merged'[nextIdx].key
      BY <3>1, <2>n DEF SortedList
    <3> QED
      BY <3>2, <2>4, <2>5
  <2>7. ASSUME NEW j \in 0..nextIdx
        PROVE  IF Merged'[j].key \in DoneKeys'
               THEN Merged'[j].value = writes[Merged'[j].key]
               ELSE j \in Positions /\ Merged'[j].value = tree[j].value
    <3>1. CASE j = nextIdx
      BY <3>1, <2>3, <2>4
    <3>2. CASE j \in 0..(nextIdx - 1)
      BY <3>2, <2>2, <2>n, <2>3, <2>5, <2>6 DEF ValuesInv
    <3> QED
      BY <3>1, <3>2, <2>n
  <2>8. ASSUME NEW k \in DoneKeys' PROVE \E j \in 0..nextIdx : Merged'[j].key = k
    <3>1. CASE k = Key
      BY <3>1, <2>4, <2>n
    <3>2. CASE k \in DoneKeys
      <4>1. PICK j \in 0..(nextIdx - 1) : Merged[j].key = k
        BY <3>2, <2>2, <2>n DEF ValuesInv
      <4> QED
        BY <4>1, <2>5, <2>n
    <3> QED
      BY <3>1, <3>2, <2>3
  <2> QED
    BY <2>7, <2>8
<1>5. CASE UNCHANGED vars
  BY <1>5 DEF vars, batchVars, ValuesInv, Authentic, Merged, LeafAt, Positions, DoneKeys
<1> QED
  BY <1>1, <1>2, <1>3, <1>4, <1>5 DEF Next

\* Every step keeps the invariant of the refinement.
LEMMA NextRef == RefInv /\ [Next]_vars => RefInv'
<1> SUFFICES ASSUME RefInv, [Next]_vars PROVE RefInv'
  OBVIOUS
<1>1. (ListInv /\ WitnessKeysKept)'
  BY NextList DEF RefInv
<1>2. WritesBound'
  BY NextWritesBound DEF RefInv, ListInv
<1>3. ValuesInv'
  BY <1>1, NextValues
<1> QED
  BY <1>1, <1>2, <1>3 DEF RefInv

-----------------------------------------------------------------------------
(* The steps of LinkedTree seen as steps of KVStore.                       *)

\* In a sorted list, the value of a key is the value of its one leaf.
LEMMA ValueOfLeaf ==
    ASSUME ListSound, NEW i \in Positions
    PROVE  tree[i].key \in KeyPresent /\ ValueOf(tree[i].key) = tree[i].value
<1>1. \A j \in Positions : tree[j].key = tree[i].key => j = i
  BY DEF ListSound, SortedList, Positions
<1>2. (CHOOSE j \in Positions : tree[j].key = tree[i].key) = i
  BY <1>1
<1> QED
  BY <1>2 DEF KeyPresent, ValueOf

\* The commit of a batch overrides the map with the computed write set.
LEMMA CommitProves ==
    ASSUME RefInv, RefInv', Commit
    PROVE  Map' = Abstract!Override(Map, writes)
<1> USE DEF RefInv
<1>t. TypeOK /\ ListSound /\ ListSound'
  BY DEF ListInv
<1>1. /\ phase = "apply" /\ leafCount' = nextIdx /\ OldRootMatches
      /\ leafCount <= nextIdx /\ done = Len(entries)
  BY <1>t DEF Commit, TypeOK
<1>2. Authentic /\ \A i \in 0..(nextIdx - 1) : tree'[i] = Merged[i]
  BY <1>1, <1>t, RootMatchAuthenticates DEF Commit
<1>3. DoneKeys = DOMAIN writes
  <2>1. EntriesAre(entries, writes)
    BY <1>1 DEF WritesBound
  <2>2. DoneKeys = {entries[i][1] : i \in 1..Len(entries)}
    BY <1>1 DEF DoneKeys
  <2> QED
    BY <2>1, <2>2 DEF EntriesAre
<1>4. Positions' = 0..(nextIdx - 1) /\ Positions \subseteq Positions'
  BY <1>1, <1>t DEF Positions, TypeOK
<1>5. \A i \in Positions : tree'[i].key = tree[i].key
  <2> SUFFICES ASSUME NEW i \in Positions PROVE Merged[i].key = tree[i].key
    BY <1>2, <1>4
  <2>1. CASE i \in DOMAIN leaves
    <3>1. i \in DOMAIN witness
      BY <2>1, <1>1, <1>t DEF TypeOK, Positions
    <3>2. leaves[i].key = witness[i].key /\ witness[i] = tree[i]
      BY <3>1, <1>1, <1>2 DEF WitnessKeysKept, Authentic, LeafAt
    <3> QED
      BY <2>1, <3>2, <1>4 DEF Merged
  <2>2. CASE i \notin DOMAIN leaves
    BY <2>2, <1>4 DEF Merged, LeafAt
  <2> QED
    BY <2>1, <2>2
<1>6. ASSUME NEW i \in Positions'
      PROVE  IF tree'[i].key \in DOMAIN writes
             THEN tree'[i].value = writes[tree'[i].key]
             ELSE i \in Positions /\ tree'[i].value = tree[i].value
  BY <1>1, <1>2, <1>3, <1>4, <1>6 DEF ValuesInv
<1>7. ASSUME NEW k, NEW i \in Positions', tree'[i].key = k
      PROVE  ValueOf(k)' = tree'[i].value
  <2>1. \A j \in Positions' : tree'[j].key = k => j = i
    BY <1>7, <1>t DEF ListSound, SortedList, Positions
  <2>2. (CHOOSE j \in Positions' : tree'[j].key = k) = i
    BY <1>7, <2>1
  <2> QED
    BY <2>2 DEF ValueOf
<1>8. KeyPresent' = KeyPresent \cup DOMAIN writes
  <2>1. ASSUME NEW k \in KeyPresent' PROVE k \in KeyPresent \cup DOMAIN writes
    <3>1. PICK i \in Positions' : tree'[i].key = k
      BY <2>1 DEF KeyPresent
    <3> QED
      BY <3>1, <1>5, <1>6 DEF KeyPresent
  <2>2. KeyPresent \subseteq KeyPresent'
    BY <1>4, <1>5 DEF KeyPresent
  <2>3. ASSUME NEW k \in DOMAIN writes PROVE k \in KeyPresent'
    <3>1. PICK i \in 0..(nextIdx - 1) : Merged[i].key = k
      BY <2>3, <1>1, <1>2, <1>3 DEF ValuesInv
    <3> QED
      BY <3>1, <1>2, <1>4 DEF KeyPresent
  <2> QED
    BY <2>1, <2>2, <2>3
<1>9. ASSUME NEW k \in KeyPresent'
      PROVE  ValueOf(k)' = IF k \in DOMAIN writes THEN writes[k] ELSE Map[k]
  <2>1. PICK i \in Positions' : tree'[i].key = k
    BY <1>9 DEF KeyPresent
  <2>2. ValueOf(k)' = tree'[i].value
    BY <2>1, <1>7
  <2>3. CASE k \in DOMAIN writes
    BY <2>1, <2>2, <2>3, <1>6
  <2>4. CASE k \notin DOMAIN writes
    <3>1. i \in Positions /\ tree'[i].value = tree[i].value /\ tree[i].key = k
      BY <2>1, <2>4, <1>5, <1>6
    <3>2. k \in KeyPresent /\ ValueOf(k) = tree[i].value
      BY <3>1, <1>t, ValueOfLeaf
    <3> QED
      BY <2>2, <2>4, <3>1, <3>2 DEF Map
  <2> QED
    BY <2>3, <2>4
<1> QED
  BY <1>8, <1>9 DEF Map, Abstract!Override

\* The tree of the two guards is the empty map.
LEMMA InitMap == Init => Abstract!Init
<1> SUFFICES ASSUME Init PROVE Map = GuardMap
  BY DEF Init, NoBatch, Abstract!Init
<1>1. Positions = {0, 1} /\ tree[0] = MinGuard /\ tree[1] = MaxGuard
  BY DEF Init, Positions
<1>2. KeyPresent = {0, MaxKey}
  BY <1>1 DEF KeyPresent, MinGuard, MaxGuard
<1>3. \A k \in KeyPresent : ValueOf(k) = ZeroValue
  <2> TAKE k \in KeyPresent
  <2>1. \E i \in Positions : tree[i].key = k
    BY DEF KeyPresent
  <2>2. \A i \in Positions : tree[i].value = ZeroValue
    BY <1>1 DEF MinGuard, MaxGuard
  <2> QED
    BY <2>1, <2>2 DEF ValueOf
<1> QED
  BY <1>2, <1>3 DEF Map, GuardMap

\* Every step of the tree is a step of the map, or changes nothing of it.
LEMMA StepMaps ==
    ASSUME RefInv, RefInv', [Next]_vars
    PROVE  [Abstract!Execute \/ Abstract!Prove \/ Abstract!Abort]_<<Map, writes>>
<1>1. CASE Execute
  <2>1. Map' = Map /\ writes = << >> /\ writes' \in WriteSets
    BY <1>1 DEF Execute, Map, KeyPresent, ValueOf, Positions, RefInv, WritesBound
  <2> QED
    BY <2>1 DEF Abstract!Execute, Abstract!WriteSets, WriteSets
<1>2. CASE Commit
  BY <1>2, CommitProves DEF Commit, Abstract!Prove
<1>3. CASE Reject
  BY <1>3 DEF Reject, Abstract!Abort, Map, KeyPresent, ValueOf, Positions
<1>4. CASE CommitNoUpdate \/ VerifyUpdate \/ StartApply \/ UNCHANGED vars
           \/ \E i \in DOMAIN leaves : ApplyUpdate(i) \/ ApplyInsert(i)
  <2>1. tree' = tree /\ leafCount' = leafCount /\ writes' = writes
    BY <1>4 DEF CommitNoUpdate, NoUpdateNeeded, VerifyUpdate, StartApply, ApplyUpdate,
                ApplyInsert, vars, batchVars
  <2> QED
    BY <2>1 DEF Map, KeyPresent, ValueOf, Positions
<1> QED
  BY <1>1, <1>2, <1>3, <1>4 DEF Next

\* Every behaviour of the tree under untrusted witnesses is a behaviour of the
\* map: a batch is applied exactly, or not at all.
THEOREM Implements == Spec => RefinesKVStore
<1>1. Spec => []RefInv
  BY InitRef, NextRef, PTL DEF Spec
<1>2. RefInv /\ RefInv' /\ [Next]_vars
        => [Abstract!Execute \/ Abstract!Prove \/ Abstract!Abort]_<<Map, writes>>
  BY StepMaps
<1> QED
  BY <1>1, <1>2, InitMap, PTL DEF Spec, RefinesKVStore, Abstract!Spec
=============================================================================

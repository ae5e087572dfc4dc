------------------------ MODULE WitnessStreamProofs ------------------------
(***************************************************************************)
(* The streaming reader implements the collecting path, and execution only   *)
(* reads the committed pre-state, for inputs of any size and with any        *)
(* number of faults.                                                         *)
(***************************************************************************)
EXTENDS WitnessStream, WellFoundedInduction, TLAPS

\* The shape of an input, and the one thing hashing gives: a proof that
\* recovers the pinned root has the committed value.
BlockRec == [proofs : Seq(Proof), preimages : Seq(Accounts \X Preimages),
             expected : {Zero, Pinned, Other}]
InputOK ==
    /\ Blocks \in Seq(BlockRec)
    /\ \A k \in Keys : pre[k] \in LeafValues(k)
    /\ \A b \in 1..Len(Blocks) : \A j \in 1..Len(Blocks[b].proofs) :
          Honest(Blocks[b].proofs[j])
            => Blocks[b].proofs[j].value = pre[Blocks[b].proofs[j].key]

\* Where the reader is.
Cursor ==
    /\ pc \in {"version", "blocks", "proofs", "roots", "build", "done"}
    /\ block \in 1..(Len(Blocks) + 1)
    /\ proof \in Nat \ {0}
    /\ pc = "version" => block = 1
    /\ pc = "proofs" => block <= Len(Blocks) /\ proof <= Len(Blocks[block].proofs) + 1
    /\ pc \in {"roots", "build"} => block = Len(Blocks) + 1 /\ input.complete
    /\ pc \in {"blocks", "proofs", "roots", "build"} => input.supported

\* r is the one root the first n proofs of block b recover, if there are any.
RootOf(b, n, r) ==
    /\ r \in {NoRoot, Pinned, Other}
    /\ (r = NoRoot) <=> (n = 0)
    /\ \A j \in 1..n : Blocks[b].proofs[j].ok /\ Blocks[b].proofs[j].root = r

Roots ==
    /\ recovered \in Seq({NoRoot, Pinned, Other})
    /\ Len(recovered) = block - 1
    /\ \A b \in 1..(block - 1) : RootOf(b, Len(Blocks[b].proofs), recovered[b])
    /\ pc = "proofs" => RootOf(block, proof - 1, current)
    /\ pc = "build" => \A b \in 1..(block - 1) : recovered[b] \in {NoRoot, Pinned}

\* Proof j of block b has been read.
Read(b, j) ==
    /\ b \in 1..Len(Blocks)
    /\ j \in 1..Len(Blocks[b].proofs)
    /\ b < block \/ (b = block /\ pc = "proofs" /\ j < proof)

KeyAt(b, j) == Blocks[b].proofs[j].key

\* Every key is held with the value of the first proof read for it.
Values ==
    /\ storage = [k \in DOMAIN storage |-> storage[k]]
    /\ \A b, j \in Nat : Read(b, j) => KeyAt(b, j) \in DOMAIN storage
    /\ \A k \in DOMAIN storage : \E b, j \in Nat :
          /\ Read(b, j) /\ KeyAt(b, j) = k /\ storage[k] = Blocks[b].proofs[j].value
          /\ \A c, m \in Nat : Read(c, m) /\ KeyAt(c, m) = k => b < c \/ (b = c /\ j <= m)

\* A database that is handed over holds committed values only.
Authentic ==
    outcome # Refused =>
        \A k \in ProvenKeys(Blocks) : verified_storage(Blocks)[k] = pre[k]

StreamInv ==
    /\ InputOK
    /\ Cursor
    /\ pc # "done" => Roots /\ Values /\ DOMAIN storage \subseteq Keys /\ outcome = Pending
    /\ pc = "done" => outcome = build_proven_db(input) /\ Authentic

-----------------------------------------------------------------------------
\* The blocks of an input and their proofs have their types.
LEMMA BlockTyped ==
    ASSUME InputOK, NEW b \in 1..Len(Blocks)
    PROVE  /\ Blocks[b].proofs \in Seq(Proof)
           /\ Blocks[b].preimages \in Seq(Accounts \X Preimages)
           /\ Len(Blocks[b].proofs) \in Nat
<1>1. Blocks[b] \in BlockRec
  BY DEF InputOK
<1> QED
  BY <1>1 DEF BlockRec

\* The initial states satisfy the invariant.
LEMMA InitStream == Init => StreamInv
<1> SUFFICES ASSUME Init PROVE StreamInv
  OBVIOUS
<1>1. InputOK
  <2>1. PICK n \in 0..MaxBlocks : Blocks \in [1..n -> BlockInputs]
    BY DEF Init, ChooseInput, AtMost, Blocks
  <2>3. n \in Nat /\ Len(Blocks) = n
    BY <2>1, StreamBounds
  <2>4. \A p \in AllProofs : p \in Proof /\ (Honest(p) => p.value = pre[p.key])
    BY DEF AllProofs
  <2>5. \A s \in AtMost(MaxProofs, AllProofs) :
           s \in Seq(Proof) /\ \A j \in 1..Len(s) : s[j] \in AllProofs
    BY <2>4, StreamBounds DEF AtMost
  <2>6. \A s \in AtMost(1, Accounts \X Preimages) : s \in Seq(Accounts \X Preimages)
    BY DEF AtMost
  <2>7. \A b \in BlockInputs : b \in BlockRec
    BY <2>5, <2>6, RootsAssumption DEF BlockInputs, BlockRec
  <2>8. Blocks \in Seq(BlockRec)
    BY <2>1, <2>3, <2>7
  <2>9. \A k \in Keys : pre[k] \in LeafValues(k)
    BY DEF Init
  <2>10. \A b \in 1..Len(Blocks) : Blocks[b].proofs \in AtMost(MaxProofs, AllProofs)
    BY <2>1, <2>3 DEF BlockInputs
  <2> QED
    BY <2>4, <2>5, <2>8, <2>9, <2>10 DEF InputOK
<1>2. Cursor
  BY <1>1 DEF Init, Cursor, InputOK
<1>3. Roots /\ Values /\ DOMAIN storage \subseteq Keys /\ outcome = Pending /\ pc # "done"
  BY <1>1 DEF Init, Roots, Values, Read, InputOK
<1> QED
  BY <1>1, <1>2, <1>3 DEF StreamInv

-----------------------------------------------------------------------------
(* What the reader refuses, the collecting path refuses.                    *)

\* A step that refuses ends with the collecting path's refusal.
LEMMA RefusalIsFinal ==
    ASSUME StreamInv, Refuse, ~Accepts(input)
    PROVE  StreamInv'
<1>1. InputOK'
  BY DEF StreamInv, InputOK, Refuse, Blocks
<1>2. Cursor'
  BY DEF StreamInv, Cursor, Refuse, Blocks
<1>3. outcome' = build_proven_db(input') /\ Authentic'
  BY DEF Refuse, build_proven_db, Authentic
<1> QED
  BY <1>1, <1>2, <1>3 DEF StreamInv, Refuse

\* A proof that fails, or disagrees with the block's root so far, makes the
\* collecting path refuse: two roots are not both the pinned one.
LEMMA BadProofRefused ==
    ASSUME StreamInv, pc = "proofs", proof <= Len(Blocks[block].proofs),
           ~(Blocks[block].proofs[proof].ok
             /\ SameRoot(current, Blocks[block].proofs[proof].root))
    PROVE  ~Accepts(input)
<1> DEFINE ps == Blocks[block].proofs
<1>1. block \in 1..Len(Blocks) /\ proof \in 1..Len(ps) /\ ps \in Seq(Proof)
  <2>1. block \in 1..Len(Blocks) /\ InputOK
    BY DEF StreamInv, Cursor, InputOK
  <2>2. ps \in Seq(Proof)
    BY <2>1, BlockTyped
  <2> QED
    BY <2>1, <2>2 DEF StreamInv, Cursor
<1>2. RootOf(block, proof - 1, current)
  BY DEF StreamInv, Roots
<1>3. CASE ~ps[proof].ok
  BY <1>1, <1>3 DEF Accepts, ProofsOk, Blocks
<1>4. CASE ps[proof].ok /\ current # NoRoot /\ current # ps[proof].root
  <2>1. 1 \in 1..(proof - 1) /\ 1 \in 1..Len(ps)
    BY <1>1, <1>2, <1>4 DEF RootOf
  <2>2. ps[1].root # ps[proof].root
    BY <1>2, <1>4, <2>1 DEF RootOf
  <2> QED
    BY <1>1, <2>1, <2>2 DEF Accepts, ProofsOk, Blocks, expected_root_for_block
<1> QED
  BY <1>1, <1>3, <1>4 DEF SameRoot

\* A recovered root other than the pinned one is the root of a proof the
\* collecting path refuses.
LEMMA BadRootRefused ==
    ASSUME StreamInv, pc = "roots", ~RootsExpected(recovered)
    PROVE  ~Accepts(input)
<1>1. PICK b \in 1..Len(Blocks) : recovered[b] # NoRoot /\ recovered[b] # Pinned
  BY DEF StreamInv, Cursor, Roots, InputOK, RootsExpected, RootExpected, expected_root_for_block
<1>2. RootOf(b, Len(Blocks[b].proofs), recovered[b])
  BY <1>1 DEF StreamInv, Cursor, Roots, InputOK
<1>3. Blocks[b].proofs \in Seq(Proof)
  BY BlockTyped DEF StreamInv
<1>4. 1 \in 1..Len(Blocks[b].proofs) /\ Blocks[b].proofs[1].root = recovered[b]
  BY <1>1, <1>2, <1>3 DEF RootOf
<1> QED
  BY <1>1, <1>3, <1>4 DEF Accepts, ProofsOk, Blocks, expected_root_for_block, StreamInv, InputOK

-----------------------------------------------------------------------------
(* What the reader holds after the last proof is what the collecting path   *)
(* computes.                                                                 *)

\* A position before all others of a set is its first.
LEMMA FirstIsLeast ==
    ASSUME NEW S \in SUBSET (Nat \X Nat), NEW x \in S, \A y \in S \ {x} : Before(x, y)
    PROVE  First(S) = x
<1> DEFINE z == First(S)
<1>1. z \in S /\ \A y \in S \ {z} : Before(z, y)
  BY DEF First
<1> SUFFICES ASSUME z # x PROVE FALSE
  OBVIOUS
<1>2. Before(x, z) /\ Before(z, x)
  BY <1>1
<1> QED
  BY <1>1, <1>2 DEF Before

\* The values read are those of the first proof of each key.
LEMMA StorageIsVerified ==
    ASSUME StreamInv, pc = "build"
    PROVE  storage = verified_storage(Blocks)
<1> USE DEF StreamInv
<1>1. block = Len(Blocks) + 1 /\ Blocks \in Seq(BlockRec) /\ DOMAIN storage \subseteq Keys
  BY DEF Cursor, InputOK
<1>2. \A b \in 1..Len(Blocks) : Blocks[b].proofs \in Seq(Proof)
  BY BlockTyped
<1>3. \A k \in Keys : \A x : x \in ProofsOf(Blocks, k) <=>
          \E b, j \in Nat : x = <<b, j>> /\ Read(b, j) /\ KeyAt(b, j) = k
  BY <1>1, <1>2, SMTT(30) DEF ProofsOf, Read, KeyAt
<1>4. DOMAIN storage = ProvenKeys(Blocks)
  <2>1. ASSUME NEW k \in DOMAIN storage PROVE k \in ProvenKeys(Blocks)
    BY <1>1, <1>3, <2>1 DEF Values, ProvenKeys
  <2>2. ASSUME NEW k \in ProvenKeys(Blocks) PROVE k \in DOMAIN storage
    BY <1>3, <2>2 DEF Values, ProvenKeys
  <2> QED
    BY <2>1, <2>2
<1>5. ASSUME NEW k \in DOMAIN storage PROVE storage[k] = FirstValue(Blocks, k)
  <2>1. PICK b, j \in Nat :
            /\ Read(b, j) /\ KeyAt(b, j) = k /\ storage[k] = Blocks[b].proofs[j].value
            /\ \A c, m \in Nat : Read(c, m) /\ KeyAt(c, m) = k => b < c \/ (b = c /\ j <= m)
    BY DEF Values
  <2> DEFINE S == ProofsOf(Blocks, k)
             x == <<b, j>>
  <2>2. k \in Keys
    BY <1>1
  <2>3. S \subseteq Nat \X Nat /\ x \in S
    BY <1>3, <2>1, <2>2
  <2>4. ASSUME NEW y \in S \ {x} PROVE Before(x, y)
    <3>1. PICK c, m \in Nat : y = <<c, m>> /\ Read(c, m) /\ KeyAt(c, m) = k
      BY <1>3, <2>2
    <3>2. b < c \/ (b = c /\ j <= m)
      BY <2>1, <3>1
    <3> QED
      BY <3>1, <3>2 DEF Before
  <2>5. First(S) = x
    <3> HIDE DEF S, x
    <3> QED BY <2>3, <2>4, FirstIsLeast
  <2> QED
    BY <2>1, <2>5 DEF FirstValue
<1> QED
  BY <1>4, <1>5 DEF verified_storage, Values

-----------------------------------------------------------------------------
(* Every step keeps the invariant. *)

\* Reading one proof extends the values and the block's root.
LEMMA ReadProofKeeps ==
    ASSUME StreamInv, ReadProof
    PROVE  StreamInv'
<1> DEFINE p == Blocks[block].proofs[proof]
<1>1. CASE ~(p.ok /\ SameRoot(current, p.root))
  BY <1>1, BadProofRefused, RefusalIsFinal, SMTT(30) DEF ReadProof
<1>2. CASE p.ok /\ SameRoot(current, p.root)
  <2>1. /\ pc = "proofs" /\ proof <= Len(Blocks[block].proofs)
        /\ current' = p.root /\ proof' = proof + 1
        /\ storage' = IF p.key \in DOMAIN storage THEN storage
                      ELSE [k \in DOMAIN storage \cup {p.key} |->
                              IF k = p.key THEN p.value ELSE storage[k]]
        /\ UNCHANGED <<pre, input, pc, block, recovered, outcome>>
    BY <1>2 DEF ReadProof
  <2>2. InputOK /\ Cursor /\ Roots /\ Values /\ DOMAIN storage \subseteq Keys /\ outcome = Pending
    BY <2>1 DEF StreamInv
  <2>3. block \in 1..Len(Blocks) /\ Blocks[block].proofs \in Seq(Proof)
    BY <2>1, <2>2, BlockTyped DEF Cursor, InputOK
  <2>4. proof \in 1..Len(Blocks[block].proofs) /\ p \in Proof
    BY <2>1, <2>2, <2>3 DEF Cursor
  <2>5. Blocks' = Blocks /\ InputOK'
    BY <2>1, <2>2 DEF InputOK, Blocks
  <2>6. Cursor'
    BY <2>1, <2>2, <2>3, <2>5 DEF Cursor
  <2>7. Roots'
    <3>1. RootOf(block, proof - 1, current)
      BY <2>1, <2>2 DEF Roots
    <3>2. RootOf(block, proof, p.root)
      BY <1>2, <2>4, <3>1 DEF RootOf, SameRoot, Proof, NoRoot, Pinned, Other
    <3>3. \A b, n, r : RootOf(b, n, r)' <=> RootOf(b, n, r)
      BY <2>5 DEF RootOf
    <3>4. \A b \in 1..(block - 1) : RootOf(b, Len(Blocks[b].proofs), recovered[b])
      BY <2>2 DEF Roots
    <3>5. proof' - 1 = proof /\ block' = block /\ recovered' = recovered /\ current' = p.root
      BY <2>1, <2>4
    <3>6. RootOf(block, proof - 1, current)'
      BY <3>2, <3>3, <3>5
    <3>7. \A b \in 1..(block' - 1) : RootOf(b, Len(Blocks[b].proofs), recovered[b])'
      BY <2>5, <3>3, <3>4, <3>5
    <3>8. recovered' \in Seq({NoRoot, Pinned, Other}) /\ Len(recovered') = block' - 1
      BY <2>2, <3>5 DEF Roots
    <3>9. pc' = "proofs"
      BY <2>1
    <3> HIDE DEF p
    <3> QED
      BY <3>6, <3>7, <3>8, <3>9 DEF Roots
  <2> DEFINE R(b, j) == Read(b, j) \/ (b = block /\ j = proof)
             V(s) == /\ s = [k \in DOMAIN s |-> s[k]]
                     /\ \A b, j \in Nat : R(b, j) => KeyAt(b, j) \in DOMAIN s
                     /\ \A k \in DOMAIN s : \E b, j \in Nat :
                          /\ R(b, j) /\ KeyAt(b, j) = k /\ s[k] = Blocks[b].proofs[j].value
                          /\ \A c, m \in Nat : R(c, m) /\ KeyAt(c, m) = k
                                                 => b < c \/ (b = c /\ j <= m)
  <2>8. V(storage') => Values'
    <3>1. \A b, j \in Nat : Read(b, j)' <=> R(b, j)
      BY <2>1, <2>2, <2>3, <2>4, <2>5 DEF Read, Cursor
    <3>2. \A b, j \in Nat : KeyAt(b, j)' = KeyAt(b, j)
      BY <2>5 DEF KeyAt
    <3> HIDE DEF R
    <3> QED
      BY <2>5, <3>1, <3>2 DEF Values
  <2>9. V(storage')
    <3>1. KeyAt(block, proof) = p.key /\ block \in Nat /\ proof \in Nat
      BY <2>3, <2>4 DEF KeyAt
    <3>2. CASE p.key \in DOMAIN storage
      <4>1. storage' = storage
        BY <2>1, <3>2
      <4>2. \A c, m \in Nat : Read(c, m) => c < block \/ (c = block /\ m <= proof)
        BY <2>1, <2>3, <2>4 DEF Read
      <4>3. ASSUME NEW k \in DOMAIN storage
            PROVE  \E b, j \in Nat :
                     /\ R(b, j) /\ KeyAt(b, j) = k /\ storage[k] = Blocks[b].proofs[j].value
                     /\ \A c, m \in Nat : R(c, m) /\ KeyAt(c, m) = k => b < c \/ (b = c /\ j <= m)
        <5>1. PICK b, j \in Nat :
                /\ Read(b, j) /\ KeyAt(b, j) = k /\ storage[k] = Blocks[b].proofs[j].value
                /\ \A c, m \in Nat : Read(c, m) /\ KeyAt(c, m) = k => b < c \/ (b = c /\ j <= m)
          BY <2>2 DEF Values
        <5> QED
          BY <4>2, <5>1
      <4> QED
        BY <2>2, <3>1, <3>2, <4>1, <4>3 DEF Values
    <3>3. CASE p.key \notin DOMAIN storage
      <4>1. \A b, j \in Nat : Read(b, j) => KeyAt(b, j) # p.key
        BY <2>2, <3>3 DEF Values
      <4>2. /\ DOMAIN storage' = DOMAIN storage \cup {p.key}
            /\ storage'[p.key] = p.value
            /\ \A k \in DOMAIN storage : storage'[k] = storage[k]
            /\ storage' = [k \in DOMAIN storage' |-> storage'[k]]
        BY <2>1, <3>3
      <4>3. \A b, j \in Nat : R(b, j) => KeyAt(b, j) \in DOMAIN storage'
        BY <2>2, <3>1, <4>2 DEF Values
      <4>4. ASSUME NEW k \in DOMAIN storage'
            PROVE  \E b, j \in Nat :
                     /\ R(b, j) /\ KeyAt(b, j) = k /\ storage'[k] = Blocks[b].proofs[j].value
                     /\ \A c, m \in Nat : R(c, m) /\ KeyAt(c, m) = k => b < c \/ (b = c /\ j <= m)
        <5>1. CASE k = p.key
          <6>1. \A c, m \in Nat : R(c, m) /\ KeyAt(c, m) = k => c = block /\ m = proof
            BY <4>1, <5>1
          <6>2. R(block, proof) /\ KeyAt(block, proof) = k /\ storage'[k] = p.value
            BY <3>1, <4>2, <5>1
          <6> QED
            BY <3>1, <6>1, <6>2
        <5>2. CASE k # p.key
          <6>1. k \in DOMAIN storage /\ storage'[k] = storage[k]
            BY <4>2, <5>2
          <6>2. PICK b, j \in Nat :
                  /\ Read(b, j) /\ KeyAt(b, j) = k /\ storage[k] = Blocks[b].proofs[j].value
                  /\ \A c, m \in Nat : Read(c, m) /\ KeyAt(c, m) = k => b < c \/ (b = c /\ j <= m)
            BY <2>2, <6>1 DEF Values
          <6> QED
            BY <3>1, <5>2, <6>1, <6>2
        <5> QED
          BY <5>1, <5>2
      <4> HIDE DEF R
      <4> QED
        BY <4>2, <4>3, <4>4
    <3> QED
      BY <3>2, <3>3
  <2>10. DOMAIN storage' \subseteq Keys
    BY <2>1, <2>2, <2>4 DEF Proof
  <2> QED
    BY <2>1, <2>2, <2>5, <2>6, <2>7, <2>8, <2>9, <2>10 DEF StreamInv
<1> QED
  BY <1>1, <1>2

\* Beginning and ending a block moves the cursor over no unread proof.
LEMMA BlockBoundaryKeeps ==
    ASSUME StreamInv, BeginBlock \/ EndBlock
    PROVE  StreamInv'
<1>1. InputOK /\ Cursor /\ Roots /\ Values /\ DOMAIN storage \subseteq Keys /\ outcome = Pending
  BY DEF StreamInv, BeginBlock, EndBlock
<1>2. /\ UNCHANGED <<pre, input, storage, outcome>> /\ Blocks' = Blocks /\ InputOK'
      /\ pc \in {"blocks", "proofs"} /\ pc' \in {"blocks", "proofs"}
  BY <1>1 DEF BeginBlock, EndBlock, InputOK, Blocks
<1>3. \A b \in 1..Len(Blocks) : Len(Blocks[b].proofs) \in Nat
  BY <1>1, BlockTyped
<1>4. Len(Blocks) \in Nat /\ block \in 1..(Len(Blocks) + 1) /\ proof \in Nat
  BY <1>1 DEF Cursor, InputOK
<1>5. Cursor'
  BY <1>1, <1>2, <1>3, <1>4 DEF Cursor, BeginBlock, EndBlock
<1>6. Roots'
  <2>1. CASE BeginBlock
    <3>1. RootOf(block, 0, NoRoot)
      BY DEF RootOf
    <3> QED
      BY <1>1, <1>2, <2>1, <3>1 DEF BeginBlock, Roots, RootOf, Cursor
  <2>2. CASE EndBlock
    <3>1. RootOf(block, Len(Blocks[block].proofs), current)
      <4>1. proof - 1 = Len(Blocks[block].proofs)
        BY <1>1, <1>3, <1>4, <2>2 DEF EndBlock, Cursor
      <4> QED
        BY <1>1, <2>2, <4>1 DEF EndBlock, Roots
    <3>2. current \in {NoRoot, Pinned, Other}
      BY <3>1 DEF RootOf
    <3>3. /\ recovered' \in Seq({NoRoot, Pinned, Other}) /\ Len(recovered') = block' - 1
          /\ block' = block + 1 /\ pc' = "blocks"
          /\ recovered'[block] = current
          /\ \A b \in 1..(block - 1) : recovered'[b] = recovered[b]
      BY <1>1, <1>4, <2>2, <3>2 DEF EndBlock, Recorded, Roots
    <3>4. \A b \in 1..(block' - 1) : RootOf(b, Len(Blocks[b].proofs), recovered'[b])
      <4> SUFFICES ASSUME NEW b \in 1..(block' - 1)
                   PROVE  RootOf(b, Len(Blocks[b].proofs), recovered'[b])
        OBVIOUS
      <4>1. CASE b = block
        BY <3>1, <3>3, <4>1
      <4>2. CASE b \in 1..(block - 1)
        BY <1>1, <3>3, <4>2 DEF Roots
      <4> QED
        BY <1>4, <3>3, <4>1, <4>2
    <3> QED
      BY <1>2, <3>3, <3>4 DEF Roots, RootOf
  <2> QED
    BY <2>1, <2>2
<1>7. Values'
  <2>1. \A b, j \in Nat : Read(b, j)' <=> Read(b, j)
    BY <1>1, <1>2, <1>3, <1>4 DEF Read, BeginBlock, EndBlock, Cursor
  <2>2. \A b, j \in Nat : KeyAt(b, j)' = KeyAt(b, j)
    BY <1>2 DEF KeyAt
  <2> QED
    BY <1>1, <1>2, <2>1, <2>2 DEF Values
<1> QED
  BY <1>1, <1>2, <1>5, <1>6, <1>7 DEF StreamInv

\* The steps that only look at a field pass on, or refuse what the collecting
\* path refuses.
LEMMA FieldKeeps ==
    ASSUME StreamInv, ProbeVersion \/ ReadRest \/ CheckRoots
    PROVE  StreamInv'
<1>1. CASE Refuse
  <2>1. ~Accepts(input)
    <3>1. CASE ProbeVersion
      BY <1>1, <3>1 DEF ProbeVersion, Refuse, Accepts, Decodes
    <3>2. CASE ReadRest
      BY <1>1, <3>2 DEF ReadRest, Refuse, Accepts, Decodes
    <3>3. CASE CheckRoots
      BY <1>1, <3>3, BadRootRefused DEF CheckRoots, Refuse
    <3> QED
      BY <3>1, <3>2, <3>3
  <2> QED
    BY <1>1, <2>1, RefusalIsFinal
<1>2. CASE ~Refuse
  <2>1. /\ UNCHANGED <<pre, input, block, proof, storage, current, recovered, outcome>>
        /\ pc \notin {"proofs", "done"} /\ pc' \in {"blocks", "roots", "build"}
        /\ pc' = "build" => pc = "roots" /\ RootsExpected(recovered)
        /\ pc = "version" => input.supported
        /\ pc' = "roots" => pc = "blocks" /\ block > Len(Blocks) /\ input.complete
        /\ pc' = "blocks" => pc = "version"
    BY <1>2 DEF ProbeVersion, ReadRest, CheckRoots
  <2>2. InputOK /\ Cursor /\ Roots /\ Values /\ DOMAIN storage \subseteq Keys /\ outcome = Pending
    BY <2>1 DEF StreamInv
  <2>3. Blocks' = Blocks /\ InputOK' /\ Len(Blocks) \in Nat
    BY <2>1, <2>2 DEF InputOK, Blocks
  <2>4. Cursor'
    BY <2>1, <2>2, <2>3 DEF Cursor
  <2>5. Roots'
    <3>1. pc' = "build" => \A b \in 1..(block - 1) : recovered[b] \in {NoRoot, Pinned}
      BY <2>1, <2>2, <2>3 DEF RootsExpected, RootExpected, expected_root_for_block, Roots, Cursor, InputOK
    <3> QED
      BY <2>1, <2>2, <2>3, <3>1 DEF Roots, RootOf
  <2>6. Values'
    <3>1. \A b, j \in Nat : Read(b, j)' <=> Read(b, j)
      BY <2>1, <2>3 DEF Read
    <3>2. \A b, j \in Nat : KeyAt(b, j)' = KeyAt(b, j)
      BY <2>3 DEF KeyAt
    <3> QED
      BY <2>1, <2>2, <2>3, <3>1, <3>2 DEF Values
  <2> QED
    BY <2>1, <2>2, <2>3, <2>4, <2>5, <2>6 DEF StreamInv
<1> QED
  BY <1>1, <1>2

\* Every proof read recovered the pinned root once the roots are compared.
LEMMA ProofsAreOk ==
    ASSUME StreamInv, pc = "build"
    PROVE  ProofsOk(Blocks)
<1>1. InputOK /\ block = Len(Blocks) + 1 /\ Roots
  BY DEF StreamInv, Cursor
<1> SUFFICES ASSUME NEW b \in 1..Len(Blocks), NEW j \in 1..Len(Blocks[b].proofs)
             PROVE  Blocks[b].proofs[j].ok /\ Blocks[b].proofs[j].root = Pinned
  <2>1. DOMAIN Blocks = 1..Len(Blocks)
    BY <1>1 DEF InputOK
  <2>2. \A b \in 1..Len(Blocks) : DOMAIN Blocks[b].proofs = 1..Len(Blocks[b].proofs)
    BY <1>1, BlockTyped
  <2> QED
    BY <2>1, <2>2 DEF ProofsOk, expected_root_for_block
<1>2. RootOf(b, Len(Blocks[b].proofs), recovered[b]) /\ recovered[b] \in {NoRoot, Pinned}
  BY <1>1 DEF Roots, InputOK
<1>3. Len(Blocks[b].proofs) \in Nat
  BY <1>1, BlockTyped
<1> QED
  BY <1>2, <1>3 DEF RootOf

\* What was kept of the proofs is the committed state.
LEMMA StorageIsAuthentic ==
    ASSUME StreamInv, pc = "build"
    PROVE  \A k \in DOMAIN storage : storage[k] = pre[k]
<1> SUFFICES ASSUME NEW k \in DOMAIN storage PROVE storage[k] = pre[k]
  OBVIOUS
<1>1. PICK b, j \in Nat : Read(b, j) /\ KeyAt(b, j) = k /\ storage[k] = Blocks[b].proofs[j].value
  BY DEF StreamInv, Values
<1>2. b \in 1..Len(Blocks) /\ j \in 1..Len(Blocks[b].proofs)
  BY <1>1 DEF Read
<1>3. DOMAIN Blocks = 1..Len(Blocks) /\ DOMAIN Blocks[b].proofs = 1..Len(Blocks[b].proofs)
  BY <1>2, BlockTyped DEF StreamInv, InputOK
<1>4. Honest(Blocks[b].proofs[j])
  BY <1>2, <1>3, ProofsAreOk DEF ProofsOk, Honest, expected_root_for_block
<1> QED
  BY <1>1, <1>2, <1>4 DEF StreamInv, InputOK, KeyAt

\* The database handed over is the collecting path's.
LEMMA BuildKeeps ==
    ASSUME StreamInv, BuildDb
    PROVE  StreamInv'
<1> DEFINE Good == /\ BytecodesOk(input.bytecodes)
                   /\ AccountsOk(Blocks, storage)
                   /\ input.hashesOk
                   /\ Validates(input)
<1>1. storage = verified_storage(Blocks) /\ ProofsOk(Blocks) /\ Decodes(input)
  BY StorageIsVerified, ProofsAreOk DEF BuildDb, StreamInv, Cursor, Decodes
<1>2. Accepts(input) <=> Good
  BY <1>1 DEF Accepts, Blocks
<1>3. CASE Good
  <2>1. /\ outcome' = Ready(Database(Blocks, storage, input.bytecodes)) /\ pc' = "done"
        /\ UNCHANGED <<pre, input, block, proof, storage, current, recovered>>
    BY <1>3 DEF BuildDb
  <2>2. outcome' = build_proven_db(input')
    BY <1>1, <1>2, <1>3, <2>1 DEF build_proven_db, Blocks
  <2>3. InputOK' /\ Cursor'
    BY <2>1 DEF StreamInv, InputOK, Cursor, Blocks
  <2>4. \A k \in ProvenKeys(Blocks) : verified_storage(Blocks)[k] = pre[k]
    BY <1>1, StorageIsAuthentic DEF BuildDb, verified_storage
  <2>5. Authentic'
    BY <2>1, <2>4 DEF Authentic, Blocks
  <2> QED
    BY <2>1, <2>2, <2>3, <2>5 DEF StreamInv
<1>4. CASE ~Good
  BY <1>2, <1>4, RefusalIsFinal DEF BuildDb
<1> QED
  BY <1>3, <1>4

\* The invariant is inductive.
LEMMA NextStream == StreamInv /\ [Next]_vars => StreamInv'
<1> SUFFICES ASSUME StreamInv, [Next]_vars PROVE StreamInv'
  OBVIOUS
<1>1. CASE UNCHANGED vars
  <2>1. Blocks' = Blocks /\ UNCHANGED <<pre, input, pc, block, proof, storage, current, recovered, outcome>>
    BY <1>1 DEF vars, Blocks
  <2>2. InputOK' = InputOK /\ Cursor' = Cursor /\ Authentic' = Authentic
    BY <2>1 DEF InputOK, Cursor, Authentic
  <2>3. Roots' = Roots
    BY <2>1 DEF Roots, RootOf
  <2>4. Values => Values'
    <3>1. \A b, j \in Nat : (Read(b, j)' <=> Read(b, j)) /\ KeyAt(b, j)' = KeyAt(b, j)
      BY <2>1 DEF Read, KeyAt
    <3> QED
      BY <2>1, <3>1 DEF Values
  <2> QED
    BY <2>1, <2>2, <2>3, <2>4 DEF StreamInv
<1> QED
  BY <1>1, ReadProofKeeps, BlockBoundaryKeeps, FieldKeeps, BuildKeeps DEF Next

-----------------------------------------------------------------------------
\* The streaming reader of the guest is the collecting path of the server: it
\* accepts the same inputs and builds the same database.
THEOREM StreamImplementsCollecting == Spec => RefinesCollecting
<1>1. Init => Collecting!Init
  BY DEF Init, Collecting!Init
<1>2. StreamInv /\ StreamInv' /\ [Next]_vars => [Collecting!Build]_<<input, outcome>>
  <2> SUFFICES ASSUME StreamInv, StreamInv', [Next]_vars, ~UNCHANGED <<input, outcome>>
               PROVE  Collecting!Build
    OBVIOUS
  <2>1. pc # "done" /\ pc' = "done" /\ input' = input
    BY DEF Next, vars, Refuse, ProbeVersion, BeginBlock, ReadProof, EndBlock, ReadRest,
           CheckRoots, BuildDb
  <2> QED
    BY <2>1 DEF StreamInv, Collecting!Build
<1>3. Spec => []StreamInv
  BY InitStream, NextStream, PTL DEF Spec
<1> QED
  BY <1>1, <1>2, <1>3, PTL DEF Spec, RefinesCollecting, Collecting!Spec

\* A database that is handed over answers with the committed state or an error.
LEMMA ServedReads ==
    ASSUME StreamInv, Served
    PROVE  ReadsAuthentic
<1> DEFINE vs == verified_storage(Blocks)
           bc == load_bytecodes(input.bytecodes)
<1>1. pc = "done" /\ outcome = build_proven_db(input) /\ outcome # Refused
  BY DEF StreamInv, Served, Pending, Refused
<1>2. Accepts(input) /\ outcome = Ready(Database(Blocks, vs, input.bytecodes))
  BY <1>1 DEF build_proven_db, Blocks
<1>3. /\ Db.storage = vs /\ Db.bytecodes = bc
      /\ Db.infos = build_verified_accounts(Blocks, vs, bc)
  BY <1>2 DEF Db, Ready, Database
<1>4. DOMAIN vs = ProvenKeys(Blocks) /\ \A k \in ProvenKeys(Blocks) : vs[k] = pre[k]
  BY <1>1 DEF StreamInv, Authentic, verified_storage
<1>5. \A k \in Slots : storage_ref(Db, k) \in {Error, Ok(pre[k])}
  BY <1>3, <1>4 DEF storage_ref
<1>6. ASSUME NEW a \in Accounts PROVE basic_ref(Db, a) \in {Error, Ok(TrueAccount(a))}
  <2>1. CASE a \in DOMAIN Db.infos
    <3>1. a \in NamedAccounts(Blocks) /\ Db.infos[a] = build_verified_accounts(Blocks, vs, bc)[a]
      BY <1>3, <2>1 DEF build_verified_accounts
    <3>2. a \in DOMAIN vs /\ (vs[a] # None => vs[a] = Blake2s(FirstPreimage(Blocks, a)))
      BY <1>2, <3>1 DEF Accepts, AccountsOk, Blocks
    <3>3. vs[a] = pre[a] /\ pre[a] \in LeafValues(a)
      BY <1>4, <3>2 DEF StreamInv, InputOK, Keys
    <3>4. CASE pre[a] = None
      <4>1. Db.infos[a] = NoAccount
        BY <3>1, <3>3, <3>4 DEF build_verified_accounts
      <4>2. basic_ref(Db, a) = Ok(<<FALSE, KECCAK_EMPTY>>)
        BY <2>1, <4>1 DEF basic_ref, NoAccount
      <4> QED
        BY <3>4, <4>2 DEF TrueAccount
    <3>5. CASE pre[a] # None
      <4>1. PICK p \in Preimages : pre[a] = Blake2s(p)
        BY <3>3, <3>5 DEF LeafValues
      <4>2. FirstPreimage(Blocks, a) = p
        BY <3>2, <3>3, <3>5, <4>1 DEF Blake2s
      <4>3. (CHOOSE q \in Preimages : Blake2s(q) = pre[a]) = p
        BY <4>1 DEF Blake2s
      <4>4. TrueAccount(a) = <<TRUE, Keccak256(p)>>
        BY <3>5, <4>3 DEF TrueAccount
      <4>5. Db.infos[a].exists = TRUE /\ Db.infos[a].code_hash = Keccak256(p)
        BY <3>1, <3>3, <3>5, <4>2 DEF build_verified_accounts
      <4> QED
        BY <2>1, <4>4, <4>5 DEF basic_ref
    <3> QED
      BY <3>4, <3>5
  <2>2. CASE a \notin DOMAIN Db.infos
    BY <1>3, <1>4, <2>2 DEF basic_ref, TrueAccount
  <2> QED
    BY <2>1, <2>2
<1>7. ASSUME NEW c \in Preimages
      PROVE  code_by_hash_ref(Db, Keccak256(c)) \in {Error, Ok(<<c>>)}
  <2>1. CASE Keccak256(c) = KECCAK_EMPTY
    BY <2>1 DEF code_by_hash_ref, KECCAK_EMPTY, Keccak256
  <2>2. CASE Keccak256(c) # KECCAK_EMPTY /\ Keccak256(c) \in DOMAIN bc
    <3> DEFINE codes == input.bytecodes
               h == Keccak256(c)
               i == CHOOSE j \in DOMAIN codes : codes[j][1] = h
    <3>1. i \in DOMAIN codes /\ codes[i][1] = h /\ bc[h] = codes[i][2]
      <4>1. \E j \in DOMAIN codes : codes[j][1] = h
        BY <2>2 DEF load_bytecodes
      <4>2. i \in DOMAIN codes /\ codes[i][1] = h
        <5> HIDE DEF h
        <5> QED BY <4>1
      <4>3. bc[h] = codes[i][2]
        <5>1. h \in {codes[j][1] : j \in DOMAIN codes}
          BY <4>1
        <5> HIDE DEF h
        <5> QED BY <5>1 DEF load_bytecodes
      <4> QED
        BY <4>2, <4>3
    <3>2. codes[i][1] = Keccak256(codes[i][2])
      BY <1>2, <3>1 DEF Accepts, BytecodesOk
    <3>3. codes[i][2] = c
      <4>1. Keccak256(codes[i][2]) = Keccak256(c)
        BY <3>1, <3>2
      <4> HIDE DEF i
      <4> QED
        BY <4>1 DEF Keccak256
    <3> QED
      BY <1>3, <2>2, <3>1, <3>3 DEF code_by_hash_ref
  <2>3. CASE Keccak256(c) # KECCAK_EMPTY /\ Keccak256(c) \notin DOMAIN bc
    BY <1>3, <2>3 DEF code_by_hash_ref
  <2> QED
    BY <2>1, <2>2, <2>3
<1> QED
  BY <1>5, <1>6, <1>7 DEF ReadsAuthentic

\* Whatever input the prover supplies, a read during execution gives the
\* committed slot, account or code, or ends the proof.
THEOREM ReadsAlwaysAuthentic == Spec => []ReadsAuthentic
<1>1. StreamInv => ReadsAuthentic
  BY ServedReads DEF ReadsAuthentic
<1>2. Spec => []StreamInv
  BY InitStream, NextStream, PTL DEF Spec
<1> QED
  BY <1>1, <1>2, PTL

-----------------------------------------------------------------------------
(* An honest input is served.                                               *)

\* A nonempty set of naturals has a least element.
LEMMA LeastElement ==
    ASSUME NEW T, T \subseteq Nat, T # {}
    PROVE  \E x \in T : \A y \in T : x <= y
<1> DEFINE R == {ss \in Nat \X Nat : ss[1] < ss[2]}
<1>1. IsWellFoundedOn(R, Nat)
  BY NatLessThanWellFounded DEF OpToRel
<1>2. \E x \in T : \A y \in T : ~ (<<y, x>> \in R)
  <2> HIDE DEF R
  <2> QED
    BY <1>1, WFMin
<1>3. PICK x \in T : \A y \in T : ~ (<<y, x>> \in R)
  BY <1>2
<1>4. ASSUME NEW y \in T PROVE x <= y
  <2>1. x \in Nat /\ y \in Nat
    OBVIOUS
  <2>2. ~ (y < x)
    BY <1>3, <2>1
  <2> QED
    BY <2>1, <2>2
<1> QED
  BY <1>4

\* A nonempty set of positions has a first one in wire order.
LEMMA FirstExists ==
    ASSUME NEW S, S \subseteq Nat \X Nat, S # {}
    PROVE  First(S) \in S
<1> DEFINE B == {x[1] : x \in S}
<1>1. PICK b \in B : \A c \in B : b <= c
  <2>1. B \subseteq Nat /\ B # {}
    OBVIOUS
  <2> HIDE DEF B
  <2> QED
    BY <2>1, LeastElement
<1> DEFINE J == {x[2] : x \in {y \in S : y[1] = b}}
<1>2. PICK j \in J : \A m \in J : j <= m
  <2>1. J \subseteq Nat /\ J # {}
    OBVIOUS
  <2> HIDE DEF J
  <2> QED
    BY <2>1, LeastElement
<1>3. PICK x \in S : x[1] = b /\ x[2] = j
  BY <1>2
<1>4. ASSUME NEW y \in S \ {x} PROVE Before(x, y)
  <2>1. /\ x[1] \in Nat /\ x[2] \in Nat /\ y[1] \in Nat /\ y[2] \in Nat
        /\ x = <<x[1], x[2]>> /\ y = <<y[1], y[2]>>
    OBVIOUS
  <2>2. b <= y[1]
    BY <1>1
  <2>3. y[1] = b => j <= y[2]
    BY <1>2
  <2>4. y[1] = b => y[2] # j
    BY <1>3, <2>1
  <2> QED
    BY <1>3, <2>1, <2>2, <2>3, <2>4 DEF Before
<1>5. \E z \in S : \A y \in S \ {z} : Before(z, y)
  BY <1>4
<1> QED
  BY <1>5 DEF First

\* The collecting path accepts an input without a fault.
LEMMA HonestAccepts ==
    ASSUME InputOK, HonestInput
    PROVE  /\ Accepts(input)
           /\ \A k \in ProvenKeys(Blocks) : verified_storage(Blocks)[k] = pre[k]
<1>1. /\ Decodes(input) /\ Validates(input) /\ input.hashesOk /\ BytecodesOk(input.bytecodes)
      /\ \A b \in DOMAIN Blocks : \A j \in DOMAIN Blocks[b].proofs : Honest(Blocks[b].proofs[j])
  BY DEF HonestInput
<1>2. DOMAIN Blocks = 1..Len(Blocks) /\ Len(Blocks) \in Nat
  BY DEF InputOK
<1>3. \A b \in 1..Len(Blocks) : /\ DOMAIN Blocks[b].proofs = 1..Len(Blocks[b].proofs)
                                /\ DOMAIN Blocks[b].preimages = 1..Len(Blocks[b].preimages)
                                /\ Len(Blocks[b].proofs) \in Nat
                                /\ Len(Blocks[b].preimages) \in Nat
  BY BlockTyped
<1>4. ProofsOk(Blocks)
  BY <1>1 DEF ProofsOk, Honest, expected_root_for_block
<1>5. ASSUME NEW k \in ProvenKeys(Blocks) PROVE verified_storage(Blocks)[k] = pre[k]
  <2> DEFINE S == ProofsOf(Blocks, k)
             x == First(S)
  <2>1. S \subseteq Nat \X Nat
    BY <1>2, <1>3 DEF ProofsOf
  <2>2. x \in S
    <3>1. S # {}
      BY DEF ProvenKeys
    <3> HIDE DEF S
    <3> QED
      BY <2>1, <3>1, FirstExists
  <2>3. PICK b \in DOMAIN Blocks : \E j \in DOMAIN Blocks[b].proofs :
          x = <<b, j>> /\ Blocks[b].proofs[j].key = k
    <3> HIDE DEF x
    <3> QED
      BY <2>2 DEF ProofsOf
  <2>4. PICK j \in DOMAIN Blocks[b].proofs : x = <<b, j>> /\ Blocks[b].proofs[j].key = k
    BY <2>3
  <2>5. verified_storage(Blocks)[k] = Blocks[b].proofs[j].value
    <3>1. verified_storage(Blocks)[k] = Blocks[x[1]].proofs[x[2]].value
      BY DEF verified_storage, FirstValue
    <3> HIDE DEF x
    <3> QED
      BY <2>4, <3>1
  <2>6. Blocks[b].proofs[j].value = pre[k]
    BY <1>1, <1>2, <1>3, <2>4 DEF InputOK
  <2> QED
    BY <2>5, <2>6
<1>6. AccountsOk(Blocks, verified_storage(Blocks))
  <2> SUFFICES ASSUME NEW a \in NamedAccounts(Blocks)
               PROVE  /\ a \in DOMAIN verified_storage(Blocks)
                      /\ verified_storage(Blocks)[a] # None
                           => verified_storage(Blocks)[a] = Blake2s(FirstPreimage(Blocks, a))
    BY DEF AccountsOk
  <2> DEFINE S == PreimagesOf(Blocks, a)
             x == First(S)
  <2>1. S \subseteq Nat \X Nat
    BY <1>2, <1>3 DEF PreimagesOf
  <2>2. x \in S
    <3>1. S # {}
      BY DEF NamedAccounts
    <3> HIDE DEF S
    <3> QED
      BY <2>1, <3>1, FirstExists
  <2>3. PICK b \in DOMAIN Blocks : \E j \in DOMAIN Blocks[b].preimages :
          x = <<b, j>> /\ Blocks[b].preimages[j][1] = a
    <3> HIDE DEF x
    <3> QED
      BY <2>2 DEF PreimagesOf
  <2>4. PICK j \in DOMAIN Blocks[b].preimages : x = <<b, j>> /\ Blocks[b].preimages[j][1] = a
    BY <2>3
  <2>5. FirstPreimage(Blocks, a) = Blocks[b].preimages[j][2]
    <3>1. FirstPreimage(Blocks, a) = Blocks[x[1]].preimages[x[2]][2]
      BY DEF FirstPreimage
    <3> HIDE DEF x
    <3> QED
      BY <2>4, <3>1
  <2>6. a \in ProvenKeys(Blocks) /\ pre[a] \in {None, Blake2s(Blocks[b].preimages[j][2])}
    BY <2>4 DEF HonestInput
  <2>7. a \in DOMAIN verified_storage(Blocks) /\ verified_storage(Blocks)[a] = pre[a]
    BY <1>5, <2>6 DEF verified_storage
  <2> QED
    BY <2>5, <2>6, <2>7
<1> QED
  BY <1>1, <1>4, <1>5, <1>6 DEF Accepts, Blocks

\* An input without a fault is never refused by the streaming reader of stream.rs,
\* however it is split into blocks and proofs: the database is built, and every
\* slot and account the input proves is answered.
THEOREM HonestAlwaysServed == Spec => []HonestServed
<1>1. StreamInv => HonestServed
  <2> SUFFICES ASSUME StreamInv, pc = "done", HonestInput
               PROVE  /\ Served
                      /\ \A k \in ProvenKeys(Blocks) \cap Slots : storage_ref(Db, k) = Ok(pre[k])
                      /\ \A a \in ProvenKeys(Blocks) \cap Accounts :
                           pre[a] = None \/ a \in NamedAccounts(Blocks)
                             => basic_ref(Db, a) = Ok(TrueAccount(a))
    BY DEF HonestServed
  <2> DEFINE vs == verified_storage(Blocks)
             bc == load_bytecodes(input.bytecodes)
  <2>1. Accepts(input) /\ outcome = build_proven_db(input)
        /\ \A k \in ProvenKeys(Blocks) : vs[k] = pre[k]
    BY HonestAccepts DEF StreamInv
  <2>2. outcome = Ready(Database(Blocks, vs, input.bytecodes))
    BY <2>1 DEF build_proven_db, Blocks
  <2>3. Served
    BY <2>2 DEF Served, Ready
  <2>4. /\ Db.storage = vs /\ Db.infos = build_verified_accounts(Blocks, vs, bc)
        /\ DOMAIN vs = ProvenKeys(Blocks) /\ DOMAIN Db.infos = NamedAccounts(Blocks)
    BY <2>2 DEF Db, Ready, Database, verified_storage, build_verified_accounts
  <2>5. \A k \in ProvenKeys(Blocks) \cap Slots : storage_ref(Db, k) = Ok(pre[k])
    BY <2>1, <2>4 DEF storage_ref
  <2>6. ASSUME NEW a \in ProvenKeys(Blocks) \cap Accounts,
               pre[a] = None \/ a \in NamedAccounts(Blocks)
        PROVE  basic_ref(Db, a) = Ok(TrueAccount(a))
    <3>1. basic_ref(Db, a) \in {Error, Ok(TrueAccount(a))}
      BY <2>3, ServedReads DEF ReadsAuthentic
    <3>2. \E v : basic_ref(Db, a) = Ok(v)
      <4>1. CASE a \in NamedAccounts(Blocks)
        BY <2>4, <4>1 DEF basic_ref
      <4>2. CASE a \notin NamedAccounts(Blocks)
        BY <2>1, <2>4, <2>6, <4>2 DEF basic_ref
      <4> QED
        BY <4>1, <4>2
    <3>3. \A v : Ok(v) # Error
      BY DEF Ok, Error
    <3> QED
      BY <3>1, <3>2, <3>3
  <2> QED
    BY <2>3, <2>5, <2>6
<1>2. Spec => []StreamInv
  BY InitStream, NextStream, PTL DEF Spec
<1> QED
  BY <1>1, <1>2, PTL
=============================================================================

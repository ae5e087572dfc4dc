-------------------------- MODULE TreeWalkProofs --------------------------
(***************************************************************************)
(* The one-pass walk is sound and complete for trees of every depth, and it *)
(* agrees with the two passes of apply_reference. The hasher of             *)
(* crypto/blake2s.rs, on which its hashes rest, computes the digest of the  *)
(* reference however a message is split; messages differ in their digests.  *)
(***************************************************************************)
EXTENDS TreeWalk, Blake2s, FiniteSetTheorems, WellFoundedInduction, TLAPS

(* Induction over the naturals, from the well-foundedness of <. *)

\* A set of naturals has a least element.
LEMMA LeastElement ==
    ASSUME NEW T, T \subseteq Nat, T # {}
    PROVE  \E x \in T : \A y \in T : x <= y
<1> DEFINE R == {ss \in Nat \X Nat : ss[1] < ss[2]}
<1>1. IsWellFoundedOn(R, Nat)
  BY NatLessThanWellFounded DEF OpToRel
<1>2. \E x \in T : \A y \in T : ~ (<<y, x>> \in R)
  <2> HIDE DEF R
  <2> QED
    BY <1>1, WFMin
<1>3. PICK x \in T : \A y \in T : ~ (<<y, x>> \in R)
  BY <1>2
<1>4. ASSUME NEW y \in T PROVE x <= y
  <2>1. x \in Nat /\ y \in Nat
    OBVIOUS
  <2>2. ~ (y < x)
    BY <1>3, <2>1
  <2> QED
    BY <2>1, <2>2
<1> QED
  BY <1>4

\* Induction over the naturals, for a set that holds what is proved.
LEMMA Induct ==
    ASSUME NEW S, 0 \in S, \A n \in Nat : n \in S => n + 1 \in S
    PROVE  Nat \subseteq S
<1> DEFINE T == Nat \ S
<1> SUFFICES ASSUME T # {} PROVE FALSE
  OBVIOUS
<1>1. PICK x \in T : \A y \in T : x <= y
  <2> HIDE DEF T
  <2>1. T \subseteq Nat
    BY DEF T
  <2> QED
    BY <2>1, LeastElement
<1>2. x # 0 /\ x - 1 \in Nat /\ x - 1 \notin T
  BY <1>1
<1> QED
  BY <1>1, <1>2

\* Powers of two, as the number of subsets of an interval.
LEMMA PowerOfTwo ==
    ASSUME NEW n \in Nat
    PROVE  2^n \in Nat /\ 2^n > 0 /\ 2^(n + 1) = 2 * 2^n
<1> DEFINE A == SUBSET (1..n)
           B == {s \cup {n + 1} : s \in A}
           f == [s \in A |-> s \cup {n + 1}]
<1>1. /\ IsFiniteSet(1..n) /\ Cardinality(1..n) = n
      /\ IsFiniteSet(1..(n + 1)) /\ Cardinality(1..(n + 1)) = n + 1
  BY FS_Interval
<1>2. IsFiniteSet(A) /\ Cardinality(A) = 2^n
  BY <1>1, FS_SUBSET
<1>3. Cardinality(SUBSET (1..(n + 1))) = 2^(n + 1)
  BY <1>1, FS_SUBSET
<1>4. \A s \in A : n + 1 \notin s
  OBVIOUS
<1>5. f \in Bijection(A, B)
  <2>1. f \in [A -> B]
    OBVIOUS
  <2>2. ASSUME NEW s \in A, NEW t \in A, f[s] = f[t] PROVE s = t
    BY <1>4, <2>2
  <2>3. \A b \in B : \E s \in A : f[s] = b
    OBVIOUS
  <2> HIDE DEF A, B, f
  <2> QED
    BY <2>1, <2>2, <2>3 DEF Bijection, Injection, Surjection, IsInjective
<1>6. IsFiniteSet(B) /\ Cardinality(B) = 2^n
  <2>1. ExistsBijection(A, B)
    BY <1>5 DEF ExistsBijection
  <2> HIDE DEF A, B
  <2> QED
    BY <2>1, <1>2, FS_Bijection
<1>7. A \cap B = {}
  BY <1>4
<1>8. SUBSET (1..(n + 1)) = A \cup B
  <2>1. ASSUME NEW s \in SUBSET (1..(n + 1)), n + 1 \in s PROVE s \in B
    <3>1. s \ {n + 1} \in A /\ (s \ {n + 1}) \cup {n + 1} = s
      BY <2>1
    <3> QED
      BY <3>1
  <2>2. ASSUME NEW s \in SUBSET (1..(n + 1)), n + 1 \notin s PROVE s \in A
    BY <2>2
  <2>3. ASSUME NEW s \in A PROVE s \subseteq 1..(n + 1) /\ s \cup {n + 1} \subseteq 1..(n + 1)
    <3>1. 1..n \subseteq 1..(n + 1) /\ n + 1 \in 1..(n + 1)
      OBVIOUS
    <3> QED
      BY <3>1
  <2>4. ASSUME NEW b \in B PROVE b \in SUBSET (1..(n + 1))
    BY <2>3
  <2>5. A \subseteq SUBSET (1..(n + 1))
    BY <2>3
  <2> HIDE DEF A, B
  <2> QED
    BY <2>1, <2>2, <2>4, <2>5
<1>9. Cardinality(A \cup B) = Cardinality(A) + Cardinality(B) - Cardinality(A \cap B)
  <2> HIDE DEF A, B
  <2> QED
    BY <1>2, <1>6, FS_Union
<1>10. Cardinality(A \cap B) = 0
  BY <1>7, FS_EmptySet
<1>11. 2^n \in Nat
  <2> HIDE DEF A
  <2> QED
    BY <1>2, FS_CardinalityType
<1>12. 2^n # 0
  <2>1. A # {}
    OBVIOUS
  <2> HIDE DEF A
  <2> QED
    BY <2>1, <1>2, FS_EmptySet
<1>13. 2^(n + 1) = 2^n + 2^n
  <2>1. 2^(n + 1) = Cardinality(A \cup B)
    BY <1>3, <1>8
  <2>2. Cardinality(A \cup B) = 2^n + 2^n - 0
    <3> HIDE DEF A, B
    <3> QED
      BY <1>2, <1>6, <1>9, <1>10
  <2> DEFINE p == 2^n
  <2>3. p \in Nat
    BY <1>11
  <2> HIDE DEF p
  <2>4. p + p - 0 = p + p
    BY <2>3
  <2> QED
    BY <2>1, <2>2, <2>4 DEF p
<1> QED
  BY <1>11, <1>12, <1>13

-----------------------------------------------------------------------------
(* The recursive functions exist, so they obey their equations. *)

\* The hashes of the empty subtrees exist and follow their recursion.
LEMMA EmptyHashes ==
    \A d \in 0..Depth :
        Empty[d] = IF d = 0 THEN hash_leaf(EmptyLeaf) ELSE Compress(Empty[d - 1], Empty[d - 1])
<1> DEFINE F(n, g) == g = [d \in 0..n |-> IF d = 0 THEN hash_leaf(EmptyLeaf)
                                         ELSE Compress(g[d - 1], g[d - 1])]
           S == {n \in Nat : \E g : F(n, g)}
<1>1. 0 \in S
  <2> DEFINE g == [d \in 0..0 |-> hash_leaf(EmptyLeaf)]
  <2>1. F(0, g)
    OBVIOUS
  <2> QED
    BY <2>1
<1>2. ASSUME NEW n \in Nat, n \in S PROVE n + 1 \in S
  <2>1. PICK g : F(n, g)
    BY <1>2
  <2> DEFINE h == [d \in 0..(n + 1) |-> IF d = n + 1 THEN Compress(g[n], g[n]) ELSE g[d]]
  <2>2. \A d \in 0..n : h[d] = g[d]
    OBVIOUS
  <2>3. ASSUME NEW d \in 0..(n + 1)
        PROVE  h[d] = IF d = 0 THEN hash_leaf(EmptyLeaf) ELSE Compress(h[d - 1], h[d - 1])
    <3>1. CASE d = n + 1
      BY <2>2, <3>1
    <3>2. CASE d # n + 1
      <4>1. d \in 0..n /\ (d # 0 => d - 1 \in 0..n)
        BY <3>2
      <4>2. g[d] = IF d = 0 THEN hash_leaf(EmptyLeaf) ELSE Compress(g[d - 1], g[d - 1])
        BY <2>1, <4>1
      <4> HIDE DEF h
      <4> QED
        BY <2>2, <4>1, <4>2
    <3> QED
      BY <3>1, <3>2
  <2>4. F(n + 1, h)
    BY <2>3
  <2> HIDE DEF F, h
  <2> QED
    BY <2>4
<1>3. Depth \in S
  <2> HIDE DEF S
  <2> QED
    BY <1>1, <1>2, Induct, WalkAssumption
<1>4. PICK g : F(Depth, g)
  BY <1>3
<1>5. Empty = CHOOSE f : f = [d \in 0..Depth |-> IF d = 0 THEN hash_leaf(EmptyLeaf)
                                                ELSE Compress(f[d - 1], f[d - 1])]
  BY DEF Empty
<1>6. F(Depth, Empty)
  BY <1>4, <1>5, Zenon
<1> QED
  BY <1>6

\* Nodes at height d.
Width(d) == 2^(Depth - d)
Nodes(d) == 0..(Width(d) - 1)

\* A tree's node hashes follow their recursion.
LEMMA NodeHashes ==
    ASSUME NEW t
    PROVE  \A d \in 0..Depth : \A i \in Nodes(d) :
             NodeHash(t)[d][i] = IF d = 0 THEN hash_leaf(t[i])
                                 ELSE Compress(NodeHash(t)[d - 1][2 * i], NodeHash(t)[d - 1][2 * i + 1])
<1> DEFINE Row(d, below) == [i \in 0..(2^(Depth - d) - 1) |->
              IF d = 0 THEN hash_leaf(t[i])
              ELSE Compress(below[2 * i], below[2 * i + 1])]
           F(n, g) == g = [d \in 0..n |-> Row(d, g[d - 1])]
           S == {n \in Nat : \E g : F(n, g)}
<1>1. 0 \in S
  <2> DEFINE g == [d \in 0..0 |-> Row(0, 0)]
  <2>1. F(0, g)
    <3>1. \A b : Row(0, b) = Row(0, 0)
      OBVIOUS
    <3> HIDE DEF Row
    <3>2. \A d \in 0..0 : g[d] = Row(d, g[d - 1])
      BY <3>1
    <3> QED
      BY <3>2
  <2> HIDE DEF F, g
  <2> QED
    BY <2>1
<1>2. ASSUME NEW n \in Nat, n \in S PROVE n + 1 \in S
  <2>0. \A b, c : Row(0, b) = Row(0, c)
    OBVIOUS
  <2> HIDE DEF Row
  <2>1. PICK g : F(n, g)
    BY <1>2
  <2> DEFINE h == [d \in 0..(n + 1) |-> IF d = n + 1 THEN Row(d, g[n]) ELSE g[d]]
  <2>2. \A d \in 0..n : h[d] = g[d]
    OBVIOUS
  <2>3. ASSUME NEW d \in 0..(n + 1) PROVE h[d] = Row(d, h[d - 1])
    <3>1. CASE d = n + 1
      <4>1. d - 1 = n /\ n \in 0..n
        BY <3>1
      <4> QED
        BY <2>2, <3>1, <4>1
    <3>2. CASE d # n + 1
      <4>1. d \in 0..n /\ (d # 0 => d - 1 \in 0..n)
        BY <3>2
      <4>2. g[d] = Row(d, g[d - 1])
        BY <2>1, <4>1
      <4>3. CASE d = 0
        BY <2>0, <2>2, <4>1, <4>2, <4>3
      <4>4. CASE d # 0
        <5> HIDE DEF h
        <5> QED
          BY <2>2, <4>1, <4>2, <4>4
      <4> QED
        BY <4>3, <4>4
    <3> QED
      BY <3>1, <3>2
  <2>4. F(n + 1, h)
    BY <2>3
  <2> HIDE DEF F, h
  <2> QED
    BY <2>4
<1>3. Depth \in S
  <2> HIDE DEF S
  <2> QED
    BY <1>1, <1>2, Induct, WalkAssumption
<1>4. PICK g : F(Depth, g)
  BY <1>3
<1>5. NodeHash(t) = CHOOSE f : f = [d \in 0..Depth |->
          [i \in 0..(2^(Depth - d) - 1) |->
              IF d = 0 THEN hash_leaf(t[i])
              ELSE Compress(f[d - 1][2 * i], f[d - 1][2 * i + 1])]]
  BY DEF NodeHash
<1>6. F(Depth, NodeHash(t))
  BY <1>4, <1>5, Zenon
<1>7. \A d \in 0..Depth : NodeHash(t)[d] = Row(d, NodeHash(t)[d - 1])
  <2> HIDE DEF Row
  <2> QED
    BY <1>6
<1> QED
  BY <1>7 DEF Nodes, Width

-----------------------------------------------------------------------------
(* The invariant of the walk. *)

IsSeq(s) == Len(s) \in Nat /\ s = [k \in 1..Len(s) |-> s[k]]
OldHash == NodeHash(OldTree)
NewHash == NodeHash(NewTree)

InputInv ==
    /\ lcb \in Nat /\ lcb <= Cap
    /\ Len(sorted) \in Nat
    /\ \A j \in 1..Len(sorted) : sorted[j][1] \in Indices
    /\ \A i \in updated : \E j \in 1..Len(sorted) : sorted[j][1] = i
    /\ inserts \in Nat /\ lcb + inserts <= Cap
    /\ wrong \in Nat
    /\ phase \in {"given", "walk", "done"}
    /\ phase = "given" => depth = 0 /\ pos = 1 /\ next = << >> /\ wrong = 0

\* Both levels are ascending sequences of nodes of the tree; the cursor has
\* passed exactly the nodes whose parents are in the upper one.
ShapeInv ==
    /\ depth \in 0..Depth
    /\ depth = Depth => next = << >> /\ pos = 1
    /\ IsSeq(level) /\ IsSeq(next)
    /\ pos \in 1..(Len(level) + 1)
    /\ \A j \in 1..Len(level) : level[j][1] \in Nodes(depth)
    /\ \A k \in 1..Len(next) : next[k][1] \in Nodes(depth + 1)
    /\ \A j, k \in 1..Len(level) : j < k => level[j][1] < level[k][1]
    /\ \A j, k \in 1..Len(next) : j < k => next[j][1] < next[k][1]
    /\ \A k \in 1..Len(next), j \in pos..Len(level) : next[k][1] < level[j][1] \div 2
    /\ \A j \in 1..(pos - 1) : \E k \in 1..Len(next) : next[k][1] = level[j][1] \div 2

\* A node of height d whose old hash is the old tree's has the new tree's new
\* hash; a node that is not on the path is the same in both trees.
Sound(node, d) ==
    node[2] = OldHash[d][node[1]] => node[3] = NewHash[d][node[1]]
NewInv ==
    /\ \A j \in 1..Len(level) : Sound(level[j], depth)
    /\ \A k \in 1..Len(next) : Sound(next[k], depth + 1)
    /\ \A i \in Nodes(depth) :
         (\A j \in 1..Len(level) : level[j][1] # i) => OldHash[depth][i] = NewHash[depth][i]

\* The nodes not yet folded into a parent are all the old tree's exactly when
\* everything the walk was given was.
Matches(node, d) == node[2] = OldHash[d][node[1]]
AllMatch ==
    /\ \A j \in pos..Len(level) : Matches(level[j], depth)
    /\ \A k \in 1..Len(next) : Matches(next[k], depth + 1)
Authentic == wrong = 0 /\ \A j \in 1..Len(sorted) : sorted[j][2] = OldLeaf(sorted[j][1])

WalkInv ==
    /\ InputInv
    /\ phase # "given" => ShapeInv /\ NewInv /\ (AllMatch <=> Authentic)
    /\ phase = "done" => depth = Depth /\ Len(level) = 1

-----------------------------------------------------------------------------
(* The shape of the tree. *)

\* A level has half the nodes of the one below.
LEMMA Widths ==
    ASSUME NEW d \in 0..Depth
    PROVE  /\ Width(d) \in Nat /\ Width(d) > 0
           /\ d < Depth => Width(d) = 2 * Width(d + 1)
<1>1. Depth \in Nat /\ d \in Nat /\ Depth - d \in Nat
  BY WalkAssumption
<1>2. Width(d) \in Nat /\ Width(d) > 0
  BY <1>1, PowerOfTwo DEF Width
<1>3. ASSUME d < Depth PROVE Width(d) = 2 * Width(d + 1)
  <2>1. Depth - (d + 1) \in Nat /\ (Depth - (d + 1)) + 1 = Depth - d
    BY <1>1, <1>3
  <2>2. 2^((Depth - (d + 1)) + 1) = 2 * 2^(Depth - (d + 1))
    BY <2>1, PowerOfTwo
  <2> QED
    BY <2>1, <2>2 DEF Width
<1> QED
  BY <1>2, <1>3

\* The lowest level has the leaves, the highest one the root.
LEMMA Ends == Width(0) = Cap /\ Nodes(0) = Indices /\ Width(Depth) = 1 /\ Nodes(Depth) = {0}
              /\ 0 \in 0..Depth /\ Depth \in 0..Depth
<1>1. Depth - 0 = Depth /\ Depth - Depth = 0 /\ 0 \in 0..Depth /\ Depth \in 0..Depth
  BY WalkAssumption
<1>2. 2^0 = 1
  OBVIOUS
<1>3. Width(0) = Cap /\ Width(Depth) = 1
  BY <1>1, <1>2 DEF Width, Cap
<1>4. 0..0 = {0} /\ 1 - 1 = 0
  OBVIOUS
<1> QED
  BY <1>1, <1>3, <1>4 DEF Nodes, Indices

\* A node, its sibling and their parent.
LEMMA Family ==
    ASSUME NEW d \in 0..Depth, d < Depth, NEW k \in Nodes(d + 1)
    PROVE  /\ 2 * k \in Nodes(d) /\ 2 * k + 1 \in Nodes(d) /\ k \in Nat
           /\ \A t : NodeHash(t)[d + 1][k] = Compress(NodeHash(t)[d][2 * k], NodeHash(t)[d][2 * k + 1])
<1>1. d \in Nat /\ d + 1 \in 0..Depth /\ d + 1 # 0 /\ (d + 1) - 1 = d
  BY WalkAssumption
<1>2. Width(d) = 2 * Width(d + 1) /\ Width(d + 1) \in Nat /\ Width(d) \in Nat
  BY <1>1, Widths
<1>3. k \in Nat /\ 2 * k \in Nodes(d) /\ 2 * k + 1 \in Nodes(d)
  BY <1>2 DEF Nodes
<1>4. ASSUME NEW t
      PROVE  NodeHash(t)[d + 1][k] = Compress(NodeHash(t)[d][2 * k], NodeHash(t)[d][2 * k + 1])
  BY <1>1, NodeHashes
<1> QED
  BY <1>3, <1>4

\* A node is a child of its half.
LEMMA Halving ==
    ASSUME NEW d \in 0..Depth, d < Depth, NEW i \in Nodes(d)
    PROVE  /\ i \in Nat /\ i \div 2 \in Nodes(d + 1)
           /\ i % 2 = 0 => i = 2 * (i \div 2)
           /\ i % 2 = 1 => i = 2 * (i \div 2) + 1
           /\ i % 2 \in {0, 1}
<1>1. Width(d) = 2 * Width(d + 1) /\ Width(d) \in Nat
  BY Widths
<1>2. Width(d + 1) \in Nat
  <2>1. d + 1 \in 0..Depth
    BY WalkAssumption
  <2> QED
    BY <2>1, Widths
<1> QED
  BY <1>1, <1>2 DEF Nodes

\* Nodes to the right of a pair are not in it, and belong to a later parent.
LEMMA Later ==
    ASSUME NEW k \in Nat, NEW y \in Nat
    PROVE  /\ 2 * k + 1 < y => y # 2 * k /\ k < y \div 2
           /\ 2 * k < y /\ y # 2 * k + 1 => k < y \div 2
OBVIOUS

\* resolve_offpath_sibling's claim: a subtree from leaf_count_before on is empty.
LEMMA EmptyBeyond ==
    ASSUME InputInv
    PROVE  \A d \in 0..Depth : \A i \in Nodes(d) : i * 2^d >= lcb => OldHash[d][i] = Empty[d]
<1> DEFINE S == {d \in Nat : d <= Depth =>
                  \A i \in Nodes(d) : i * 2^d >= lcb => OldHash[d][i] = Empty[d]}
<1>1. 0 \in S
  <2>1. ASSUME NEW i \in Nodes(0), i * 2^0 >= lcb PROVE OldHash[0][i] = Empty[0]
    <3>0. i \in Nat /\ 2^0 = 1 /\ i \in Indices
      BY Ends, Widths DEF Nodes
    <3>1. ~ (i < lcb)
      BY <2>1, <3>0 DEF InputInv
    <3>2. OldTree[i] = EmptyLeaf
      BY <3>0, <3>1 DEF OldTree
    <3>3. OldHash[0][i] = hash_leaf(OldTree[i])
      BY Ends, NodeHashes DEF OldHash
    <3>4. Empty[0] = hash_leaf(EmptyLeaf)
      BY Ends, EmptyHashes
    <3> QED
      BY <3>2, <3>3, <3>4
  <2> QED
    BY <2>1
<1>2. ASSUME NEW d \in Nat, d \in S PROVE d + 1 \in S
  <2> SUFFICES ASSUME d + 1 <= Depth, NEW i \in Nodes(d + 1), i * 2^(d + 1) >= lcb
               PROVE  OldHash[d + 1][i] = Empty[d + 1]
    OBVIOUS
  <2>1. d \in 0..Depth /\ d < Depth /\ d + 1 \in 0..Depth /\ (d + 1) - 1 = d /\ d + 1 # 0 /\ d <= Depth
    BY WalkAssumption
  <2>2. /\ 2 * i \in Nodes(d) /\ 2 * i + 1 \in Nodes(d) /\ i \in Nat
        /\ OldHash[d + 1][i] = Compress(OldHash[d][2 * i], OldHash[d][2 * i + 1])
    BY <2>1, Family DEF OldHash
  <2>3. (2 * i) * 2^d >= lcb /\ (2 * i + 1) * 2^d >= lcb
    <3> DEFINE w == 2^d
    <3>1. w \in Nat /\ 2^(d + 1) = 2 * w /\ lcb \in Nat
      BY PowerOfTwo DEF InputInv
    <3>2. i * (2 * w) >= lcb
      BY <3>1
    <3> HIDE DEF w
    <3>3. i * (2 * w) = (2 * i) * w /\ (2 * i + 1) * w = (2 * i) * w + w /\ (2 * i) * w \in Nat
      BY <3>1, <2>2
    <3> DEFINE q == (2 * i) * w
    <3>4. q \in Nat /\ q >= lcb /\ (2 * i + 1) * w = q + w
      BY <3>2, <3>3
    <3> HIDE DEF q
    <3>5. q + w >= lcb
      BY <3>1, <3>4
    <3> QED
      BY <3>4, <3>5 DEF w, q
  <2>4. OldHash[d][2 * i] = Empty[d] /\ OldHash[d][2 * i + 1] = Empty[d]
    BY <1>2, <2>1, <2>2, <2>3
  <2>5. Empty[d + 1] = Compress(Empty[d], Empty[d])
    BY <2>1, EmptyHashes
  <2> QED
    BY <2>2, <2>4, <2>5
<1>3. Nat \subseteq S
  <2> HIDE DEF S
  <2> QED
    BY <1>1, <1>2, Induct
<1> QED
  BY <1>3, WalkAssumption

-----------------------------------------------------------------------------
(* Sequences. *)

\* Appending to a sequence.
LEMMA AppendSeq ==
    ASSUME NEW s, IsSeq(s), NEW e
    PROVE  /\ IsSeq(Append(s, e)) /\ Len(Append(s, e)) = Len(s) + 1
           /\ Append(s, e)[Len(s) + 1] = e
           /\ \A k \in 1..Len(s) : Append(s, e)[k] = s[k]
<1> DEFINE T == {s[k] : k \in 1..Len(s)} \cup {e}
<1>1. s \in Seq(T) /\ e \in T
  BY DEF IsSeq
<1> HIDE DEF T
<1>2. Append(s, e) \in Seq(T) /\ Len(Append(s, e)) = Len(s) + 1
  BY <1>1
<1>3. Append(s, e)[Len(s) + 1] = e
  BY <1>1
<1>4. ASSUME NEW k \in 1..Len(s) PROVE Append(s, e)[k] = s[k]
  BY <1>1
<1> DEFINE a == Append(s, e)
<1>5. IsSeq(a)
  <2>1. a \in Seq(T)
    BY <1>2
  <2> HIDE DEF a
  <2>2. Len(a) \in Nat /\ DOMAIN a = 1..Len(a) /\ a = [k \in DOMAIN a |-> a[k]]
    BY <2>1
  <2> QED
    BY <2>2 DEF IsSeq
<1> QED
  BY <1>2, <1>3, <1>4, <1>5

\* Intervals grow.
LEMMA Longer ==
    ASSUME NEW m \in Nat
    PROVE  /\ \A x \in 1..m : x \in 1..(m + 1)
           /\ \A x \in 1..(m + 1) : x # m + 1 => x \in 1..m
OBVIOUS

\* The empty sequence.
LEMMA EmptySeq == IsSeq(<< >>) /\ Len(<< >>) = 0
BY DEF IsSeq

\* A sequence that ascends from entry to entry ascends.
LEMMA Ascends ==
    ASSUME NEW n \in Nat, NEW f \in [1..n -> Nat], \A j \in 1..(n - 1) : f[j] < f[j + 1]
    PROVE  \A j, k \in 1..n : j < k => f[j] < f[k]
<1> DEFINE S == {k \in Nat : k <= n => \A j \in 1..n : j < k => f[j] < f[k]}
<1>1. 0 \in S
  OBVIOUS
<1>2. ASSUME NEW k \in Nat, k \in S PROVE k + 1 \in S
  <2> SUFFICES ASSUME k + 1 <= n, NEW j \in 1..n, j < k + 1 PROVE f[j] < f[k + 1]
    OBVIOUS
  <2>1. k \in 1..(n - 1) /\ k \in 1..n /\ k + 1 \in 1..n
    OBVIOUS
  <2>2. f[k] < f[k + 1] /\ f[j] \in Nat /\ f[k] \in Nat /\ f[k + 1] \in Nat
    BY <2>1
  <2>3. j = k \/ f[j] < f[k]
    BY <1>2, <2>1
  <2> QED
    BY <2>2, <2>3
<1>3. Nat \subseteq S
  <2> HIDE DEF S
  <2> QED
    BY <1>1, <1>2, Induct
<1> QED
  BY <1>3

-----------------------------------------------------------------------------
(* The actions. *)

\* The invariant holds before the walk.
LEMMA InitInv == Init => WalkInv
<1> SUFFICES ASSUME Init PROVE WalkInv
  OBVIOUS
<1>1. PICK n \in 0..MaxSorted :
        sorted \in [1..n -> {<<i, OldLeaf(i)>> : i \in Indices} \cup (Indices \X {ForgedLeaf})]
  BY DEF Init, SortedLeaves
<1>2. n \in Nat
  BY WalkAssumption
<1>3. Len(sorted) = n
  <2> DEFINE T == {<<i, OldLeaf(i)>> : i \in Indices} \cup (Indices \X {ForgedLeaf})
  <2>1. sorted \in Seq(T) /\ DOMAIN sorted = 1..n
    BY <1>1, <1>2
  <2> HIDE DEF T
  <2> QED
    BY <2>1, <1>2
<1>4. \A j \in 1..Len(sorted) : sorted[j][1] \in Indices
  BY <1>1, <1>3
<1>5. lcb \in Nat /\ lcb <= Cap /\ inserts \in Nat /\ lcb + inserts <= Cap
  <2>1. Cap \in Nat
    BY Ends, Widths
  <2> QED
    BY <2>1, WalkAssumption DEF Init
<1>6. \A i \in updated : \E j \in 1..Len(sorted) : sorted[j][1] = i
  BY DEF Init
<1> QED
  BY <1>2, <1>3, <1>4, <1>5, <1>6 DEF Init, WalkInv, InputInv

\* The trees depend on the input alone.
LEMMA SameTrees ==
    ASSUME UNCHANGED input
    PROVE  /\ lcb' = lcb /\ sorted' = sorted /\ updated' = updated /\ inserts' = inserts
           /\ OldTree' = OldTree /\ NewTree' = NewTree
           /\ OldHash' = OldHash /\ NewHash' = NewHash
<1>1. lcb' = lcb /\ sorted' = sorted /\ updated' = updated /\ inserts' = inserts
  BY DEF input
<1>2. OldTree' = OldTree
  BY <1>1 DEF OldTree
<1>3. NewTree' = NewTree
  BY <1>1, <1>2 DEF NewTree
<1> QED
  BY <1>1, <1>2, <1>3 DEF OldHash, NewHash

\* The first level of the walk: the witness leaves, whose positions are distinct
\* and populated, then the inserted ones.
LEMMA FirstLevel ==
    ASSUME InputInv, StrictlyAscending(sorted), InOldTree(sorted)
    PROVE  /\ IsSeq(Leaves0) /\ Len(Leaves0) = Len(sorted) + inserts
           /\ \A j \in 1..Len(sorted) :
                LET i == sorted[j][1] IN
                /\ i \in Indices /\ i < lcb
                /\ Leaves0[j] = <<i, hash_leaf(sorted[j][2]),
                                 hash_leaf(IF i \in updated THEN NewLeaf(i) ELSE sorted[j][2])>>
           /\ \A j \in (Len(sorted) + 1)..(Len(sorted) + inserts) :
                LET i == lcb + (j - Len(sorted)) - 1 IN
                Leaves0[j] = <<i, Empty[0], hash_leaf(NewLeaf(i))>>
           /\ \A j, k \in 1..Len(sorted) : j < k => sorted[j][1] < sorted[k][1]
<1> DEFINE n == Len(sorted)
           f == [j \in 1..n |-> sorted[j][1]]
<1>0. n \in Nat /\ inserts \in Nat /\ lcb \in Nat /\ Indices \subseteq Nat
      /\ \A j \in 1..n : sorted[j][1] \in Indices /\ sorted[j][1] < lcb
  <2>1. Cap \in Nat
    BY Ends, Widths
  <2> QED
    BY <2>1 DEF InputInv, InOldTree, Indices
<1>1. \A j, k \in 1..n : j < k => sorted[j][1] < sorted[k][1]
  <2>1. f \in [1..n -> Nat]
    BY <1>0
  <2>2. \A j \in 1..(n - 1) : f[j] < f[j + 1]
    BY <1>0 DEF StrictlyAscending
  <2> HIDE DEF f
  <2>3. \A j, k \in 1..n : j < k => f[j] < f[k]
    BY <1>0, <2>1, <2>2, Ascends
  <2> QED
    BY <2>3 DEF f
<1>2. ASSUME NEW j \in 1..n, NEW k \in 1..n, sorted[j][1] = sorted[k][1] PROVE j = k
  <2>1. sorted[j][1] \in Nat /\ sorted[k][1] \in Nat
    BY <1>0
  <2>2. ~ (j < k) /\ ~ (k < j)
    BY <1>1, <1>2, <2>1
  <2> QED
    BY <2>2
<1>3. ASSUME NEW j \in 1..n PROVE LastCopy(j) /\ OrigLeaf(sorted[j][1]) = sorted[j][2]
  <2>1. LastCopy(j)
    <3>1. \A m \in 1..n : sorted[m][1] = sorted[j][1] => m = j
      BY <1>2
    <3>2. j <= j
      BY <1>0
    <3> QED
      BY <3>1, <3>2 DEF LastCopy
  <2>2. (CHOOSE m \in 1..Len(sorted) : sorted[m][1] = sorted[j][1] /\ LastCopy(m)) = j
    BY <1>2, <2>1
  <2> QED
    BY <2>1, <2>2 DEF OrigLeaf
<1>4. /\ Leaves0 = [j \in 1..(n + inserts) |->
                      IF j <= n THEN WitnessNode(j) ELSE InsertedNode(j - n)]
  BY DEF Leaves0
<1>5. Len(Leaves0) = n + inserts /\ IsSeq(Leaves0)
  <2> DEFINE g(j) == IF j <= n THEN WitnessNode(j) ELSE InsertedNode(j - n)
             T == {g(j) : j \in 1..(n + inserts)}
  <2> HIDE DEF g
  <2>1. n + inserts \in Nat
    BY <1>0
  <2>2. [j \in 1..(n + inserts) |-> g(j)] \in Seq(T)
    BY <2>1
  <2>3. Leaves0 = [j \in 1..(n + inserts) |-> g(j)]
    BY <1>4 DEF g
  <2>4. DOMAIN Leaves0 = 1..(n + inserts) /\ Leaves0 \in Seq(T)
    BY <2>2, <2>3
  <2> HIDE DEF T
  <2>5. Len(Leaves0) = n + inserts
    BY <2>1, <2>4
  <2> QED
    BY <2>1, <2>3, <2>5 DEF IsSeq
<1>6. ASSUME NEW j \in 1..n
      PROVE  LET i == sorted[j][1] IN
             Leaves0[j] = <<i, hash_leaf(sorted[j][2]),
                            hash_leaf(IF i \in updated THEN NewLeaf(i) ELSE sorted[j][2])>>
  <2>1. j \in 1..(n + inserts) /\ j <= n
    BY <1>0
  <2>2. Leaves0[j] = WitnessNode(j)
    BY <1>4, <2>1
  <2> QED
    BY <1>0, <1>3, <2>2 DEF WitnessNode
<1>7. ASSUME NEW j \in (n + 1)..(n + inserts)
      PROVE  LET i == lcb + (j - n) - 1 IN Leaves0[j] = <<i, Empty[0], hash_leaf(NewLeaf(i))>>
  <2>1. j \in 1..(n + inserts) /\ ~ (j <= n)
    BY <1>0
  <2> QED
    BY <1>4, <2>1 DEF InsertedNode
<1> QED
  BY <1>0, <1>1, <1>5, <1>6, <1>7

\* The first level satisfies the invariant.
LEMMA StartKeeps == ASSUME WalkInv, Start PROVE WalkInv'
<1> DEFINE n == Len(sorted)
<1>0. InputInv /\ phase = "given" /\ phase' = "walk" /\ StrictlyAscending(sorted) /\ InOldTree(sorted)
      /\ depth = 0 /\ pos = 1 /\ next = << >> /\ wrong = 0
      /\ level' = Leaves0 /\ depth' = 0 /\ pos' = 1 /\ next' = << >> /\ wrong' = 0
      /\ UNCHANGED input
  BY DEF WalkInv, InputInv, Start
<1>s. /\ lcb' = lcb /\ sorted' = sorted /\ updated' = updated /\ inserts' = inserts
      /\ OldTree' = OldTree /\ NewTree' = NewTree /\ OldHash' = OldHash /\ NewHash' = NewHash
  BY <1>0, SameTrees
<1>t. n \in Nat /\ inserts \in Nat /\ lcb \in Nat /\ Cap \in Nat /\ lcb + inserts <= Cap
      /\ lcb <= Cap /\ Indices = 0..(Cap - 1) /\ Indices \subseteq Nat
  <2>1. Cap \in Nat
    BY Ends, Widths
  <2> QED
    BY <1>0, <2>1 DEF InputInv, Indices
<1> DEFINE L == Leaves0
<1>1. /\ IsSeq(L) /\ Len(L) = n + inserts
      /\ \A j \in 1..n :
           LET i == sorted[j][1] IN
           /\ i \in Indices /\ i < lcb
           /\ L[j] = <<i, hash_leaf(sorted[j][2]),
                      hash_leaf(IF i \in updated THEN NewLeaf(i) ELSE sorted[j][2])>>
      /\ \A j \in (n + 1)..(n + inserts) :
           LET i == lcb + (j - n) - 1 IN L[j] = <<i, Empty[0], hash_leaf(NewLeaf(i))>>
      /\ \A j, k \in 1..n : j < k => sorted[j][1] < sorted[k][1]
  BY <1>0, FirstLevel
<1> HIDE DEF L
<1>2. /\ \A j \in 1..n : L[j][1] = sorted[j][1] /\ L[j][1] \in Nat /\ L[j][1] < lcb
      /\ \A j \in (n + 1)..(n + inserts) : L[j][1] = lcb + (j - n) - 1
      /\ \A j \in 1..Len(L) : j \in 1..n \/ j \in (n + 1)..(n + inserts)
  BY <1>1, <1>t
<1>3. ASSUME NEW j \in 1..Len(L) PROVE L[j][1] \in Indices
  <2>1. CASE j \in 1..n
    BY <1>1, <1>2, <2>1
  <2>2. CASE j \in (n + 1)..(n + inserts)
    BY <1>2, <1>t, <2>2
  <2> QED
    BY <1>2, <2>1, <2>2
<1>4. ASSUME NEW j \in 1..Len(L), NEW k \in 1..Len(L), j < k PROVE L[j][1] < L[k][1]
  <2>1. CASE k \in 1..n
    <3>1. j \in 1..n
      BY <1>4, <2>1, <1>t
    <3> QED
      BY <1>1, <1>2, <1>4, <2>1, <3>1
  <2>2. CASE k \in (n + 1)..(n + inserts) /\ j \in 1..n
    BY <1>2, <1>t, <2>2
  <2>3. CASE k \in (n + 1)..(n + inserts) /\ j \in (n + 1)..(n + inserts)
    BY <1>2, <1>4, <1>t, <2>3
  <2> QED
    BY <1>2, <2>1, <2>2, <2>3
<1>5. \A i \in Indices : OldHash[0][i] = hash_leaf(OldTree[i]) /\ NewHash[0][i] = hash_leaf(NewTree[i])
  BY Ends, NodeHashes DEF OldHash, NewHash
<1>6. \A x, y : hash_leaf(x) = hash_leaf(y) <=> x = y
  BY DEF hash_leaf
<1>7. ASSUME NEW j \in 1..n
      PROVE  /\ Sound(L[j], 0)
             /\ Matches(L[j], 0) <=> sorted[j][2] = OldLeaf(sorted[j][1])
  <2> DEFINE i == sorted[j][1]
             leaf == IF i \in updated THEN NewLeaf(i) ELSE sorted[j][2]
  <2>1. L[j] = <<i, hash_leaf(sorted[j][2]), hash_leaf(leaf)>> /\ i \in Indices /\ i < lcb
    BY <1>1
  <2>2. OldTree[i] = OldLeaf(i)
    BY <2>1 DEF OldTree
  <2>3. NewTree[i] = IF i \in updated THEN NewLeaf(i) ELSE OldLeaf(i)
    <3>1. ~ (lcb <= i)
      BY <2>1, <1>t
    <3> QED
      BY <2>1, <2>2, <3>1 DEF NewTree
  <2> HIDE DEF i
  <2>4. L[j][1] = i /\ L[j][2] = hash_leaf(sorted[j][2]) /\ L[j][3] = hash_leaf(leaf)
    BY <2>1
  <2>5. Matches(L[j], 0) <=> sorted[j][2] = OldLeaf(i)
    BY <1>5, <1>6, <2>1, <2>2, <2>4 DEF Matches
  <2>6. sorted[j][2] = OldLeaf(i) => leaf = NewTree[i]
    BY <2>3
  <2> HIDE DEF leaf
  <2>7. Sound(L[j], 0)
    <3>1. SUFFICES ASSUME Matches(L[j], 0) PROVE L[j][3] = NewHash[0][L[j][1]]
      BY DEF Sound, Matches
    <3>2. leaf = NewTree[i]
      BY <2>5, <2>6, <3>1
    <3> QED
      BY <1>5, <2>1, <2>4, <3>2
  <2> QED
    BY <2>5, <2>7 DEF i
<1>8. ASSUME NEW j \in (n + 1)..(n + inserts) PROVE Sound(L[j], 0) /\ Matches(L[j], 0)
  <2> DEFINE i == lcb + (j - n) - 1
  <2>1. L[j] = <<i, Empty[0], hash_leaf(NewLeaf(i))>>
    BY <1>1
  <2>2. i \in Indices /\ lcb <= i /\ i < lcb + inserts /\ ~ (i < lcb)
    BY <1>t
  <2> HIDE DEF i
  <2>3. OldTree[i] = EmptyLeaf /\ NewTree[i] = NewLeaf(i)
    BY <2>2 DEF OldTree, NewTree
  <2>4. Empty[0] = hash_leaf(EmptyLeaf)
    BY Ends, EmptyHashes
  <2>5. L[j][1] = i /\ L[j][2] = Empty[0] /\ L[j][3] = hash_leaf(NewLeaf(i))
    BY <2>1
  <2> QED
    BY <1>5, <2>2, <2>3, <2>4, <2>5 DEF Sound, Matches
<1>9. ASSUME NEW i \in Indices, \A j \in 1..Len(L) : L[j][1] # i
      PROVE  OldHash[0][i] = NewHash[0][i]
  <2>1. i \notin updated
    <3>1. ASSUME i \in updated PROVE FALSE
      <4>1. PICK j \in 1..n : sorted[j][1] = i
        BY <1>0, <3>1 DEF InputInv
      <4>2. j \in 1..Len(L)
        BY <1>1, <1>t
      <4> QED
        BY <1>2, <1>9, <4>1, <4>2
    <3> QED
      BY <3>1
  <2>2. ~ (lcb <= i /\ i < lcb + inserts)
    <3>1. ASSUME lcb <= i, i < lcb + inserts PROVE FALSE
      <4> DEFINE j == n + (i - lcb) + 1
      <4>1. j \in (n + 1)..(n + inserts) /\ j \in 1..Len(L) /\ lcb + (j - n) - 1 = i
        BY <1>1, <1>t, <3>1
      <4> QED
        BY <1>2, <1>9, <4>1
    <3> QED
      BY <3>1
  <2>3. NewTree[i] = OldTree[i]
    BY <2>1, <2>2 DEF NewTree
  <2> QED
    BY <1>5, <2>3
<1>10. InputInv'
  BY <1>0, <1>s DEF InputInv
<1>11. ShapeInv'
  <2>1. 0 \in 0..Depth /\ Nodes(0) = Indices /\ 1 \in 1..(Len(L) + 1)
    BY Ends, <1>1, <1>t
  <2>2. level' = L
    BY <1>0 DEF L
  <2> QED
    BY <1>0, <1>1, <1>3, <1>4, <2>1, <2>2, EmptySeq DEF ShapeInv
<1>12. NewInv'
  <2>1. level' = L /\ Nodes(0) = Indices
    BY <1>0, Ends DEF L
  <2>2. \A j \in 1..Len(L) : L[j][2] = OldHash[0][L[j][1]] => L[j][3] = NewHash[0][L[j][1]]
    BY <1>2, <1>7, <1>8 DEF Sound
  <2> QED
    BY <1>0, <1>s, <1>9, <2>1, <2>2, EmptySeq DEF NewInv, Sound
<1>13. AllMatch' <=> Authentic'
  <2>1. level' = L
    BY <1>0 DEF L
  <2>2. AllMatch' <=> \A j \in 1..Len(L) : L[j][2] = OldHash[0][L[j][1]]
    BY <1>0, <1>s, <2>1, EmptySeq DEF AllMatch, Matches
  <2>3. Authentic' <=> \A j \in 1..n : sorted[j][2] = OldLeaf(sorted[j][1])
    BY <1>0, <1>s DEF Authentic
  <2>4. 1..n \subseteq 1..Len(L)
    BY <1>1, <1>t
  <2> QED
    BY <1>2, <1>7, <1>8, <2>2, <2>3, <2>4 DEF Matches
<1> QED
  BY <1>0, <1>10, <1>11, <1>12, <1>13 DEF WalkInv

\* One step of the walk folds the c nodes under the cursor, which are all the
\* children of one parent on the path, into that parent.  h is the hash that was
\* read, and r the one it should have been.
LEMMA PushKeeps ==
    ASSUME WalkInv, Walking, NEW c \in {1, 2}, NEW o, NEW w, NEW h, NEW r,
           Push(o, w, c),
           pos + c - 1 <= Len(level),
           \A j \in pos..(pos + c - 1) : level[j][1] \div 2 = Idx \div 2,
           \A j \in (pos + c)..Len(level) : Idx \div 2 < level[j][1] \div 2,
           wrong' \in Nat, wrong' = 0 <=> wrong = 0 /\ h = r,
           Sound(<<Idx \div 2, o, w>>, depth + 1),
           Matches(<<Idx \div 2, o, w>>, depth + 1)
             <=> h = r /\ \A j \in pos..(pos + c - 1) : Matches(level[j], depth)
    PROVE  WalkInv'
<1> DEFINE k == Idx \div 2
           node == <<k, o, w>>
           m == Len(next)
<1>0. InputInv /\ ShapeInv /\ NewInv /\ (AllMatch <=> Authentic)
      /\ phase = "walk" /\ depth < Depth /\ pos <= Len(level)
  BY DEF WalkInv, Walking
<1>t. pos \in Nat /\ pos >= 1 /\ Len(level) \in Nat /\ m \in Nat /\ depth \in Nat /\ depth \in 0..Depth
      /\ c \in Nat /\ pos \in 1..Len(level)
  BY <1>0 DEF ShapeInv, IsSeq
<1>1. next' = Append(next, node) /\ pos' = pos + c /\ phase' = phase /\ depth' = depth
      /\ level' = level /\ UNCHANGED input
  BY DEF Push
<1>s. /\ lcb' = lcb /\ sorted' = sorted /\ updated' = updated /\ inserts' = inserts
      /\ OldHash' = OldHash /\ NewHash' = NewHash
  BY <1>1, SameTrees
<1>2. /\ IsSeq(next') /\ Len(next') = m + 1 /\ next'[m + 1] = node
      /\ \A x \in 1..m : next'[x] = next[x]
  <2>1. IsSeq(next)
    BY <1>0 DEF ShapeInv
  <2> QED
    BY <1>1, <2>1, AppendSeq, SMTT(30)
<1>3. k \in Nodes(depth + 1)
  <2>1. Idx \in Nodes(depth)
    BY <1>0, <1>t DEF ShapeInv, Idx
  <2> QED
    BY <1>0, <1>t, <2>1, Halving
<1>n. node[1] = k /\ node[2] = o /\ node[3] = w
  OBVIOUS
<1> HIDE DEF k, node
<1>4. InputInv'
  BY <1>0, <1>1, <1>s DEF InputInv
<1>5. \A x \in 1..m : next[x][1] < k
  BY <1>0, <1>t DEF ShapeInv, Idx, k
<1>6. ShapeInv'
  <2>1. pos + c \in 1..(Len(level) + 1)
    BY <1>t
  <2>a. \A x, y \in 1..m : x < y => next[x][1] < next[y][1]
    BY <1>0 DEF ShapeInv
  <2>b. \A x \in 1..m, j \in pos..Len(level) : next[x][1] < level[j][1] \div 2
    BY <1>0 DEF ShapeInv
  <2>2. ASSUME NEW x \in 1..(m + 1) PROVE next'[x][1] \in Nodes(depth + 1)
    <3>1. CASE x = m + 1
      BY <1>2, <1>3, <1>n, <3>1
    <3>2. CASE x # m + 1
      <4>1. x \in 1..m
        BY <1>t, <3>2
      <4> QED
        BY <1>0, <1>2, <4>1 DEF ShapeInv
    <3> QED
      BY <3>1, <3>2
  <2>3. ASSUME NEW x \in 1..(m + 1), NEW y \in 1..(m + 1), x < y
        PROVE  next'[x][1] < next'[y][1]
    <3>0. x \in 1..m
      BY <1>t, <2>3
    <3>1. CASE y = m + 1
      BY <1>2, <1>5, <1>n, <3>0, <3>1
    <3>2. CASE y # m + 1
      <4>1. y \in 1..m
        BY <1>t, <3>2, Longer, Zenon
      <4> QED
        BY <1>2, <2>3, <2>a, <3>0, <4>1, Zenon
    <3> QED
      BY <3>1, <3>2
  <2>4. ASSUME NEW x \in 1..(m + 1), NEW j \in (pos + c)..Len(level)
        PROVE  next'[x][1] < level[j][1] \div 2
    <3>1. CASE x = m + 1
      BY <1>2, <1>n, <3>1 DEF k
    <3>2. CASE x # m + 1
      <4>0. j \in pos..Len(level)
        BY <1>t
      <4>1. x \in 1..m /\ j \in pos..Len(level)
        BY <1>t, <3>2, <4>0, Longer, Zenon
      <4> QED
        BY <1>2, <2>b, <4>1, Zenon
    <3> QED
      BY <3>1, <3>2
  <2>5. ASSUME NEW j \in 1..(pos + c - 1)
        PROVE  \E x \in 1..(m + 1) : next'[x][1] = level[j][1] \div 2
    <3>1. CASE j < pos
      <4>1. j \in 1..(pos - 1)
        BY <1>t, <3>1
      <4>2. PICK x \in 1..m : next[x][1] = level[j][1] \div 2
        BY <1>0, <4>1 DEF ShapeInv
      <4>3. x \in 1..(m + 1) /\ next'[x] = next[x]
        BY <1>2, <1>t, Longer, Zenon
      <4> QED
        BY <4>2, <4>3
    <3>2. CASE ~ (j < pos)
      <4>1. j \in pos..(pos + c - 1)
        BY <1>t, <3>2
      <4>2. level[j][1] \div 2 = k
        BY <4>1 DEF k
      <4>3. m + 1 \in 1..(m + 1)
        BY <1>t
      <4> QED
        BY <1>2, <1>n, <4>2, <4>3
    <3> QED
      BY <3>1, <3>2
  <2>6. depth # Depth
    BY <1>0, <1>t, WalkAssumption
  <2>7. pos' - 1 = pos + c - 1
    BY <1>1, <1>t
  <2> QED
    BY <1>0, <1>1, <1>2, <2>1, <2>2, <2>3, <2>4, <2>5, <2>6, <2>7 DEF ShapeInv
<1>7. NewInv'
  <2>1. ASSUME NEW x \in 1..(m + 1) PROVE Sound(next'[x], depth + 1)
    <3>1. CASE x = m + 1
      BY <1>2, <3>1 DEF node, k
    <3>2. CASE x # m + 1
      <4>1. x \in 1..m
        BY <1>t, <3>2
      <4> QED
        BY <1>0, <1>2, <4>1 DEF NewInv
    <3> QED
      BY <3>1, <3>2
  <2>2. \A x \in 1..(m + 1) : next'[x][2] = OldHash[depth + 1][next'[x][1]]
                              => next'[x][3] = NewHash[depth + 1][next'[x][1]]
    BY <2>1 DEF Sound
  <2> QED
    BY <1>0, <1>1, <1>2, <1>s, <2>2 DEF NewInv, Sound
<1>8. AllMatch' <=> Authentic'
  <2>1. Authentic' <=> Authentic /\ h = r
    BY <1>s DEF Authentic
  <2>2. AllMatch' <=> /\ \A j \in (pos + c)..Len(level) : level[j][2] = OldHash[depth][level[j][1]]
                      /\ \A x \in 1..(m + 1) : next'[x][2] = OldHash[depth + 1][next'[x][1]]
    BY <1>1, <1>2, <1>s DEF AllMatch, Matches
  <2>3. AllMatch' <=> /\ \A j \in (pos + c)..Len(level) : Matches(level[j], depth)
                      /\ \A x \in 1..(m + 1) : Matches(next'[x], depth + 1)
    BY <2>2 DEF Matches
  <2>4. (\A x \in 1..(m + 1) : Matches(next'[x], depth + 1))
          <=> (\A x \in 1..m : Matches(next[x], depth + 1)) /\ Matches(node, depth + 1)
    <3>1. 1..(m + 1) = 1..m \cup {m + 1}
      BY <1>t, SMTT(30)
    <3> QED
      BY <3>1, <1>2
  <2>5. (\A j \in pos..Len(level) : Matches(level[j], depth))
          <=> /\ \A j \in pos..(pos + c - 1) : Matches(level[j], depth)
              /\ \A j \in (pos + c)..Len(level) : Matches(level[j], depth)
    <3>1. pos..Len(level) = (pos..(pos + c - 1)) \cup ((pos + c)..Len(level))
      BY <1>t, SMTT(30)
    <3> QED
      BY <3>1
  <2>6. Matches(node, depth + 1)
          <=> h = r /\ \A j \in pos..(pos + c - 1) : Matches(level[j], depth)
    BY DEF node, k
  <2> QED
    BY <1>0, <2>1, <2>3, <2>4, <2>5, <2>6 DEF AllMatch
<1> QED
  BY <1>0, <1>1, <1>4, <1>6, <1>7, <1>8 DEF WalkInv

\* The node under the cursor.
LEMMA Cursor ==
    ASSUME WalkInv, Walking
    PROVE  /\ pos \in 1..Len(level) /\ Len(level) \in Nat /\ pos \in Nat
           /\ depth \in 0..Depth /\ depth < Depth
           /\ Idx \in Nodes(depth) /\ Idx \in Nat /\ Idx \div 2 \in Nodes(depth + 1)
           /\ \A j \in (pos + 1)..Len(level) : level[j][1] \in Nat /\ Idx < level[j][1]
           /\ \A j \in 1..(pos - 1) : level[j][1] \div 2 < Idx \div 2
<1>0. ShapeInv /\ depth < Depth /\ pos <= Len(level)
  BY DEF WalkInv, Walking
<1>1. pos \in 1..Len(level) /\ Len(level) \in Nat /\ pos \in Nat /\ depth \in 0..Depth
  BY <1>0 DEF ShapeInv, IsSeq
<1>2. Idx \in Nodes(depth)
  BY <1>0, <1>1 DEF ShapeInv, Idx
<1>3. Idx \in Nat /\ Idx \div 2 \in Nodes(depth + 1)
  BY <1>0, <1>1, <1>2, Halving
<1>4. ASSUME NEW j \in (pos + 1)..Len(level) PROVE level[j][1] \in Nat /\ Idx < level[j][1]
  <2>1. j \in 1..Len(level) /\ pos < j
    BY <1>1
  <2>2. level[j][1] \in Nodes(depth)
    BY <1>0, <2>1 DEF ShapeInv
  <2> QED
    BY <1>0, <1>1, <2>1, <2>2, Halving DEF ShapeInv, Idx
<1>5. ASSUME NEW j \in 1..(pos - 1) PROVE level[j][1] \div 2 < Idx \div 2
  <2>1. PICK x \in 1..Len(next) : next[x][1] = level[j][1] \div 2
    BY <1>0 DEF ShapeInv
  <2>2. pos \in pos..Len(level)
    BY <1>1
  <2>3. next[x][1] < level[pos][1] \div 2
    BY <1>0, <2>2 DEF ShapeInv
  <2> QED
    BY <2>1, <2>3 DEF Idx
<1> QED
  BY <1>0, <1>1, <1>2, <1>3, <1>4, <1>5

\* A sibling is right if it is provably empty, and counted if it is wrong.
LEMMA OffPath ==
    ASSUME WalkInv, Walking, NEW sib \in Nodes(depth), NEW h, OffPathSibling(sib, h)
    PROVE  wrong' \in Nat /\ (wrong' = 0 <=> wrong = 0 /\ h = OldHash[depth][sib])
<1>1. wrong \in Nat /\ InputInv /\ depth \in 0..Depth
  BY Cursor DEF WalkInv, InputInv
<1>2. CASE ProvablyEmpty(sib)
  <2>1. h = Empty[depth] /\ wrong' = wrong
    BY <1>2 DEF OffPathSibling
  <2>2. OldHash[depth][sib] = Empty[depth]
    BY <1>1, <1>2, EmptyBeyond DEF ProvablyEmpty
  <2> QED
    BY <1>1, <2>1, <2>2
<1>3. CASE ~ProvablyEmpty(sib)
  <2>1. wrong' = wrong + IF h = OldHash[depth][sib] THEN 0 ELSE 1
    BY <1>3 DEF OffPathSibling, OldHash
  <2> QED
    BY <1>1, <2>1
<1> QED
  BY <1>2, <1>3

\* A node that is not on the path is the same in both trees.
LEMMA OffPathSame ==
    ASSUME WalkInv, Walking, NEW sib \in Nodes(depth), sib \in Nat,
           sib \div 2 = Idx \div 2, sib # Idx,
           \A j \in (pos + 1)..Len(level) : level[j][1] # sib
    PROVE  OldHash[depth][sib] = NewHash[depth][sib]
<1>1. ASSUME NEW j \in 1..Len(level) PROVE level[j][1] # sib
  <2>1. CASE j \in 1..(pos - 1)
    <3>1. level[j][1] \div 2 < Idx \div 2 /\ Idx \div 2 \in Int
      BY <2>1, Cursor
    <3>2. ASSUME level[j][1] = sib PROVE FALSE
      <4>1. Idx \div 2 < Idx \div 2
        BY <3>1, <3>2
      <4> QED
        BY <3>1, <4>1
    <3> QED
      BY <3>2
  <2>2. CASE j = pos
    BY <2>2 DEF Idx
  <2>3. CASE j \in (pos + 1)..Len(level)
    BY <2>3
  <2> QED
    BY <2>1, <2>2, <2>3, Cursor
<1> QED
  BY <1>1 DEF WalkInv, Walking, NewInv

\* A right child beside a hash that stands for its sibling.
LEMMA StepRightKeeps == ASSUME WalkInv, StepRight PROVE WalkInv'
<1> DEFINE k == Idx \div 2
<1>1. Walking /\ Idx % 2 = 1
  BY DEF StepRight
<1>2. PICK h : OffPathSibling(Idx - 1, h) /\ Push(Compress(h, Old), Compress(h, New), 1)
  BY DEF StepRight
<1>t. /\ pos \in 1..Len(level) /\ Len(level) \in Nat /\ pos \in Nat
      /\ depth \in 0..Depth /\ depth < Depth /\ Idx \in Nodes(depth) /\ Idx \in Nat
      /\ k \in Nodes(depth + 1)
      /\ \A j \in (pos + 1)..Len(level) : level[j][1] \in Nat /\ Idx < level[j][1]
  BY <1>1, Cursor
<1>3. Idx = 2 * k + 1 /\ k \in Nat /\ Idx - 1 = 2 * k /\ 2 * k \in Nodes(depth) /\ (2 * k) \div 2 = k
  <2>1. Idx = 2 * k + 1
    BY <1>1, <1>t, Halving, Zenon
  <2>2. k \in Nat /\ 2 * k \in Nodes(depth)
    BY <1>t, Family, Zenon
  <2> HIDE DEF k
  <2> QED
    BY <2>1, <2>2
<1>4. /\ OldHash[depth + 1][k] = Compress(OldHash[depth][2 * k], OldHash[depth][Idx])
      /\ NewHash[depth + 1][k] = Compress(NewHash[depth][2 * k], NewHash[depth][Idx])
  <2>1. \A t : NodeHash(t)[depth + 1][k] = Compress(NodeHash(t)[depth][2 * k], NodeHash(t)[depth][2 * k + 1])
    BY <1>t, Family, Zenon
  <2> HIDE DEF k
  <2> QED
    BY <1>3, <2>1 DEF OldHash, NewHash
<1>5. OldHash[depth][2 * k] = NewHash[depth][2 * k]
  <2>1. ASSUME NEW j \in (pos + 1)..Len(level) PROVE level[j][1] # 2 * k
    <3>1. level[j][1] \in Nat /\ Idx < level[j][1]
      BY <1>t
    <3> QED
      BY <1>3, <3>1, Later
  <2>2. 2 * k # Idx /\ 2 * k \in Nat
    BY <1>3
  <2> QED
    BY <1>1, <1>3, <2>1, <2>2, OffPathSame
<1>6. wrong' \in Nat /\ (wrong' = 0 <=> wrong = 0 /\ h = OldHash[depth][2 * k])
  BY <1>1, <1>2, <1>3, OffPath
<1> HIDE DEF k
<1>7. \A a, b, x, y : Compress(a, b) = Compress(x, y) <=> a = x /\ b = y
  BY DEF Compress
<1>8. Sound(level[pos], depth) /\ level[pos][1] = Idx /\ level[pos][2] = Old /\ level[pos][3] = New
  BY <1>1, <1>t DEF WalkInv, Walking, NewInv, Idx, Old, New
<1> DEFINE node == <<k, Compress(h, Old), Compress(h, New)>>
<1>n. node[1] = k /\ node[2] = Compress(h, Old) /\ node[3] = Compress(h, New)
  OBVIOUS
<1>9. Matches(node, depth + 1) <=> h = OldHash[depth][2 * k] /\ Old = OldHash[depth][Idx]
  BY <1>n, <1>4, <1>7 DEF Matches
<1>10. Sound(node, depth + 1)
  BY <1>n, <1>4, <1>5, <1>7, <1>8 DEF Sound
<1>11. pos..(pos + 1 - 1) = {pos} /\ pos + 1 - 1 <= Len(level)
  BY <1>t
<1>12. \A j \in (pos + 1)..Len(level) : k < level[j][1] \div 2
  BY <1>3, <1>t
<1>13. Matches(node, depth + 1)
         <=> h = OldHash[depth][2 * k] /\ \A j \in pos..(pos + 1 - 1) : Matches(level[j], depth)
  BY <1>8, <1>9, <1>11 DEF Matches
<1>14. \A j \in pos..(pos + 1 - 1) : level[j][1] \div 2 = k
  BY <1>8, <1>11 DEF k
<1> QED
  BY <1>1, <1>2, <1>6, <1>10, <1>11, <1>12, <1>13, <1>14, PushKeeps DEF k

\* A left child beside a hash that stands for its sibling.
LEMMA StepLeftKeeps == ASSUME WalkInv, StepLeft PROVE WalkInv'
<1> DEFINE k == Idx \div 2
<1>1. Walking /\ Idx % 2 = 0 /\ ~HasRightSibling
  BY DEF StepLeft
<1>2. PICK h : OffPathSibling(Idx + 1, h) /\ Push(Compress(Old, h), Compress(New, h), 1)
  BY DEF StepLeft
<1>t. /\ pos \in 1..Len(level) /\ Len(level) \in Nat /\ pos \in Nat
      /\ depth \in 0..Depth /\ depth < Depth /\ Idx \in Nodes(depth) /\ Idx \in Nat
      /\ k \in Nodes(depth + 1)
      /\ \A j \in (pos + 1)..Len(level) : level[j][1] \in Nat /\ Idx < level[j][1]
  BY <1>1, Cursor
<1>3. Idx = 2 * k /\ k \in Nat /\ Idx + 1 = 2 * k + 1 /\ 2 * k + 1 \in Nodes(depth)
      /\ (2 * k + 1) \div 2 = k
  <2>1. Idx = 2 * k
    BY <1>1, <1>t, Halving, Zenon
  <2>2. k \in Nat /\ 2 * k + 1 \in Nodes(depth)
    BY <1>t, Family, Zenon
  <2> HIDE DEF k
  <2> QED
    BY <2>1, <2>2
<1>4. /\ OldHash[depth + 1][k] = Compress(OldHash[depth][Idx], OldHash[depth][2 * k + 1])
      /\ NewHash[depth + 1][k] = Compress(NewHash[depth][Idx], NewHash[depth][2 * k + 1])
  <2>1. \A t : NodeHash(t)[depth + 1][k] = Compress(NodeHash(t)[depth][2 * k], NodeHash(t)[depth][2 * k + 1])
    BY <1>t, Family, Zenon
  <2> HIDE DEF k
  <2> QED
    BY <1>3, <2>1 DEF OldHash, NewHash
<1>5. ASSUME NEW j \in (pos + 1)..Len(level) PROVE level[j][1] # 2 * k + 1 /\ k < level[j][1] \div 2
  <2>1. level[j][1] # Idx + 1
    <3>0. pos < Len(level) /\ level[pos + 1][1] # Idx + 1
      BY <1>1, <1>t DEF HasRightSibling
    <3>1. CASE j = pos + 1
      BY <3>0, <3>1
    <3>2. CASE j # pos + 1
      <4>1. pos + 1 \in (pos + 1)..Len(level) /\ pos + 1 \in 1..Len(level) /\ j \in 1..Len(level)
            /\ pos + 1 < j
        BY <1>t, <3>2
      <4>2. level[pos + 1][1] < level[j][1]
        BY <1>1, <4>1 DEF WalkInv, Walking, ShapeInv
      <4>3. Idx < level[pos + 1][1] /\ level[pos + 1][1] \in Nat /\ level[j][1] \in Nat
        BY <1>t, <4>1
      <4> QED
        BY <1>t, <4>2, <4>3
    <3> QED
      BY <3>1, <3>2
  <2>2. level[j][1] \in Nat /\ Idx < level[j][1]
    BY <1>t
  <2> QED
    BY <1>3, <2>1, <2>2, Later
<1>6. OldHash[depth][2 * k + 1] = NewHash[depth][2 * k + 1]
  <2>1. 2 * k + 1 # Idx /\ 2 * k + 1 \in Nat
    BY <1>3
  <2> QED
    BY <1>1, <1>3, <1>5, <2>1, OffPathSame
<1>7. wrong' \in Nat /\ (wrong' = 0 <=> wrong = 0 /\ h = OldHash[depth][2 * k + 1])
  BY <1>1, <1>2, <1>3, OffPath
<1> HIDE DEF k
<1>8. \A a, b, x, y : Compress(a, b) = Compress(x, y) <=> a = x /\ b = y
  BY DEF Compress
<1>9. Sound(level[pos], depth) /\ level[pos][1] = Idx /\ level[pos][2] = Old /\ level[pos][3] = New
  BY <1>1, <1>t DEF WalkInv, Walking, NewInv, Idx, Old, New
<1> DEFINE node == <<k, Compress(Old, h), Compress(New, h)>>
<1>n. node[1] = k /\ node[2] = Compress(Old, h) /\ node[3] = Compress(New, h)
  OBVIOUS
<1>10. Matches(node, depth + 1) <=> h = OldHash[depth][2 * k + 1] /\ Old = OldHash[depth][Idx]
  BY <1>n, <1>4, <1>8 DEF Matches
<1>11. Sound(node, depth + 1)
  BY <1>n, <1>4, <1>6, <1>8, <1>9 DEF Sound
<1>12. pos..(pos + 1 - 1) = {pos} /\ pos + 1 - 1 <= Len(level)
  BY <1>t
<1>13. Matches(node, depth + 1)
         <=> h = OldHash[depth][2 * k + 1] /\ \A j \in pos..(pos + 1 - 1) : Matches(level[j], depth)
  BY <1>9, <1>10, <1>12 DEF Matches
<1>14. \A j \in pos..(pos + 1 - 1) : level[j][1] \div 2 = k
  BY <1>9, <1>12 DEF k
<1> QED
  BY <1>1, <1>2, <1>5, <1>7, <1>11, <1>12, <1>13, <1>14, PushKeeps DEF k

\* Two computed siblings are folded into their parent.
LEMMA StepPairKeeps == ASSUME WalkInv, StepPair PROVE WalkInv'
<1> DEFINE k == Idx \div 2
           right == level[pos + 1]
<1>1. /\ Walking /\ Idx % 2 = 0 /\ HasRightSibling /\ wrong' = wrong
      /\ Push(Compress(Old, right[2]), Compress(New, right[3]), 2)
  BY DEF StepPair
<1>t. /\ pos \in 1..Len(level) /\ Len(level) \in Nat /\ pos \in Nat
      /\ depth \in 0..Depth /\ depth < Depth /\ Idx \in Nodes(depth) /\ Idx \in Nat
      /\ k \in Nodes(depth + 1)
      /\ \A j \in (pos + 1)..Len(level) : level[j][1] \in Nat /\ Idx < level[j][1]
  BY <1>1, Cursor
<1>2. pos < Len(level) /\ right[1] = Idx + 1 /\ pos + 1 \in 1..Len(level)
  BY <1>1, <1>t DEF HasRightSibling
<1>3. Idx = 2 * k /\ k \in Nat /\ right[1] = 2 * k + 1 /\ right[1] \div 2 = k
  <2>1. Idx = 2 * k
    BY <1>1, <1>t, Halving, Zenon
  <2>2. k \in Nat
    BY <1>t, Family, Zenon
  <2> HIDE DEF k
  <2> QED
    BY <1>2, <2>1, <2>2
<1>4. /\ OldHash[depth + 1][k] = Compress(OldHash[depth][Idx], OldHash[depth][right[1]])
      /\ NewHash[depth + 1][k] = Compress(NewHash[depth][Idx], NewHash[depth][right[1]])
  <2>1. \A t : NodeHash(t)[depth + 1][k] = Compress(NodeHash(t)[depth][2 * k], NodeHash(t)[depth][2 * k + 1])
    BY <1>t, Family, Zenon
  <2> HIDE DEF k
  <2> QED
    BY <1>3, <2>1 DEF OldHash, NewHash
<1>5. ASSUME NEW j \in (pos + 2)..Len(level) PROVE k < level[j][1] \div 2
  <2>1. j \in 1..Len(level) /\ pos + 1 < j /\ j \in (pos + 1)..Len(level)
    BY <1>t
  <2>2. right[1] < level[j][1] /\ level[j][1] \in Nat
    BY <1>1, <1>2, <1>t, <2>1 DEF WalkInv, Walking, ShapeInv
  <2> QED
    BY <1>3, <2>2
<1> HIDE DEF k
<1>6. \A a, b, x, y : Compress(a, b) = Compress(x, y) <=> a = x /\ b = y
  BY DEF Compress
<1>7. /\ Sound(level[pos], depth) /\ level[pos][1] = Idx /\ level[pos][2] = Old
      /\ level[pos][3] = New /\ Sound(right, depth)
  BY <1>1, <1>2, <1>t DEF WalkInv, Walking, NewInv, Idx, Old, New
<1> DEFINE node == <<k, Compress(Old, right[2]), Compress(New, right[3])>>
<1>n. node[1] = k /\ node[2] = Compress(Old, right[2]) /\ node[3] = Compress(New, right[3])
  OBVIOUS
<1>8. Matches(node, depth + 1)
        <=> Old = OldHash[depth][Idx] /\ right[2] = OldHash[depth][right[1]]
  BY <1>n, <1>4, <1>6 DEF Matches
<1>9. Sound(node, depth + 1)
  BY <1>n, <1>4, <1>6, <1>7 DEF Sound
<1>10. pos..(pos + 2 - 1) = {pos, pos + 1} /\ pos + 2 - 1 <= Len(level)
  BY <1>2, <1>t
<1>11. Matches(node, depth + 1)
         <=> 0 = 0 /\ \A j \in pos..(pos + 2 - 1) : Matches(level[j], depth)
  BY <1>7, <1>8, <1>10 DEF Matches
<1>12. \A j \in pos..(pos + 2 - 1) : level[j][1] \div 2 = k
  BY <1>3, <1>7, <1>10 DEF k
<1>13. wrong' \in Nat /\ (wrong' = 0 <=> wrong = 0 /\ 0 = 0)
  BY <1>1 DEF WalkInv, InputInv
<1> QED
  BY <1>1, <1>5, <1>9, <1>10, <1>11, <1>12, <1>13, PushKeeps DEF k

\* The parents of a level's nodes are the level above, and hold all its parents.
LEMMA LevelDoneKeeps == ASSUME WalkInv, LevelDone PROVE WalkInv'
<1>0. /\ InputInv /\ ShapeInv /\ NewInv /\ (AllMatch <=> Authentic)
      /\ phase = "walk" /\ depth < Depth /\ pos > Len(level)
  BY DEF WalkInv, LevelDone
<1>1. /\ level' = next /\ next' = << >> /\ pos' = 1 /\ depth' = depth + 1
      /\ UNCHANGED input /\ phase' = phase /\ wrong' = wrong
  BY DEF LevelDone
<1>s. /\ lcb' = lcb /\ sorted' = sorted /\ updated' = updated /\ inserts' = inserts
      /\ OldHash' = OldHash /\ NewHash' = NewHash
  BY <1>1, SameTrees
<1>t. /\ depth \in 0..Depth /\ depth \in Nat /\ depth + 1 \in 0..Depth /\ Len(level) \in Nat
      /\ Len(next) \in Nat /\ pos - 1 = Len(level) /\ pos..Len(level) = {}
      /\ Depth \in Nat
  BY <1>0, WalkAssumption DEF ShapeInv, IsSeq
<1>e. IsSeq(next') /\ Len(next') = 0 /\ 1..Len(next') = {}
  BY <1>1, EmptySeq
<1>2. InputInv'
  BY <1>0, <1>1, <1>s DEF InputInv
<1>3. ShapeInv'
  <2>1. 1 \in 1..(Len(next) + 1) /\ 1..(1 - 1) = {}
    BY <1>t
  <2>2. \A j \in 1..Len(next) : next[j][1] \in Nodes(depth + 1)
    BY <1>0 DEF ShapeInv
  <2>3. \A j, k \in 1..Len(next) : j < k => next[j][1] < next[k][1]
    BY <1>0 DEF ShapeInv
  <2>4. IsSeq(next)
    BY <1>0 DEF ShapeInv
  <2> QED
    BY <1>1, <1>t, <1>e, <2>1, <2>2, <2>3, <2>4 DEF ShapeInv
<1>4. ASSUME NEW i \in Nodes(depth + 1), \A k \in 1..Len(next) : next[k][1] # i
      PROVE  OldHash[depth + 1][i] = NewHash[depth + 1][i]
  <2>1. /\ 2 * i \in Nodes(depth) /\ 2 * i + 1 \in Nodes(depth) /\ i \in Nat
        /\ OldHash[depth + 1][i] = Compress(OldHash[depth][2 * i], OldHash[depth][2 * i + 1])
        /\ NewHash[depth + 1][i] = Compress(NewHash[depth][2 * i], NewHash[depth][2 * i + 1])
    BY <1>0, <1>t, Family DEF OldHash, NewHash
  <2>2. (2 * i) \div 2 = i /\ (2 * i + 1) \div 2 = i
    BY <2>1
  <2>3. ASSUME NEW j \in 1..Len(level) PROVE level[j][1] # 2 * i /\ level[j][1] # 2 * i + 1
    <3>1. PICK k \in 1..Len(next) : next[k][1] = level[j][1] \div 2
      BY <1>0, <1>t DEF ShapeInv
    <3>2. level[j][1] \div 2 # i
      BY <1>4, <3>1
    <3> QED
      BY <2>2, <3>2
  <2>4. OldHash[depth][2 * i] = NewHash[depth][2 * i] /\ OldHash[depth][2 * i + 1] = NewHash[depth][2 * i + 1]
    BY <1>0, <2>1, <2>3 DEF NewInv
  <2> QED
    BY <2>1, <2>4
<1>5. NewInv'
  <2>1. \A k \in 1..Len(next) : next[k][2] = OldHash[depth + 1][next[k][1]]
                                => next[k][3] = NewHash[depth + 1][next[k][1]]
    BY <1>0 DEF NewInv, Sound
  <2> QED
    BY <1>1, <1>s, <1>e, <1>4, <2>1 DEF NewInv, Sound
<1>6. AllMatch' <=> Authentic'
  <2>1. Authentic' <=> Authentic
    BY <1>1, <1>s DEF Authentic
  <2>2. AllMatch' <=> \A k \in 1..Len(next) : next[k][2] = OldHash[depth + 1][next[k][1]]
    BY <1>1, <1>s, <1>e DEF AllMatch, Matches
  <2>3. AllMatch <=> \A k \in 1..Len(next) : next[k][2] = OldHash[depth + 1][next[k][1]]
    BY <1>t DEF AllMatch, Matches
  <2> QED
    BY <1>0, <2>1, <2>2, <2>3
<1> QED
  BY <1>0, <1>1, <1>2, <1>3, <1>5, <1>6 DEF WalkInv

\* A step that leaves the trees and the levels alone.
LEMMA SameLevels ==
    ASSUME WalkInv, phase # "given", UNCHANGED <<input, depth, level, pos, next, wrong>>,
           phase' \in {"walk", "done"}, phase' = "done" => depth = Depth /\ Len(level) = 1
    PROVE  WalkInv'
<1>1. /\ depth' = depth /\ level' = level /\ pos' = pos /\ next' = next /\ wrong' = wrong
      /\ UNCHANGED input
  OBVIOUS
<1>s. /\ lcb' = lcb /\ sorted' = sorted /\ updated' = updated /\ inserts' = inserts
      /\ OldHash' = OldHash /\ NewHash' = NewHash
  BY <1>1, SameTrees
<1>0. InputInv /\ ShapeInv /\ NewInv /\ (AllMatch <=> Authentic)
  BY DEF WalkInv
<1>2. InputInv'
  BY <1>0, <1>1, <1>s DEF InputInv
<1>3. ShapeInv'
  BY <1>0, <1>1 DEF ShapeInv
<1>4. NewInv'
  BY <1>0, <1>1, <1>s DEF NewInv, Sound
<1>5. (AllMatch' <=> AllMatch) /\ (Authentic' <=> Authentic)
  BY <1>1, <1>s DEF AllMatch, Matches, Authentic
<1> QED
  BY <1>0, <1>1, <1>2, <1>3, <1>4, <1>5 DEF WalkInv

\* The end of the walk changes the phase only.
LEMMA FinishKeeps == ASSUME WalkInv, Finish PROVE WalkInv'
<1>1. /\ phase = "walk" /\ phase' = "done" /\ depth = Depth /\ Len(level) = 1
      /\ UNCHANGED <<input, depth, level, pos, next, wrong>>
  BY DEF Finish
<1> QED
  BY <1>1, SameLevels

\* The invariant depends on the variables of the walk only.
LEMMA StutterKeeps == ASSUME WalkInv, UNCHANGED vars PROVE WalkInv'
<1>1. /\ phase' = phase /\ UNCHANGED <<input, depth, level, pos, next, wrong>>
  BY DEF vars
<1>2. CASE phase = "given"
  <2>1. /\ lcb' = lcb /\ sorted' = sorted /\ updated' = updated /\ inserts' = inserts
    BY <1>1, SameTrees
  <2> QED
    BY <1>1, <1>2, <2>1 DEF WalkInv, InputInv
<1>3. CASE phase # "given"
  <2>1. phase \in {"walk", "done"} /\ (phase = "done" => depth = Depth /\ Len(level) = 1)
    BY <1>3 DEF WalkInv, InputInv
  <2> QED
    BY <1>1, <1>3, <2>1, SameLevels
<1> QED
  BY <1>2, <1>3

\* The inductive invariant of walk_old_and_new (merkle.rs): at every step the
\* levels are ascending nodes of the tree, every node whose old hash is right has
\* the right new hash, nodes off the path are the same in both trees, and the
\* hashes still to be folded are right exactly when every input was.
THEOREM WalkAlwaysInv == Spec => []WalkInv
<1>1. Init => WalkInv
  BY InitInv
<1>2. WalkInv /\ [Next]_vars => WalkInv'
  BY StartKeeps, StepRightKeeps, StepPairKeeps, StepLeftKeeps, LevelDoneKeeps, FinishKeeps,
     StutterKeeps DEF Next
<1> QED
  BY <1>1, <1>2, PTL DEF Spec

\* At the end of the walk the one node left is the root.
LEMMA AtRoot ==
    ASSUME WalkInv, Done
    PROVE  /\ OldRootMatches <=> Authentic
           /\ OldRootMatches => level[1][3] = Root(NewTree)
<1>0. /\ ShapeInv /\ NewInv /\ (AllMatch <=> Authentic) /\ depth = Depth /\ Len(level) = 1
      /\ next = << >> /\ pos = 1
  BY DEF WalkInv, Done, ShapeInv
<1>1. 1 \in 1..Len(level) /\ pos..Len(level) = {1} /\ 1..Len(next) = {}
  BY <1>0, EmptySeq
<1>2. level[1][1] = 0
  BY <1>0, <1>1, Ends DEF ShapeInv
<1>3. OldRootMatches <=> Matches(level[1], depth)
  BY <1>0, <1>2 DEF OldRootMatches, Root, Matches, OldHash
<1>4. AllMatch <=> Matches(level[1], depth)
  BY <1>1 DEF AllMatch
<1>5. Sound(level[1], depth)
  BY <1>0, <1>1 DEF NewInv
<1>6. Matches(level[1], depth) => level[1][3] = Root(NewTree)
  BY <1>0, <1>2, <1>5 DEF Sound, Matches, Root, NewHash
<1> QED
  BY <1>0, <1>3, <1>4, <1>6

\* walk_old_and_new is sound for trees of every depth: when the recomputed old
\* root is the committed one, the new root it returns is the root of exactly the
\* tree the batch's writes produce, whatever hashes and leaves were supplied.
THEOREM WalkAlwaysSound == Spec => []WalkSound
<1>1. WalkInv => WalkSound
  BY AtRoot DEF WalkSound
<1> QED
  BY <1>1, WalkAlwaysInv, PTL

\* A matching old root authenticates every leaf and every intermediate hash the
\* walk consumed: what `apply` relies on when it reads the witness leaves.
THEOREM WalkAlwaysAuthenticates == Spec => []WalkAuthenticates
<1>1. WalkInv => WalkAuthenticates
  BY AtRoot DEF WalkAuthenticates, Authentic
<1> QED
  BY <1>1, WalkAlwaysInv, PTL

\* An honest witness always reaches the committed old root: the rule of
\* resolve_offpath_sibling never takes a subtree of the old tree that holds leaves
\* for an empty one.
THEOREM HonestWalkAlwaysAccepted == Spec => []HonestAccepted
<1>1. WalkInv => HonestAccepted
  BY AtRoot DEF HonestAccepted, Authentic
<1> QED
  BY <1>1, WalkAlwaysInv, PTL

-----------------------------------------------------------------------------
(* SlotProofEntry::recover_root. *)

\* recover_root, level by level.
LEMMA Recovers ==
    ASSUME NEW index, NEW leaf, NEW siblings
    PROVE  \E H : /\ recover_root(index, leaf, siblings) = H[Depth]
                  /\ H[0] = hash_leaf(leaf)
                  /\ \A d \in 1..Depth :
                       H[d] = ParentHash(index \div 2^(d - 1), H[d - 1], SiblingAt(siblings, d - 1))
<1> DEFINE Up(d, below) == IF d = 0 THEN hash_leaf(leaf)
                           ELSE ParentHash(index \div 2^(d - 1), below, SiblingAt(siblings, d - 1))
           F(n, g) == g = [d \in 0..n |-> Up(d, g[d - 1])]
           S == {n \in Nat : \E g : F(n, g)}
<1>0. \A b, c : Up(0, b) = Up(0, c)
  OBVIOUS
<1>1. 0 \in S
  <2> DEFINE g == [d \in 0..0 |-> Up(0, 0)]
  <2>1. F(0, g)
    <3> HIDE DEF Up
    <3>2. \A d \in 0..0 : g[d] = Up(d, g[d - 1])
      BY <1>0
    <3> QED
      BY <3>2
  <2> HIDE DEF F, g
  <2> QED
    BY <2>1
<1>2. ASSUME NEW n \in Nat, n \in S PROVE n + 1 \in S
  <2> HIDE DEF Up
  <2>1. PICK g : F(n, g)
    BY <1>2
  <2> DEFINE h == [d \in 0..(n + 1) |-> IF d = n + 1 THEN Up(d, g[n]) ELSE g[d]]
  <2>2. \A d \in 0..n : h[d] = g[d]
    OBVIOUS
  <2>3. ASSUME NEW d \in 0..(n + 1) PROVE h[d] = Up(d, h[d - 1])
    <3>1. CASE d = n + 1
      <4>1. d - 1 = n /\ n \in 0..n
        BY <3>1
      <4> QED
        BY <2>2, <3>1, <4>1
    <3>2. CASE d # n + 1
      <4>1. d \in 0..n /\ (d # 0 => d - 1 \in 0..n)
        BY <3>2
      <4>2. g[d] = Up(d, g[d - 1])
        BY <2>1, <4>1
      <4>3. CASE d = 0
        BY <1>0, <2>2, <4>1, <4>2, <4>3
      <4>4. CASE d # 0
        <5> HIDE DEF h
        <5> QED
          BY <2>2, <4>1, <4>2, <4>4
      <4> QED
        BY <4>3, <4>4
    <3> QED
      BY <3>1, <3>2
  <2>4. F(n + 1, h)
    BY <2>3
  <2> HIDE DEF F, h
  <2> QED
    BY <2>4
<1>3. Depth \in S
  <2> HIDE DEF S
  <2> QED
    BY <1>1, <1>2, Induct, WalkAssumption
<1>4. PICK g : F(Depth, g)
  BY <1>3
<1> DEFINE H == CHOOSE f : f = [d \in 0..Depth |->
                  IF d = 0 THEN hash_leaf(leaf)
                  ELSE ParentHash(index \div 2^(d - 1), f[d - 1], SiblingAt(siblings, d - 1))]
<1>5. recover_root(index, leaf, siblings) = H[Depth]
  BY DEF recover_root
<1>6. F(Depth, H)
  BY <1>4, Zenon
<1> HIDE DEF H
<1>7. \A d \in 0..Depth : H[d] = Up(d, H[d - 1])
  <2> HIDE DEF Up
  <2> QED
    BY <1>6
<1>8. H[0] = hash_leaf(leaf)
  BY <1>7, Ends
<1>9. ASSUME NEW d \in 1..Depth
      PROVE  H[d] = ParentHash(index \div 2^(d - 1), H[d - 1], SiblingAt(siblings, d - 1))
  <2>1. d \in 0..Depth /\ d # 0
    BY WalkAssumption
  <2> QED
    BY <1>7, <2>1
<1> QED
  BY <1>5, <1>8, <1>9

\* Dividing twice.
LEMMA DivDiv ==
    ASSUME NEW a \in Nat, NEW w \in Nat, w > 0
    PROVE  a \div w \in Nat /\ (a \div w) \div 2 = a \div (2 * w)
<1> DEFINE q == a \div w
           p == q \div 2
           v == 2 * w
           x == a \div v
<1>1. v \in Nat /\ v > 0
  OBVIOUS
<1>2. q \in Nat /\ w * q <= a /\ a < w * q + w
  OBVIOUS
<1>3. x \in Nat /\ v * x <= a /\ a < v * x + v
  <2> HIDE DEF v
  <2> QED
    BY <1>1
<1> HIDE DEF q, x
<1>4. p \in Nat /\ (q = 2 * p \/ q = 2 * p + 1)
  BY <1>2
<1> HIDE DEF p
<1>5. v * p <= a /\ a < v * p + v
  BY <1>2, <1>4
<1>6. ASSUME NEW b \in Nat, NEW c \in Nat, b < c PROVE v * b + v <= v * c
  <2> DEFINE e == c - (b + 1)
  <2>1. e \in Nat /\ c = b + 1 + e
    BY <1>6
  <2> HIDE DEF e
  <2> HIDE DEF v
  <2>2. v * c = v * b + v + v * e /\ v * e \in Nat /\ v * b \in Nat
    BY <1>1, <2>1
  <2> QED
    BY <1>1, <2>2
<1> HIDE DEF v
<1>7. v * p \in Nat /\ v * x \in Nat
  BY <1>1, <1>3, <1>4
<1>8. ~ (p < x) /\ ~ (x < p)
  <2>1. ASSUME p < x PROVE FALSE
    BY <1>1, <1>3, <1>4, <1>5, <1>6, <1>7, <2>1
  <2>2. ASSUME x < p PROVE FALSE
    BY <1>1, <1>3, <1>4, <1>5, <1>6, <1>7, <2>2
  <2> QED
    BY <2>1, <2>2
<1>9. p = x
  BY <1>3, <1>4, <1>8
<1> QED
  BY <1>2, <1>9 DEF p, q, x, v

\* The ancestors of leaf i.
Up(i, d) == i \div 2^d

\* The ancestors of a leaf halve from level to level, up to the root.
LEMMA Ancestors ==
    ASSUME NEW i \in Indices
    PROVE  /\ Up(i, 0) = i /\ Up(i, Depth) = 0
           /\ \A d \in 0..Depth : Up(i, d) \in Nodes(d)
           /\ \A d \in 0..(Depth - 1) : Up(i, d + 1) = Up(i, d) \div 2
<1>0. i \in Nat
  BY Ends, Widths DEF Nodes
<1>1. Up(i, 0) = i
  <2>1. 2^0 = 1 /\ i \div 1 = i
    BY <1>0
  <2> QED
    BY <2>1 DEF Up
<1>2. ASSUME NEW d \in Nat PROVE Up(i, d + 1) = Up(i, d) \div 2
  <2>1. 2^d \in Nat /\ 2^d > 0 /\ 2^(d + 1) = 2 * 2^d
    BY PowerOfTwo
  <2> QED
    BY <1>0, <2>1, DivDiv, Zenon DEF Up
<1> DEFINE S == {d \in Nat : d <= Depth => Up(i, d) \in Nodes(d)}
<1>3. 0 \in S
  BY <1>1, Ends
<1>4. ASSUME NEW d \in Nat, d \in S PROVE d + 1 \in S
  <2> SUFFICES ASSUME d + 1 <= Depth PROVE Up(i, d + 1) \in Nodes(d + 1)
    OBVIOUS
  <2>1. d \in 0..Depth /\ d < Depth /\ d <= Depth
    BY WalkAssumption
  <2> QED
    BY <1>2, <1>4, <2>1, Halving
<1>5. Nat \subseteq S
  <2> HIDE DEF S
  <2> QED
    BY <1>3, <1>4, Induct
<1>6. \A d \in 0..Depth : Up(i, d) \in Nodes(d)
  BY <1>5, WalkAssumption
<1>7. Up(i, Depth) = 0
  BY <1>6, Ends
<1> QED
  BY <1>1, <1>2, <1>6, <1>7, WalkAssumption

\* The hash of an ancestor, from the child on the path and its sibling.
LEMMA PathStep ==
    ASSUME NEW i \in Indices, NEW d \in 0..(Depth - 1)
    PROVE  OldHash[d + 1][Up(i, d + 1)]
             = ParentHash(Up(i, d), OldHash[d][Up(i, d)], OldHash[d][Sibling(Up(i, d))])
<1> DEFINE a == Up(i, d)
           k == a \div 2
<1>1. d \in 0..Depth /\ d < Depth /\ d \in Nat
  BY WalkAssumption
<1>2. a \in Nodes(d) /\ Up(i, d + 1) = k
  BY <1>1, Ancestors
<1> HIDE DEF a
<1>3. /\ a \in Nat /\ k \in Nodes(d + 1) /\ a % 2 \in {0, 1}
      /\ a % 2 = 0 => a = 2 * k
      /\ a % 2 = 1 => a = 2 * k + 1
  BY <1>1, <1>2, Halving
<1>4. k \in Nat /\ OldHash[d + 1][k] = Compress(OldHash[d][2 * k], OldHash[d][2 * k + 1])
  BY <1>1, <1>3, Family DEF OldHash
<1> HIDE DEF k
<1>5. CASE a % 2 = 0
  BY <1>2, <1>3, <1>4, <1>5 DEF ParentHash, Sibling, a
<1>6. CASE a % 2 = 1
  <2>1. a - 1 = 2 * k /\ a = 2 * k + 1 /\ a % 2 # 0
    BY <1>3, <1>4, <1>6
  <2> QED
    BY <1>2, <1>4, <2>1 DEF ParentHash, Sibling, a
<1> QED
  BY <1>3, <1>5, <1>6

\* The child that is known can be told from the hash of its parent.
LEMMA ParentInjective ==
    ASSUME NEW a, NEW x, NEW s, NEW y, NEW r, ParentHash(a, x, s) = ParentHash(a, y, r)
    PROVE  x = y
BY DEF ParentHash, Compress

\* Whatever the siblings, the committed root is recovered from its leaf only.
LEMMA RecoversOnlyLeaf ==
    ASSUME NEW i \in Indices, NEW leaf, NEW siblings,
           recover_root(i, leaf, siblings) = Root(OldTree)
    PROVE  leaf = OldTree[i]
<1>1. PICK H : /\ recover_root(i, leaf, siblings) = H[Depth]
               /\ H[0] = hash_leaf(leaf)
               /\ \A d \in 1..Depth :
                    H[d] = ParentHash(i \div 2^(d - 1), H[d - 1], SiblingAt(siblings, d - 1))
  BY Recovers
<1> DEFINE S == {e \in Nat : e <= Depth => H[Depth - e] = OldHash[Depth - e][Up(i, Depth - e)]}
<1>2. 0 \in S
  <2>1. Depth - 0 = Depth
    BY WalkAssumption
  <2> QED
    BY <1>1, <2>1, Ancestors DEF Root, OldHash
<1>3. ASSUME NEW e \in Nat, e \in S PROVE e + 1 \in S
  <2> SUFFICES ASSUME e + 1 <= Depth
               PROVE  H[Depth - (e + 1)] = OldHash[Depth - (e + 1)][Up(i, Depth - (e + 1))]
    OBVIOUS
  <2> DEFINE d == Depth - (e + 1)
  <2>1. d \in 0..(Depth - 1) /\ d + 1 \in 1..Depth /\ (d + 1) - 1 = d /\ Depth - e = d + 1 /\ e <= Depth
    BY WalkAssumption
  <2> HIDE DEF d
  <2>2. H[d + 1] = OldHash[d + 1][Up(i, d + 1)]
    BY <1>3, <2>1
  <2>3. H[d + 1] = ParentHash(Up(i, d), H[d], SiblingAt(siblings, d))
    BY <1>1, <2>1 DEF Up
  <2>4. ParentHash(Up(i, d), H[d], SiblingAt(siblings, d))
          = ParentHash(Up(i, d), OldHash[d][Up(i, d)], OldHash[d][Sibling(Up(i, d))])
    BY <2>1, <2>2, <2>3, PathStep
  <2>5. H[d] = OldHash[d][Up(i, d)]
    BY <2>4, ParentInjective
  <2> QED
    BY <2>5 DEF d
<1>4. Nat \subseteq S
  <2> HIDE DEF S
  <2> QED
    BY <1>2, <1>3, Induct
<1>5. H[0] = OldHash[0][i]
  <2>1. Depth \in Nat /\ Depth <= Depth /\ Depth - Depth = 0
    BY WalkAssumption
  <2> QED
    BY <1>4, <2>1, Ancestors
<1>6. OldHash[0][i] = hash_leaf(OldTree[i])
  BY Ends, NodeHashes DEF OldHash
<1> QED
  BY <1>1, <1>5, <1>6 DEF hash_leaf

\* The old tree's own path recovers the committed root.
LEMMA OwnPathRecovers ==
    ASSUME NEW i \in Indices
    PROVE  recover_root(i, OldTree[i], Path(i)) = Root(OldTree)
<1>1. PICK H : /\ recover_root(i, OldTree[i], Path(i)) = H[Depth]
               /\ H[0] = hash_leaf(OldTree[i])
               /\ \A d \in 1..Depth :
                    H[d] = ParentHash(i \div 2^(d - 1), H[d - 1], SiblingAt(Path(i), d - 1))
  BY Recovers
<1>2. Path(i) = [d \in 1..Depth |-> OldHash[d - 1][Sibling(Up(i, d - 1))]]
  BY DEF Path, OldHash, Sibling, Up
<1>3. Len(Path(i)) = Depth
  <2> DEFINE q(d) == OldHash[d - 1][Sibling(Up(i, d - 1))]
  <2>1. Path(i) = [d \in 1..Depth |-> q(d)]
    BY <1>2
  <2> HIDE DEF q
  <2>2. Path(i) \in Seq({q(d) : d \in 1..Depth}) /\ DOMAIN Path(i) = 1..Depth
    BY <2>1, WalkAssumption
  <2> QED
    BY <2>2, WalkAssumption
<1>4. ASSUME NEW d \in 0..(Depth - 1) PROVE SiblingAt(Path(i), d) = OldHash[d][Sibling(Up(i, d))]
  <2>1. d + 1 \in 1..Depth /\ (d + 1) - 1 = d /\ d < Depth
    BY WalkAssumption
  <2> QED
    BY <1>2, <1>3, <2>1 DEF SiblingAt
<1> DEFINE S == {d \in Nat : d <= Depth => H[d] = OldHash[d][Up(i, d)]}
<1>5. 0 \in S
  BY <1>1, Ancestors, Ends, NodeHashes DEF OldHash
<1>6. ASSUME NEW d \in Nat, d \in S PROVE d + 1 \in S
  <2> SUFFICES ASSUME d + 1 <= Depth PROVE H[d + 1] = OldHash[d + 1][Up(i, d + 1)]
    OBVIOUS
  <2>1. d \in 0..(Depth - 1) /\ d + 1 \in 1..Depth /\ (d + 1) - 1 = d /\ d <= Depth
    BY WalkAssumption
  <2>2. H[d + 1] = ParentHash(Up(i, d), H[d], SiblingAt(Path(i), d))
    BY <1>1, <2>1 DEF Up
  <2>3. H[d] = OldHash[d][Up(i, d)]
    BY <1>6, <2>1
  <2> QED
    BY <1>4, <2>1, <2>2, <2>3, PathStep
<1>7. Nat \subseteq S
  <2> HIDE DEF S
  <2> QED
    BY <1>5, <1>6, Induct
<1>8. H[Depth] = OldHash[Depth][Up(i, Depth)]
  BY <1>7, WalkAssumption
<1> QED
  BY <1>1, <1>8, Ancestors DEF Root, OldHash

\* SlotProofEntry::recover_root, for trees of every depth: the old tree's own path
\* recovers the committed root, and no list of siblings, forged, shortened or
\* honest, recovers it from a leaf other than the one at its index.
THEOREM RecoverAlwaysSound == Spec => []RecoverSound
<1>1. RecoverSound
  BY RecoversOnlyLeaf, OwnPathRecovers DEF RecoverSound
<1> QED
  BY <1>1, PTL

-----------------------------------------------------------------------------
(* What the walk reads: the paths of the batch and the siblings beside them. *)

Inserted == lcb..(lcb + inserts - 1)
TouchedAt(d) == {Up(i, d) : i \in Positions}
PathAt(d) == {Up(i, d) : i \in Positions \cup Inserted}

\* The nodes of height d whose hashes the walk consumes.
ReadsAt(d) ==
    {s \in Nodes(d) : s \notin PathAt(d) /\ Sibling(s) \in PathAt(d) /\ s * 2^d < lcb}

\* All of them, in the order of intermediate_hashes.
AllReads == {p \in (0..Depth) \X Indices : p[2] \in ReadsAt(p[1])}
UpTo(p) == {q \in AllReads : q[1] < p[1] \/ (q[1] = p[1] /\ q[2] <= p[2])}
Rank(p) == Cardinality(UpTo(p))

\* The ancestor is the subtree that holds the leaf.
LEMMA UpBounds ==
    ASSUME NEW i \in Nat, NEW d \in Nat
    PROVE  /\ Up(i, d) \in Nat
           /\ Up(i, d) * 2^d <= i /\ i < Up(i, d) * 2^d + 2^d
           /\ Up(i, d) * 2^d \in Nat
<1> DEFINE w == 2^d
           q == i \div w
<1>1. w \in Nat /\ w > 0
  BY PowerOfTwo
<1> HIDE DEF w
<1>2. q \in Nat /\ w * q <= i /\ i < w * q + w /\ w * q \in Nat /\ w * q = q * w
  BY <1>1
<1> QED
  BY <1>2 DEF Up, w

\* Products of naturals, compared.
LEMMA TimesMono ==
    ASSUME NEW a \in Nat, NEW b \in Nat, NEW w \in Nat
    PROVE  /\ a * w \in Nat /\ b * w \in Nat
           /\ a < b => a * w + w <= b * w
           /\ (a + 1) * w = a * w + w
           /\ a <= b => a * w <= b * w
<1>1. a * w \in Nat /\ b * w \in Nat /\ (a + 1) * w = a * w + w
  OBVIOUS
<1>2. ASSUME a < b PROVE a * w + w <= b * w
  <2> DEFINE e == b - (a + 1)
  <2>1. e \in Nat /\ b = a + 1 + e
    BY <1>2
  <2> HIDE DEF e
  <2>2. b * w = a * w + w + e * w /\ e * w \in Nat
    BY <2>1
  <2> QED
    BY <1>1, <2>2
<1>3. ASSUME a <= b PROVE a * w <= b * w
  <2>1. a = b \/ a < b
    BY <1>3
  <2> QED
    BY <1>1, <1>2, <2>1
<1> QED
  BY <1>1, <1>2, <1>3

\* Which subtree holds a leaf.
LEMMA UpIs ==
    ASSUME NEW i \in Nat, NEW d \in Nat, NEW a \in Nat,
           a * 2^d <= i, i < a * 2^d + 2^d
    PROVE  Up(i, d) = a
<1> DEFINE w == 2^d
           u == Up(i, d)
<1>1. w \in Nat /\ w > 0
  BY PowerOfTwo
<1>2. u \in Nat /\ u * w <= i /\ i < u * w + w
  BY UpBounds
<1> HIDE DEF u, w
<1>3. ~ (u < a)
  <2>1. u * w \in Nat /\ a * w \in Nat /\ (u < a => u * w + w <= a * w)
    BY <1>1, <1>2, TimesMono
  <2>2. a * w <= i
    BY DEF w
  <2> QED
    BY <1>1, <1>2, <2>1, <2>2
<1>4. ~ (a < u)
  <2>1. u * w \in Nat /\ a * w \in Nat /\ (a < u => a * w + w <= u * w)
    BY <1>1, <1>2, TimesMono
  <2>2. i < a * w + w
    BY DEF w
  <2> QED
    BY <1>1, <1>2, <2>1, <2>2
<1>5. u = a
  BY <1>2, <1>3, <1>4
<1> QED
  BY <1>5 DEF u

\* Ancestors are in the order of their leaves.
LEMMA UpMono ==
    ASSUME NEW i \in Nat, NEW j \in Nat, i <= j, NEW d \in Nat
    PROVE  Up(i, d) <= Up(j, d)
<1> DEFINE w == 2^d
           u == Up(i, d)
           v == Up(j, d)
<1>1. w \in Nat /\ w > 0
  BY PowerOfTwo
<1>2. u \in Nat /\ u * w <= i /\ i < u * w + w /\ v \in Nat /\ v * w <= j /\ j < v * w + w
  BY UpBounds
<1> HIDE DEF u, v, w
<1>3. u * w \in Nat /\ v * w \in Nat /\ (v < u => v * w + w <= u * w)
  BY <1>1, <1>2, TimesMono
<1>4. u <= v
  BY <1>1, <1>2, <1>3
<1> QED
  BY <1>4 DEF u, v

\* Leaves with a common ancestor share all the ancestors above it.
LEMMA SameUp ==
    ASSUME NEW i \in Indices, NEW j \in Indices, NEW e \in 0..Depth, NEW d \in 0..Depth,
           e <= d, Up(i, e) = Up(j, e)
    PROVE  Up(i, d) = Up(j, d)
<1> DEFINE S == {n \in Nat : e + n <= Depth => Up(i, e + n) = Up(j, e + n)}
<1>0. Depth \in Nat /\ e \in Nat /\ d \in Nat
  BY WalkAssumption
<1>1. 0 \in S
  BY <1>0
<1>2. ASSUME NEW n \in Nat, n \in S PROVE n + 1 \in S
  <2> SUFFICES ASSUME e + (n + 1) <= Depth PROVE Up(i, e + (n + 1)) = Up(j, e + (n + 1))
    OBVIOUS
  <2>1. e + n \in 0..(Depth - 1) /\ e + (n + 1) = (e + n) + 1 /\ e + n <= Depth
    BY <1>0
  <2>2. Up(i, (e + n) + 1) = Up(i, e + n) \div 2 /\ Up(j, (e + n) + 1) = Up(j, e + n) \div 2
    BY <2>1, Ancestors
  <2> QED
    BY <1>2, <2>1, <2>2
<1>3. Nat \subseteq S
  <2> HIDE DEF S
  <2> QED
    BY <1>1, <1>2, Induct
<1>4. d - e \in Nat /\ e + (d - e) = d /\ d <= Depth
  BY <1>0
<1>5. d - e \in S
  BY <1>3, <1>4
<1> QED
  BY <1>4, <1>5

\* A sibling's sibling, and the parent of two siblings.
LEMMA Siblings ==
    ASSUME NEW i \in Nat
    PROVE  /\ Sibling(i) \in Nat /\ Sibling(i) # i
           /\ Sibling(Sibling(i)) = i
           /\ Sibling(i) \div 2 = i \div 2
           /\ \A k \in Nat : Sibling(2 * k) = 2 * k + 1 /\ Sibling(2 * k + 1) = 2 * k
<1>1. \A k \in Nat : Sibling(2 * k) = 2 * k + 1 /\ Sibling(2 * k + 1) = 2 * k
  BY DEF Sibling
<1>2. PICK k \in Nat : i = 2 * k \/ i = 2 * k + 1
  <2>1. i \div 2 \in Nat /\ (i = 2 * (i \div 2) \/ i = 2 * (i \div 2) + 1)
    OBVIOUS
  <2> QED
    BY <2>1
<1>3. (2 * k) \div 2 = k /\ (2 * k + 1) \div 2 = k /\ 2 * k \in Nat /\ 2 * k + 1 \in Nat
      /\ 2 * k # 2 * k + 1
  OBVIOUS
<1> QED
  BY <1>1, <1>2, <1>3

\* Siblings of a level below the root are both in it.
LEMMA SiblingNode ==
    ASSUME NEW d \in 0..Depth, d < Depth, NEW i \in Nodes(d)
    PROVE  Sibling(i) \in Nodes(d)
<1> DEFINE k == i \div 2
<1>1. i \in Nat /\ k \in Nodes(d + 1) /\ (i = 2 * k \/ i = 2 * k + 1)
  BY Halving
<1>2. k \in Nat /\ 2 * k \in Nodes(d) /\ 2 * k + 1 \in Nodes(d)
  BY <1>1, Family
<1> HIDE DEF k
<1> QED
  BY <1>1, <1>2, Siblings

\* The paths, level by level.
LEMMA PathUp ==
    ASSUME NEW I, I \subseteq Indices, NEW d \in 0..(Depth - 1)
    PROVE  {Up(i, d + 1) : i \in I} = {a \div 2 : a \in {Up(i, d) : i \in I}}
<1>1. \A i \in I : Up(i, d + 1) = Up(i, d) \div 2
  BY Ancestors
<1> QED
  BY <1>1

\* The reads, and so any part of them, can be counted.
LEMMA ReadsFinite ==
    ASSUME NEW T, T \subseteq AllReads
    PROVE  IsFiniteSet(T) /\ Cardinality(T) \in Nat
<1> DEFINE P == (0..Depth) \X Indices
<1>1. IsFiniteSet(0..Depth) /\ IsFiniteSet(Indices)
  <2>1. 0 \in Int /\ Depth \in Int /\ Cap - 1 \in Int
    BY Ends, Widths, WalkAssumption
  <2> QED
    BY <2>1, FS_Interval DEF Indices
<1>2. IsFiniteSet(P)
  BY <1>1, FS_Product
<1>3. T \in SUBSET P
  BY DEF AllReads
<1> HIDE DEF P
<1>4. IsFiniteSet(T)
  BY <1>2, <1>3, FS_Subset
<1> QED
  BY <1>4, FS_CardinalityType

\* The invariant about intermediate_hashes: the walk has consumed one hash for
\* each read of the levels below and of the parents built so far, in order, and
\* every one of them right unless `wrong` counts it.
Pushed == {next[k][1] : k \in 1..Len(next)}
Consumed == {q \in AllReads : q[1] < depth \/ (q[1] = depth /\ q[2] \div 2 \in Pushed)}

LevelIsPath ==
    /\ {level[j][1] : j \in 1..Len(level)} = PathAt(depth)
    /\ \A k \in 1..Len(next) : \E j \in 1..(pos - 1) : next[k][1] = level[j][1] \div 2
RightHashes ==
    \A p \in AllReads : Rank(p) <= Len(hashes) => hashes[Rank(p)] = OldHash[p[1]][p[2]]

ReadInv ==
    /\ IsSeq(hashes)
    /\ Len(hashes) = Cardinality(Consumed)
    /\ phase # "given" => StrictlyAscending(sorted) /\ InOldTree(sorted) /\ LevelIsPath
    /\ RightHashes => wrong = 0

\* The reads depend on the input only.
LEMMA SameReads ==
    ASSUME UNCHANGED input
    PROVE  /\ Positions' = Positions /\ Inserted' = Inserted
           /\ \A d : PathAt(d)' = PathAt(d)
           /\ \A d : TouchedAt(d)' = TouchedAt(d)
           /\ AllReads' = AllReads
           /\ \A p : Rank(p)' = Rank(p)
           /\ \A p : UpTo(p)' = UpTo(p)
<1>1. lcb' = lcb /\ sorted' = sorted /\ inserts' = inserts
  BY SameTrees
<1>2. Positions' = Positions /\ Inserted' = Inserted
  BY <1>1 DEF Positions, Inserted
<1>3. (\A d : PathAt(d)' = PathAt(d)) /\ (\A d : TouchedAt(d)' = TouchedAt(d))
  BY <1>2 DEF PathAt, TouchedAt
<1>4. \A d : ReadsAt(d)' = ReadsAt(d)
  BY <1>1, <1>3 DEF ReadsAt
<1>5. AllReads' = AllReads
  BY <1>4 DEF AllReads
<1>6. \A p : UpTo(p)' = UpTo(p)
  BY <1>5 DEF UpTo
<1>7. \A p : Rank(p)' = Rank(p)
  BY <1>6 DEF Rank
<1> QED
  BY <1>2, <1>3, <1>5, <1>6, <1>7

\* Nothing is consumed before the walk.
LEMMA InitReads == Init => ReadInv
<1> SUFFICES ASSUME Init PROVE ReadInv
  OBVIOUS
<1>1. next = << >> /\ hashes = << >> /\ depth = 0 /\ wrong = 0 /\ phase = "given"
  BY DEF Init
<1>2. Pushed = {}
  BY <1>1, EmptySeq DEF Pushed
<1>3. Consumed = {}
  <2>1. ASSUME NEW q \in AllReads PROVE ~ (q[1] < 0)
    BY WalkAssumption DEF AllReads
  <2> QED
    BY <1>1, <1>2, <2>1 DEF Consumed
<1>4. Cardinality(Consumed) = 0
  BY <1>3, FS_EmptySet
<1> QED
  BY <1>1, <1>4, EmptySeq DEF ReadInv

\* The first level is the leaves of the paths.
LEMMA FirstPath ==
    ASSUME InputInv, StrictlyAscending(sorted), InOldTree(sorted)
    PROVE  {Leaves0[j][1] : j \in 1..Len(Leaves0)} = PathAt(0)
<1> DEFINE n == Len(sorted)
           L == Leaves0
<1>t. n \in Nat /\ inserts \in Nat /\ lcb \in Nat /\ Cap \in Nat /\ lcb + inserts <= Cap
      /\ \A j \in 1..n : sorted[j][1] \in Indices
  BY Ends, Widths DEF InputInv
<1>1. /\ Len(L) = n + inserts
      /\ \A j \in 1..n : L[j] = <<sorted[j][1], hash_leaf(sorted[j][2]),
                                  hash_leaf(IF sorted[j][1] \in updated THEN NewLeaf(sorted[j][1])
                                            ELSE sorted[j][2])>>
      /\ \A j \in (n + 1)..(n + inserts) :
            L[j] = <<lcb + (j - n) - 1, Empty[0], hash_leaf(NewLeaf(lcb + (j - n) - 1))>>
  BY FirstLevel
<1> HIDE DEF L
<1>2. /\ \A j \in 1..n : L[j][1] = sorted[j][1]
      /\ \A j \in (n + 1)..(n + inserts) : L[j][1] = lcb + (j - n) - 1
  BY <1>1
<1>3. \A i \in Positions \cup Inserted : Up(i, 0) = i
  <2>1. ASSUME NEW i \in Inserted PROVE i \in Indices
    BY <1>t DEF Inserted, Indices
  <2>2. ASSUME NEW i \in Positions PROVE i \in Indices
    BY <1>t DEF Positions
  <2> QED
    BY <2>1, <2>2, Ancestors
<1>4. PathAt(0) = Positions \cup Inserted
  BY <1>3 DEF PathAt
<1>5. ASSUME NEW j \in 1..Len(L) PROVE L[j][1] \in Positions \cup Inserted
  <2>1. j \in 1..n \/ j \in (n + 1)..(n + inserts)
    BY <1>1, <1>t
  <2>2. CASE j \in 1..n
    BY <1>2, <2>2 DEF Positions
  <2>3. CASE j \in (n + 1)..(n + inserts)
    <3> HIDE DEF n
    <3>1. lcb + (j - n) - 1 \in Inserted
      BY <1>t, <2>3 DEF Inserted
    <3> QED
      BY <1>2, <2>3, <3>1
  <2> QED
    BY <2>1, <2>2, <2>3
<1>6. ASSUME NEW i \in Positions PROVE \E j \in 1..Len(L) : L[j][1] = i
  <2>1. PICK j \in 1..n : sorted[j][1] = i
    BY DEF Positions
  <2>2. j \in 1..Len(L)
    BY <1>1, <1>t, <2>1
  <2> QED
    BY <1>2, <2>1, <2>2
<1>7. ASSUME NEW i \in Inserted PROVE \E j \in 1..Len(L) : L[j][1] = i
  <2> DEFINE j == n + (i - lcb) + 1
  <2> HIDE DEF n
  <2>1. j \in (n + 1)..(n + inserts) /\ j \in 1..Len(L) /\ lcb + (j - n) - 1 = i
    BY <1>1, <1>t DEF Inserted
  <2> QED
    BY <1>2, <2>1
<1> QED
  BY <1>4, <1>5, <1>6, <1>7 DEF L

\* The first level is the paths of the batch, and nothing is consumed yet.
LEMMA StartReads == ASSUME WalkInv, ReadInv, Start PROVE ReadInv'
<1>0. InputInv /\ phase = "given" /\ phase' = "walk" /\ StrictlyAscending(sorted) /\ InOldTree(sorted)
      /\ depth = 0 /\ pos = 1 /\ next = << >> /\ wrong = 0
      /\ level' = Leaves0 /\ depth' = 0 /\ pos' = 1 /\ next' = << >> /\ wrong' = 0
      /\ hashes' = hashes /\ UNCHANGED input
  BY DEF WalkInv, InputInv, Start
<1>s. /\ lcb' = lcb /\ sorted' = sorted /\ AllReads' = AllReads
      /\ Positions' = Positions /\ Inserted' = Inserted
  BY <1>0, SameTrees, SameReads
<1>1. Consumed' = Consumed
  BY <1>0, <1>s DEF Consumed, Pushed
<1>2. StrictlyAscending(sorted)' /\ InOldTree(sorted)'
  BY <1>0, <1>s DEF StrictlyAscending, InOldTree
<1>3. LevelIsPath'
  <2>1. {level'[j][1] : j \in 1..Len(level')} = PathAt(0)
    BY <1>0, FirstPath
  <2>2. PathAt(depth)' = PathAt(0)
    BY <1>0, <1>s DEF PathAt
  <2>3. 1..Len(next') = {}
    BY <1>0, EmptySeq
  <2> QED
    BY <2>1, <2>2, <2>3 DEF LevelIsPath
<1> QED
  BY <1>0, <1>1, <1>2, <1>3 DEF ReadInv

\* The node under the cursor, its sibling, and the reads of their parent.
LEMMA ReadUnderCursor ==
    ASSUME WalkInv, ReadInv, Walking
    PROVE  LET k == Idx \div 2 IN
           /\ Idx \in PathAt(depth) /\ k \in Nat /\ k \notin Pushed
           /\ \A q \in AllReads :
                q[1] = depth /\ q[2] \div 2 = k => q[2] = Sibling(Idx)
           /\ \A q \in AllReads :
                q[1] = depth => (q[2] <= Sibling(Idx) <=> q[2] \div 2 \in Pushed \cup {k})
           /\ \A j \in 1..Len(level) : level[j][1] \in PathAt(depth)
<1> DEFINE k == Idx \div 2
           s == Sibling(Idx)
<1>0. ShapeInv /\ LevelIsPath /\ depth \in 0..Depth /\ depth < Depth
  BY Cursor DEF WalkInv, ReadInv, Walking
<1>t. /\ pos \in 1..Len(level) /\ Len(level) \in Nat /\ Len(next) \in Nat
      /\ Idx \in Nodes(depth) /\ Idx \in Nat
      /\ \A j \in (pos + 1)..Len(level) : level[j][1] \in Nat /\ Idx < level[j][1]
  BY <1>0, Cursor DEF ShapeInv, IsSeq
<1>1. \A j \in 1..Len(level) : level[j][1] \in PathAt(depth) /\ level[j][1] \in Nat
  <2>1. \A j \in 1..Len(level) : level[j][1] \in Nat
    BY <1>0, Halving DEF ShapeInv
  <2>2. \A j \in 1..Len(level) : level[j][1] \in PathAt(depth)
    BY <1>0 DEF LevelIsPath
  <2> QED
    BY <2>1, <2>2
<1>2. Idx \in PathAt(depth) /\ Idx = level[pos][1]
  BY <1>1, <1>t DEF Idx
<1>3. k \in Nat /\ (Idx = 2 * k \/ Idx = 2 * k + 1)
  <2>1. k \in Nodes(depth + 1)
    BY <1>0, <1>t, Halving
  <2>2. k \in Nat
    BY <1>0, <2>1, Family, Zenon
  <2>3. Idx = 2 * k \/ Idx = 2 * k + 1
    BY <1>0, <1>t, Halving
  <2> QED
    BY <2>2, <2>3
<1>4. ASSUME NEW n \in 1..Len(next) PROVE next[n][1] < k /\ next[n][1] \in Nat
  <2>1. pos \in pos..Len(level)
    BY <1>t
  <2>2. next[n][1] < k
    BY <1>0, <1>2, <2>1 DEF ShapeInv
  <2>3. next[n][1] \in Nodes(depth + 1)
    BY <1>0 DEF ShapeInv
  <2> QED
    BY <1>0, <2>2, <2>3, Family, Zenon
<1> HIDE DEF k, s
<1>5. k \notin Pushed
  BY <1>3, <1>4 DEF Pushed
<1>6. s \in Nat /\ s # Idx /\ (s = 2 * k \/ s = 2 * k + 1)
  <2>1. \A m \in Nat : Sibling(2 * m) = 2 * m + 1 /\ Sibling(2 * m + 1) = 2 * m
    BY <1>t, Siblings
  <2> QED
    BY <1>3, <2>1 DEF s
<1>7. ASSUME NEW q \in AllReads, q[1] = depth
      PROVE  /\ q[2] \in Nat /\ q[2] \notin PathAt(depth)
             /\ \E j \in 1..Len(level) : level[j][1] = Sibling(q[2])
  <2>1. q[2] \in ReadsAt(depth)
    BY <1>7 DEF AllReads
  <2>2. q[2] \in Nodes(depth) /\ q[2] \notin PathAt(depth) /\ Sibling(q[2]) \in PathAt(depth)
    BY <2>1 DEF ReadsAt
  <2>3. \E j \in 1..Len(level) : level[j][1] = Sibling(q[2])
    BY <1>0, <2>2 DEF LevelIsPath
  <2> QED
    BY <1>0, <2>2, <2>3, Halving
<1>8. ASSUME NEW q \in AllReads, q[1] = depth, q[2] \div 2 = k PROVE q[2] = s
  <2>1. q[2] \in Nat /\ q[2] # Idx
    BY <1>2, <1>7, <1>8
  <2>2. q[2] = 2 * k \/ q[2] = 2 * k + 1
    BY <1>8, <2>1
  <2> QED
    BY <1>3, <1>6, <2>1, <2>2
<1>9. ASSUME NEW q \in AllReads, q[1] = depth, q[2] <= s
      PROVE  q[2] \div 2 \in Pushed \cup {k}
  <2>1. PICK j \in 1..Len(level) : level[j][1] = Sibling(q[2])
    BY <1>7, <1>9
  <2>2. q[2] \in Nat
    BY <1>7, <1>9
  <2>3. level[j][1] \div 2 = q[2] \div 2 /\ level[j][1] \in Nat
    BY <2>1, <2>2, Siblings
  <2>4. CASE j < pos
    <3>1. j \in 1..(pos - 1)
      BY <1>t, <2>4
    <3>2. PICK n \in 1..Len(next) : next[n][1] = level[j][1] \div 2
      BY <1>0, <3>1 DEF ShapeInv
    <3> QED
      BY <2>3, <3>2 DEF Pushed
  <2>5. CASE j = pos
    BY <1>2, <2>3, <2>5 DEF k
  <2>6. CASE j > pos
    <3>1. j \in (pos + 1)..Len(level)
      BY <1>t, <2>6
    <3>2. Idx < level[j][1]
      BY <1>t, <3>1
    <3>3. level[j][1] \div 2 >= k /\ q[2] \div 2 <= k
      BY <1>3, <1>6, <1>9, <2>2, <2>3, <3>2
    <3> QED
      BY <1>3, <2>2, <2>3, <3>3
  <2> QED
    BY <1>t, <2>4, <2>5, <2>6
<1>10. ASSUME NEW q \in AllReads, q[1] = depth, q[2] \div 2 \in Pushed \cup {k}
       PROVE  q[2] <= s
  <2>1. q[2] \in Nat
    BY <1>7, <1>10
  <2>2. CASE q[2] \div 2 = k
    BY <1>6, <1>8, <1>10, <2>2
  <2>3. CASE q[2] \div 2 \in Pushed
    <3>1. PICK n \in 1..Len(next) : next[n][1] = q[2] \div 2
      BY <2>3 DEF Pushed
    <3>2. q[2] \div 2 < k
      BY <1>4, <3>1
    <3> QED
      BY <1>3, <1>6, <2>1, <3>2
  <2> QED
    BY <1>10, <2>2, <2>3
<1> QED
  BY <1>1, <1>2, <1>3, <1>5, <1>8, <1>9, <1>10 DEF k, s

\* A push, and the hash it consumes if there is one.
LEMMA PushReads ==
    ASSUME WalkInv, ReadInv, Walking, NEW c \in {1, 2}, NEW o, NEW w,
           Push(o, w, c), pos + c - 1 <= Len(level),
           \A j \in pos..(pos + c - 1) : level[j][1] \div 2 = Idx \div 2,
           \/ /\ hashes' = hashes /\ wrong' = wrong
              /\ <<depth, Sibling(Idx)>> \notin AllReads
           \/ /\ <<depth, Sibling(Idx)>> \in AllReads
              /\ \E h : /\ hashes' = Append(hashes, h)
                        /\ h = OldHash[depth][Sibling(Idx)] => wrong' = wrong
    PROVE  ReadInv'
<1> DEFINE k == Idx \div 2
           s == Sibling(Idx)
           p == <<depth, s>>
           m == Len(next)
<1>0. /\ IsSeq(hashes) /\ Len(hashes) = Cardinality(Consumed) /\ LevelIsPath
      /\ StrictlyAscending(sorted) /\ InOldTree(sorted) /\ (RightHashes => wrong = 0)
      /\ phase = "walk" /\ ShapeInv
  BY DEF ReadInv, Walking, WalkInv
<1>1. /\ next' = Append(next, <<k, o, w>>) /\ pos' = pos + c /\ phase' = phase
      /\ depth' = depth /\ level' = level /\ UNCHANGED input
  BY DEF Push
<1>s. /\ lcb' = lcb /\ sorted' = sorted /\ AllReads' = AllReads /\ OldHash' = OldHash
      /\ Positions' = Positions /\ Inserted' = Inserted
      /\ \A r : Rank(r)' = Rank(r)
  BY <1>1, SameTrees, SameReads
<1>2. /\ IsSeq(next') /\ Len(next') = m + 1 /\ next'[m + 1] = <<k, o, w>> /\ m \in Nat
      /\ \A x \in 1..m : next'[x] = next[x]
  <2>1. IsSeq(next) /\ m \in Nat
    BY <1>0 DEF ShapeInv, IsSeq
  <2> QED
    BY <1>1, <2>1, AppendSeq, SMTT(30)
<1>t. pos \in Nat /\ pos >= 1 /\ c \in Nat /\ c >= 1 /\ depth \in Nat
  BY Cursor
<1>3. /\ k \notin Pushed /\ k \in Nat
      /\ \A q \in AllReads : q[1] = depth /\ q[2] \div 2 = k => q[2] = s
      /\ \A q \in AllReads : q[1] = depth => (q[2] <= s <=> q[2] \div 2 \in Pushed \cup {k})
  BY ReadUnderCursor
<1>p. p[1] = depth /\ p[2] = s
  OBVIOUS
<1>k. p \in AllReads => s \div 2 = k
  <2>1. Idx \in Nat
    BY Cursor
  <2> QED
    BY <2>1, Siblings
<1>a. \A q \in AllReads : q = <<q[1], q[2]>>
  BY DEF AllReads
<1> HIDE DEF k, s, m
<1>4. Pushed' = Pushed \cup {k}
  <2>1. 1..(m + 1) = 1..m \cup {m + 1}
    BY <1>2
  <2>2. Pushed' = {next'[x][1] : x \in 1..(m + 1)}
    BY <1>2 DEF Pushed
  <2>3. {next'[x][1] : x \in 1..(m + 1)} = {next[x][1] : x \in 1..m} \cup {k}
    BY <1>2, <2>1
  <2> QED
    BY <2>2, <2>3 DEF Pushed, m
<1>5. Consumed' = {q \in AllReads : q[1] < depth \/ (q[1] = depth /\ q[2] \div 2 \in Pushed \cup {k})}
  BY <1>1, <1>s, <1>4 DEF Consumed
<1>6. LevelIsPath'
  <2>1. PathAt(depth)' = PathAt(depth)
    BY <1>1, <1>s DEF PathAt
  <2>2. ASSUME NEW x \in 1..(m + 1)
        PROVE  \E j \in 1..(pos + c - 1) : next'[x][1] = level[j][1] \div 2
    <3>1. CASE x = m + 1
      <4>1. pos \in pos..(pos + c - 1) /\ pos \in 1..(pos + c - 1)
        BY <1>t
      <4>2. next'[x][1] = k
        BY <1>2, <3>1
      <4> QED
        BY <4>1, <4>2 DEF k
    <3>2. CASE x # m + 1
      <4>1. x \in 1..m
        BY <1>2, <3>2
      <4>2. PICK j \in 1..(pos - 1) : next[x][1] = level[j][1] \div 2
        BY <1>0, <4>1 DEF LevelIsPath, m
      <4>3. j \in 1..(pos + c - 1)
        BY <1>t
      <4> QED
        BY <1>2, <4>1, <4>2, <4>3
    <3> QED
      BY <3>1, <3>2
  <2>3. pos' - 1 = pos + c - 1
    BY <1>1, <1>t
  <2>4. {level'[j][1] : j \in 1..Len(level')} = PathAt(depth)'
    BY <1>0, <1>1, <2>1 DEF LevelIsPath
  <2>5. \A x \in 1..Len(next') : \E j \in 1..(pos' - 1) : next'[x][1] = level'[j][1] \div 2
    BY <1>1, <1>2, <2>2, <2>3
  <2> QED
    BY <2>4, <2>5 DEF LevelIsPath
<1>7. StrictlyAscending(sorted)' /\ InOldTree(sorted)'
  BY <1>0, <1>s DEF StrictlyAscending, InOldTree
<1>8. CASE p \notin AllReads
  <2>1. hashes' = hashes /\ wrong' = wrong
    BY <1>8 DEF s
  <2>2. ASSUME NEW q \in AllReads, q[1] = depth PROVE q[2] \div 2 # k
    BY <1>3, <1>8, <1>a, <2>2
  <2>3. Consumed' = Consumed
    BY <1>5, <2>2 DEF Consumed
  <2>4. RightHashes' => RightHashes
    BY <1>s, <2>1 DEF RightHashes
  <2> QED
    BY <1>0, <1>6, <1>7, <2>1, <2>3, <2>4 DEF ReadInv
<1>9. CASE p \in AllReads
  <2>1. PICK h : hashes' = Append(hashes, h) /\ (h = OldHash[depth][s] => wrong' = wrong)
    BY <1>9 DEF s
  <2>2. /\ IsSeq(hashes') /\ Len(hashes') = Len(hashes) + 1 /\ hashes'[Len(hashes) + 1] = h
        /\ \A x \in 1..Len(hashes) : hashes'[x] = hashes[x]
    BY <1>0, <2>1, AppendSeq, SMTT(30)
  <2>3. Consumed' = Consumed \cup {p} /\ p \notin Consumed
    <3>1. p \notin Consumed
      BY <1>3, <1>9, <1>k, <1>p, <1>t DEF Consumed
    <3>2. \A q \in AllReads : q[1] = depth /\ q[2] \div 2 = k <=> q = p
      BY <1>3, <1>9, <1>k, <1>p, <1>a
    <3>3. ASSUME NEW q \in Consumed' PROVE q \in Consumed \cup {p}
      BY <1>5, <3>2 DEF Consumed
    <3>4. ASSUME NEW q \in Consumed \cup {p} PROVE q \in Consumed'
      BY <1>5, <1>9, <3>2 DEF Consumed
    <3> QED
      BY <3>1, <3>3, <3>4
  <2>4. Cardinality(Consumed') = Cardinality(Consumed) + 1
    <3>1. IsFiniteSet(Consumed)
      BY ReadsFinite DEF Consumed
    <3> QED
      BY <2>3, <3>1, FS_AddElement
  <2>5. UpTo(p) = Consumed'
    BY <1>3, <1>5, <1>p DEF UpTo
  <2>6. Rank(p) = Len(hashes')
    BY <1>0, <2>2, <2>4, <2>5 DEF Rank
  <2>7. RightHashes' => wrong' = 0
    <3> SUFFICES ASSUME RightHashes' PROVE wrong' = 0
      OBVIOUS
    <3>1. \A r \in AllReads : Rank(r) <= Len(hashes') => hashes'[Rank(r)] = OldHash[r[1]][r[2]]
      BY <1>s DEF RightHashes
    <3>2. h = OldHash[depth][s]
      <4>1. Len(hashes') <= Len(hashes')
        BY <2>2 DEF IsSeq
      <4>2. hashes'[Rank(p)] = OldHash[depth][s]
        BY <1>9, <1>p, <2>6, <3>1, <4>1
      <4>3. hashes'[Rank(p)] = h
        BY <2>2, <2>6
      <4> QED
        BY <4>2, <4>3
    <3>3. RightHashes
      <4> SUFFICES ASSUME NEW r \in AllReads, Rank(r) <= Len(hashes)
                   PROVE  hashes[Rank(r)] = OldHash[r[1]][r[2]]
        BY DEF RightHashes
      <4>1. Rank(r) \in Nat /\ UpTo(r) \subseteq AllReads /\ IsFiniteSet(UpTo(r))
        BY ReadsFinite DEF Rank, UpTo
      <4>2. r \in UpTo(r)
        BY WalkAssumption DEF UpTo, AllReads, Indices
      <4>3. Rank(r) # 0
        BY <4>1, <4>2, FS_EmptySet DEF Rank
      <4>4. Rank(r) \in 1..Len(hashes) /\ Rank(r) <= Len(hashes')
        BY <1>0, <2>2, <4>1, <4>3 DEF IsSeq
      <4> QED
        BY <2>2, <3>1, <4>4
    <3> QED
      BY <1>0, <2>1, <3>2, <3>3
  <2> QED
    BY <1>0, <1>6, <1>7, <2>2, <2>3, <2>4, <2>7 DEF ReadInv
<1> QED
  BY <1>8, <1>9

\* A sibling off the path is read unless its subtree is empty.
LEMMA OffPathRead ==
    ASSUME WalkInv, ReadInv, Walking, Sibling(Idx) \notin PathAt(depth),
           NEW h, OffPathSibling(Sibling(Idx), h)
    PROVE  \/ /\ hashes' = hashes /\ wrong' = wrong
              /\ <<depth, Sibling(Idx)>> \notin AllReads
           \/ /\ <<depth, Sibling(Idx)>> \in AllReads
              /\ \E g : /\ hashes' = Append(hashes, g)
                        /\ g = OldHash[depth][Sibling(Idx)] => wrong' = wrong
<1> DEFINE s == Sibling(Idx)
<1>0. /\ Idx \in Nodes(depth) /\ depth \in 0..Depth /\ depth < Depth /\ Idx \in Nat
      /\ Idx \in PathAt(depth)
  BY Cursor, ReadUnderCursor
<1>1. s \in Nodes(depth) /\ s \in Nat /\ Sibling(s) = Idx
  BY <1>0, SiblingNode, Siblings
<1> HIDE DEF s
<1>2. CASE ProvablyEmpty(s)
  <2>1. hashes' = hashes /\ wrong' = wrong
    BY <1>2 DEF OffPathSibling, s
  <2>2. s * 2^depth >= lcb /\ lcb \in Nat
    BY <1>2 DEF ProvablyEmpty, WalkInv, InputInv
  <2>3. s * 2^depth \in Nat
    BY <1>0, <1>1, PowerOfTwo
  <2>4. <<depth, s>> \notin AllReads
    BY <2>2, <2>3 DEF AllReads, ReadsAt
  <2> QED
    BY <2>1, <2>4 DEF s
<1>3. CASE ~ProvablyEmpty(s)
  <2>1. hashes' = Append(hashes, h) /\ wrong' = wrong + IF h = OldHash[depth][s] THEN 0 ELSE 1
    BY <1>3 DEF OffPathSibling, OldHash, s
  <2>2. wrong \in Nat /\ lcb \in Nat /\ lcb <= Cap /\ Cap \in Nat
    BY Ends, Widths DEF WalkInv, InputInv
  <2>3. h = OldHash[depth][s] => wrong' = wrong
    BY <2>1, <2>2
  <2>4. s * 2^depth < lcb /\ s \in Indices
    <3> DEFINE w == 2^depth
    <3>1. w \in Nat /\ w > 0
      BY <1>0, PowerOfTwo
    <3>2. ~(s * w >= lcb)
      BY <1>3 DEF ProvablyEmpty
    <3> HIDE DEF w
    <3>3. s * w \in Nat /\ s <= s * w
      <4> DEFINE v == w - 1
      <4>1. v \in Nat /\ w = v + 1
        BY <3>1
      <4> HIDE DEF v
      <4>2. s * w = s * v + s /\ s * v \in Nat
        BY <1>1, <4>1
      <4> QED
        BY <1>1, <4>2
    <3>4. s * w < lcb /\ s \in Indices
      BY <1>1, <2>2, <3>2, <3>3 DEF Indices
    <3> QED
      BY <3>4 DEF w
  <2>5. s \in ReadsAt(depth)
    BY <1>0, <1>1, <2>4 DEF ReadsAt, s
  <2>6. <<depth, s>> \in AllReads
    BY <1>0, <2>4, <2>5 DEF AllReads
  <2> QED
    BY <2>1, <2>3, <2>6 DEF s
<1> QED
  BY <1>2, <1>3

\* A right child consumes the hash of its left sibling, if that is a read.
LEMMA StepRightReads == ASSUME WalkInv, ReadInv, StepRight PROVE ReadInv'
<1> DEFINE k == Idx \div 2
<1>1. Walking /\ Idx % 2 = 1
  BY DEF StepRight
<1>2. PICK h : OffPathSibling(Idx - 1, h) /\ Push(Compress(h, Old), Compress(h, New), 1)
  BY DEF StepRight
<1>t. /\ pos \in 1..Len(level) /\ Len(level) \in Nat /\ pos \in Nat
      /\ depth \in 0..Depth /\ depth < Depth /\ Idx \in Nodes(depth) /\ Idx \in Nat
      /\ \A j \in (pos + 1)..Len(level) : level[j][1] \in Nat /\ Idx < level[j][1]
      /\ \A j \in 1..(pos - 1) : level[j][1] \div 2 < k
  BY <1>1, Cursor
<1>3. Sibling(Idx) = Idx - 1 /\ k \in Nat /\ Idx = 2 * k + 1 /\ (Idx - 1) \div 2 = k
  <2>1. k \in Nat /\ Idx = 2 * k + 1
    BY <1>1, <1>t
  <2> HIDE DEF k
  <2>2. Idx - 1 = 2 * k /\ (2 * k) \div 2 = k
    BY <1>t, <2>1
  <2>3. Sibling(Idx) = Idx - 1
    BY <1>1, <1>t DEF Sibling
  <2> QED
    BY <2>1, <2>2, <2>3
<1>4. Sibling(Idx) \notin PathAt(depth)
  <2> SUFFICES ASSUME NEW j \in 1..Len(level), level[j][1] = Idx - 1 PROVE FALSE
    BY <1>1, <1>3 DEF ReadInv, LevelIsPath, Walking
  <2>1. j \in 1..(pos - 1) \/ j = pos \/ j \in (pos + 1)..Len(level)
    BY <1>t
  <2>2. CASE j \in 1..(pos - 1)
    <3>1. (Idx - 1) \div 2 < k
      BY <1>t, <2>2
    <3> HIDE DEF k
    <3> QED
      BY <1>3, <3>1
  <2>3. CASE j = pos
    BY <1>t, <2>3 DEF Idx
  <2>4. CASE j \in (pos + 1)..Len(level)
    <3>1. Idx < level[j][1]
      BY <1>t, <2>4
    <3> QED
      BY <1>t, <3>1
  <2> QED
    BY <2>1, <2>2, <2>3, <2>4
<1>5. \/ /\ hashes' = hashes /\ wrong' = wrong
         /\ <<depth, Sibling(Idx)>> \notin AllReads
      \/ /\ <<depth, Sibling(Idx)>> \in AllReads
         /\ \E g : /\ hashes' = Append(hashes, g)
                   /\ g = OldHash[depth][Sibling(Idx)] => wrong' = wrong
  BY <1>1, <1>2, <1>3, <1>4, OffPathRead
<1>6. pos..(pos + 1 - 1) = {pos} /\ pos + 1 - 1 <= Len(level)
  BY <1>t
<1>7. \A j \in pos..(pos + 1 - 1) : level[j][1] \div 2 = Idx \div 2
  BY <1>6 DEF Idx
<1> QED
  BY <1>1, <1>2, <1>5, <1>6, <1>7, PushReads

\* A left child consumes the hash of its right sibling, if that is a read.
LEMMA StepLeftReads == ASSUME WalkInv, ReadInv, StepLeft PROVE ReadInv'
<1> DEFINE k == Idx \div 2
<1>1. Walking /\ Idx % 2 = 0 /\ ~HasRightSibling
  BY DEF StepLeft
<1>2. PICK h : OffPathSibling(Idx + 1, h) /\ Push(Compress(Old, h), Compress(New, h), 1)
  BY DEF StepLeft
<1>t. /\ pos \in 1..Len(level) /\ Len(level) \in Nat /\ pos \in Nat
      /\ depth \in 0..Depth /\ depth < Depth /\ Idx \in Nodes(depth) /\ Idx \in Nat
      /\ \A j \in (pos + 1)..Len(level) : level[j][1] \in Nat /\ Idx < level[j][1]
      /\ \A j \in 1..(pos - 1) : level[j][1] \div 2 < k
  BY <1>1, Cursor
<1>3. Sibling(Idx) = Idx + 1 /\ k \in Nat /\ Idx = 2 * k /\ (Idx + 1) \div 2 = k
  BY <1>1, <1>t DEF Sibling
<1>4. Sibling(Idx) \notin PathAt(depth)
  <2> SUFFICES ASSUME NEW j \in 1..Len(level), level[j][1] = Idx + 1 PROVE FALSE
    BY <1>1, <1>3 DEF ReadInv, LevelIsPath, Walking
  <2>1. j \in 1..(pos - 1) \/ j = pos \/ j = pos + 1 \/ (j \in (pos + 1)..Len(level) /\ j > pos + 1)
    BY <1>t
  <2>2. CASE j \in 1..(pos - 1)
    BY <1>3, <1>t, <2>2
  <2>3. CASE j = pos
    BY <1>t, <2>3 DEF Idx
  <2>4. CASE j = pos + 1
    BY <1>1, <1>t, <2>4 DEF HasRightSibling
  <2>5. CASE j \in (pos + 1)..Len(level) /\ j > pos + 1
    <3>1. pos + 1 \in (pos + 1)..Len(level) /\ pos + 1 \in 1..Len(level) /\ pos + 1 < j
      BY <1>t, <2>5
    <3>2. Idx < level[pos + 1][1] /\ level[pos + 1][1] \in Nat
      BY <1>t, <3>1
    <3>3. level[pos + 1][1] < level[j][1]
      BY <1>1, <3>1 DEF WalkInv, ShapeInv, Walking
    <3> QED
      BY <1>t, <3>2, <3>3
  <2> QED
    BY <2>1, <2>2, <2>3, <2>4, <2>5
<1>5. \/ /\ hashes' = hashes /\ wrong' = wrong
         /\ <<depth, Sibling(Idx)>> \notin AllReads
      \/ /\ <<depth, Sibling(Idx)>> \in AllReads
         /\ \E g : /\ hashes' = Append(hashes, g)
                   /\ g = OldHash[depth][Sibling(Idx)] => wrong' = wrong
  BY <1>1, <1>2, <1>3, <1>4, OffPathRead
<1>6. pos..(pos + 1 - 1) = {pos} /\ pos + 1 - 1 <= Len(level)
  BY <1>t
<1>7. \A j \in pos..(pos + 1 - 1) : level[j][1] \div 2 = Idx \div 2
  BY <1>6 DEF Idx
<1> QED
  BY <1>1, <1>2, <1>5, <1>6, <1>7, PushReads

\* A pair of touched nodes reads nothing.
LEMMA StepPairReads == ASSUME WalkInv, ReadInv, StepPair PROVE ReadInv'
<1> DEFINE right == level[pos + 1]
<1>1. /\ Walking /\ Idx % 2 = 0 /\ HasRightSibling /\ wrong' = wrong /\ hashes' = hashes
      /\ Push(Compress(Old, right[2]), Compress(New, right[3]), 2)
  BY DEF StepPair
<1>t. /\ pos \in 1..Len(level) /\ Len(level) \in Nat /\ pos \in Nat /\ Idx \in Nat
  BY <1>1, Cursor
<1>2. pos < Len(level) /\ right[1] = Idx + 1 /\ pos + 1 \in 1..Len(level)
  BY <1>1, <1>t DEF HasRightSibling
<1>3. Sibling(Idx) = Idx + 1 /\ (Idx + 1) \div 2 = Idx \div 2
  BY <1>1, <1>t DEF Sibling
<1>4. Sibling(Idx) \in PathAt(depth)
  BY <1>1, <1>2, <1>3, ReadUnderCursor
<1>5. <<depth, Sibling(Idx)>> \notin AllReads
  BY <1>4 DEF AllReads, ReadsAt
<1>6. pos..(pos + 2 - 1) = {pos, pos + 1} /\ pos + 2 - 1 <= Len(level)
  BY <1>2, <1>t
<1>7. \A j \in pos..(pos + 2 - 1) : level[j][1] \div 2 = Idx \div 2
  BY <1>2, <1>3, <1>6 DEF Idx
<1> QED
  BY <1>1, <1>5, <1>6, <1>7, PushReads

\* A level is done when everything beside it has been read.
LEMMA LevelDoneReads == ASSUME WalkInv, ReadInv, LevelDone PROVE ReadInv'
<1>0. /\ ShapeInv /\ InputInv /\ LevelIsPath /\ StrictlyAscending(sorted) /\ InOldTree(sorted)
      /\ phase = "walk" /\ depth < Depth /\ pos > Len(level)
      /\ IsSeq(hashes) /\ Len(hashes) = Cardinality(Consumed) /\ (RightHashes => wrong = 0)
  BY DEF WalkInv, ReadInv, LevelDone
<1>1. /\ level' = next /\ next' = << >> /\ pos' = 1 /\ depth' = depth + 1
      /\ UNCHANGED input /\ phase' = phase /\ wrong' = wrong /\ hashes' = hashes
  BY DEF LevelDone
<1>s. /\ lcb' = lcb /\ sorted' = sorted /\ AllReads' = AllReads /\ OldHash' = OldHash
      /\ Positions' = Positions /\ Inserted' = Inserted
      /\ \A r : Rank(r)' = Rank(r)
  BY <1>1, SameTrees, SameReads
<1>t. /\ depth \in 0..Depth /\ depth \in Nat /\ depth \in 0..(Depth - 1) /\ Len(level) \in Nat
      /\ pos - 1 = Len(level) /\ Depth \in Nat
  BY <1>0, WalkAssumption DEF ShapeInv, IsSeq
<1>2. Positions \cup Inserted \subseteq Indices
  BY <1>0, Ends, Widths DEF Positions, Inserted, InputInv, Indices
<1>3. PathAt(depth + 1) = {a \div 2 : a \in PathAt(depth)}
  BY <1>2, <1>t, PathUp DEF PathAt
<1>4. {next[k][1] : k \in 1..Len(next)} = PathAt(depth + 1)
  <2>1. ASSUME NEW k \in 1..Len(next) PROVE next[k][1] \in PathAt(depth + 1)
    <3>1. PICK j \in 1..(pos - 1) : next[k][1] = level[j][1] \div 2
      BY <1>0 DEF LevelIsPath
    <3>2. level[j][1] \in PathAt(depth)
      BY <1>0, <1>t, <3>1 DEF LevelIsPath
    <3> QED
      BY <1>3, <3>1, <3>2
  <2>2. ASSUME NEW b \in PathAt(depth + 1) PROVE \E k \in 1..Len(next) : next[k][1] = b
    <3>1. PICK a \in PathAt(depth) : b = a \div 2
      BY <1>3
    <3>2. PICK j \in 1..Len(level) : level[j][1] = a
      BY <1>0 DEF LevelIsPath
    <3>3. j \in 1..(pos - 1)
      BY <1>t
    <3> QED
      BY <1>0, <3>1, <3>2, <3>3 DEF ShapeInv
  <2> QED
    BY <2>1, <2>2
<1>5. LevelIsPath'
  <2>1. PathAt(depth)' = PathAt(depth + 1)
    BY <1>1, <1>s DEF PathAt
  <2>2. {level'[j][1] : j \in 1..Len(level')} = PathAt(depth)'
    BY <1>1, <1>4, <2>1
  <2>3. 1..Len(next') = {}
    BY <1>1, EmptySeq
  <2> QED
    BY <2>2, <2>3 DEF LevelIsPath
<1>6. Consumed' = Consumed
  <2>1. 1..Len(next') = {}
    BY <1>1, EmptySeq
  <2>2. Pushed' = {}
    BY <2>1 DEF Pushed
  <2>3. Consumed' = {q \in AllReads : q[1] < depth + 1}
    BY <1>1, <1>s, <2>2 DEF Consumed
  <2>4. ASSUME NEW q \in AllReads PROVE q[1] < depth + 1 <=> q[1] < depth \/ q[1] = depth
    BY <1>t DEF AllReads
  <2>5. ASSUME NEW q \in AllReads, q[1] = depth PROVE q[2] \div 2 \in Pushed
    <3>1. q[2] \in Nodes(depth) /\ Sibling(q[2]) \in PathAt(depth)
      BY <2>5 DEF AllReads, ReadsAt
    <3>2. q[2] \in Nat /\ Sibling(q[2]) \div 2 = q[2] \div 2
      BY <1>0, <1>t, <3>1, Halving, Siblings
    <3>3. q[2] \div 2 \in PathAt(depth + 1)
      BY <1>3, <3>1, <3>2
    <3> QED
      BY <1>4, <3>3 DEF Pushed
  <2> QED
    BY <2>3, <2>4, <2>5 DEF Consumed
<1>7. StrictlyAscending(sorted)' /\ InOldTree(sorted)'
  BY <1>0, <1>s DEF StrictlyAscending, InOldTree
<1>8. RightHashes' => RightHashes
  BY <1>1, <1>s DEF RightHashes
<1> QED
  BY <1>0, <1>1, <1>5, <1>6, <1>7, <1>8 DEF ReadInv

\* Steps that read nothing and leave the levels alone.
LEMMA IdleReads ==
    ASSUME ReadInv, UNCHANGED <<input, depth, level, pos, next, hashes, wrong>>,
           phase' # "given" => phase # "given"
    PROVE  ReadInv'
<1>1. /\ depth' = depth /\ level' = level /\ pos' = pos /\ next' = next
      /\ hashes' = hashes /\ wrong' = wrong /\ UNCHANGED input
  OBVIOUS
<1>s. /\ lcb' = lcb /\ sorted' = sorted /\ AllReads' = AllReads /\ OldHash' = OldHash
      /\ Positions' = Positions /\ Inserted' = Inserted
      /\ \A r : Rank(r)' = Rank(r)
  BY <1>1, SameTrees, SameReads
<1>2. Consumed' = Consumed
  BY <1>1, <1>s DEF Consumed, Pushed
<1>3. RightHashes' => RightHashes
  BY <1>1, <1>s DEF RightHashes
<1>4. PathAt(depth)' = PathAt(depth)
  BY <1>1, <1>s DEF PathAt
<1>5. LevelIsPath => LevelIsPath'
  BY <1>1, <1>4 DEF LevelIsPath
<1>6. /\ StrictlyAscending(sorted) => StrictlyAscending(sorted)'
      /\ InOldTree(sorted) => InOldTree(sorted)'
  BY <1>s DEF StrictlyAscending, InOldTree
<1> QED
  BY <1>1, <1>2, <1>3, <1>5, <1>6 DEF ReadInv

\* The invariant about the supplied hashes (merkle.rs:404): the walk consumes
\* one hash for each sibling off its paths that is not provably empty, level by
\* level from left to right, and `wrong` misses none that is not the old tree's.
THEOREM ReadsAlways == Spec => []ReadInv
<1>1. Init => ReadInv
  BY InitReads
<1>2. WalkInv /\ ReadInv /\ [Next]_vars => ReadInv'
  <2> SUFFICES ASSUME WalkInv, ReadInv, [Next]_vars PROVE ReadInv'
    OBVIOUS
  <2>1. CASE Finish
    BY <2>1, IdleReads DEF Finish
  <2>2. CASE UNCHANGED vars
    BY <2>2, IdleReads DEF vars
  <2> QED
    BY <2>1, <2>2, StartReads, StepRightReads, StepPairReads, StepLeftReads, LevelDoneReads
       DEF Next
<1> QED
  BY <1>1, <1>2, WalkAlwaysInv, PTL DEF Spec

-----------------------------------------------------------------------------
(* apply_reference, level by level. *)

\* Pass one.
Nth(n) == IF n <= Len(hashes) THEN hashes[n] ELSE Forged
ZTouched(d, below) == IF d = 0 THEN Positions ELSE {i \div 2 : i \in below.touched}
ZReads(d, touched) ==
    {Sibling(i) : i \in {t \in {i \in touched : Sibling(i) \notin touched} :
                           t % 2 = 1 \/ t # (lcb - 1) \div 2^d}}
ZBefore(d, below) == IF d = 0 THEN 0 ELSE below.used
ZNode(d, below, i) ==
    IF d = 0 THEN hash_leaf(OrigLeaf(i))
    ELSE Compress(NodeOrEmpty(below.nodes, d - 1, 2 * i),
                  NodeOrEmpty(below.nodes, d - 1, 2 * i + 1))
ZNodes(d, below, touched, read) ==
    [i \in touched \cup read |->
        IF i \in touched THEN ZNode(d, below, i)
        ELSE Nth(ZBefore(d, below) + Cardinality({r \in read : r <= i}))]
ZRow(d, below) ==
    [touched |-> ZTouched(d, below),
     used    |-> ZBefore(d, below) + Cardinality(ZReads(d, ZTouched(d, below))),
     nodes   |-> ZNodes(d, below, ZTouched(d, below), ZReads(d, ZTouched(d, below)))]

\* Pass two.
NewChild(a, d, below, i) ==
    IF i \in DOMAIN below.nodes THEN below.nodes[i] ELSE resolve_sibling(a, d - 1, i)
NewParents(below) == {i \div 2 : i \in DOMAIN below.nodes}
NewUsed(a, d, below) ==
    {NewChild(a, d, below, 2 * i) : i \in NewParents(below)}
      \cup {NewChild(a, d, below, 2 * i + 1) : i \in NewParents(below)}
NewLeaves ==
    [i \in {Leaves0[j][1] : j \in 1..Len(Leaves0)} |->
        Leaves0[CHOOSE j \in 1..Len(Leaves0) : Leaves0[j][1] = i][3]]
NRow(a, d, below) ==
    IF d = 0
    THEN [ok |-> TRUE, nodes |-> NewLeaves]
    ELSE [ok    |-> below.ok /\ Unauthenticated \notin NewUsed(a, d, below),
          nodes |-> [i \in NewParents(below) |->
                        Compress(NewChild(a, d, below, 2 * i), NewChild(a, d, below, 2 * i + 1))]]

\* The passes are recursive in the same way, so one induction does for both.
PassRow(pass, a, d, below) == IF pass = 1 THEN ZRow(d, below) ELSE NRow(a, d, below)

\* The two passes are well-defined recursions.
LEMMA PassExists ==
    ASSUME NEW pass, NEW a
    PROVE  \E g : g = [d \in 0..Depth |-> PassRow(pass, a, d, g[d - 1])]
<1> DEFINE F(n, g) == g = [d \in 0..n |-> PassRow(pass, a, d, g[d - 1])]
           S == {n \in Nat : \E g : F(n, g)}
<1>0. ASSUME NEW b, NEW c PROVE PassRow(pass, a, 0, b) = PassRow(pass, a, 0, c)
  <2>1. ZTouched(0, b) = ZTouched(0, c) /\ ZBefore(0, b) = ZBefore(0, c)
    BY DEF ZTouched, ZBefore
  <2>2. \A i : ZNode(0, b, i) = ZNode(0, c, i)
    BY DEF ZNode
  <2>3. \A t, r : ZNodes(0, b, t, r) = ZNodes(0, c, t, r)
    BY <2>1, <2>2 DEF ZNodes
  <2>4. ZRow(0, b) = ZRow(0, c)
    BY <2>1, <2>3 DEF ZRow
  <2>5. NRow(a, 0, b) = NRow(a, 0, c)
    BY DEF NRow
  <2> QED
    BY <2>4, <2>5 DEF PassRow
<1>1. 0 \in S
  <2> DEFINE g == [d \in 0..0 |-> PassRow(pass, a, 0, 0)]
  <2>1. F(0, g)
    <3>1. \A d \in 0..0 : g[d] = PassRow(pass, a, d, g[d - 1])
      BY <1>0
    <3> QED
      BY <3>1
  <2> HIDE DEF F, g
  <2> QED
    BY <2>1
<1>2. ASSUME NEW n \in Nat, n \in S PROVE n + 1 \in S
  <2>1. PICK g : F(n, g)
    BY <1>2
  <2> DEFINE h == [d \in 0..(n + 1) |-> IF d = n + 1 THEN PassRow(pass, a, d, g[n]) ELSE g[d]]
  <2>2. \A d \in 0..n : h[d] = g[d]
    OBVIOUS
  <2>3. ASSUME NEW d \in 0..(n + 1) PROVE h[d] = PassRow(pass, a, d, h[d - 1])
    <3>1. CASE d = n + 1
      <4>1. d - 1 = n /\ n \in 0..n
        BY <3>1
      <4> QED
        BY <2>2, <3>1, <4>1
    <3>2. CASE d # n + 1
      <4>1. d \in 0..n /\ (d # 0 => d - 1 \in 0..n)
        BY <3>2
      <4>2. g[d] = PassRow(pass, a, d, g[d - 1])
        BY <2>1, <4>1
      <4>3. CASE d = 0
        BY <1>0, <2>2, <4>1, <4>2, <4>3
      <4>4. CASE d # 0
        <5> HIDE DEF h
        <5> QED
          BY <2>2, <4>1, <4>2, <4>4
      <4> QED
        BY <4>3, <4>4
    <3> QED
      BY <3>1, <3>2
  <2>4. F(n + 1, h)
    BY <2>3
  <2> HIDE DEF F, h
  <2> QED
    BY <2>4
<1>3. Depth \in S
  <2> HIDE DEF S
  <2> QED
    BY <1>1, <1>2, Induct, WalkAssumption
<1> QED
  BY <1>3

\* Pass one, unfolded.
LEMMA ZipRecords ==
    \A d \in 0..Depth : zip_and_record[d] = ZRow(d, zip_and_record[d - 1])
<1>1. \E g : g = [d \in 0..Depth |-> ZRow(d, g[d - 1])]
  BY PassExists DEF PassRow
<1>2. zip_and_record = CHOOSE f : f = [d \in 0..Depth |-> ZRow(d, f[d - 1])]
  BY DEF zip_and_record, ZRow, ZTouched, ZReads, ZBefore, ZNode, ZNodes, Nth
<1>3. zip_and_record = [d \in 0..Depth |-> ZRow(d, zip_and_record[d - 1])]
  BY <1>1, <1>2, Zenon
<1> QED
  BY <1>3

\* Pass two, unfolded.
LEMMA ZipsAgain ==
    ASSUME NEW a
    PROVE  \E g : /\ zip_from_authenticated(a).ok = g[Depth].ok
                  /\ zip_from_authenticated(a).root = g[Depth].nodes[0]
                  /\ \A d \in 0..Depth : g[d] = NRow(a, d, g[d - 1])
<1> DEFINE G == CHOOSE f : f = [d \in 0..Depth |-> NRow(a, d, f[d - 1])]
<1>1. \E g : g = [d \in 0..Depth |-> NRow(a, d, g[d - 1])]
  <2>1. PICK g : g = [d \in 0..Depth |-> PassRow(2, a, d, g[d - 1])]
    BY PassExists
  <2>2. \A d, b : PassRow(2, a, d, b) = NRow(a, d, b)
    BY DEF PassRow
  <2>3. g = [d \in 0..Depth |-> NRow(a, d, g[d - 1])]
    <3> DEFINE h == [d \in 0..Depth |-> NRow(a, d, g[d - 1])]
    <3>1. \A d \in 0..Depth : g[d] = h[d]
      BY <2>1, <2>2
    <3>2. g = [d \in 0..Depth |-> g[d]] /\ h = [d \in 0..Depth |-> h[d]]
      BY <2>1
    <3> HIDE DEF h
    <3>3. g = h
      BY <3>1, <3>2
    <3> QED
      BY <3>3 DEF h
  <2> QED
    BY <2>3
<1>2. zip_from_authenticated(a) = [ok |-> G[Depth].ok, root |-> G[Depth].nodes[0]]
  BY DEF zip_from_authenticated, NRow, NewChild, NewParents, NewUsed, NewLeaves
<1>3. G = [d \in 0..Depth |-> NRow(a, d, G[d - 1])]
  BY <1>1, Zenon
<1> HIDE DEF G
<1>4. \A d \in 0..Depth : G[d] = NRow(a, d, G[d - 1])
  BY <1>3
<1> QED
  BY <1>2, <1>4

\* The batch's positions are indices of the tree.
LEMMA InputIndices ==
    ASSUME InputInv
    PROVE  Positions \subseteq Indices /\ Inserted \subseteq Indices
<1>1. Positions \subseteq Indices
  BY DEF InputInv, Positions
<1>2. Cap \in Nat /\ lcb \in Nat /\ inserts \in Nat /\ lcb + inserts <= Cap
  BY Ends, Widths DEF InputInv
<1>3. Inserted \subseteq Indices
  BY <1>2 DEF Inserted, Indices
<1> QED
  BY <1>1, <1>3

\* Pass one touches the paths of the witness positions.
LEMMA ZipTouches ==
    ASSUME InputInv
    PROVE  \A d \in 0..Depth : zip_and_record[d].touched = TouchedAt(d)
<1> DEFINE S == {n \in Nat : n <= Depth => zip_and_record[n].touched = TouchedAt(n)}
<1>0. Depth \in Nat
  BY WalkAssumption
<1>1. ASSUME NEW d \in 0..Depth
      PROVE  /\ d = 0 => zip_and_record[d].touched = Positions
             /\ d # 0 => zip_and_record[d].touched
                           = {i \div 2 : i \in zip_and_record[d - 1].touched}
  <2> DEFINE z == zip_and_record[d]
             below == zip_and_record[d - 1]
  <2>1. z = ZRow(d, below)
    BY ZipRecords
  <2> HIDE DEF z, below
  <2>2. z.touched = ZTouched(d, below)
    BY <2>1 DEF ZRow
  <2> QED
    BY <2>2 DEF ZTouched, z, below
<1>2. 0 \in S
  <2>1. \A i \in Positions : Up(i, 0) = i
    BY InputIndices, Ancestors
  <2>2. TouchedAt(0) = Positions
    BY <2>1 DEF TouchedAt
  <2>3. zip_and_record[0].touched = Positions
    <3>1. 0 \in 0..Depth
      BY <1>0
    <3> QED
      BY <1>1, <3>1
  <2> QED
    BY <2>2, <2>3
<1>3. ASSUME NEW n \in Nat, n \in S PROVE n + 1 \in S
  <2> SUFFICES ASSUME n + 1 <= Depth PROVE zip_and_record[n + 1].touched = TouchedAt(n + 1)
    OBVIOUS
  <2>1. n + 1 \in 0..Depth /\ n + 1 # 0 /\ (n + 1) - 1 = n /\ n <= Depth /\ n \in 0..(Depth - 1)
    BY <1>0
  <2>2. zip_and_record[n + 1].touched = {i \div 2 : i \in TouchedAt(n)}
    BY <1>1, <1>3, <2>1
  <2>3. TouchedAt(n + 1) = {i \div 2 : i \in TouchedAt(n)}
    BY <2>1, PathUp, InputIndices DEF TouchedAt
  <2> QED
    BY <2>2, <2>3
<1>4. Nat \subseteq S
  <2> HIDE DEF S
  <2> QED
    BY <1>2, <1>3, Induct
<1>5. \A d \in 0..Depth : d \in S /\ d <= Depth
  BY <1>0, <1>4
<1> QED
  BY <1>5

\* The siblings pass one reads at a level.
ReadSet(d) == ZReads(d, TouchedAt(d))

\* What pass one records at a level.
LEMMA ZipRows ==
    ASSUME InputInv, NEW d \in 0..Depth
    PROVE  LET z == zip_and_record[d]
               below == zip_and_record[d - 1] IN
           /\ z.used = (IF d = 0 THEN 0 ELSE below.used) + Cardinality(ReadSet(d))
           /\ DOMAIN z.nodes = TouchedAt(d) \cup ReadSet(d)
           /\ \A i \in TouchedAt(d) : z.nodes[i] = ZNode(d, below, i)
           /\ \A i \in ReadSet(d) :
                i \notin TouchedAt(d) =>
                  z.nodes[i] = Nth((IF d = 0 THEN 0 ELSE below.used)
                                    + Cardinality({r \in ReadSet(d) : r <= i}))
<1> DEFINE z == zip_and_record[d]
           below == zip_and_record[d - 1]
<1>1. z = ZRow(d, below)
  BY ZipRecords
<1>2. z.touched = TouchedAt(d)
  BY ZipTouches
<1>3. z.touched = ZTouched(d, below)
  BY <1>1 DEF ZRow
<1>4. ZTouched(d, below) = TouchedAt(d)
  BY <1>2, <1>3
<1> HIDE DEF z, below
<1>5. z.used = ZBefore(d, below) + Cardinality(ReadSet(d))
  BY <1>1, <1>4 DEF ZRow, ReadSet
<1>6. z.nodes = ZNodes(d, below, TouchedAt(d), ReadSet(d))
  BY <1>1, <1>4 DEF ZRow, ReadSet
<1> QED
  BY <1>5, <1>6 DEF z, below, ZNodes, ZBefore

\* g holds the levels of pass two.
Zipped(g) == \A d \in 0..Depth : g[d] = NRow(zip_and_record, d, g[d - 1])

\* The nodes pass two computes are the paths of all positions.
LEMMA ZipPaths ==
    ASSUME InputInv, StrictlyAscending(sorted), InOldTree(sorted), NEW g, Zipped(g)
    PROVE  \A d \in 0..Depth : DOMAIN g[d].nodes = PathAt(d)
<1> DEFINE S == {n \in Nat : n <= Depth => DOMAIN g[n].nodes = PathAt(n)}
<1>0. Depth \in Nat
  BY WalkAssumption
<1>1. 0 \in S
  <2>1. g[0] = NRow(zip_and_record, 0, g[0 - 1])
    BY <1>0 DEF Zipped
  <2>2. g[0].nodes = NewLeaves
    BY <2>1 DEF NRow
  <2>3. DOMAIN NewLeaves = {Leaves0[j][1] : j \in 1..Len(Leaves0)}
    BY DEF NewLeaves
  <2> QED
    BY <2>2, <2>3, FirstPath
<1>2. ASSUME NEW n \in Nat, n \in S PROVE n + 1 \in S
  <2> SUFFICES ASSUME n + 1 <= Depth PROVE DOMAIN g[n + 1].nodes = PathAt(n + 1)
    OBVIOUS
  <2>1. n + 1 \in 0..Depth /\ n + 1 # 0 /\ (n + 1) - 1 = n /\ n <= Depth /\ n \in 0..(Depth - 1)
    BY <1>0
  <2>2. g[n + 1] = NRow(zip_and_record, n + 1, g[n])
    BY <2>1 DEF Zipped
  <2>3. DOMAIN g[n + 1].nodes = NewParents(g[n])
    BY <2>1, <2>2 DEF NRow
  <2>4. NewParents(g[n]) = {i \div 2 : i \in PathAt(n)}
    BY <1>2, <2>1 DEF NewParents
  <2>5. PathAt(n + 1) = {i \div 2 : i \in PathAt(n)}
    <3>1. Positions \cup Inserted \subseteq Indices
      BY InputIndices
    <3> QED
      BY <3>1, <2>1, PathUp DEF PathAt
  <2> QED
    BY <2>3, <2>4, <2>5
<1>3. Nat \subseteq S
  <2> HIDE DEF S
  <2> QED
    BY <1>1, <1>2, Induct
<1>4. \A d \in 0..Depth : d \in S /\ d <= Depth
  BY <1>0, <1>3
<1> QED
  BY <1>4

\* The second pass found every sibling.
Resolved ==
    \A d \in 0..(Depth - 1) : \A s \in Nodes(d) :
        s \notin PathAt(d) /\ Sibling(s) \in PathAt(d)
          => s \in TouchedAt(d) \cup ReadSet(d) \/ s * 2^d >= lcb

\* The hash of a node is a pair or a single leaf, never the empty tuple.
LEMMA HashNotEmpty ==
    /\ \A a, b : Compress(a, b) # Unauthenticated
    /\ \A a : hash_leaf(a) # Unauthenticated
BY DEF Compress, hash_leaf, Unauthenticated

\* When the reference does not panic, each sibling it asked for was there.
LEMMA FitsResolves ==
    ASSUME InputInv, StrictlyAscending(sorted), InOldTree(sorted),
           NEW g, Zipped(g), g[Depth].ok
    PROVE  Resolved
<1> DEFINE S == {n \in Nat : n <= Depth => g[Depth - n].ok}
<1>0. Depth \in Nat
  BY WalkAssumption
<1>1. 0 \in S
  BY <1>0
<1>2. ASSUME NEW n \in Nat, n \in S PROVE n + 1 \in S
  <2> SUFFICES ASSUME n + 1 <= Depth PROVE g[Depth - (n + 1)].ok
    OBVIOUS
  <2> DEFINE e == Depth - n
  <2>1. e \in 0..Depth /\ e # 0 /\ Depth - (n + 1) = e - 1 /\ n <= Depth
    BY <1>0
  <2>2. g[e].ok
    BY <1>2, <2>1
  <2> HIDE DEF e
  <2>3. g[e] = NRow(zip_and_record, e, g[e - 1])
    BY <2>1 DEF Zipped
  <2>4. g[e].ok = (g[e - 1].ok /\ Unauthenticated \notin NewUsed(zip_and_record, e, g[e - 1]))
    BY <2>1, <2>3 DEF NRow
  <2> QED
    BY <2>1, <2>2, <2>4
<1>3. Nat \subseteq S
  <2> HIDE DEF S
  <2> QED
    BY <1>1, <1>2, Induct
<1>4. ASSUME NEW d \in 0..(Depth - 1), NEW s \in Nodes(d),
             s \notin PathAt(d), Sibling(s) \in PathAt(d)
      PROVE  s \in TouchedAt(d) \cup ReadSet(d) \/ s * 2^d >= lcb
  <2> DEFINE z == zip_and_record
             e == d + 1
             k == s \div 2
             n == Depth - e
  <2>1. d \in 0..Depth /\ d < Depth /\ e \in 0..Depth /\ e # 0 /\ e - 1 = d
        /\ n \in Nat /\ n <= Depth /\ Depth - n = e
    BY <1>0
  <2>2. n \in S
    BY <1>3, <2>1
  <2>3. g[e].ok
    BY <2>1, <2>2
  <2>4. s \in Nat /\ k \in Nat /\ (s = 2 * k \/ s = 2 * k + 1)
    BY <2>1, Halving
  <2>5. Sibling(s) \div 2 = k
    BY <2>4, Siblings
  <2>6. DOMAIN g[d].nodes = PathAt(d)
    BY <2>1, ZipPaths
  <2>7. DOMAIN z[d].nodes = TouchedAt(d) \cup ReadSet(d)
    BY <2>1, ZipRows
  <2> HIDE DEF z, e, k, n
  <2>8. g[e] = NRow(z, e, g[d])
    BY <2>1 DEF Zipped, z
  <2>9. g[e].ok = (g[d].ok /\ Unauthenticated \notin NewUsed(z, e, g[d]))
    BY <2>1, <2>8 DEF NRow
  <2>10. Unauthenticated \notin NewUsed(z, e, g[d])
    BY <2>3, <2>9
  <2>11. k \in NewParents(g[d])
    BY <1>4, <2>5, <2>6 DEF NewParents
  <2>12. NewChild(z, e, g[d], s) \in NewUsed(z, e, g[d])
    BY <2>4, <2>11 DEF NewUsed
  <2>13. NewChild(z, e, g[d], s) = resolve_sibling(z, d, s)
    BY <1>4, <2>1, <2>6 DEF NewChild
  <2>14. resolve_sibling(z, d, s) # Unauthenticated
    BY <2>10, <2>12, <2>13
  <2> QED
    BY <2>7, <2>14 DEF resolve_sibling, z
<1> QED
  BY <1>4 DEF Resolved

\* A sibling of a witness path in the populated part of the tree is not on the
\* path of an inserted leaf: the insertions would start inside its subtree, and
\* the reference would have missed a sibling further down.
LEMMA OffTouched ==
    ASSUME InputInv, InOldTree(sorted), Resolved,
           NEW d \in 0..Depth, NEW r \in Nodes(d), r * 2^d < lcb, r \notin TouchedAt(d)
    PROVE  r \notin PathAt(d)
<1> SUFFICES ASSUME r \in PathAt(d) PROVE FALSE
  OBVIOUS
<1>1. PICK i \in Inserted : r = Up(i, d)
  BY DEF PathAt, TouchedAt
<1>t. Depth \in Nat /\ lcb \in Nat /\ inserts \in Nat /\ d \in Nat /\ r \in Nat
      /\ i \in Indices /\ i \in Nat /\ lcb <= i /\ Cap \in Nat
  <2>1. Depth \in Nat /\ d \in Nat /\ lcb \in Nat /\ inserts \in Nat
    BY WalkAssumption DEF InputInv
  <2>2. Cap \in Nat /\ Width(d) \in Nat
    BY Widths, Ends
  <2>3. r \in Nat
    BY <2>2 DEF Nodes
  <2>4. i \in Indices
    BY InputIndices
  <2>5. i \in Nat /\ lcb <= i
    BY <2>1, <2>2, <2>4 DEF Inserted, Indices
  <2> QED
    BY <2>1, <2>2, <2>3, <2>4, <2>5
<1>2. lcb \in Indices /\ lcb \in Inserted
  BY <1>1, <1>t DEF Indices, Inserted
<1>3. Up(lcb, d) = r
  BY <1>1, <1>t, UpBounds, UpIs
<1> DEFINE T == {e \in 0..d : Up(lcb, e) * 2^e < lcb}
<1>4. PICK e \in T : \A f \in T : e <= f
  <2>1. T \subseteq Nat /\ d \in T
    BY <1>t, <1>3
  <2> HIDE DEF T
  <2> QED
    BY <2>1, LeastElement
<1>5. e \in 0..d /\ Up(lcb, e) * 2^e < lcb /\ d <= Depth
  BY <1>4
<1>6. e # 0
  <2> SUFFICES ASSUME e = 0 PROVE FALSE
    OBVIOUS
  <2>1. Up(lcb, 0) = lcb
    BY <1>2, Ancestors
  <2>2. Up(lcb, 0) * 2^0 < lcb
    BY <1>5
  <2>3. 2^0 = 1
    OBVIOUS
  <2>4. lcb * 1 < lcb
    BY <2>1, <2>2, <2>3
  <2> QED
    BY <1>t, <2>4
<1> DEFINE f == e - 1
           w == 2^f
           b == Up(lcb, f)
           a == Up(lcb, e)
<1>7. f \in 0..(Depth - 1) /\ f \in 0..d /\ f \in Nat /\ f + 1 = e /\ f \in 0..Depth /\ f < e /\ e \in 0..Depth
      /\ e <= d
  BY <1>5, <1>6, <1>t
<1>8. w \in Nat /\ w > 0 /\ 2^e = 2 * w
  BY <1>7, PowerOfTwo
<1>9. b * w = lcb /\ b \in Nat /\ a \in Nat /\ a = b \div 2 /\ b \in Nodes(f)
  <2>1. b * w <= lcb /\ b \in Nat /\ b * w \in Nat /\ a \in Nat
    <3>1. b \in Nat /\ b * w <= lcb /\ b * w \in Nat
      BY <1>7, <1>t, UpBounds
    <3>2. e \in Nat
      BY <1>5, <1>t
    <3>3. a \in Nat
      BY <3>2, <1>t, UpBounds
    <3> QED
      BY <3>1, <3>3
  <2>2. a = b \div 2 /\ b \in Nodes(f)
    BY <1>2, <1>7, Ancestors
  <2>3. f \notin T
    BY <1>4, <1>7
  <2>4. ~ (b * w < lcb)
    BY <1>7, <2>3
  <2> HIDE DEF w, b
  <2> QED
    BY <1>t, <2>1, <2>2, <2>4
<1>10. a * (2 * w) < lcb
  BY <1>5, <1>8
<1> HIDE DEF f, w, b, a
<1>11. b = 2 * a + 1
  <2>1. b = 2 * a \/ b = 2 * a + 1
    BY <1>9
  <2>2. (2 * a) * w = a * (2 * w)
    BY <1>8, <1>9
  <2> QED
    BY <1>9, <1>10, <2>1, <2>2, <1>t
<1> DEFINE s == 2 * a
<1>12. s \in Nat /\ s < b /\ Sibling(s) = b /\ Sibling(b) = s /\ s \in Nodes(f)
       /\ s * w < lcb
  <2>1. s \in Nat /\ s < b
    BY <1>9, <1>11
  <2>2. Sibling(s) = b /\ Sibling(b) = s
    BY <1>9, <1>11, Siblings
  <2>3. s \in Nodes(f)
    BY <1>9, <2>2, <1>7, <1>5, SiblingNode, <1>t
  <2>4. s * w = a * (2 * w)
    BY <1>8, <1>9
  <2> QED
    BY <2>1, <2>2, <2>3, <2>4, <1>10
<1> HIDE DEF s
\* No touched position is below b or s: it would be below r.
<1>13. ASSUME NEW m \in Positions, Up(m, f) \div 2 = a PROVE FALSE
  <2>1. m \in Indices
    BY InputIndices
  <2>2. Up(m, e) = a
    BY <1>7, <1>13, <2>1, Ancestors
  <2>3. Up(m, d) = Up(lcb, d)
    BY <1>2, <1>7, <2>1, <2>2, SameUp DEF a
  <2> QED
    BY <1>3, <2>3 DEF TouchedAt
<1>14. s \notin TouchedAt(f) /\ b \notin TouchedAt(f)
  <2>1. s \div 2 = a /\ b \div 2 = a
    BY <1>9 DEF s
  <2> QED
    BY <1>13, <2>1 DEF TouchedAt
<1>15. s \notin PathAt(f)
  <2>1. ASSUME NEW m \in Inserted PROVE s # Up(m, f)
    <3>1. m \in Nat /\ lcb <= m
      BY <1>t DEF Inserted
    <3>2. b <= Up(m, f) /\ Up(m, f) \in Nat
      BY <3>1, <1>t, <1>7, UpMono, UpBounds DEF b
    <3> QED
      BY <3>2, <1>12, <1>9
  <2> QED
    BY <2>1, <1>14 DEF PathAt, TouchedAt
<1>16. b \in PathAt(f)
  BY <1>2 DEF PathAt, b
<1>17. s \in ReadSet(f)
  <2>1. ~ (s * 2^f >= lcb)
    <3>1. s * w \in Nat
      BY <1>8, <1>12
    <3> QED
      BY <3>1, <1>12, <1>t DEF w
  <2> QED
    BY <2>1, <1>7, <1>12, <1>14, <1>15, <1>16 DEF Resolved
<1>18. PICK t \in TouchedAt(f) : s = Sibling(t)
  BY <1>17 DEF ReadSet, ZReads
<1>19. t \in Nat
  <2>1. \A m \in Positions : Up(m, f) \in Nat
    <3>1. \A m \in Positions : m \in Nat
      BY <1>t, InputIndices DEF Indices
    <3> QED
      BY <3>1, <1>7, UpBounds
  <2> QED
    BY <2>1 DEF TouchedAt
<1>20. t = b
  BY <1>12, <1>18, <1>19, Siblings
<1> QED
  BY <1>14, <1>18, <1>20

\* The two passes read exactly the hashes the walk reads, level by level.
LEMMA ReadsAlike ==
    ASSUME InputInv, InOldTree(sorted), Positions # {}, Resolved,
           NEW d \in 0..Depth
    PROVE  ReadSet(d) = ReadsAt(d)
<1>t. Depth \in Nat /\ d \in Nat /\ lcb \in Nat /\ Cap \in Nat
  BY Ends, Widths, WalkAssumption DEF InputInv
<1> DEFINE w == 2^d
<1>w. w \in Nat /\ w > 0
  BY <1>t, PowerOfTwo
<1>p. ASSUME NEW i \in Positions PROVE i \in Indices /\ i \in Nat /\ i < lcb /\ lcb - 1 \in Nat
  <2>1. i \in Indices /\ i \in Nat
    BY InputIndices, <1>t DEF Indices
  <2>2. i < lcb
    BY DEF InOldTree, Positions
  <2> QED
    BY <1>t, <2>1, <2>2
<1>l. lcb - 1 \in Nat /\ lcb - 1 \in Indices
  <2>1. lcb - 1 \in Nat
    BY <1>p
  <2>2. lcb <= Cap
    BY DEF InputInv
  <2> QED
    BY <1>t, <2>1, <2>2 DEF Indices
<1> DEFINE u == Up(lcb - 1, d)
<1>u. u = (lcb - 1) \div 2^d
  BY DEF Up
<1>1. CASE d = Depth
  <2>1. Nodes(d) = {0}
    BY <1>1, Ends
  <2>2. \A i \in Indices : Up(i, d) = 0
    BY <1>1, Ancestors
  <2>3. TouchedAt(d) = {0}
    BY <2>2, <1>p DEF TouchedAt
  <2>4. PathAt(d) = {0}
    <3>1. PathAt(d) \subseteq {0}
      BY <2>2, InputIndices DEF PathAt
    <3>2. TouchedAt(d) \subseteq PathAt(d)
      BY DEF TouchedAt, PathAt
    <3> QED
      BY <3>1, <3>2, <2>3
  <2>5. ReadsAt(d) = {}
    BY <2>1, <2>4 DEF ReadsAt
  <2>6. u = 0
    BY <1>l, <2>2
  <2>7. ReadSet(d) = {}
    BY <1>u, <2>3, <2>6 DEF ReadSet, ZReads
  <2> QED
    BY <2>5, <2>7
<1>2. CASE d < Depth
  <2>1. \A t \in PathAt(d) : t \in Nodes(d)
    BY InputIndices, Ancestors DEF PathAt
  <2>2. TouchedAt(d) \subseteq PathAt(d)
    BY DEF TouchedAt, PathAt
  <2>3. ASSUME NEW r \in ReadSet(d) PROVE r \in ReadsAt(d)
    <3>1. PICK t \in TouchedAt(d) : /\ r = Sibling(t) /\ r \notin TouchedAt(d)
                                    /\ t % 2 = 1 \/ t # (lcb - 1) \div 2^d
      BY DEF ReadSet, ZReads
    <3>2. t \in Nodes(d) /\ r \in Nodes(d) /\ t \in Nat /\ r \in Nat
      BY <1>2, <2>1, <2>2, <3>1, SiblingNode, Halving
    <3>3. Sibling(r) = t
      BY <3>1, <3>2, Siblings
    <3>4. PICK i \in Positions : t = Up(i, d)
      BY DEF TouchedAt
    <3>5. t * w <= i /\ t * w \in Nat /\ i <= lcb - 1 /\ i \in Nat
      BY <1>p, <1>t, <3>4, UpBounds
    <3>6. r * w < lcb
      <4>1. CASE t % 2 = 1
        <5>1. r = t - 1 /\ r <= t
          BY <3>1, <3>2, <4>1 DEF Sibling
        <5>2. r * w \in Nat /\ r * w <= t * w
          BY <5>1, <3>2, <1>w, TimesMono
        <5> QED
          BY <3>5, <5>2, <1>t
      <4>2. CASE t % 2 # 1
        <5>1. r = t + 1
          BY <3>1, <3>2, <4>2 DEF Sibling
        <5>2. t # u
          BY <1>u, <3>1, <4>2
        <5>3. t <= u /\ u \in Nat /\ u * w <= lcb - 1
          BY <3>4, <3>5, <1>l, <1>t, UpMono, UpBounds
        <5>4. t < u
          BY <3>2, <5>2, <5>3
        <5> HIDE DEF u, w
        <5>5. t * w + w <= u * w /\ (t + 1) * w = t * w + w /\ u * w \in Nat
          BY <3>2, <5>3, <5>4, <1>w, TimesMono
        <5> QED
          BY <5>1, <5>3, <5>5, <1>w, <1>t, <3>5
      <4> QED
        BY <4>1, <4>2
    <3>7. r \notin PathAt(d)
      BY <3>1, <3>2, <3>6, OffTouched
    <3> QED
      BY <2>2, <3>2, <3>3, <3>6, <3>7 DEF ReadsAt
  <2>4. ASSUME NEW s \in ReadsAt(d) PROVE s \in ReadSet(d)
    <3> DEFINE p == Sibling(s)
    <3>1. s \in Nodes(d) /\ s \notin PathAt(d) /\ p \in PathAt(d) /\ s * w < lcb
      BY DEF ReadsAt
    <3>2. s \in Nat /\ p \in Nat /\ p \in Nodes(d)
      BY <3>1, <2>1, <1>2, Halving
    <3>3. Sibling(p) = s /\ s \notin TouchedAt(d)
      BY <3>1, <3>2, <2>2, Siblings
    <3>4. s * w \in Nat
      BY <3>2, <1>w
    <3> HIDE DEF p
    <3>5. CASE p \in TouchedAt(d)
      <4>1. p % 2 = 1 \/ p # (lcb - 1) \div 2^d
        <5> SUFFICES ASSUME p % 2 # 1, p = u PROVE FALSE
          BY <1>u
        <5>1. s = p + 1
          BY <3>2, <3>3 DEF Sibling
        <5>2. lcb - 1 < p * w + w
          BY <1>l, <1>t, UpBounds
        <5>3. (p + 1) * w = p * w + w
          BY <3>2, <1>w, TimesMono
        <5> QED
          BY <5>1, <5>2, <5>3, <3>1, <3>4, <1>t
      <4> QED
        BY <3>3, <3>5, <4>1 DEF ReadSet, ZReads
    <3>6. CASE p \notin TouchedAt(d)
      <4>1. d \in 0..(Depth - 1)
        BY <1>2, <1>t
      <4>2. ~ (s * 2^d >= lcb)
        BY <3>1, <3>4, <1>t
      <4> QED
        BY <3>1, <3>3, <4>1, <4>2 DEF Resolved, p
    <3> QED
      BY <3>5, <3>6
  <2> QED
    BY <2>3, <2>4
<1> QED
  BY <1>1, <1>2, <1>t

\* The reads of the levels below d.
Below(d) == {q \in AllReads : q[1] < d}

\* Reads are counted level by level.
LEMMA CountReads ==
    ASSUME InputInv, NEW d \in 0..Depth, NEW T, T \subseteq ReadsAt(d)
    PROVE  LET R == {<<d, s>> : s \in T} IN
           /\ R \subseteq AllReads
           /\ Cardinality(T) \in Nat /\ Cardinality(Below(d)) \in Nat
           /\ Cardinality(Below(d) \cup R) = Cardinality(Below(d)) + Cardinality(T)
<1> DEFINE R == {<<d, s>> : s \in T}
           f == [p \in R |-> p[2]]
<1>t. Depth \in Nat /\ d \in Nat /\ lcb \in Nat /\ Cap \in Nat /\ lcb <= Cap
  BY Ends, Widths, WalkAssumption DEF InputInv
<1>1. ASSUME NEW s \in ReadsAt(d) PROVE s \in Indices
  <2> DEFINE w == 2^d
  <2>1. w \in Nat /\ w > 0
    BY <1>t, PowerOfTwo
  <2>2. s \in Nat /\ s * w < lcb
    <3>1. Width(d) \in Nat
      BY Widths
    <3> QED
      BY <3>1 DEF ReadsAt, Nodes
  <2> HIDE DEF w
  <2> DEFINE v == w - 1
  <2>3. v \in Nat /\ w = v + 1
    BY <2>1
  <2> HIDE DEF v
  <2>4. s * w = s * v + s /\ s * v \in Nat
    BY <2>2, <2>3
  <2> QED
    BY <2>2, <2>4, <1>t DEF Indices
<1>2. R \subseteq AllReads
  <2>1. ASSUME NEW s \in T PROVE <<d, s>> \in AllReads
    BY <1>1 DEF AllReads
  <2> QED
    BY <2>1
<1>3. IsFiniteSet(R) /\ IsFiniteSet(Below(d)) /\ Cardinality(Below(d)) \in Nat
  BY <1>2, ReadsFinite DEF Below
<1>4. f \in Bijection(R, T)
  <2>1. \A p \in R : p = <<d, p[2]>> /\ p[2] \in T
    OBVIOUS
  <2>2. \A s \in T : <<d, s>> \in R /\ <<d, s>>[2] = s
    OBVIOUS
  <2> HIDE DEF R
  <2>3. f \in [R -> T]
    BY <2>1
  <2>4. \A p, q \in R : f[p] = f[q] => p = q
    BY <2>1
  <2>5. \A s \in T : \E p \in R : f[p] = s
    BY <2>2
  <2> HIDE DEF f
  <2> QED
    BY <2>3, <2>4, <2>5 DEF Bijection, Injection, Surjection, IsInjective
<1>5. Cardinality(T) = Cardinality(R) /\ Cardinality(T) \in Nat
  <2>1. ExistsBijection(R, T)
    BY <1>4 DEF ExistsBijection
  <2> HIDE DEF R, f
  <2> QED
    BY <2>1, <1>3, FS_Bijection, FS_CardinalityType
<1>6. Below(d) \cap R = {}
  BY <1>t DEF Below
<1> HIDE DEF R, f
<1>7. Cardinality(Below(d) \cup R) = Cardinality(Below(d)) + Cardinality(R) - Cardinality({})
  BY <1>3, <1>6, FS_Union
<1> QED
  BY <1>2, <1>3, <1>5, <1>7, FS_EmptySet DEF R

\* The reads up to a level, and up to one of its nodes.
LEMMA SplitReads ==
    ASSUME InputInv, NEW d \in 0..Depth
    PROVE  /\ Below(0) = {}
           /\ Below(d + 1) = Below(d) \cup {<<d, s>> : s \in ReadsAt(d)}
           /\ \A i \in ReadsAt(d) :
                UpTo(<<d, i>>) = Below(d) \cup {<<d, s>> : s \in {r \in ReadsAt(d) : r <= i}}
<1>1. \A q \in AllReads : q = <<q[1], q[2]>> /\ q[1] \in Nat /\ q[2] \in ReadsAt(q[1])
  BY WalkAssumption DEF AllReads
<1>2. d \in Nat
  BY WalkAssumption
<1>3. Below(0) = {}
  BY <1>1 DEF Below
<1>4. \A s \in ReadsAt(d) : <<d, s>> \in AllReads
  <2>1. {<<d, s>> : s \in ReadsAt(d)} \subseteq AllReads
    BY CountReads
  <2> QED
    BY <2>1
<1>5. \A q \in AllReads : q[1] = d => q[2] \in ReadsAt(d) /\ q = <<d, q[2]>>
  BY <1>1
<1>6. Below(d + 1) = Below(d) \cup {<<d, s>> : s \in ReadsAt(d)}
  <2>1. \A q \in AllReads : q[1] < d + 1 <=> q[1] < d \/ q[1] = d
    BY <1>1, <1>2
  <2> QED
    BY <1>4, <1>5, <2>1 DEF Below
<1>7. ASSUME NEW i \in ReadsAt(d)
      PROVE  UpTo(<<d, i>>) = Below(d) \cup {<<d, s>> : s \in {r \in ReadsAt(d) : r <= i}}
  BY <1>4, <1>5 DEF Below, UpTo
<1> QED
  BY <1>3, <1>6, <1>7

\* Pass one takes the hash of each read from the place where the walk takes it.
LEMMA ZipCounts ==
    ASSUME InputInv, \A d \in 0..Depth : ReadSet(d) = ReadsAt(d)
    PROVE  \A d \in 0..Depth :
             /\ zip_and_record[d].used = Cardinality(Below(d + 1))
             /\ \A i \in ReadsAt(d) : i \in DOMAIN zip_and_record[d].nodes
                                      /\ zip_and_record[d].nodes[i] = Nth(Rank(<<d, i>>))
<1> DEFINE z == zip_and_record
           S == {n \in Nat : n <= Depth => z[n].used = Cardinality(Below(n + 1))}
           before(d) == IF d = 0 THEN 0 ELSE z[d - 1].used
<1>0. Depth \in Nat
  BY WalkAssumption
<1>1. ASSUME NEW d \in 0..Depth, before(d) = Cardinality(Below(d))
      PROVE  z[d].used = Cardinality(Below(d + 1))
  <2>1. z[d].used = before(d) + Cardinality(ReadsAt(d))
    BY ZipRows
  <2>2. Cardinality(Below(d) \cup {<<d, s>> : s \in ReadsAt(d)})
          = Cardinality(Below(d)) + Cardinality(ReadsAt(d))
    BY CountReads
  <2> HIDE DEF z, before
  <2> QED
    BY <1>1, <2>1, <2>2, SplitReads
<1>2. 0 \in S
  <2>1. before(0) = Cardinality(Below(0)) /\ 0 \in 0..Depth
    BY <1>0, SplitReads, FS_EmptySet
  <2> HIDE DEF z, before
  <2> QED
    BY <1>1, <2>1
<1>3. ASSUME NEW n \in Nat, n \in S PROVE n + 1 \in S
  <2> SUFFICES ASSUME n + 1 <= Depth PROVE z[n + 1].used = Cardinality(Below((n + 1) + 1))
    OBVIOUS
  <2>1. n + 1 \in 0..Depth /\ (n + 1) - 1 = n /\ n + 1 # 0 /\ n <= Depth
    BY <1>0
  <2>2. before(n + 1) = Cardinality(Below(n + 1))
    BY <1>3, <2>1
  <2> HIDE DEF before, z
  <2> QED
    BY <1>1, <2>1, <2>2
<1>4. \A d \in 0..Depth : z[d].used = Cardinality(Below(d + 1))
  <2>1. Nat \subseteq S
    <3> HIDE DEF S
    <3> QED
      BY <1>2, <1>3, Induct
  <2>2. \A d \in 0..Depth : d \in S /\ d <= Depth
    BY <1>0, <2>1
  <2> QED
    BY <2>2
<1>5. ASSUME NEW d \in 0..Depth PROVE before(d) = Cardinality(Below(d))
  <2>1. CASE d = 0
    BY <2>1, <1>0, SplitReads, FS_EmptySet
  <2>2. CASE d # 0
    <3>1. d - 1 \in 0..Depth /\ (d - 1) + 1 = d
      BY <1>0, <2>2
    <3> HIDE DEF z
    <3> QED
      BY <1>4, <2>2, <3>1
  <2> QED
    BY <2>1, <2>2
<1>6. ASSUME NEW d \in 0..Depth, NEW i \in ReadsAt(d)
      PROVE  i \in DOMAIN z[d].nodes /\ z[d].nodes[i] = Nth(Rank(<<d, i>>))
  <2> DEFINE T == {r \in ReadsAt(d) : r <= i}
  <2>1. T \subseteq ReadsAt(d)
    OBVIOUS
  <2>2. i \notin TouchedAt(d)
    BY DEF ReadsAt, TouchedAt, PathAt
  <2>3. i \in DOMAIN z[d].nodes /\ z[d].nodes[i] = Nth(before(d) + Cardinality(T))
    BY <2>2, ZipRows
  <2>4. Rank(<<d, i>>) = Cardinality(Below(d) \cup {<<d, s>> : s \in T})
    BY SplitReads DEF Rank
  <2> HIDE DEF T, before, z
  <2>5. Rank(<<d, i>>) = Cardinality(Below(d)) + Cardinality(T)
    BY <2>1, <2>4, CountReads
  <2> QED
    BY <2>3, <2>5, <1>5
<1> QED
  BY <1>4, <1>6

\* The walk has consumed every read when it ends.
LEMMA EndReads ==
    ASSUME WalkInv, ReadInv, Done
    PROVE  Len(hashes) = Cardinality(Below(Depth + 1))
<1>1. depth = Depth /\ next = << >> /\ InputInv
  BY DEF WalkInv, Done, ShapeInv
<1>2. Pushed = {}
  BY <1>1, EmptySeq DEF Pushed
<1>3. Consumed = Below(Depth)
  BY <1>1, <1>2 DEF Consumed, Below
<1>4. ReadsAt(Depth) = {}
  <2>1. PathAt(Depth) \subseteq {0}
    <3>1. \A i \in Indices : Up(i, Depth) = 0
      BY Ancestors
    <3> QED
      BY <1>1, <3>1, InputIndices DEF PathAt
  <2>2. Sibling(0) = 1
    BY DEF Sibling
  <2> QED
    BY <2>1, <2>2, Ends DEF ReadsAt
<1>5. Below(Depth + 1) = Below(Depth)
  <2>1. Below(Depth + 1) = Below(Depth) \cup {<<Depth, s>> : s \in ReadsAt(Depth)}
    BY <1>1, Ends, SplitReads
  <2> QED
    BY <1>4, <2>1
<1> QED
  BY <1>3, <1>5 DEF ReadInv

\* A touched node and the siblings read have a touched parent.
LEMMA ParentTouched ==
    ASSUME InputInv, NEW d \in 0..Depth, d < Depth, NEW j \in TouchedAt(d) \cup ReadSet(d)
    PROVE  /\ j \in Nodes(d) /\ j \div 2 \in TouchedAt(d + 1)
<1>0. d \in 0..(Depth - 1)
  BY WalkAssumption
<1>1. TouchedAt(d + 1) = {i \div 2 : i \in TouchedAt(d)}
  BY <1>0, PathUp, InputIndices DEF TouchedAt
<1>2. TouchedAt(d) \subseteq Nodes(d)
  BY InputIndices, Ancestors DEF TouchedAt
<1>3. CASE j \in TouchedAt(d)
  BY <1>1, <1>2, <1>3
<1>4. CASE j \in ReadSet(d)
  <2>1. PICK t \in TouchedAt(d) : j = Sibling(t)
    BY <1>4 DEF ReadSet, ZReads
  <2>2. t \in Nodes(d) /\ t \in Nat
    BY <1>2, Halving
  <2>3. j \in Nodes(d) /\ j \div 2 = t \div 2
    BY <2>1, <2>2, SiblingNode, Siblings
  <2> QED
    BY <1>1, <2>3
<1> QED
  BY <1>3, <1>4

\* A committed old root pins every node pass one has authenticated.
LEMMA ZipAuthenticates ==
    ASSUME InputInv, \A d \in 0..Depth : ReadSet(d) = ReadsAt(d),
           zip_and_record[Depth].nodes[0] = Root(OldTree)
    PROVE  \A d \in 0..Depth : \A i \in DOMAIN zip_and_record[d].nodes :
             zip_and_record[d].nodes[i] = OldHash[d][i]
<1> DEFINE z == zip_and_record
           Right(d) == \A i \in DOMAIN z[d].nodes : z[d].nodes[i] = OldHash[d][i]
           S == {n \in Nat : n <= Depth => Right(Depth - n)}
<1>0. Depth \in Nat
  BY WalkAssumption
<1>1. Right(Depth)
  <2>1. DOMAIN z[Depth].nodes = TouchedAt(Depth) \cup ReadSet(Depth)
    BY Ends, ZipRows
  <2>2. TouchedAt(Depth) \subseteq Nodes(Depth)
    BY InputIndices, Ancestors, Ends DEF TouchedAt
  <2>3. ReadSet(Depth) \subseteq Nodes(Depth)
    BY Ends DEF ReadsAt
  <2>4. \A i \in DOMAIN z[Depth].nodes : i = 0
    BY <2>1, <2>2, <2>3, Ends
  <2>5. z[Depth].nodes[0] = OldHash[Depth][0]
    BY DEF Root, OldHash
  <2> QED
    BY <2>4, <2>5
<1>2. ASSUME NEW d \in 0..(Depth - 1), Right(d + 1) PROVE Right(d)
  <2>1. d \in 0..Depth /\ d < Depth /\ d + 1 \in 0..Depth /\ d + 1 # 0 /\ (d + 1) - 1 = d
    BY <1>0
  <2> SUFFICES ASSUME NEW j \in DOMAIN z[d].nodes PROVE z[d].nodes[j] = OldHash[d][j]
    OBVIOUS
  <2> DEFINE k == j \div 2
  <2>2. j \in Nodes(d) /\ k \in TouchedAt(d + 1)
    <3>1. j \in TouchedAt(d) \cup ReadSet(d)
      BY <2>1, ZipRows
    <3> QED
      BY <2>1, <3>1, ParentTouched
  <2>3. k \in Nat /\ (j = 2 * k \/ j = 2 * k + 1) /\ k \in Nodes(d + 1)
    BY <2>1, <2>2, Halving
  <2>4. k \in DOMAIN z[d + 1].nodes /\ z[d + 1].nodes[k] = ZNode(d + 1, z[d], k)
    BY <2>1, <2>2, ZipRows
  <2> HIDE DEF k, z
  <2>5. ZNode(d + 1, z[d], k)
          = Compress(NodeOrEmpty(z[d].nodes, d, 2 * k), NodeOrEmpty(z[d].nodes, d, 2 * k + 1))
    BY <2>1 DEF ZNode
  <2>6. OldHash[d + 1][k] = Compress(OldHash[d][2 * k], OldHash[d][2 * k + 1])
    BY <2>1, <2>3, Family DEF OldHash
  <2>7. Compress(NodeOrEmpty(z[d].nodes, d, 2 * k), NodeOrEmpty(z[d].nodes, d, 2 * k + 1))
          = Compress(OldHash[d][2 * k], OldHash[d][2 * k + 1])
    BY <1>2, <2>4, <2>5, <2>6
  <2>8. NodeOrEmpty(z[d].nodes, d, j) = OldHash[d][j]
    BY <2>3, <2>7 DEF Compress
  <2> QED
    BY <2>8 DEF NodeOrEmpty
<1>3. 0 \in S
  BY <1>0, <1>1
<1>4. ASSUME NEW n \in Nat, n \in S PROVE n + 1 \in S
  <2> SUFFICES ASSUME n + 1 <= Depth PROVE Right(Depth - (n + 1))
    OBVIOUS
  <2> DEFINE d == Depth - (n + 1)
  <2>1. d \in 0..(Depth - 1) /\ d + 1 = Depth - n /\ n <= Depth
    BY <1>0
  <2>2. Right(d + 1)
    <3> HIDE DEF d, Right
    <3> QED
      BY <1>4, <2>1
  <2> HIDE DEF d, Right
  <2> QED
    BY <1>2, <2>1, <2>2 DEF d
<1>5. ASSUME NEW d \in 0..Depth PROVE Right(d)
  <2> HIDE DEF Right
  <2>1. Nat \subseteq S
    <3> HIDE DEF S
    <3> QED
      BY <1>3, <1>4, Induct
  <2>2. Depth - d \in Nat /\ Depth - d <= Depth /\ Depth - (Depth - d) = d
    BY <1>0
  <2>3. Depth - d \in S
    BY <2>1, <2>2
  <2> QED
    BY <2>2, <2>3
<1> QED
  BY <1>5

\* Ascending positions have one witness leaf each.
LEMMA OneCopy ==
    ASSUME InputInv, StrictlyAscending(sorted), InOldTree(sorted), NEW j \in 1..Len(sorted)
    PROVE  OrigLeaf(sorted[j][1]) = sorted[j][2] /\ sorted[j][1] \in Positions
<1>1. \A x, y \in 1..Len(sorted) : x < y => sorted[x][1] < sorted[y][1]
  BY FirstLevel
<1>2. Len(sorted) \in Nat /\ \A x \in 1..Len(sorted) : sorted[x][1] \in Nat
  <2>1. Cap \in Nat
    BY Ends, Widths
  <2> QED
    BY <2>1 DEF InputInv, Indices
<1>3. \A x \in 1..Len(sorted) : sorted[x][1] = sorted[j][1] => x = j
  <2> SUFFICES ASSUME NEW x \in 1..Len(sorted), sorted[x][1] = sorted[j][1] PROVE x = j
    OBVIOUS
  <2>1. ~ (x < j) /\ ~ (j < x)
    BY <1>1, <1>2
  <2> QED
    BY <1>2, <2>1
<1>4. LastCopy(j)
  BY <1>2, <1>3 DEF LastCopy
<1> DEFINE P(x) == sorted[x][1] = sorted[j][1] /\ LastCopy(x)
           c == CHOOSE x \in 1..Len(sorted) : P(x)
<1>5. P(j)
  BY <1>4
<1>6. c \in 1..Len(sorted) /\ P(c)
  <2> HIDE DEF P
  <2> QED
    BY <1>5
<1>7. c = j
  BY <1>3, <1>6
<1> QED
  BY <1>7 DEF OrigLeaf, Positions

\* What the reference accepts is authentic.
LEMMA AcceptedIsAuthentic ==
    ASSUME InputInv, ReadInv, phase # "given", \A d \in 0..Depth : ReadSet(d) = ReadsAt(d),
           zip_and_record[Depth].nodes[0] = Root(OldTree)
    PROVE  Authentic
<1>0. StrictlyAscending(sorted) /\ InOldTree(sorted) /\ (RightHashes => wrong = 0)
  BY DEF ReadInv
<1>1. ASSUME NEW p \in AllReads, Rank(p) <= Len(hashes)
      PROVE  hashes[Rank(p)] = OldHash[p[1]][p[2]]
  <2> DEFINE d == p[1]
             i == p[2]
  <2>1. d \in 0..Depth /\ i \in ReadsAt(d) /\ p = <<d, i>>
    BY DEF AllReads
  <2> HIDE DEF d, i
  <2>2. i \in DOMAIN zip_and_record[d].nodes /\ zip_and_record[d].nodes[i] = Nth(Rank(<<d, i>>))
    BY <2>1, ZipCounts
  <2>3. zip_and_record[d].nodes[i] = OldHash[d][i]
    BY <2>1, <2>2, ZipAuthenticates
  <2>4. Nth(Rank(p)) = hashes[Rank(p)]
    BY <1>1 DEF Nth
  <2> QED
    BY <2>1, <2>2, <2>3, <2>4 DEF d, i
<1>2. wrong = 0
  BY <1>0, <1>1 DEF RightHashes
<1>3. ASSUME NEW j \in 1..Len(sorted) PROVE sorted[j][2] = OldLeaf(sorted[j][1])
  <2> DEFINE i == sorted[j][1]
  <2>1. OrigLeaf(i) = sorted[j][2] /\ i \in Positions /\ i \in Indices /\ i < lcb
    BY <1>0, OneCopy, InputIndices DEF InOldTree
  <2> HIDE DEF i
  <2>2. TouchedAt(0) = Positions
    <3>1. \A k \in Positions : Up(k, 0) = k
      BY InputIndices, Ancestors
    <3> QED
      BY <3>1 DEF TouchedAt
  <2>3. i \in DOMAIN zip_and_record[0].nodes
        /\ zip_and_record[0].nodes[i] = ZNode(0, zip_and_record[0 - 1], i)
    BY <2>1, <2>2, Ends, ZipRows
  <2>4. zip_and_record[0].nodes[i] = OldHash[0][i]
    BY <2>3, Ends, ZipAuthenticates
  <2>5. OldHash[0][i] = hash_leaf(OldTree[i])
    BY <2>1, Ends, NodeHashes DEF OldHash
  <2>6. ZNode(0, zip_and_record[0 - 1], i) = hash_leaf(OrigLeaf(i))
    BY DEF ZNode
  <2>7. OldTree[i] = OldLeaf(i)
    BY <2>1 DEF OldTree
  <2>8. hash_leaf(OrigLeaf(i)) = hash_leaf(OldLeaf(i))
    BY <2>3, <2>4, <2>5, <2>6, <2>7
  <2> QED
    BY <2>1, <2>8 DEF hash_leaf, i
<1> QED
  BY <1>2, <1>3 DEF Authentic

\* The two trees are the same off the paths.
LEMMA OffPathEqual ==
    ASSUME InputInv
    PROVE  \A d \in 0..Depth : \A i \in Nodes(d) :
             i \notin PathAt(d) => OldHash[d][i] = NewHash[d][i]
<1> DEFINE Same(d) == \A i \in Nodes(d) : i \notin PathAt(d) => OldHash[d][i] = NewHash[d][i]
           S == {n \in Nat : n <= Depth => Same(n)}
<1>0. Depth \in Nat
  BY WalkAssumption
<1>i. Positions \cup Inserted \subseteq Indices
  BY InputIndices
<1>1. Same(0)
  <2> SUFFICES ASSUME NEW i \in Nodes(0), i \notin PathAt(0) PROVE OldHash[0][i] = NewHash[0][i]
    OBVIOUS
  <2>1. i \in Indices /\ i \in Nat
    BY Ends, Widths DEF Indices
  <2>2. i \notin Positions \cup Inserted
    <3>1. \A k \in Positions \cup Inserted : Up(k, 0) = k
      BY <1>i, Ancestors
    <3> QED
      BY <3>1 DEF PathAt
  <2>3. i \notin updated
    BY <2>2 DEF InputInv, Positions
  <2>4. ~ (lcb <= i /\ i < lcb + inserts)
    BY <2>1, <2>2 DEF InputInv, Inserted
  <2>5. NewTree[i] = OldTree[i]
    BY <2>1, <2>3, <2>4 DEF NewTree
  <2> QED
    BY <2>5, Ends, NodeHashes DEF OldHash, NewHash
<1>2. ASSUME NEW n \in Nat, n + 1 <= Depth, Same(n) PROVE Same(n + 1)
  <2>1. n \in 0..(Depth - 1) /\ n \in 0..Depth /\ n < Depth
    BY <1>0, <1>2
  <2>2. PathAt(n + 1) = {a \div 2 : a \in PathAt(n)}
    BY <1>i, <2>1, PathUp DEF PathAt
  <2> SUFFICES ASSUME NEW k \in Nodes(n + 1), k \notin PathAt(n + 1)
               PROVE  OldHash[n + 1][k] = NewHash[n + 1][k]
    OBVIOUS
  <2>3. /\ 2 * k \in Nodes(n) /\ 2 * k + 1 \in Nodes(n) /\ k \in Nat
        /\ OldHash[n + 1][k] = Compress(OldHash[n][2 * k], OldHash[n][2 * k + 1])
        /\ NewHash[n + 1][k] = Compress(NewHash[n][2 * k], NewHash[n][2 * k + 1])
    BY <2>1, Family DEF OldHash, NewHash
  <2>4. (2 * k) \div 2 = k /\ (2 * k + 1) \div 2 = k
    BY <2>3
  <2>5. 2 * k \notin PathAt(n) /\ 2 * k + 1 \notin PathAt(n)
    BY <2>2, <2>4
  <2>6. OldHash[n][2 * k] = NewHash[n][2 * k] /\ OldHash[n][2 * k + 1] = NewHash[n][2 * k + 1]
    BY <1>2, <2>3, <2>5
  <2> QED
    BY <2>3, <2>6
<1>3. Nat \subseteq S
  <2> HIDE DEF Same
  <2>1. 0 \in S
    BY <1>1
  <2>2. ASSUME NEW n \in Nat, n \in S PROVE n + 1 \in S
    <3> SUFFICES ASSUME n + 1 <= Depth PROVE Same(n + 1)
      OBVIOUS
    <3>1. n <= Depth
      BY <1>0
    <3> QED
      BY <1>2, <2>2, <3>1
  <2> HIDE DEF S
  <2> QED
    BY <2>1, <2>2, Induct
<1>4. \A d \in 0..Depth : d \in S /\ d <= Depth
  BY <1>0, <1>3
<1> QED
  BY <1>4

\* With authentic witness leaves, pass two starts from the new tree's leaves.
LEMMA NewLeavesRight ==
    ASSUME InputInv, StrictlyAscending(sorted), InOldTree(sorted), Authentic, NEW i \in PathAt(0)
    PROVE  NewLeaves[i] = NewHash[0][i]
<1> DEFINE n == Len(sorted)
<1>t. /\ n \in Nat /\ lcb \in Nat /\ inserts \in Nat /\ Len(Leaves0) = n + inserts
      /\ i \in {Leaves0[j][1] : j \in 1..Len(Leaves0)}
  BY FirstPath, FirstLevel DEF InputInv
<1> DEFINE P(j) == Leaves0[j][1] = i
           c == CHOOSE j \in 1..Len(Leaves0) : P(j)
<1>1. c \in 1..Len(Leaves0) /\ Leaves0[c][1] = i
  <2>1. \E j \in 1..Len(Leaves0) : P(j)
    BY <1>t
  <2> QED
    BY <2>1
<1>2. NewLeaves[i] = Leaves0[c][3]
  BY <1>t DEF NewLeaves
<1> HIDE DEF c
<1>3. i \in Indices /\ NewHash[0][i] = hash_leaf(NewTree[i])
  <2>1. PathAt(0) \subseteq Nodes(0)
    BY InputIndices, Ancestors, Ends DEF PathAt
  <2> QED
    BY <2>1, Ends, NodeHashes DEF NewHash
<1>4. CASE c \in 1..n
  <2>1. /\ sorted[c][1] < lcb
        /\ Leaves0[c] = <<sorted[c][1], hash_leaf(sorted[c][2]),
                          hash_leaf(IF sorted[c][1] \in updated THEN NewLeaf(sorted[c][1])
                                    ELSE sorted[c][2])>>
    BY <1>4, FirstLevel
  <2>2. i = sorted[c][1] /\ i < lcb /\ i \in Nat
    <3>1. Cap \in Nat
      BY Ends, Widths
    <3> QED
      BY <1>1, <1>3, <2>1, <3>1 DEF Indices
  <2>3. sorted[c][2] = OldLeaf(i)
    BY <1>4, <2>2 DEF Authentic
  <2>4. Leaves0[c][3] = hash_leaf(IF i \in updated THEN NewLeaf(i) ELSE OldLeaf(i))
    BY <2>1, <2>2, <2>3
  <2>5. NewTree[i] = IF i \in updated THEN NewLeaf(i) ELSE OldLeaf(i)
    BY <1>3, <1>t, <2>2 DEF NewTree, OldTree
  <2> QED
    BY <1>2, <1>3, <2>4, <2>5
<1>5. CASE c \in (n + 1)..(n + inserts)
  <2> DEFINE m == lcb + (c - n) - 1
  <2>1. Leaves0[c] = <<m, Empty[0], hash_leaf(NewLeaf(m))>>
    BY <1>5, FirstLevel
  <2>2. lcb <= m /\ m < lcb + inserts
    BY <1>5, <1>t
  <2> HIDE DEF m
  <2>3. i = m /\ Leaves0[c][3] = hash_leaf(NewLeaf(i))
    BY <1>1, <2>1
  <2>4. NewTree[i] = NewLeaf(i)
    BY <1>3, <2>2, <2>3 DEF NewTree
  <2> QED
    BY <1>2, <1>3, <2>3, <2>4
<1>6. c \in 1..n \/ c \in (n + 1)..(n + inserts)
  BY <1>1, <1>t
<1> QED
  BY <1>4, <1>5, <1>6

\* Pass two computes the new tree's hashes.
LEMMA ZipsNewRoot ==
    ASSUME InputInv, StrictlyAscending(sorted), InOldTree(sorted), Authentic, Resolved,
           NEW g, Zipped(g), Positions # {},
           \A d \in 0..Depth : \A i \in DOMAIN zip_and_record[d].nodes :
             zip_and_record[d].nodes[i] = OldHash[d][i]
    PROVE  g[Depth].nodes[0] = Root(NewTree)
<1> DEFINE z == zip_and_record
           Right(d) == \A i \in PathAt(d) : g[d].nodes[i] = NewHash[d][i]
           S == {n \in Nat : n <= Depth => Right(n)}
<1>0. Depth \in Nat
  BY WalkAssumption
<1>i. Positions \cup Inserted \subseteq Indices
  BY InputIndices
<1>1. Right(0)
  <2>1. g[0] = NRow(z, 0, g[0 - 1])
    BY Ends DEF Zipped
  <2>2. g[0].nodes = NewLeaves
    BY <2>1 DEF NRow
  <2> QED
    BY <2>2, NewLeavesRight
<1>2. ASSUME NEW n \in Nat, n + 1 <= Depth, Right(n) PROVE Right(n + 1)
  <2> DEFINE e == n + 1
  <2>1. n \in 0..(Depth - 1) /\ n \in 0..Depth /\ n < Depth /\ e \in 0..Depth /\ e # 0 /\ e - 1 = n
    BY <1>0, <1>2
  <2>2. PathAt(e) = {a \div 2 : a \in PathAt(n)}
    BY <1>i, <2>1, PathUp DEF PathAt
  <2>3. DOMAIN g[n].nodes = PathAt(n) /\ DOMAIN g[e].nodes = PathAt(e)
    BY <2>1, ZipPaths
  <2>n. PathAt(n) \subseteq Nodes(n) /\ PathAt(e) \subseteq Nodes(e)
    BY <1>i, <2>1, Ancestors DEF PathAt
  <2> SUFFICES ASSUME NEW k \in PathAt(e) PROVE g[e].nodes[k] = NewHash[e][k]
    OBVIOUS
  <2>4. /\ 2 * k \in Nodes(n) /\ 2 * k + 1 \in Nodes(n) /\ k \in Nat
        /\ NewHash[e][k] = Compress(NewHash[n][2 * k], NewHash[n][2 * k + 1])
    BY <2>1, <2>n, Family DEF NewHash
  <2> HIDE DEF e
  <2>5. g[e] = NRow(z, e, g[n])
    BY <2>1 DEF Zipped
  <2>6. DOMAIN g[e].nodes = NewParents(g[n])
    BY <2>1, <2>5 DEF NRow
  <2>7. g[e].nodes[k] = Compress(NewChild(z, e, g[n], 2 * k), NewChild(z, e, g[n], 2 * k + 1))
    <3>1. k \in NewParents(g[n])
      BY <2>3, <2>6
    <3> QED
      BY <2>1, <2>5, <3>1 DEF NRow
  <2>8. ASSUME NEW c \in Nodes(n), c \in Nat, c = 2 * k \/ c = 2 * k + 1
        PROVE  NewChild(z, e, g[n], c) = NewHash[n][c]
    <3>1. CASE c \in PathAt(n)
      BY <1>2, <2>3, <3>1 DEF NewChild
    <3>2. CASE c \notin PathAt(n)
      <4>1. PICK a \in PathAt(n) : k = a \div 2
        BY <2>2
      <4>2. a \in Nat /\ (a = 2 * k \/ a = 2 * k + 1) /\ Sibling(c) = a
        <5>1. a \in Nat /\ (a = 2 * k \/ a = 2 * k + 1)
          BY <4>1, <2>n, <2>1, Halving
        <5>2. a # c
          BY <3>2, <4>1
        <5> QED
          BY <5>1, <5>2, <2>8, <2>4, Siblings
      <4>3. c \in TouchedAt(n) \cup ReadSet(n) \/ c * 2^n >= lcb
        BY <2>1, <3>2, <4>1, <4>2, <2>8 DEF Resolved
      <4>4. DOMAIN z[n].nodes = TouchedAt(n) \cup ReadSet(n)
        BY <2>1, ZipRows
      <4>5. OldHash[n][c] = NewHash[n][c]
        BY <2>1, <2>8, <3>2, OffPathEqual
      <4>6. NewChild(z, e, g[n], c) = resolve_sibling(z, n, c)
        BY <2>1, <2>3, <3>2 DEF NewChild
      <4>7. CASE c \in DOMAIN z[n].nodes
        BY <2>1, <4>5, <4>6, <4>7 DEF resolve_sibling
      <4>8. CASE c \notin DOMAIN z[n].nodes
        <5>1. c * 2^n >= lcb
          BY <4>3, <4>4, <4>8
        <5>2. OldHash[n][c] = Empty[n]
          BY <2>1, <2>8, <5>1, EmptyBeyond
        <5> QED
          BY <4>5, <4>6, <4>8, <5>1, <5>2 DEF resolve_sibling
      <4> QED
        BY <4>7, <4>8
    <3> QED
      BY <3>1, <3>2
  <2>9. 2 * k \in Nat /\ 2 * k + 1 \in Nat
    BY <2>4
  <2> QED
    BY <2>4, <2>7, <2>8, <2>9
<1>3. Right(Depth)
  <2> HIDE DEF Right
  <2>1. 0 \in S
    BY <1>1
  <2>2. ASSUME NEW n \in Nat, n \in S PROVE n + 1 \in S
    <3> SUFFICES ASSUME n + 1 <= Depth PROVE Right(n + 1)
      OBVIOUS
    <3>1. n <= Depth
      BY <1>0
    <3> QED
      BY <1>2, <2>2, <3>1
  <2>3. Nat \subseteq S
    <3> HIDE DEF S
    <3> QED
      BY <2>1, <2>2, Induct
  <2>4. Depth \in S
    BY <1>0, <2>3
  <2> QED
    BY <1>0, <2>4
<1>4. 0 \in PathAt(Depth)
  <2>1. PICK i \in Positions : TRUE
    OBVIOUS
  <2>2. Up(i, Depth) = 0
    BY <2>1, InputIndices, Ancestors
  <2> QED
    BY <2>2 DEF PathAt
<1>5. g[Depth].nodes[0] = NewHash[Depth][0]
  BY <1>3, <1>4
<1> QED
  BY <1>5 DEF Root, NewHash

\* A batch that names a leaf touches a position.
Named == sorted # << >> => Positions # {}
\* The input keeps its positions.
LEMMA NamedAlways == Spec => []Named
<1>1. Init => Named
  <2> SUFFICES ASSUME Init, sorted # << >> PROVE Positions # {}
    BY DEF Named
  <2>1. PICK n \in 0..MaxSorted : \E A : sorted \in [1..n -> A]
    BY DEF Init, SortedLeaves
  <2>2. CASE n = 0
    BY <2>1, <2>2
  <2>3. CASE n # 0
    <3>1. n \in Nat /\ Len(sorted) = n /\ 1 \in 1..n
      BY <2>1, <2>3, WalkAssumption
    <3> QED
      BY <3>1 DEF Positions
  <2> QED
    BY <2>2, <2>3
<1>2. Named /\ [Next]_vars => Named'
  <2>1. [Next]_vars => UNCHANGED sorted
    BY DEF Next, vars, input, Start, StepRight, StepPair, StepLeft, LevelDone, Finish, Push
  <2> QED
    BY <2>1 DEF Named, Positions
<1> QED
  BY <1>1, <1>2, PTL DEF Spec

\* The comparison of the two passes with the walk, from the invariants of the walk.
LEMMA PassesAgree ==
    ASSUME WalkInv, ReadInv, Named
    PROVE  TwoPassAgrees
<1> DEFINE z == zip_and_record
           pass2 == zip_from_authenticated(z)
<1> SUFFICES ASSUME Done, sorted # << >>
             PROVE  /\ pass2.ok => z[Depth].used = Len(hashes)
                    /\ /\ pass2.ok /\ z[Depth].nodes[0] = Root(OldTree)
                       => OldRootMatches /\ level[1][3] = pass2.root
  BY DEF TwoPassAgrees, apply_reference
<1>0. /\ InputInv /\ StrictlyAscending(sorted) /\ InOldTree(sorted) /\ phase # "given"
      /\ Positions # {}
  BY DEF WalkInv, ReadInv, Done, Named
<1>1. PICK g : /\ pass2.ok = g[Depth].ok
               /\ pass2.root = g[Depth].nodes[0]
               /\ Zipped(g)
  BY ZipsAgain DEF Zipped
<1> HIDE DEF pass2
<1>2. SUFFICES ASSUME pass2.ok
               PROVE  /\ z[Depth].used = Len(hashes)
                      /\ z[Depth].nodes[0] = Root(OldTree)
                           => OldRootMatches /\ level[1][3] = pass2.root
  OBVIOUS
<1>3. Resolved
  BY <1>0, <1>1, <1>2, FitsResolves
<1>4. \A d \in 0..Depth : ReadSet(d) = ReadsAt(d)
  BY <1>0, <1>3, ReadsAlike
<1>5. z[Depth].used = Len(hashes)
  BY <1>0, <1>4, ZipCounts, EndReads, Ends
<1>6. ASSUME z[Depth].nodes[0] = Root(OldTree)
      PROVE  OldRootMatches /\ level[1][3] = pass2.root
  <2>1. Authentic
    BY <1>0, <1>4, <1>6, AcceptedIsAuthentic
  <2>2. OldRootMatches /\ level[1][3] = Root(NewTree)
    BY <2>1, AtRoot
  <2>3. \A d \in 0..Depth : \A i \in DOMAIN z[d].nodes : z[d].nodes[i] = OldHash[d][i]
    BY <1>0, <1>4, <1>6, ZipAuthenticates
  <2>4. g[Depth].nodes[0] = Root(NewTree)
    BY <1>0, <1>1, <1>3, <2>1, <2>3, ZipsNewRoot
  <2> QED
    BY <1>1, <2>2, <2>4
<1> QED
  BY <1>5, <1>6

\* apply and apply_reference agree for trees of every depth (merkle.rs:450-455): on
\* every witness whose second pass finds its siblings the two consume the same
\* number of intermediate hashes, and what the reference accepts the walk accepts
\* with the same new root.
THEOREM TwoPassAlwaysAgrees == Spec => []TwoPassAgrees
<1>1. WalkInv /\ ReadInv /\ Named => TwoPassAgrees
  BY PassesAgree
<1> QED
  BY <1>1, WalkAlwaysInv, ReadsAlways, NamedAlways, PTL
-----------------------------------------------------------------------------
(* The hasher of crypto/blake2s.rs. The walk takes the hash of a leaf or of *)
(* a node for a function of the bytes hashed, and an injective one: so is   *)
(* what the streaming hasher computes, but for collisions of compress.      *)

\* One block of the reference.
ChainStep(msg, b, h) ==
    IF b = 0 THEN INITIAL_STATE
    ELSE compress(h, SlotsOf(PaddedBlock(msg, b)), min(b * BLOCK_BYTES, Len(msg)), b = Blocks(msg))

\* The reference, unfolded.
LEMMA DigestChain ==
    ASSUME NEW msg, Blocks(msg) \in Nat
    PROVE  \E h : /\ Digest(msg) = h[Blocks(msg)]
                  /\ \A b \in 0..Blocks(msg) : h[b] = ChainStep(msg, b, h[b - 1])
<1> DEFINE F(n, g) == g = [b \in 0..n |-> ChainStep(msg, b, g[b - 1])]
           S == {n \in Nat : \E g : F(n, g)}
<1>1. 0 \in S
  <2> DEFINE g == [b \in 0..0 |-> INITIAL_STATE]
  <2>1. F(0, g)
    BY DEF ChainStep
  <2> HIDE DEF F, g
  <2> QED
    BY <2>1
<1>2. ASSUME NEW n \in Nat, n \in S PROVE n + 1 \in S
  <2>1. PICK g : F(n, g)
    BY <1>2
  <2> DEFINE h == [b \in 0..(n + 1) |-> IF b = n + 1 THEN ChainStep(msg, b, g[n]) ELSE g[b]]
  <2>2. \A b \in 0..n : h[b] = g[b]
    OBVIOUS
  <2>3. ASSUME NEW b \in 0..(n + 1) PROVE h[b] = ChainStep(msg, b, h[b - 1])
    <3>1. CASE b = n + 1
      <4>1. b - 1 = n /\ n \in 0..n
        BY <3>1
      <4> QED
        BY <2>2, <3>1, <4>1
    <3>2. CASE b # n + 1
      <4>1. b \in 0..n /\ (b # 0 => b - 1 \in 0..n)
        BY <3>2
      <4>2. g[b] = ChainStep(msg, b, g[b - 1])
        BY <2>1, <4>1
      <4>3. CASE b = 0
        <5> HIDE DEF h
        <5> QED
          BY <2>2, <4>1, <4>2, <4>3 DEF ChainStep
      <4>4. CASE b # 0
        <5> HIDE DEF h
        <5> QED
          BY <2>2, <4>1, <4>2, <4>4
      <4> QED
        BY <4>3, <4>4
    <3> QED
      BY <3>1, <3>2
  <2>4. F(n + 1, h)
    BY <2>3
  <2> HIDE DEF F, h
  <2> QED
    BY <2>4
<1>3. Blocks(msg) \in S
  <2> HIDE DEF S
  <2> QED
    BY <1>1, <1>2, Induct
<1>4. \E g : g = [b \in 0..Blocks(msg) |-> ChainStep(msg, b, g[b - 1])]
  BY <1>3
<1> DEFINE G == CHOOSE g : g = [b \in 0..Blocks(msg) |-> ChainStep(msg, b, g[b - 1])]
<1>5. Digest(msg) = G[Blocks(msg)]
  BY DEF Digest, ChainStep
<1>6. G = [b \in 0..Blocks(msg) |-> ChainStep(msg, b, G[b - 1])]
  BY <1>4, Zenon
<1> HIDE DEF G
<1> QED
  BY <1>5, <1>6

\* The hasher has absorbed the message m: k whole blocks compressed, and the rest
\* in the buffer, whose tail may be stale. A full buffer waits for more input.
Chain(m, k, h) ==
    /\ h[0] = INITIAL_STATE
    /\ \A b \in 1..k :
         h[b] = compress(h[b - 1], SlotsOf(PaddedBlock(m, b)), b * BLOCK_BYTES, FALSE)
Absorbed(s, m, k) ==
    /\ k \in Nat /\ s.t = k * BLOCK_BYTES
    /\ s.buf_len \in 0..BLOCK_BYTES /\ Len(m) = s.t + s.buf_len
    /\ s.buf_len = 0 => k = 0
    /\ \E h : Chain(m, k, h) /\ s.h = h[k]
    /\ s.buf = [i \in 1..BLOCK_BYTES |-> s.buf[i]]
    /\ \A i \in 1..s.buf_len : s.buf[i] = m[s.t + i]
Holds(s, m) == \E k : Absorbed(s, m, k)

\* The bytes of the first k blocks.
LEMMA BlockBytes ==
    ASSUME NEW k \in Nat, NEW b \in 1..k
    PROVE  /\ (b - 1) * BLOCK_BYTES \in Nat /\ b * BLOCK_BYTES \in Nat /\ k * BLOCK_BYTES \in Nat
           /\ (b - 1) * BLOCK_BYTES + BLOCK_BYTES = b * BLOCK_BYTES
           /\ b * BLOCK_BYTES <= k * BLOCK_BYTES
<1>1. BLOCK_BYTES \in Nat /\ b - 1 \in Nat /\ b \in Nat /\ b <= k /\ (b - 1) + 1 = b
  BY BlockSizes
<1> QED
  BY <1>1, TimesMono

\* Messages that agree on their first k blocks have the same chain.
LEMMA SameChain ==
    ASSUME NEW k \in Nat, NEW m, NEW n, Len(m) \in Nat, Len(n) \in Nat,
           k * BLOCK_BYTES <= Len(m), k * BLOCK_BYTES <= Len(n),
           \A i \in 1..(k * BLOCK_BYTES) : m[i] = n[i]
    PROVE  \A b \in 1..k : PaddedBlock(m, b) = PaddedBlock(n, b)
<1> SUFFICES ASSUME NEW b \in 1..k PROVE PaddedBlock(m, b) = PaddedBlock(n, b)
  OBVIOUS
<1> DEFINE o == (b - 1) * BLOCK_BYTES
           w == k * BLOCK_BYTES
<1>1. o \in Nat /\ w \in Nat /\ o + BLOCK_BYTES <= w /\ BLOCK_BYTES \in Nat
  BY BlockBytes, BlockSizes
<1> HIDE DEF o, w
<1>2. \A i \in 1..BLOCK_BYTES : o + i \in 1..w /\ o + i <= Len(m) /\ o + i <= Len(n)
  BY <1>1 DEF w
<1>3. \A i \in 1..BLOCK_BYTES : m[o + i] = n[o + i]
  BY <1>2 DEF w
<1>4. PaddedBlock(m, b) = [i \in 1..BLOCK_BYTES |-> IF o + i <= Len(m) THEN m[o + i] ELSE 0]
  BY DEF PaddedBlock, o
<1>5. PaddedBlock(n, b) = [i \in 1..BLOCK_BYTES |-> IF o + i <= Len(n) THEN n[o + i] ELSE 0]
  BY DEF PaddedBlock, o
<1> QED
  BY <1>2, <1>3, <1>4, <1>5

\* A new hasher (Blake2s256::new) has absorbed nothing.
LEMMA NewHolds == Holds(new, << >>)
<1> DEFINE h == [b \in {0} |-> INITIAL_STATE]
<1>1. Chain(<< >>, 0, h)
  BY DEF Chain
<1>2. BLOCK_BYTES \in Nat
  BY BlockSizes
<1>3. new.h = h[0] /\ new.t = 0 /\ new.buf_len = 0 /\ new.buf = [i \in 1..BLOCK_BYTES |-> new.buf[i]]
  BY DEF new
<1>4. Len(<< >>) = 0 /\ 0 * BLOCK_BYTES = 0
  BY <1>2
<1> HIDE DEF h
<1>5. Absorbed(new, << >>, 0)
  BY <1>1, <1>2, <1>3, <1>4 DEF Absorbed
<1> QED
  BY <1>5 DEF Holds

\* What is appended to a message.
LEMMA Extended ==
    ASSUME NEW V, NEW m \in Seq(V), NEW d \in Seq(V), NEW n \in 0..Len(d)
    PROVE  LET x == m \o SubSeq(d, 1, n) IN
           /\ x \in Seq(V) /\ Len(m) \in Nat /\ Len(x) = Len(m) + n
           /\ \A i \in 1..Len(m) : x[i] = m[i]
           /\ \A i \in 1..n : x[Len(m) + i] = d[i]
<1> DEFINE e == SubSeq(d, 1, n)
           x == m \o e
<1>1. e \in Seq(V) /\ Len(e) = n /\ \A i \in 1..n : e[i] = d[i]
  OBVIOUS
<1> HIDE DEF e
<1>2. Len(m) \in Nat /\ n \in Nat
  OBVIOUS
<1>3. x \in Seq(V) /\ Len(x) = Len(m) + n
  BY <1>1
<1>4. \A i \in 1..Len(m) : x[i] = m[i]
  BY <1>1, <1>2
<1>5. \A i \in 1..n : x[Len(m) + i] = e[i]
  BY <1>1, <1>2
<1> QED
  BY <1>1, <1>2, <1>3, <1>4, <1>5 DEF e

\* A turn of update's loop absorbs what it takes, and it takes something: a full
\* buffer becomes a block, and the old bytes in the buffer do no harm.
LEMMA AbsorbHolds ==
    ASSUME NEW V, NEW m \in Seq(V), NEW d \in Seq(V), d # << >>, NEW s, Holds(s, m)
    PROVE  /\ taken(s, d) \in 1..Len(d)
           /\ Holds(absorb(s, d), m \o SubSeq(d, 1, taken(s, d)))
<1>1. PICK k : Absorbed(s, m, k)
  BY DEF Holds
<1> DEFINE B == BLOCK_BYTES
           full == s.buf_len = B
           start == IF full THEN 0 ELSE s.buf_len
           take == taken(s, d)
           x == m \o SubSeq(d, 1, take)
           r == absorb(s, d)
<1>t. /\ k \in Nat /\ B \in Nat /\ B > 0 /\ s.buf_len \in 0..B /\ s.buf_len \in Nat
      /\ s.t = k * B /\ s.t \in Nat /\ Len(m) = s.t + s.buf_len
      /\ Len(d) \in Nat /\ Len(d) > 0
      /\ s.buf = [i \in 1..B |-> s.buf[i]]
      /\ s.buf_len = 0 => k = 0
  <2>1. B \in Nat /\ B > 0
    BY BlockSizes
  <2>2. k \in Nat /\ s.t = k * B /\ s.buf_len \in 0..B /\ Len(m) = s.t + s.buf_len
        /\ s.buf = [i \in 1..B |-> s.buf[i]] /\ (s.buf_len = 0 => k = 0)
    BY <1>1 DEF Absorbed
  <2>3. k * B \in Nat
    BY <2>1, <2>2
  <2>4. Len(d) \in Nat /\ Len(d) > 0
    OBVIOUS
  <2> QED
    BY <2>1, <2>2, <2>3, <2>4
<1>u. /\ B \in Nat /\ s.buf_len \in Nat /\ s.buf_len <= B /\ s.t \in Nat
      /\ Len(m) = s.t + s.buf_len
  BY <1>t
<1>v. \A i \in 1..s.buf_len : s.buf[i] = m[s.t + i]
  BY <1>1 DEF Absorbed
<1>2. start \in 0..(B - 1) /\ take = min(B - start, Len(d))
  BY <1>t DEF taken
<1>3. take \in 1..Len(d) /\ start + take <= B /\ take \in 0..Len(d)
  BY <1>2, <1>t DEF min
<1>4. /\ x \in Seq(V) /\ Len(x) = Len(m) + take
      /\ \A i \in 1..Len(m) : x[i] = m[i]
      /\ \A i \in 1..take : x[Len(m) + i] = d[i]
  BY <1>3, Extended
<1> HIDE DEF x
<1>5. /\ r.h = IF full THEN compress(s.h, SlotsOf(s.buf), s.t + B, FALSE) ELSE s.h
      /\ r.t = IF full THEN s.t + B ELSE s.t
      /\ r.buf_len = start + take
      /\ r.buf = [i \in 1..B |-> IF i \in (start + 1)..(start + take) THEN d[i - start] ELSE s.buf[i]]
  BY <1>2 DEF absorb
<1> HIDE DEF take, r
<1>6. r.buf = [i \in 1..B |-> r.buf[i]]
  BY <1>5
<1>7. PICK h : Chain(m, k, h) /\ s.h = h[k]
  BY <1>1 DEF Absorbed
<1>8. Len(m) \in Nat /\ Len(x) \in Nat /\ k * B <= Len(m) /\ k * B <= Len(x) /\ k * B \in Nat
  BY <1>3, <1>4, <1>t
<1>9. \A b \in 1..k : PaddedBlock(m, b) = PaddedBlock(x, b)
  <2>1. \A i \in 1..(k * B) : m[i] = x[i]
    BY <1>4, <1>8
  <2>2. k \in Nat
    BY <1>t
  <2> HIDE DEF B
  <2>3. k * BLOCK_BYTES <= Len(m) /\ k * BLOCK_BYTES <= Len(x) /\ Len(m) \in Nat /\ Len(x) \in Nat
    BY <1>8 DEF B
  <2>4. \A i \in 1..(k * BLOCK_BYTES) : m[i] = x[i]
    BY <2>1 DEF B
  <2> QED
    BY ONLY <2>2, <2>3, <2>4, SameChain
<1>10. CASE full
  <2> DEFINE g == [b \in 0..(k + 1) |-> IF b = k + 1 THEN r.h ELSE h[b]]
  <2>0. s.buf_len = B /\ start = 0 /\ r.t = s.t + B /\ r.buf_len = take
        /\ r.h = compress(s.h, SlotsOf(s.buf), s.t + B, FALSE)
    BY <1>5, <1>10, <1>3
  <2>1. (k + 1) * B = s.t + B /\ k + 1 \in Nat /\ (k + 1) - 1 = k
    BY <1>t
  <2>2. PaddedBlock(x, k + 1) = s.buf
    <3>1. PaddedBlock(x, k + 1) = [i \in 1..B |-> IF s.t + i <= Len(x) THEN x[s.t + i] ELSE 0]
      BY <2>1, <1>t DEF PaddedBlock
    <3>2. ASSUME NEW i \in 1..B PROVE s.t + i <= Len(x) /\ x[s.t + i] = s.buf[i]
      <4>1. s.t + i \in 1..Len(m) /\ s.t + i <= Len(x)
        BY <1>u, <1>3, <1>4, <2>0
      <4>2. s.buf[i] = m[s.t + i]
        BY <1>v, <2>0
      <4> QED
        BY <4>1, <4>2, <1>4
    <3> QED
      BY <3>1, <3>2, <1>t
  <2>3. Chain(x, k + 1, g)
    <3>1. g[0] = INITIAL_STATE
      BY <1>7, <1>t DEF Chain
    <3>2. ASSUME NEW b \in 1..(k + 1)
          PROVE  g[b] = compress(g[b - 1], SlotsOf(PaddedBlock(x, b)), b * B, FALSE)
      <4>1. CASE b = k + 1
        <5>1. g[b] = r.h /\ g[b - 1] = h[k]
          BY <4>1, <1>t
        <5> QED
          BY <4>1, <5>1, <2>0, <2>1, <2>2, <1>7
      <4>2. CASE b # k + 1
        <5>1. b \in 1..k /\ g[b] = h[b] /\ g[b - 1] = h[b - 1]
          BY <4>2, <1>t
        <5> QED
          BY <5>1, <1>7, <1>9 DEF Chain
      <4> QED
        BY <4>1, <4>2
    <3> HIDE DEF g
    <3> QED
      BY <3>1, <3>2 DEF Chain
  <2>4. r.h = g[k + 1]
    BY <1>t
  <2>5. Len(x) = r.t + r.buf_len /\ r.buf_len \in 0..B /\ r.buf_len # 0
    BY <1>3, <1>4, <1>t, <2>0
  <2>6. \A i \in 1..r.buf_len : r.buf[i] = x[r.t + i]
    <3> SUFFICES ASSUME NEW i \in 1..take PROVE r.buf[i] = x[r.t + i]
      BY <2>0
    <3>1. r.buf[i] = d[i]
      BY <1>5, <1>3, <1>t, <2>0
    <3>2. Len(m) + i = r.t + i
      BY <1>t, <2>0
    <3> QED
      BY <3>1, <3>2, <1>4
  <2> HIDE DEF g
  <2>7. Absorbed(r, x, k + 1)
    BY <1>6, <2>0, <2>1, <2>3, <2>4, <2>5, <2>6 DEF Absorbed
  <2> QED
    BY <1>3, <2>7 DEF Holds, take, x, r
<1>11. CASE ~ full
  <2>0. start = s.buf_len /\ r.t = s.t /\ r.h = s.h /\ r.buf_len = s.buf_len + take
    BY <1>5, <1>11
  <2>1. Chain(x, k, h)
    BY <1>7, <1>9 DEF Chain
  <2>2. Len(x) = r.t + r.buf_len /\ r.buf_len \in 0..B /\ r.buf_len # 0
    BY <1>3, <1>4, <1>t, <2>0
  <2>3. ASSUME NEW i \in 1..r.buf_len PROVE r.buf[i] = x[r.t + i]
    <3>1. CASE i <= s.buf_len
      <4>1. r.buf[i] = s.buf[i]
        BY <1>5, <3>1, <2>0, <2>2, <1>t, <1>3
      <4>2. s.buf[i] = m[s.t + i]
        <5>1. i \in 1..s.buf_len
          BY <3>1, <1>u, <2>2
        <5> QED
          BY <1>v, <5>1
      <4>3. s.t + i \in 1..Len(m)
        BY <3>1, <1>u, <2>2
      <4> QED
        BY <4>1, <4>2, <4>3, <2>0, <1>4
    <3>2. CASE i > s.buf_len
      <4> DEFINE j == i - s.buf_len
      <4>1. j \in 1..take /\ Len(m) + j = r.t + i
        <5>1. i \in 1..(s.buf_len + take) /\ take \in Nat
          BY <2>0, <1>3
        <5>2. j \in 1..take /\ s.t + s.buf_len + j = s.t + i
          BY <3>2, <1>u, <5>1
        <5> HIDE DEF j
        <5> QED
          BY <5>2, <2>0, <1>u
      <4>2. r.buf[i] = d[j]
        BY <1>5, <3>2, <2>0, <2>2, <1>t, <1>3
      <4> HIDE DEF j
      <4> QED
        BY <4>1, <4>2, <1>4
    <3>3. i <= s.buf_len \/ i > s.buf_len
      BY <1>t, <2>2
    <3> QED
      BY <3>1, <3>2, <3>3
  <2>4. Absorbed(r, x, k)
    BY <1>6, <1>7, <1>t, <2>0, <2>1, <2>2, <2>3 DEF Absorbed
  <2> QED
    BY <1>3, <2>4 DEF Holds, take, x, r
<1> QED
  BY <1>10, <1>11

\* The number of blocks of a message.
LEMMA BlockCount ==
    ASSUME NEW k \in Nat, NEW l \in 1..BLOCK_BYTES
    PROVE  (k * BLOCK_BYTES + l + BLOCK_BYTES - 1) \div BLOCK_BYTES = k + 1
<1> DEFINE B == BLOCK_BYTES
           a == k * B + l + B - 1
           q == a \div B
<1>1. B \in Nat /\ B > 0 /\ l \in Nat
  BY BlockSizes
<1>2. k * B \in Nat /\ a \in Nat /\ (k + 1) * B = k * B + B /\ k * B + B <= a /\ a < k * B + B + B
  BY <1>1
<1>3. q \in Nat /\ B * q <= a /\ a < B * q + B /\ B * q = q * B
  BY <1>1, <1>2
<1> HIDE DEF B, a, q
<1>4. ~ (q < k + 1)
  BY <1>1, <1>2, <1>3, TimesMono
<1>5. ~ (k + 1 < q)
  BY <1>1, <1>2, <1>3, TimesMono
<1>6. q = k + 1
  BY <1>3, <1>4, <1>5
<1> QED
  BY <1>6 DEF q, a, B

\* finalize gives the digest of what was absorbed, the padded last block included.
LEMMA FinalizeDigests ==
    ASSUME NEW V, NEW m \in Seq(V), NEW s, Holds(s, m)
    PROVE  finalize(s) = Digest(m)
<1>1. PICK k : Absorbed(s, m, k)
  BY DEF Holds
<1> DEFINE B == BLOCK_BYTES
           n == k + 1
           last == [i \in 1..B |-> IF i <= s.buf_len THEN s.buf[i] ELSE 0]
<1>t. /\ k \in Nat /\ B \in Nat /\ B > 0 /\ s.buf_len \in 0..B /\ s.buf_len \in Nat
      /\ s.t = k * B /\ s.t \in Nat /\ Len(m) = s.t + s.buf_len /\ Len(m) \in Nat
      /\ s.buf_len = 0 => k = 0
      /\ n \in Nat /\ n - 1 = k /\ n # 0 /\ n * B = s.t + B
  <2>1. B \in Nat /\ B > 0
    BY BlockSizes
  <2>2. k \in Nat /\ s.t = k * B /\ s.buf_len \in 0..B /\ Len(m) = s.t + s.buf_len
        /\ (s.buf_len = 0 => k = 0)
    BY <1>1 DEF Absorbed
  <2>3. k * B \in Nat /\ n * B = k * B + B
    BY <2>1, <2>2
  <2> HIDE DEF B
  <2> QED
    BY <2>1, <2>2, <2>3
<1>v. \A i \in 1..s.buf_len : s.buf[i] = m[s.t + i]
  BY <1>1 DEF Absorbed
<1>2. Blocks(m) = n
  <2>1. CASE m = << >>
    <3>1. Len(m) = 0
      BY <2>1
    <3>2. k = 0
      BY <1>t, <3>1
    <3> QED
      BY <2>1, <3>2 DEF Blocks
  <2>2. CASE m # << >>
    <3>1. Len(m) > 0
      BY <2>2
    <3>2. s.buf_len # 0
      <4> SUFFICES ASSUME s.buf_len = 0 PROVE FALSE
        OBVIOUS
      <4>1. k * B = 0
        BY <1>t
      <4> QED
        BY <1>t, <3>1, <4>1
    <3>3. s.buf_len \in 1..B
      BY <1>t, <3>2
    <3>4. (k * B + s.buf_len + B - 1) \div B = n
      BY <1>t, <3>3, BlockCount
    <3>5. Len(m) + B - 1 = k * B + s.buf_len + B - 1
      BY <1>t
    <3> QED
      BY <2>2, <3>4, <3>5 DEF Blocks
  <2> QED
    BY <2>1, <2>2
<1>3. PICK h : Chain(m, k, h) /\ s.h = h[k]
  BY <1>1 DEF Absorbed
<1>4. PICK g : Digest(m) = g[n] /\ \A b \in 0..n : g[b] = ChainStep(m, b, g[b - 1])
  BY <1>2, <1>t, DigestChain
<1>5. g[k] = h[k]
  <2> DEFINE S == {b \in Nat : b <= k => g[b] = h[b]}
  <2>1. 0 \in S
    <3>1. 0 \in 0..n
      BY <1>t
    <3>2. g[0] = ChainStep(m, 0, g[0 - 1])
      BY <1>4, <3>1
    <3>3. g[0] = INITIAL_STATE
      BY <3>2 DEF ChainStep
    <3>4. h[0] = INITIAL_STATE
      BY <1>3 DEF Chain
    <3> QED
      BY <3>3, <3>4
  <2>2. ASSUME NEW a \in Nat, a \in S PROVE a + 1 \in S
    <3> SUFFICES ASSUME a + 1 <= k PROVE g[a + 1] = h[a + 1]
      OBVIOUS
    <3> DEFINE b == a + 1
    <3>1. b \in 1..k /\ b \in 0..n /\ b # 0 /\ b # n /\ b - 1 = a /\ a <= k
      BY <1>t
    <3>2. g[a] = h[a]
      BY <2>2, <3>1
    <3> HIDE DEF b
    <3>3. h[b] = compress(h[a], SlotsOf(PaddedBlock(m, b)), b * B, FALSE)
      BY <1>3, <3>1 DEF Chain
    <3>4. g[b] = compress(g[a], SlotsOf(PaddedBlock(m, b)), min(b * B, Len(m)), FALSE)
      <4>1. g[b] = ChainStep(m, b, g[a])
        BY <1>4, <3>1
      <4>2. ~ (b = Blocks(m))
        BY <1>2, <3>1
      <4> QED
        BY <3>1, <4>1, <4>2 DEF ChainStep
    <3>5. min(b * B, Len(m)) = b * B
      <4>1. b * B <= k * B /\ b * B \in Nat
        BY <1>t, <3>1, BlockBytes
      <4>2. k * B <= Len(m)
        BY <1>t
      <4>3. b * B <= Len(m)
        BY <4>1, <4>2, <1>t
      <4> QED
        BY <4>3 DEF min
    <3> QED
      BY <3>2, <3>3, <3>4, <3>5 DEF b
  <2>3. k \in S
    <3> HIDE DEF S
    <3> QED
      BY <2>1, <2>2, <1>t, Induct
  <2> QED
    BY <2>3, <1>t
<1>6. PaddedBlock(m, n) = last
  <2>1. PaddedBlock(m, n) = [i \in 1..B |-> IF s.t + i <= Len(m) THEN m[s.t + i] ELSE 0]
    BY <1>t DEF PaddedBlock
  <2>2. ASSUME NEW i \in 1..B
        PROVE  /\ s.t + i <= Len(m) <=> i <= s.buf_len
               /\ i <= s.buf_len => m[s.t + i] = s.buf[i]
    <3>1. s.t + i <= Len(m) <=> i <= s.buf_len
      <4>1. s.t \in Nat /\ s.buf_len \in Nat /\ Len(m) = s.t + s.buf_len /\ i \in Nat
        BY <1>t
      <4> QED
        BY <4>1
    <3>2. i <= s.buf_len => i \in 1..s.buf_len
      BY <1>t
    <3> QED
      BY <1>v, <3>1, <3>2
  <2> QED
    BY <2>1, <2>2
<1>7. min(n * B, Len(m)) = s.t + s.buf_len
  <2>1. n * B = s.t + B /\ Len(m) = s.t + s.buf_len /\ s.buf_len <= B /\ s.t \in Nat
        /\ B \in Nat /\ s.buf_len \in Nat
    BY <1>t
  <2> QED
    BY <2>1 DEF min
<1>8. g[n] = compress(g[k], SlotsOf(PaddedBlock(m, n)), min(n * B, Len(m)), TRUE)
  <2>1. n \in 0..n
    BY <1>t
  <2>2. g[n] = ChainStep(m, n, g[k])
    BY <1>4, <1>t, <2>1
  <2>3. (n = Blocks(m)) = TRUE
    BY <1>2
  <2> HIDE DEF n
  <2> QED
    BY <1>t, <2>2, <2>3 DEF ChainStep
<1>9. finalize(s) = compress(s.h, SlotsOf(last), s.t + s.buf_len, TRUE)
  BY DEF finalize
<1> HIDE DEF last, n
<1> QED
  BY <1>3, <1>4, <1>5, <1>6, <1>7, <1>8, <1>9

\* A block is a whole number of slots, and so is each half of it.
LEMMA SlotCounts ==
    /\ BLOCK_BYTES \in Nat /\ SLOT_BYTES \in Nat /\ SLOT_BYTES > 0 /\ BLOCK_BYTES > 0
    /\ DIGEST_BYTES \in Nat /\ BLOCK_BYTES = 2 * DIGEST_BYTES
    /\ DIGEST_BYTES \div SLOT_BYTES \in Nat
    /\ (DIGEST_BYTES \div SLOT_BYTES) * SLOT_BYTES = DIGEST_BYTES
    /\ BLOCK_BYTES \div SLOT_BYTES = 2 * (DIGEST_BYTES \div SLOT_BYTES)
<1> DEFINE B == BLOCK_BYTES
           S == SLOT_BYTES
           T == 2 * S
           q == B \div T
<1>1. B \in Nat /\ S \in Nat /\ S > 0 /\ B > 0 /\ T \in Nat /\ T > 0 /\ B % T = 0
  BY BlockSizes
<1> HIDE DEF B, S
<1>2. q \in Nat /\ B = T * q
  <2> HIDE DEF T
  <2>1. q \in Nat /\ B = T * q + (B % T)
    BY <1>1
  <2> QED
    BY <1>1, <2>1
<1> HIDE DEF q
<1>3. B = 2 * (S * q) /\ S * q \in Nat /\ S * q = q * S
  BY <1>1, <1>2
<1>4. B \div 2 = S * q
  <2> DEFINE p == S * q
  <2>1. p \in Nat /\ B = 2 * p
    BY <1>3
  <2> HIDE DEF p
  <2>2. B \div 2 = p
    BY <2>1
  <2> QED
    BY <2>2 DEF p
<1>5. ASSUME NEW k \in Nat, NEW a, a = S * k PROVE a \div S = k
  <2> DEFINE e == a \div S
  <2>1. a \in Nat
    BY <1>1, <1>5
  <2>2. e \in Nat /\ S * e <= a /\ a < S * e + S /\ S * e = e * S /\ a = k * S
    BY <1>1, <1>5, <2>1
  <2> HIDE DEF e
  <2>3. ~ (e < k) /\ ~ (k < e)
    BY <1>1, <2>2, TimesMono
  <2>4. e = k
    BY <2>2, <2>3
  <2> QED
    BY <2>4 DEF e
<1>6. (S * q) \div S = q
  BY <1>5, <1>2
<1>7. B \div S = 2 * q
  <2>1. B = S * (2 * q) /\ 2 * q \in Nat
    BY <1>1, <1>2
  <2> QED
    BY <1>5, <2>1
<1>8. DIGEST_BYTES = S * q
  BY <1>4 DEF DIGEST_BYTES, B
<1> QED
  BY <1>1, <1>2, <1>3, <1>6, <1>7, <1>8 DEF B, S

\* The slots of two halves are the slots of the block.
LEMMA SlotsJoin ==
    ASSUME NEW V, NEW l \in Seq(V), NEW r \in Seq(V),
           Len(l) = DIGEST_BYTES, Len(r) = DIGEST_BYTES
    PROVE  SlotsOf(l \o r) = SlotsOf(l) \o SlotsOf(r)
<1> DEFINE D == DIGEST_BYTES
           S == SLOT_BYTES
           q == D \div S
           x == l \o r
<1>1. S \in Nat /\ S > 0 /\ D \in Nat /\ q \in Nat /\ q * S = D /\ BLOCK_BYTES = 2 * D
      /\ BLOCK_BYTES \div S = 2 * q
  BY SlotCounts
<1>2. /\ x \in Seq(V) /\ Len(x) = BLOCK_BYTES
      /\ \A i \in 1..D : x[i] = l[i] /\ x[D + i] = r[i]
  <2>1. x \in Seq(V) /\ Len(x) = D + D
        /\ (\A i \in 1..D : x[i] = l[i]) /\ (\A i \in 1..D : x[D + i] = r[i])
    <3>1. l \o r \in Seq(V) /\ Len(l \o r) = Len(l) + Len(r)
      OBVIOUS
    <3>2. Len(l) \in Nat /\ Len(r) \in Nat
      OBVIOUS
    <3>3. \A i \in 1..Len(l) : (l \o r)[i] = l[i]
      BY <3>2
    <3>4. \A i \in 1..Len(r) : (l \o r)[Len(l) + i] = r[i]
      BY <3>2
    <3> QED
      BY <3>1, <3>3, <3>4
  <2>2. D + D = BLOCK_BYTES
    BY <1>1
  <2> QED
    BY <2>1, <2>2
<1>3. /\ SlotsOf(x) = [i \in 1..(2 * q) |-> SubSeq(x, (i - 1) * S + 1, i * S)]
      /\ SlotsOf(l) = [i \in 1..q |-> SubSeq(l, (i - 1) * S + 1, i * S)]
      /\ SlotsOf(r) = [i \in 1..q |-> SubSeq(r, (i - 1) * S + 1, i * S)]
  BY <1>1, <1>2 DEF SlotsOf
<1> HIDE DEF D, S, q, x
<1>4. ASSUME NEW i \in 1..q
      PROVE  /\ (i - 1) * S \in Nat /\ i * S \in Nat /\ i * S = (i - 1) * S + S /\ i * S <= D
  <2>1. i - 1 \in Nat /\ i \in Nat /\ i <= q /\ (i - 1) + 1 = i
    BY <1>1
  <2> QED
    BY <1>1, <2>1, TimesMono
<1>5. ASSUME NEW o \in Nat, o + S <= D
      PROVE  /\ SubSeq(x, o + 1, o + S) = SubSeq(l, o + 1, o + S)
             /\ SubSeq(x, D + o + 1, D + o + S) = SubSeq(r, o + 1, o + S)
             /\ SubSeq(l, o + 1, o + S) \in Seq(V) /\ SubSeq(r, o + 1, o + S) \in Seq(V)
  <2>1. Len(l) = D /\ Len(r) = D /\ Len(x) = 2 * D
    BY <1>1, <1>2 DEF D
  <2>2. /\ SubSeq(l, o + 1, o + S) = [i \in 1..S |-> l[o + i]]
        /\ SubSeq(r, o + 1, o + S) = [i \in 1..S |-> r[o + i]]
        /\ SubSeq(x, o + 1, o + S) = [i \in 1..S |-> x[o + i]]
        /\ SubSeq(x, D + o + 1, D + o + S) = [i \in 1..S |-> x[D + o + i]]
    <3>1. ASSUME NEW W, NEW y \in Seq(W), NEW a \in Nat, a + S <= Len(y)
          PROVE  SubSeq(y, a + 1, a + S) = [i \in 1..S |-> y[a + i]]
      <4> DEFINE e == SubSeq(y, a + 1, a + S)
      <4>1. e \in Seq(W) /\ Len(e) = S /\ \A i \in 1..S : e[i] = y[a + i]
        BY <1>1, <3>1
      <4> HIDE DEF e
      <4>2. e = [i \in 1..S |-> e[i]]
        BY <4>1
      <4> QED
        BY <4>1, <4>2 DEF e
    <3>2. D + o \in Nat /\ (D + o) + S <= Len(x) /\ o + S <= Len(x)
      BY <1>1, <1>5, <2>1
    <3> QED
      BY <1>2, <1>5, <2>1, <3>1, <3>2
  <2>3. \A i \in 1..S : o + i \in 1..D
    BY <1>1, <1>5
  <2>4. \A i \in 1..S : x[o + i] = l[o + i] /\ x[D + o + i] = r[o + i]
    <3>1. \A i \in 1..S : D + o + i = D + (o + i)
      BY <1>1
    <3> QED
      BY <1>2, <2>3, <3>1
  <2>5. SubSeq(l, o + 1, o + S) \in Seq(V) /\ SubSeq(r, o + 1, o + S) \in Seq(V)
    BY <1>1, <1>5, <2>1
  <2> QED
    BY <2>2, <2>4, <2>5
<1>6. SlotsOf(l) \in Seq(Seq(V)) /\ SlotsOf(r) \in Seq(Seq(V))
      /\ Len(SlotsOf(l)) = q /\ Len(SlotsOf(r)) = q
  <2>1. \A i \in 1..q : SubSeq(l, (i - 1) * S + 1, i * S) \in Seq(V)
                        /\ SubSeq(r, (i - 1) * S + 1, i * S) \in Seq(V)
    BY <1>4, <1>5
  <2>2. SlotsOf(l) \in [1..q -> Seq(V)] /\ SlotsOf(r) \in [1..q -> Seq(V)]
    BY <1>3, <2>1
  <2> QED
    BY <1>1, <2>2
<1> DEFINE A == SlotsOf(l)
           C == SlotsOf(r)
<1>7. A \o C = [i \in 1..(2 * q) |-> (A \o C)[i]]
      /\ \A i \in 1..q : (A \o C)[i] = A[i] /\ (A \o C)[q + i] = C[i]
  <2> HIDE DEF A, C
  <2>1. A \in Seq(Seq(V)) /\ C \in Seq(Seq(V)) /\ Len(A) = q /\ Len(C) = q
    BY <1>6 DEF A, C
  <2>2. q + q = 2 * q
    BY <1>1
  <2>3. /\ A \o C = [i \in 1..(q + q) |-> (A \o C)[i]]
        /\ \A i \in 1..q : (A \o C)[i] = A[i]
        /\ \A i \in 1..q : (A \o C)[q + i] = C[i]
    <3> DEFINE y == A \o C
               W == Seq(V)
    <3>0. A \in Seq(W) /\ C \in Seq(W)
      BY <2>1
    <3> HIDE DEF W
    <3>1. y \in Seq(W) /\ Len(y) = Len(A) + Len(C)
      BY <3>0
    <3>n. Len(A) \in Nat /\ Len(C) \in Nat
      BY <2>1, <1>1
    <3>2. \A i \in 1..Len(A) : y[i] = A[i]
      BY <3>0, <3>n
    <3>3. \A i \in 1..Len(C) : y[Len(A) + i] = C[i]
      BY <3>0, <3>n
    <3> HIDE DEF y
    <3>4. y = [i \in 1..Len(y) |-> y[i]]
      BY <3>1
    <3>5. Len(y) = q + q
      BY <2>1, <3>1
    <3>6. y = [i \in 1..(q + q) |-> y[i]]
      BY <3>4, <3>5
    <3>7. (\A i \in 1..q : y[i] = A[i]) /\ (\A i \in 1..q : y[q + i] = C[i])
      BY <2>1, <3>2, <3>3
    <3> QED
      BY <3>6, <3>7 DEF y
  <2> QED
    BY <2>2, <2>3
<1>8. ASSUME NEW i \in 1..(2 * q) PROVE SlotsOf(x)[i] = (A \o C)[i]
  <2>1. CASE i <= q
    <3>1. i \in 1..q
      BY <1>1, <2>1
    <3>2. SlotsOf(x)[i] = SubSeq(x, (i - 1) * S + 1, i * S) /\ A[i] = SubSeq(l, (i - 1) * S + 1, i * S)
      BY <1>3, <1>8, <3>1
    <3> HIDE DEF A, C
    <3> QED
      BY <1>4, <1>5, <1>7, <3>1, <3>2
  <2>2. CASE i > q
    <3> DEFINE j == i - q
    <3>1. j \in 1..q /\ i = q + j
      BY <1>1, <2>2
    <3>2. (i - 1) * S = D + (j - 1) * S /\ i * S = D + j * S
      <4>1. q \in Nat /\ S \in Nat /\ j \in Nat
        BY <1>1, <3>1
      <4> HIDE DEF j
      <4>2. i - 1 = q + (j - 1) /\ (q + (j - 1)) * S = q * S + (j - 1) * S /\ (q + j) * S = q * S + j * S
        BY <3>1, <4>1
      <4> QED
        BY <1>1, <3>1, <4>2
    <3> HIDE DEF j
    <3>3. SlotsOf(x)[i] = SubSeq(x, (i - 1) * S + 1, i * S) /\ C[j] = SubSeq(r, (j - 1) * S + 1, j * S)
      BY <1>3, <1>8, <3>1
    <3> HIDE DEF A, C
    <3>4. SubSeq(x, (i - 1) * S + 1, i * S) = SubSeq(r, (j - 1) * S + 1, j * S)
      <4> DEFINE o == (j - 1) * S
      <4>1. o \in Nat /\ j * S = o + S /\ o + S <= D
        BY <1>4, <3>1
      <4>2. (i - 1) * S = D + o /\ i * S = D + o + S
        BY <1>1, <3>2, <4>1
      <4> HIDE DEF o
      <4>3. SubSeq(x, D + o + 1, D + o + S) = SubSeq(r, o + 1, o + S)
        BY <1>5, <4>1
      <4> QED
        BY <4>1, <4>2, <4>3 DEF o
    <3> QED
      BY <1>7, <3>1, <3>3, <3>4
  <2>3. i <= q \/ i > q
    BY <1>1
  <2> QED
    BY <2>1, <2>2, <2>3
<1>9. SlotsOf(x) = [i \in 1..(2 * q) |-> SlotsOf(x)[i]]
  BY <1>3
<1> HIDE DEF A, C
<1>10. SlotsOf(x) = A \o C
  BY <1>7, <1>8, <1>9
<1> QED
  BY <1>10 DEF A, C, x

\* Where a byte is: the piece of width w and the place in it.
LEMMA PieceOf ==
    ASSUME NEW w \in Nat, w > 0, NEW k \in Nat, NEW p \in 1..(k * w)
    PROVE  \E a \in 1..k : \E i \in 1..w : p = (a - 1) * w + i
<1> DEFINE e == (p - 1) \div w
           i == p - e * w
<1>1. k * w \in Nat /\ p \in Nat /\ p >= 1 /\ p <= k * w /\ p - 1 \in Nat
  <2>1. k * w \in Nat
    OBVIOUS
  <2> QED
    BY <2>1
<1>2. e \in Nat /\ w * e <= p - 1 /\ p - 1 < w * e + w /\ w * e = e * w /\ e * w \in Nat
  BY <1>1
<1> HIDE DEF e
<1>3. ~ (k <= e)
  <2> SUFFICES ASSUME k <= e PROVE FALSE
    OBVIOUS
  <2>1. k * w <= e * w
    BY <1>2, TimesMono
  <2> QED
    BY <1>1, <1>2, <2>1
<1>4. e + 1 \in 1..k /\ (e + 1) - 1 = e
  BY <1>2, <1>3
<1>5. i \in 1..w /\ p = e * w + i
  BY <1>1, <1>2
<1> HIDE DEF i
<1> QED
  BY <1>2, <1>4, <1>5

\* A slot holds its bytes, so a block can be read back from its slots.
LEMMA SlotsInjective ==
    ASSUME NEW W, NEW f \in [1..BLOCK_BYTES -> W], NEW g \in [1..BLOCK_BYTES -> W],
           SlotsOf(f) = SlotsOf(g)
    PROVE  f = g
<1> DEFINE B == BLOCK_BYTES
           S == SLOT_BYTES
           k == B \div S
<1>1. B \in Nat /\ S \in Nat /\ S > 0 /\ k \in Nat /\ k * S = B
  <2> DEFINE q == DIGEST_BYTES \div S
  <2>1. /\ B \in Nat /\ S \in Nat /\ S > 0 /\ q \in Nat /\ q * S = DIGEST_BYTES
        /\ B = 2 * DIGEST_BYTES /\ k = 2 * q
    BY SlotCounts
  <2> HIDE DEF q, k, B, S
  <2>2. (2 * q) * S = 2 * (q * S)
    BY <2>1
  <2> QED
    BY <2>1, <2>2
<1> HIDE DEF k
<1>2. ASSUME NEW h \in [1..B -> W], NEW a \in 1..k, NEW i \in 1..S
      PROVE  /\ (a - 1) * S + i \in 1..B
             /\ SlotsOf(h)[a][i] = h[(a - 1) * S + i]
  <2> DEFINE o == (a - 1) * S
  <2>1. h \in Seq(W) /\ Len(h) = B
    BY <1>1
  <2>2. SlotsOf(h)[a] = SubSeq(h, o + 1, a * S)
    BY <2>1 DEF SlotsOf, k
  <2>3. o \in Nat /\ a * S = o + S /\ a * S <= B
    <3>1. a - 1 \in Nat /\ a \in Nat /\ a <= k /\ (a - 1) + 1 = a
      BY <1>1
    <3> QED
      BY <1>1, <3>1, TimesMono
  <2> HIDE DEF o, B, S
  <2>4. SubSeq(h, o + 1, o + S)[i] = h[o + i] /\ o + i \in 1..B
    BY <1>1, <2>1, <2>3
  <2> QED
    BY <2>2, <2>3, <2>4 DEF o
<1>3. ASSUME NEW p \in 1..B PROVE f[p] = g[p]
  <2>1. p \in 1..(k * S)
    BY <1>1
  <2>2. PICK a \in 1..k : \E i \in 1..S : p = (a - 1) * S + i
    BY <1>1, <2>1, PieceOf
  <2>3. PICK i \in 1..S : p = (a - 1) * S + i
    BY <2>2
  <2>4. SlotsOf(f)[a][i] = f[p] /\ SlotsOf(g)[a][i] = g[p]
    BY <1>2, <2>3
  <2> QED
    BY <2>4
<1>4. f = [p \in 1..B |-> f[p]] /\ g = [p \in 1..B |-> g[p]]
  OBVIOUS
<1> QED
  BY <1>3, <1>4

\* The blocks cover the message.
LEMMA BlocksCover ==
    ASSUME NEW V, NEW m \in Seq(V)
    PROVE  /\ Blocks(m) \in Nat /\ Blocks(m) >= 1 /\ Len(m) \in Nat
           /\ Len(m) <= Blocks(m) * BLOCK_BYTES
<1> DEFINE B == BLOCK_BYTES
           a == Len(m) + B - 1
           q == a \div B
<1>1. B \in Nat /\ B > 0 /\ Len(m) \in Nat
  BY BlockSizes
<1>2. CASE m = << >>
  <2>1. Blocks(m) = 1 /\ Len(m) = 0
    BY <1>2 DEF Blocks
  <2> QED
    BY <1>1, <2>1
<1>3. CASE m # << >>
  <2>1. Len(m) > 0
    BY <1>3
  <2>2. a \in Nat /\ a >= B
    BY <1>1, <2>1
  <2>3. q \in Nat /\ B * q <= a /\ a < B * q + B /\ B * q = q * B /\ q * B \in Nat
    BY <1>1, <2>2
  <2>4. Blocks(m) = q
    BY <1>3 DEF Blocks
  <2> HIDE DEF q, B
  <2>5. Len(m) <= q * B
    BY <1>1, <2>3 DEF a
  <2>6. q # 0
    <3> SUFFICES ASSUME q = 0 PROVE FALSE
      OBVIOUS
    <3>1. q * B = 0
      BY <1>1
    <3> QED
      BY <1>1, <2>1, <2>5, <3>1
  <2> QED
    BY <1>1, <2>3, <2>4, <2>5, <2>6 DEF B
<1> QED
  BY <1>2, <1>3

\* Two messages with one digest are one message: padding, the byte counter and
\* the last-block flag keep messages of every length apart (finalize,
\* blake2s.rs:213-219). compress is a constructor: its collisions are left out.
THEOREM DigestInjective ==
    ASSUME NEW V, NEW m \in Seq(V), NEW n \in Seq(V), Digest(m) = Digest(n)
    PROVE  m = n
<1> DEFINE B == BLOCK_BYTES
           b == Blocks(m)
           c == Blocks(n)
<1>1. /\ b \in Nat /\ b >= 1 /\ Len(m) \in Nat /\ Len(m) <= b * B
      /\ c \in Nat /\ c >= 1 /\ Len(n) \in Nat /\ Len(n) <= c * B
      /\ B \in Nat /\ B > 0
  BY BlocksCover, BlockSizes
<1>2. PICK g : Digest(m) = g[b] /\ \A a \in 0..b : g[a] = ChainStep(m, a, g[a - 1])
  BY <1>1, DigestChain
<1>3. PICK h : Digest(n) = h[c] /\ \A a \in 0..c : h[a] = ChainStep(n, a, h[a - 1])
  BY <1>1, DigestChain
<1>4. Len(m) = Len(n)
  <2>1. g[b] = ChainStep(m, b, g[b - 1]) /\ h[c] = ChainStep(n, c, h[c - 1])
    <3>1. b \in 0..b /\ c \in 0..c
      BY <1>1
    <3> QED
      BY <1>2, <1>3, <3>1
  <2>2. b # 0 /\ c # 0
    BY <1>1
  <2>3. min(b * B, Len(m)) = min(c * B, Len(n))
    <3> HIDE DEF b, c, B
    <3>1. g[b] = compress(g[b - 1], SlotsOf(PaddedBlock(m, b)), min(b * B, Len(m)), b = Blocks(m))
      BY <2>1, <2>2 DEF ChainStep, B
    <3>2. h[c] = compress(h[c - 1], SlotsOf(PaddedBlock(n, c)), min(c * B, Len(n)), c = Blocks(n))
      BY <2>1, <2>2 DEF ChainStep, B
    <3>3. g[b] = h[c]
      BY <1>2, <1>3
    <3> QED
      BY <3>1, <3>2, <3>3 DEF compress
  <2>4. min(b * B, Len(m)) = Len(m) /\ min(c * B, Len(n)) = Len(n)
    <3>1. ASSUME NEW x \in Nat, NEW y \in Nat, y <= x PROVE min(x, y) = y
      BY <3>1 DEF min
    <3>2. b * B \in Nat /\ c * B \in Nat
      BY <1>1
    <3> QED
      BY <1>1, <3>1, <3>2
  <2> QED
    BY <2>3, <2>4
<1>5. c = b
  <2>1. m = << >> <=> Len(m) = 0
    OBVIOUS
  <2>2. n = << >> <=> Len(n) = 0
    OBVIOUS
  <2> QED
    BY <1>4, <2>1, <2>2 DEF Blocks
\* From the digest down, block by block.
<1> DEFINE Same(a) == g[a] = h[a]
           S == {j \in Nat : j <= b => Same(b - j)}
<1>6. ASSUME NEW a \in 1..b, Same(a) PROVE Same(a - 1) /\ PaddedBlock(m, a) = PaddedBlock(n, a)
  <2>1. a \in 0..b /\ a # 0
    BY <1>1
  <2> HIDE DEF B, b, c
  <2>2. g[a] = compress(g[a - 1], SlotsOf(PaddedBlock(m, a)), min(a * B, Len(m)), a = Blocks(m))
    BY <1>2, <2>1 DEF ChainStep, B
  <2>3. h[a] = compress(h[a - 1], SlotsOf(PaddedBlock(n, a)), min(a * B, Len(n)), a = Blocks(n))
    BY <1>3, <1>5, <2>1 DEF ChainStep, B
  <2>4. g[a - 1] = h[a - 1] /\ SlotsOf(PaddedBlock(m, a)) = SlotsOf(PaddedBlock(n, a))
    <3>1. g[a] = h[a]
      BY <1>6
    <3> HIDE DEF Same, S
    <3> QED
      BY <2>2, <2>3, <3>1 DEF compress
  <2> DEFINE W == V \cup {0}
  <2>5. ASSUME NEW x \in Seq(V) PROVE PaddedBlock(x, a) \in [1..BLOCK_BYTES -> W]
    <3>1. ASSUME NEW i \in 1..BLOCK_BYTES
          PROVE  LET j == (a - 1) * BLOCK_BYTES + i IN (IF j =< Len(x) THEN x[j] ELSE 0) \in W
      <4> DEFINE o == (a - 1) * BLOCK_BYTES
      <4>1. o \in Nat
        <5>1. a - 1 \in Nat
          BY <1>1 DEF b
        <5> QED
          BY <1>1, <5>1 DEF B
      <4>2. i \in Nat /\ i >= 1
        BY <1>1 DEF B
      <4> HIDE DEF o
      <4>3. (IF o + i =< Len(x) THEN x[o + i] ELSE 0) \in W
        BY <4>1, <4>2
      <4> QED
        BY <4>3 DEF o
    <3> HIDE DEF W
    <3> QED
      BY <3>1 DEF PaddedBlock
  <2> HIDE DEF W
  <2>6. PaddedBlock(m, a) = PaddedBlock(n, a)
    BY <2>4, <2>5, SlotsInjective
  <2> QED
    BY <2>4, <2>6
<1>7. \A a \in 0..b : Same(a)
  <2>1. Same(b - 0)
    <3>1. b - 0 = b
      BY <1>1
    <3>2. g[b] = h[b]
      BY <1>2, <1>3, <1>5
    <3> QED
      BY <3>1, <3>2
  <2> HIDE DEF Same, b, c
  <2>2. 0 \in S
    BY <2>1
  <2>3. ASSUME NEW j \in Nat, j \in S PROVE j + 1 \in S
    <3> SUFFICES ASSUME j + 1 <= b PROVE Same(b - (j + 1))
      OBVIOUS
    <3> DEFINE a == b - j
    <3>1. a \in 1..b /\ a - 1 = b - (j + 1) /\ j <= b
      BY <1>1
    <3>2. Same(a)
      BY <2>3, <3>1
    <3> HIDE DEF a
    <3> QED
      BY <1>6, <3>1, <3>2
  <2>4. Nat \subseteq S
    <3> HIDE DEF S
    <3> QED
      BY <2>2, <2>3, Induct
  <2> SUFFICES ASSUME NEW a \in 0..b PROVE Same(a)
    OBVIOUS
  <2>5. b - a \in Nat /\ b - a <= b /\ b - (b - a) = a
    BY <1>1
  <2>6. b - a \in S
    BY <2>4, <2>5
  <2> QED
    BY <2>5, <2>6
<1>8. ASSUME NEW p \in 1..Len(m) PROVE m[p] = n[p]
  <2>1. p \in 1..(b * B)
    <3>1. b * B \in Nat
      BY <1>1
    <3> QED
      BY <1>1, <3>1
  <2>2. PICK a \in 1..b : \E i \in 1..B : p = (a - 1) * B + i
    BY <1>1, <2>1, PieceOf
  <2>3. PICK i \in 1..B : p = (a - 1) * B + i
    BY <2>2
  <2>4. Same(a)
    <3>1. a \in 0..b
      BY <1>1
    <3> QED
      BY <1>7, <3>1
  <2>5. PaddedBlock(m, a) = PaddedBlock(n, a)
    <3> HIDE DEF Same, b
    <3> QED
      BY <1>6, <2>4
  <2>6. PaddedBlock(m, a)[i] = m[p] /\ PaddedBlock(n, a)[i] = n[p]
    <3>1. p <= Len(m) /\ p <= Len(n)
      BY <1>1, <1>4
    <3> QED
      BY <2>3, <3>1 DEF PaddedBlock
  <2> QED
    BY <2>5, <2>6
<1> QED
  BY <1>4, <1>8

\* A Merkle node is hashed in one compression, past the streaming hasher
\* (node_hash, blake2s.rs:77-83): the digest of its two children is the same.
THEOREM NodeDigest ==
    ASSUME NEW V, NEW l \in Seq(V), NEW r \in Seq(V),
           Len(l) = DIGEST_BYTES, Len(r) = DIGEST_BYTES
    PROVE  Digest(l \o r) = node_hash(l, r)
<1> DEFINE x == l \o r
           B == BLOCK_BYTES
<1>1. B \in Nat /\ B > 0 /\ DIGEST_BYTES + DIGEST_BYTES = B /\ DIGEST_BYTES \in Nat
  <2>1. B \in Nat /\ B > 0
    BY BlockSizes
  <2>2. B = 2 * DIGEST_BYTES
    BY SlotCounts
  <2>3. DIGEST_BYTES \in Nat
    BY <2>1 DEF DIGEST_BYTES
  <2> QED
    BY <2>1, <2>2, <2>3
<1>2. x \in Seq(V) /\ Len(x) = B
  BY <1>1
<1>3. x # << >>
  BY <1>1, <1>2
<1> HIDE DEF x
<1>4. Blocks(x) = 1
  <2>1. (B + B - 1) \div B = 1
    <3> DEFINE q == (B + B - 1) \div B
    <3>1. B + B - 1 \in Nat
      BY <1>1
    <3>2. q \in Nat /\ B * q <= B + B - 1 /\ B + B - 1 < B * q + B
      BY <1>1, <3>1
    <3> HIDE DEF q, B
    <3>3. q # 0
      <4> SUFFICES ASSUME q = 0 PROVE FALSE
        OBVIOUS
      <4>1. B * q = 0
        BY <1>1
      <4> QED
        BY <3>2, <4>1, <1>1
    <3>4. ~ (2 <= q)
      <4> SUFFICES ASSUME 2 <= q PROVE FALSE
        OBVIOUS
      <4>1. 2 * B <= q * B
        BY <1>1, <3>2, TimesMono
      <4>2. q * B = B * q /\ 2 * B = B + B /\ B * q \in Nat
        BY <1>1, <3>2
      <4> QED
        BY <3>2, <4>1, <4>2, <1>1
    <3> QED
      BY <3>2, <3>3, <3>4 DEF q
  <2> QED
    BY <1>2, <1>3, <2>1 DEF Blocks
<1>5. PICK h : Digest(x) = h[1] /\ \A b \in 0..1 : h[b] = ChainStep(x, b, h[b - 1])
  <2>1. Blocks(x) \in Nat
    BY <1>4
  <2> QED
    BY <1>4, <2>1, DigestChain
<1>6. h[0] = INITIAL_STATE
  BY <1>5 DEF ChainStep
<1>7. h[1] = compress(h[0], SlotsOf(PaddedBlock(x, 1)), min(B, Len(x)), TRUE)
  <2>1. 1 - 1 = 0 /\ 1 * B = B /\ 1 # 0 /\ 1 \in 0..1
    BY <1>1
  <2>2. h[1] = ChainStep(x, 1, h[1 - 1])
    BY <1>5, <2>1
  <2>3. (1 = Blocks(x)) = TRUE
    BY <1>4
  <2> QED
    BY <2>1, <2>2, <2>3 DEF ChainStep
<1>8. PaddedBlock(x, 1) = x
  <2>1. PaddedBlock(x, 1) = [i \in 1..B |-> IF i <= Len(x) THEN x[i] ELSE 0]
    <3>1. (1 - 1) * B = 0 /\ \A i \in 1..B : 0 + i = i
      BY <1>1
    <3> QED
      BY <3>1 DEF PaddedBlock
  <2>2. x = [i \in 1..B |-> x[i]]
    BY <1>2
  <2>3. \A i \in 1..B : i <= Len(x)
    BY <1>1, <1>2
  <2> QED
    BY <2>1, <2>2, <2>3
<1>9. min(B, Len(x)) = B
  BY <1>1, <1>2 DEF min
<1>10. SlotsOf(x) = SlotsOf(l) \o SlotsOf(r)
  BY SlotsJoin DEF x
<1> QED
  BY <1>5, <1>6, <1>7, <1>8, <1>9, <1>10 DEF node_hash, x

\* Whatever the sizes of a block and of a slot, and however the input is split
\* into calls of update, each turn of its loop (blake2s.rs:194-211) taking what
\* fits: finalize returns the digest of the bytes taken, in order.
THEOREM StreamingDigest ==
    ASSUME NEW V, NEW n \in Nat, NEW run, NEW fed,
           run[0] = new, fed[0] = << >>,
           \A i \in 0..(n - 1) : \E d \in Seq(V) :
              /\ d # << >>
              /\ run[i + 1] = absorb(run[i], d)
              /\ fed[i + 1] = fed[i] \o SubSeq(d, 1, taken(run[i], d))
    PROVE  finalize(run[n]) = Digest(fed[n])
<1> DEFINE P(i) == fed[i] \in Seq(V) /\ Holds(run[i], fed[i])
           S == {i \in Nat : i <= n => P(i)}
<1>1. 0 \in S
  <2>1. << >> \in Seq(V)
    OBVIOUS
  <2>2. P(0)
    BY <2>1, NewHolds
  <2> HIDE DEF P
  <2> QED
    BY <2>2
<1>2. ASSUME NEW i \in Nat, i \in S PROVE i + 1 \in S
  <2> SUFFICES ASSUME i + 1 <= n PROVE P(i + 1)
    OBVIOUS
  <2>1. i \in 0..(n - 1) /\ i <= n
    OBVIOUS
  <2>2. P(i)
    BY <1>2, <2>1
  <2>3. PICK d \in Seq(V) : /\ d # << >>
                           /\ run[i + 1] = absorb(run[i], d)
                           /\ fed[i + 1] = fed[i] \o SubSeq(d, 1, taken(run[i], d))
    BY <2>1
  <2>4. taken(run[i], d) \in 1..Len(d) /\ Holds(run[i + 1], fed[i + 1])
    BY <2>2, <2>3, AbsorbHolds
  <2>5. fed[i + 1] \in Seq(V)
    <3>1. taken(run[i], d) \in 0..Len(d)
      BY <2>4
    <3> QED
      BY <2>2, <2>3, <3>1, Extended
  <2> QED
    BY <2>4, <2>5
<1>3. n \in S
  <2> HIDE DEF S
  <2> QED
    BY <1>1, <1>2, Induct
<1>4. P(n)
  BY <1>3
<1> QED
  BY <1>4, FinalizeDigests
=============================================================================

------------------------- MODULE BatchCommitProofs -------------------------
(***************************************************************************)
(* Proofs about BatchCommit: the inductive invariant of a batch through the *)
(* guest, and from it every safety property of the batch, for any set of    *)
(* transactions, any bounds and any tree heights.                           *)
(*                                                                         *)
(* The first half is about the operators: sequences, FlattenSeq, Picked,    *)
(* and the words of the public input in each layout.  BatchInv, its         *)
(* preservation by every action, and the properties follow; the folds and   *)
(* fixed_height_root are treated where the properties first need them.      *)
(* A fold or a recursive function is a CHOOSE: its step is named by a tag   *)
(* (FoldStep, RecStep), so that one existence lemma serves them all.        *)
(***************************************************************************)
EXTENDS BatchCommit, FiniteSetTheorems, WellFoundedInduction, TLAPS

-----------------------------------------------------------------------------
(* Induction over the naturals, from the well-foundedness of <. *)

\* A non-empty set of naturals has a least element.
LEMMA LeastElement ==
    ASSUME NEW T, T \subseteq Nat, T # {}
    PROVE  \E x \in T : \A y \in T : x <= y
<1> DEFINE R == {ss \in Nat \X Nat : ss[1] < ss[2]}
<1>1. IsWellFoundedOn(R, Nat)
  BY NatLessThanWellFounded DEF OpToRel
<1>2. \E x \in T : \A y \in T : ~ (<<y, x>> \in R)
  <2> HIDE DEF R
  <2> QED
    BY <1>1, WFMin
<1>3. PICK x \in T : \A y \in T : ~ (<<y, x>> \in R)
  BY <1>2
<1>4. ASSUME NEW y \in T PROVE x <= y
  <2>1. x \in Nat /\ y \in Nat
    OBVIOUS
  <2>2. ~ (y < x)
    BY <1>3, <2>1
  <2> QED
    BY <2>1, <2>2
<1> QED
  BY <1>4

\* Induction, as a fact about sets.
LEMMA Induct ==
    ASSUME NEW S, 0 \in S, \A n \in Nat : n \in S => n + 1 \in S
    PROVE  Nat \subseteq S
<1> DEFINE T == Nat \ S
<1> SUFFICES ASSUME T # {} PROVE FALSE
  OBVIOUS
<1>1. PICK x \in T : \A y \in T : x <= y
  <2> HIDE DEF T
  <2>1. T \subseteq Nat
    BY DEF T
  <2> QED
    BY <2>1, LeastElement
<1>2. x # 0 /\ x - 1 \in Nat /\ x - 1 \notin T
  BY <1>1
<1> QED
  BY <1>1, <1>2

-----------------------------------------------------------------------------
(* Sequences, of elements of any kind. *)

IsSeq(s) == Len(s) \in Nat /\ s = [k \in 1..Len(s) |-> s[k]]

\* A sequence is one over the set of its elements.
LEMMA Typed == ASSUME NEW s, IsSeq(s) PROVE s \in Seq({s[i] : i \in 1..Len(s)})
<1> DEFINE S == {s[i] : i \in 1..Len(s)}
<1>1. Len(s) \in Nat /\ DOMAIN s = 1..Len(s)
  BY DEF IsSeq
<1>2. s \in [1..Len(s) -> S]
  BY DEF IsSeq
<1> HIDE DEF S
<1>3. s \in Seq(S)
  BY <1>1, <1>2
<1> QED
  BY <1>3 DEF S

\* A function on an initial interval is a sequence of that length.
LEMMA MakeSeq ==
    ASSUME NEW s, NEW n \in Nat, s = [k \in 1..n |-> s[k]]
    PROVE  IsSeq(s) /\ Len(s) = n /\ DOMAIN s = 1..n
<1>1. DOMAIN s = 1..n
  OBVIOUS
<1>2. Len(s) = n
  BY <1>1
<1> QED
  BY <1>1, <1>2 DEF IsSeq

\* Sequences are equal when their elements are.
LEMMA SeqEq ==
    ASSUME NEW s, NEW t, IsSeq(s), IsSeq(t), Len(s) = Len(t),
           \A k \in 1..Len(s) : s[k] = t[k]
    PROVE  s = t
BY DEF IsSeq

\* The elements of a concatenation.
LEMMA Cat ==
    ASSUME NEW s, NEW t, IsSeq(s), IsSeq(t)
    PROVE  /\ IsSeq(s \o t)
           /\ Len(s \o t) = Len(s) + Len(t)
           /\ \A k \in 1..Len(s) : (s \o t)[k] = s[k]
           /\ \A k \in 1..Len(t) : (s \o t)[Len(s) + k] = t[k]
<1> DEFINE S == {s[i] : i \in 1..Len(s)} \cup {t[i] : i \in 1..Len(t)}
<1>1. Len(s) \in Nat /\ Len(t) \in Nat /\ DOMAIN s = 1..Len(s) /\ DOMAIN t = 1..Len(t)
  BY DEF IsSeq
<1>2. s \in [1..Len(s) -> S] /\ t \in [1..Len(t) -> S]
  BY DEF IsSeq
<1> HIDE DEF S
<1>3. s \in Seq(S) /\ t \in Seq(S)
  BY <1>1, <1>2
<1>4. s \o t \in Seq(S) /\ Len(s \o t) = Len(s) + Len(t)
  BY <1>3
<1>5. /\ \A k \in 1..Len(s) : (s \o t)[k] = s[k]
      /\ \A k \in 1..Len(t) : (s \o t)[Len(s) + k] = t[k]
  BY <1>3
<1>6. IsSeq(s \o t)
  <2> DEFINE u == s \o t
  <2>1. u \in Seq(S)
    BY <1>4
  <2> HIDE DEF u
  <2>2. IsSeq(u)
    BY <2>1 DEF IsSeq
  <2> QED
    BY <2>2 DEF u
<1> QED
  BY <1>4, <1>5, <1>6

IsCat(u, s, t) ==
    /\ IsSeq(u) /\ Len(u) = Len(s) + Len(t)
    /\ \A k \in 1..Len(s) : u[k] = s[k]
    /\ \A k \in 1..Len(t) : u[Len(s) + k] = t[k]

\* The same, under a name.
LEMMA CatIs == ASSUME NEW s, NEW t, IsSeq(s), IsSeq(t) PROVE IsCat(s \o t, s, t)
BY Cat DEF IsCat

\* The elements of a subsequence.
LEMMA Sub ==
    ASSUME NEW s, IsSeq(s), NEW a \in Nat, NEW n \in Nat, a + n <= Len(s)
    PROVE  /\ IsSeq(SubSeq(s, a + 1, a + n)) /\ Len(SubSeq(s, a + 1, a + n)) = n
           /\ \A k \in 1..n : SubSeq(s, a + 1, a + n)[k] = s[a + k]
<1> DEFINE S == {s[i] : i \in 1..Len(s)}
           u == SubSeq(s, a + 1, a + n)
<1>1. s \in Seq(S) /\ Len(s) \in Nat
  BY Typed DEF IsSeq
<1> HIDE DEF S
<1>2. u \in Seq(S) /\ Len(u) = n
  BY <1>1, SMTT(30)
<1>3. ASSUME NEW k \in 1..n PROVE u[k] = s[a + k]
  BY <1>1, SMTT(30)
<1> HIDE DEF u
<1>4. IsSeq(u)
  BY <1>2 DEF IsSeq
<1> QED
  BY <1>2, <1>3, <1>4 DEF u

\* The empty sequence.
LEMMA EmptySequence == IsSeq(<< >>) /\ Len(<< >>) = 0
BY DEF IsSeq

\* Tuples of up to three elements.
LEMMA ShortSeqs ==
    /\ \A x : IsSeq(<<x>>) /\ Len(<<x>>) = 1 /\ <<x>>[1] = x
    /\ \A x, y : IsSeq(<<x, y>>) /\ Len(<<x, y>>) = 2 /\ <<x, y>>[1] = x /\ <<x, y>>[2] = y
    /\ \A x, y, z : /\ IsSeq(<<x, y, z>>) /\ Len(<<x, y, z>>) = 3
                    /\ <<x, y, z>>[1] = x /\ <<x, y, z>>[2] = y /\ <<x, y, z>>[3] = z
<1>1. ASSUME NEW x PROVE IsSeq(<<x>>) /\ Len(<<x>>) = 1 /\ <<x>>[1] = x
  BY DEF IsSeq
<1>2. ASSUME NEW x, NEW y
      PROVE  IsSeq(<<x, y>>) /\ Len(<<x, y>>) = 2 /\ <<x, y>>[1] = x /\ <<x, y>>[2] = y
  BY DEF IsSeq
<1>3. ASSUME NEW x, NEW y, NEW z
      PROVE  /\ IsSeq(<<x, y, z>>) /\ Len(<<x, y, z>>) = 3
             /\ <<x, y, z>>[1] = x /\ <<x, y, z>>[2] = y /\ <<x, y, z>>[3] = z
  BY DEF IsSeq
<1> QED
  BY <1>1, <1>2, <1>3

\* A sequence of length 0 is the empty one.
LEMMA EmptyIffZero == ASSUME NEW s, IsSeq(s), Len(s) = 0 PROVE s = << >>
BY EmptySequence, SeqEq

-----------------------------------------------------------------------------
(* Concatenation of a sequence of sequences. *)

Pieces(s) == IsSeq(s) /\ \A i \in 1..Len(s) : IsSeq(s[i])

\* g holds the concatenations of the first pieces.
Flattens(s, n, g) == g = [i \in 1..n |-> IF i = 1 THEN s[i] ELSE g[i - 1] \o s[i]]

\* The concatenations exist, so FlattenSeq's CHOOSE finds them.
LEMMA FlattenExists == ASSUME NEW s, NEW n \in Nat PROVE \E g : Flattens(s, n, g)
<1> DEFINE S == {m \in Nat : \E g : Flattens(s, m, g)}
<1>1. 0 \in S
  <2> DEFINE g == [i \in 1..0 |-> s]
  <2>1. Flattens(s, 0, g)
    BY DEF Flattens
  <2> QED
    BY <2>1
<1>2. ASSUME NEW m \in Nat, m \in S PROVE m + 1 \in S
  <2>1. PICK g : Flattens(s, m, g)
    BY <1>2
  <2> DEFINE h == [i \in 1..(m + 1) |-> IF i = m + 1 THEN (IF i = 1 THEN s[i] ELSE g[i - 1] \o s[i])
                                         ELSE g[i]]
  <2>2. \A i \in 1..m : h[i] = g[i]
    OBVIOUS
  <2>3. ASSUME NEW i \in 1..(m + 1)
        PROVE  h[i] = IF i = 1 THEN s[i] ELSE h[i - 1] \o s[i]
    <3>1. CASE i = m + 1
      <4>1. i # 1 => i - 1 \in 1..m
        BY <3>1
      <4> QED
        BY <2>2, <3>1, <4>1
    <3>2. CASE i # m + 1
      <4>1. i \in 1..m /\ (i # 1 => i - 1 \in 1..m)
        BY <3>2
      <4>2. g[i] = IF i = 1 THEN s[i] ELSE g[i - 1] \o s[i]
        BY <2>1, <4>1 DEF Flattens
      <4> HIDE DEF h
      <4> QED
        BY <2>2, <4>1, <4>2
    <3> QED
      BY <3>1, <3>2
  <2>4. Flattens(s, m + 1, h)
    BY <2>3 DEF Flattens
  <2> HIDE DEF h
  <2> QED
    BY <2>4
<1>3. n \in S
  <2> HIDE DEF S
  <2> QED
    BY <1>1, <1>2, Induct
<1> QED
  BY <1>3

\* FlattenSeq is the last of them.
LEMMA FlattenDef ==
    ASSUME NEW s, Len(s) \in Nat, Len(s) # 0
    PROVE  \E g : Flattens(s, Len(s), g) /\ FlattenSeq(s) = g[Len(s)]
<1> DEFINE c == CHOOSE g : g = [i \in 1..Len(s) |-> IF i = 1 THEN s[i] ELSE g[i - 1] \o s[i]]
<1>1. FlattenSeq(s) = c[Len(s)]
  BY DEF FlattenSeq
<1>2. \E g : g = [i \in 1..Len(s) |-> IF i = 1 THEN s[i] ELSE g[i - 1] \o s[i]]
  BY FlattenExists DEF Flattens
<1>3. Flattens(s, Len(s), c)
  BY <1>2, Zenon DEF Flattens
<1> HIDE DEF c
<1> QED
  BY <1>1, <1>3

\* Two lists that begin alike have the same concatenations to that point, and
\* these are sequences.
LEMMA FlattenAgree ==
    ASSUME NEW s, NEW t, NEW n \in Nat, NEW m \in Nat, n <= m, NEW f, NEW g,
           Flattens(s, n, f), Flattens(t, m, g),
           \A i \in 1..n : s[i] = t[i] /\ IsSeq(s[i])
    PROVE  \A i \in 1..n : f[i] = g[i] /\ IsSeq(f[i])
<1> DEFINE S == {i \in Nat : i \in 1..n => f[i] = g[i] /\ IsSeq(f[i])}
<1>1. 0 \in S
  OBVIOUS
<1>2. ASSUME NEW i \in Nat, i \in S PROVE i + 1 \in S
  <2> SUFFICES ASSUME i + 1 \in 1..n PROVE f[i + 1] = g[i + 1] /\ IsSeq(f[i + 1])
    OBVIOUS
  <2>0. i + 1 \in 1..m /\ (i + 1) - 1 = i /\ (i + 1 # 1 => i \in 1..n)
    OBVIOUS
  <2>1. /\ f[i + 1] = IF i + 1 = 1 THEN s[i + 1] ELSE f[i] \o s[i + 1]
        /\ g[i + 1] = IF i + 1 = 1 THEN t[i + 1] ELSE g[i] \o t[i + 1]
    BY <2>0, ZenonT(60) DEF Flattens
  <2>2. CASE i + 1 = 1
    BY <2>1, <2>2
  <2>3. CASE i + 1 # 1
    <3>1. f[i] = g[i] /\ IsSeq(f[i])
      BY <1>2, <2>0, <2>3
    <3>2. IsSeq(f[i] \o s[i + 1])
      BY <3>1, Cat
    <3> QED
      BY <2>1, <2>3, <3>1, <3>2
  <2> QED
    BY <2>2, <2>3
<1>3. Nat \subseteq S
  <2> HIDE DEF S
  <2> QED
    BY <1>1, <1>2, Induct
<1> QED
  BY <1>3

\* Nothing, flattened.
LEMMA FlattenNone == FlattenSeq(<< >>) = << >>
BY EmptySequence DEF FlattenSeq

\* What FlattenSeq returns is a sequence.
LEMMA FlattenIsSeq ==
    ASSUME NEW s, Pieces(s)
    PROVE  IsSeq(FlattenSeq(s))
<1>1. CASE Len(s) = 0
  BY <1>1, EmptyIffZero, FlattenNone, EmptySequence DEF Pieces
<1>2. CASE Len(s) # 0
  <2>1. PICK g : Flattens(s, Len(s), g) /\ FlattenSeq(s) = g[Len(s)]
    BY <1>2, FlattenDef DEF Pieces, IsSeq
  <2>2. Len(s) \in Nat /\ Len(s) \in 1..Len(s)
    BY <1>2 DEF Pieces, IsSeq
  <2>3. \A i \in 1..Len(s) : IsSeq(g[i])
    BY <2>1, <2>2, FlattenAgree DEF Pieces
  <2> QED
    BY <2>1, <2>2, <2>3
<1> QED
  BY <1>1, <1>2

\* The concatenation of one more piece.
LEMMA FlattenStep ==
    ASSUME NEW s, NEW t, Pieces(s), Pieces(t), Len(t) = Len(s) + 1,
           \A i \in 1..Len(s) : s[i] = t[i]
    PROVE  FlattenSeq(t) = FlattenSeq(s) \o t[Len(t)]
<1> DEFINE n == Len(s)
<1>0. n \in Nat /\ n + 1 \in Nat /\ Len(t) = n + 1
  BY DEF Pieces, IsSeq
<1> HIDE DEF n
<1>1. PICK g : Flattens(t, n + 1, g) /\ FlattenSeq(t) = g[n + 1]
  BY <1>0, FlattenDef
<1>2. CASE n = 0
  <2>1. FlattenSeq(s) = << >>
    BY <1>2, EmptyIffZero, FlattenNone DEF Pieces, n
  <2>2. FlattenSeq(t) = t[1]
    BY <1>0, <1>1, <1>2 DEF Flattens
  <2>3. IsSeq(t[1])
    BY <1>0, <1>2 DEF Pieces
  <2>4. << >> \o t[1] = t[1]
    <3>1. /\ IsSeq(<< >> \o t[1]) /\ Len(<< >> \o t[1]) = 0 + Len(t[1])
          /\ \A k \in 1..Len(t[1]) : (<< >> \o t[1])[0 + k] = t[1][k]
      BY <2>3, EmptySequence, Cat
    <3>2. Len(t[1]) \in Nat
      BY <2>3 DEF IsSeq
    <3> QED
      BY <2>3, <3>1, <3>2, SeqEq
  <2> QED
    BY <1>0, <1>2, <2>1, <2>2, <2>4
<1>3. CASE n # 0
  <2>1. PICK f : Flattens(s, n, f) /\ FlattenSeq(s) = f[n]
    BY <1>0, <1>3, FlattenDef DEF n
  <2>2. \A i \in 1..n : f[i] = g[i]
    BY <1>0, <1>1, <2>1, FlattenAgree, SMTT(30) DEF Pieces, n
  <2>3. g[n + 1] = g[n] \o t[n + 1]
    <3>1. n + 1 \in 1..(n + 1) /\ n + 1 # 1 /\ (n + 1) - 1 = n
      BY <1>0, <1>3
    <3> QED
      BY <1>1, <3>1 DEF Flattens
  <2>4. n \in 1..n
    BY <1>0, <1>3
  <2> QED
    BY <1>0, <1>1, <2>1, <2>2, <2>3, <2>4
<1> QED
  BY <1>2, <1>3

\* The elements after an append.
LEMMA AppendFacts ==
    ASSUME NEW s, NEW x, IsSeq(s)
    PROVE  /\ IsSeq(Append(s, x)) /\ Len(Append(s, x)) = Len(s) + 1
           /\ \A k \in 1..Len(s) : Append(s, x)[k] = s[k]
           /\ Append(s, x)[Len(s) + 1] = x
<1> DEFINE S == {s[i] : i \in 1..Len(s)} \cup {x}
           u == Append(s, x)
<1>1. Len(s) \in Nat /\ DOMAIN s = 1..Len(s) /\ s \in [1..Len(s) -> S]
  BY DEF IsSeq
<1>x. x \in S
  OBVIOUS
<1> HIDE DEF S
<1>2. s \in Seq(S)
  BY <1>1
<1>3. u \in Seq(S) /\ Len(u) = Len(s) + 1 /\ u[Len(s) + 1] = x /\ \A k \in 1..Len(s) : u[k] = s[k]
  BY <1>1, <1>2, <1>x
<1> HIDE DEF u
<1>4. IsSeq(u)
  BY <1>3 DEF IsSeq
<1> QED
  BY <1>3, <1>4 DEF u

\* Concatenation is associative.
LEMMA CatAssoc ==
    ASSUME NEW a, NEW b, NEW c, IsSeq(a), IsSeq(b), IsSeq(c)
    PROVE  (a \o b) \o c = a \o (b \o c)
<1> DEFINE ab == a \o b
           bc == b \o c
           l == ab \o c
           r == a \o bc
<1>0. Len(a) \in Nat /\ Len(b) \in Nat /\ Len(c) \in Nat
  BY DEF IsSeq
<1>1. /\ IsSeq(ab) /\ Len(ab) = Len(a) + Len(b)
      /\ \A k \in 1..Len(a) : ab[k] = a[k]
      /\ \A k \in 1..Len(b) : ab[Len(a) + k] = b[k]
  BY Cat
<1>2. /\ IsSeq(bc) /\ Len(bc) = Len(b) + Len(c)
      /\ \A k \in 1..Len(b) : bc[k] = b[k]
      /\ \A k \in 1..Len(c) : bc[Len(b) + k] = c[k]
  BY Cat
<1> HIDE DEF ab, bc
<1>3. /\ IsSeq(l) /\ Len(l) = Len(ab) + Len(c)
      /\ \A k \in 1..Len(ab) : l[k] = ab[k]
      /\ \A k \in 1..Len(c) : l[Len(ab) + k] = c[k]
  BY <1>1, Cat
<1>4. /\ IsSeq(r) /\ Len(r) = Len(a) + Len(bc)
      /\ \A k \in 1..Len(a) : r[k] = a[k]
      /\ \A k \in 1..Len(bc) : r[Len(a) + k] = bc[k]
  BY <1>2, Cat
<1> HIDE DEF l, r
<1>5. ASSUME NEW k \in 1..Len(l) PROVE l[k] = r[k]
  <2>0. k \in Nat /\ k >= 1 /\ k <= Len(a) + Len(b) + Len(c)
    BY <1>0, <1>1, <1>3
  <2>1. CASE k <= Len(a)
    <3>1. k \in 1..Len(a) /\ k \in 1..Len(ab)
      BY <1>0, <1>1, <2>0, <2>1
    <3> QED
      BY <1>1, <1>3, <1>4, <3>1
  <2>2. CASE k > Len(a) /\ k <= Len(a) + Len(b)
    <3> DEFINE j == k - Len(a)
    <3>1. j \in 1..Len(b) /\ j \in 1..Len(bc) /\ k \in 1..Len(ab) /\ k = Len(a) + j
      BY <1>0, <1>1, <1>2, <2>0, <2>2
    <3> HIDE DEF j
    <3> QED
      BY <1>1, <1>2, <1>3, <1>4, <3>1
  <2>3. CASE k > Len(a) + Len(b)
    <3> DEFINE j == k - (Len(a) + Len(b))
    <3>1. /\ j \in 1..Len(c) /\ Len(b) + j \in 1..Len(bc)
          /\ k = Len(ab) + j /\ k = Len(a) + (Len(b) + j)
      BY <1>0, <1>1, <1>2, <2>0, <2>3
    <3> HIDE DEF j
    <3> QED
      BY <1>2, <1>3, <1>4, <3>1
  <2> QED
    BY <1>0, <2>0, <2>1, <2>2, <2>3
<1>6. Len(l) = Len(r)
  BY <1>0, <1>1, <1>2, <1>3, <1>4
<1>7. l = r
  BY <1>3, <1>4, <1>5, <1>6, SeqEq
<1> QED
  BY <1>7 DEF l, r, ab, bc

\* Powers of two, as the number of subsets of an interval.
LEMMA PowerOfTwo ==
    ASSUME NEW n \in Nat
    PROVE  2^n \in Nat /\ 2^n > 0 /\ 2^(n + 1) = 2 * 2^n
<1> DEFINE A == SUBSET (1..n)
           B == {s \cup {n + 1} : s \in A}
           f == [s \in A |-> s \cup {n + 1}]
<1>1. /\ IsFiniteSet(1..n) /\ Cardinality(1..n) = n
      /\ IsFiniteSet(1..(n + 1)) /\ Cardinality(1..(n + 1)) = n + 1
  BY FS_Interval
<1>2. IsFiniteSet(A) /\ Cardinality(A) = 2^n
  BY <1>1, FS_SUBSET
<1>3. Cardinality(SUBSET (1..(n + 1))) = 2^(n + 1)
  BY <1>1, FS_SUBSET
<1>4. \A s \in A : n + 1 \notin s
  OBVIOUS
<1>5. f \in Bijection(A, B)
  <2>1. f \in [A -> B]
    OBVIOUS
  <2>2. ASSUME NEW s \in A, NEW t \in A, f[s] = f[t] PROVE s = t
    BY <1>4, <2>2
  <2>3. \A b \in B : \E s \in A : f[s] = b
    OBVIOUS
  <2> HIDE DEF A, B, f
  <2> QED
    BY <2>1, <2>2, <2>3 DEF Bijection, Injection, Surjection, IsInjective
<1>6. IsFiniteSet(B) /\ Cardinality(B) = 2^n
  <2>1. ExistsBijection(A, B)
    BY <1>5 DEF ExistsBijection
  <2> HIDE DEF A, B
  <2> QED
    BY <2>1, <1>2, FS_Bijection
<1>7. A \cap B = {}
  BY <1>4
<1>8. SUBSET (1..(n + 1)) = A \cup B
  <2>1. ASSUME NEW s \in SUBSET (1..(n + 1)), n + 1 \in s PROVE s \in B
    <3>1. s \ {n + 1} \in A /\ (s \ {n + 1}) \cup {n + 1} = s
      BY <2>1
    <3> QED
      BY <3>1
  <2>2. ASSUME NEW s \in SUBSET (1..(n + 1)), n + 1 \notin s PROVE s \in A
    BY <2>2
  <2>3. ASSUME NEW s \in A PROVE s \subseteq 1..(n + 1) /\ s \cup {n + 1} \subseteq 1..(n + 1)
    <3>1. 1..n \subseteq 1..(n + 1) /\ n + 1 \in 1..(n + 1)
      OBVIOUS
    <3> QED
      BY <3>1
  <2>4. ASSUME NEW b \in B PROVE b \in SUBSET (1..(n + 1))
    BY <2>3
  <2>5. A \subseteq SUBSET (1..(n + 1))
    BY <2>3
  <2> HIDE DEF A, B
  <2> QED
    BY <2>1, <2>2, <2>4, <2>5
<1>9. Cardinality(A \cup B) = Cardinality(A) + Cardinality(B) - Cardinality(A \cap B)
  <2> HIDE DEF A, B
  <2> QED
    BY <1>2, <1>6, FS_Union
<1>10. Cardinality(A \cap B) = 0
  BY <1>7, FS_EmptySet
<1>11. 2^n \in Nat
  <2> HIDE DEF A
  <2> QED
    BY <1>2, FS_CardinalityType
<1>12. 2^n # 0
  <2>1. A # {}
    OBVIOUS
  <2> HIDE DEF A
  <2> QED
    BY <2>1, <1>2, FS_EmptySet
<1>13. 2^(n + 1) = 2^n + 2^n
  <2>1. 2^(n + 1) = Cardinality(A \cup B)
    BY <1>3, <1>8
  <2>2. Cardinality(A \cup B) = 2^n + 2^n - 0
    <3> HIDE DEF A, B
    <3> QED
      BY <1>2, <1>6, <1>9, <1>10
  <2> DEFINE p == 2^n
  <2>3. p \in Nat
    BY <1>11
  <2> HIDE DEF p
  <2>4. p + p - 0 = p + p
    BY <2>3
  <2> QED
    BY <2>1, <2>2, <2>4 DEF p
<1> QED
  BY <1>11, <1>12, <1>13

-----------------------------------------------------------------------------
(* Picked. *)

\* g holds what is picked of the first elements.
Picks(list, S, n, g) ==
    g = [i \in 0..n |-> IF i = 0 THEN << >>
                        ELSE IF i \in S THEN Append(g[i - 1], list[i]) ELSE g[i - 1]]

\* The picked prefixes exist.
LEMMA PicksExists == ASSUME NEW list, NEW S, NEW n \in Nat PROVE \E g : Picks(list, S, n, g)
<1> DEFINE V(i, prev) == IF i = 0 THEN << >> ELSE IF i \in S THEN Append(prev, list[i]) ELSE prev
           T == {m \in Nat : \E g : g = [i \in 0..m |-> V(i, g[i - 1])]}
<1>1. 0 \in T
  <2> DEFINE g == [i \in 0..0 |-> << >>]
  <2>1. g = [i \in 0..0 |-> V(i, g[i - 1])]
    OBVIOUS
  <2> QED
    BY <2>1
<1>2. ASSUME NEW m \in Nat, m \in T PROVE m + 1 \in T
  <2>1. PICK g : g = [i \in 0..m |-> V(i, g[i - 1])]
    BY <1>2
  <2> DEFINE h == [i \in 0..(m + 1) |-> IF i = m + 1 THEN V(i, g[i - 1]) ELSE g[i]]
  <2>2. \A i \in 0..m : h[i] = g[i]
    OBVIOUS
  <2>3. \A i \in 0..m : V(i, g[i - 1]) = V(i, h[i - 1])
    <3> TAKE i \in 0..m
    <3>1. CASE i = 0
      BY <3>1
    <3>2. CASE i # 0
      <4>1. i - 1 \in 0..m
        BY <3>2
      <4>2. h[i - 1] = g[i - 1]
        BY <2>2, <4>1
      <4> QED
        BY <4>2
    <3> QED
      BY <3>1, <3>2
  <2>4. \A i \in 0..m : h[i] = V(i, h[i - 1])
    <3> TAKE i \in 0..m
    <3>1. g[i] = V(i, g[i - 1])
      BY <2>1
    <3> HIDE DEF h, V
    <3> QED
      BY <2>2, <2>3, <3>1
  <2>5. h[m + 1] = V(m + 1, h[(m + 1) - 1])
    <3>1. (m + 1) - 1 = m /\ m \in 0..m /\ m + 1 \in 0..(m + 1)
      OBVIOUS
    <3>2. h[m + 1] = V(m + 1, g[(m + 1) - 1])
      BY <3>1
    <3>3. h[m] = g[m]
      BY <2>2, <3>1
    <3> HIDE DEF h, V
    <3> QED
      BY <3>1, <3>2, <3>3
  <2>6. DOMAIN h = 0..(m + 1) /\ h = [i \in 0..(m + 1) |-> h[i]]
    OBVIOUS
  <2>7. \A i \in 0..(m + 1) : i \in 0..m \/ i = m + 1
    OBVIOUS
  <2> HIDE DEF h, V
  <2>8. h = [i \in 0..(m + 1) |-> V(i, h[i - 1])]
    BY <2>4, <2>5, <2>6, <2>7
  <2> QED
    BY <2>8
<1>3. n \in T
  <2> HIDE DEF T
  <2> QED
    BY <1>1, <1>2, Induct
<1> QED
  BY <1>3 DEF Picks

\* Picked is the last of them.
LEMMA PickedDef ==
    ASSUME NEW list, NEW S, Len(list) \in Nat
    PROVE  \E g : Picks(list, S, Len(list), g) /\ Picked(list, S) = g[Len(list)]
<1> DEFINE c == CHOOSE g : Picks(list, S, Len(list), g)
<1>1. Picked(list, S) = c[Len(list)]
  BY DEF Picked, Picks
<1>2. \E g : Picks(list, S, Len(list), g)
  BY PicksExists
<1>3. Picks(list, S, Len(list), c)
  BY <1>2, Zenon
<1> HIDE DEF c
<1> QED
  BY <1>1, <1>3

\* L has one element per position in S, and nothing else.
Selects(L, list, S) ==
    /\ IsSeq(L) /\ IsFiniteSet(S) /\ Len(L) = Cardinality(S)
    /\ \A k \in 1..Len(L) : \E i \in S : L[k] = list[i]
    /\ \A i \in S : \E k \in 1..Len(L) : L[k] = list[i]

\* Picked takes every position of S once, and no other.
LEMMA PickedFacts ==
    ASSUME NEW list, IsSeq(list), NEW S, S \subseteq 1..Len(list)
    PROVE  Selects(Picked(list, S), list, S)
<1> DEFINE n == Len(list)
<1>0. n \in Nat
  BY DEF IsSeq
<1>s. \A i \in S : i \in Nat /\ i >= 1 /\ i <= n
  BY <1>0
<1>1. PICK g : Picks(list, S, n, g) /\ Picked(list, S) = g[n]
  BY <1>0, PickedDef
<1> HIDE DEF n
<1> DEFINE P(q, R) == /\ IsSeq(q) /\ IsFiniteSet(R) /\ Len(q) = Cardinality(R)
                      /\ \A k \in 1..Len(q) : \E i \in R : q[k] = list[i]
                      /\ \A i \in R : \E k \in 1..Len(q) : q[k] = list[i]
           B(m) == {i \in S : i <= m}
           T == {m \in Nat : m <= n => P(g[m], B(m))}
<1>2. 0 \in T
  <2>1. g[0] = << >>
    BY <1>0, <1>1 DEF Picks
  <2>2. B(0) = {}
    <3>1. ASSUME NEW i \in S, i <= 0 PROVE FALSE
      BY <1>s, <3>1
    <3> QED
      BY <3>1
  <2>3. IsFiniteSet({}) /\ Cardinality({}) = 0
    BY FS_EmptySet
  <2>4. P(<< >>, {})
    BY <2>3, EmptySequence
  <2> QED
    BY <2>1, <2>2, <2>4
<1>3. ASSUME NEW m \in Nat, m \in T PROVE m + 1 \in T
  <2> SUFFICES ASSUME m + 1 <= n PROVE P(g[m + 1], B(m + 1))
    <3> HIDE DEF P, B
    <3> QED
      OBVIOUS
  <2>1. m <= n /\ m + 1 \in 0..n /\ m + 1 # 0 /\ (m + 1) - 1 = m
    BY <1>0
  <2>2. P(g[m], B(m))
    BY <1>3, <2>1
  <2>3. g[m + 1] = IF m + 1 \in S THEN Append(g[m], list[m + 1]) ELSE g[m]
    BY <1>1, <2>1 DEF Picks
  <2>4. CASE m + 1 \notin S
    <3>1. ASSUME NEW i \in S PROVE i <= m + 1 <=> i <= m
      <4>1. i \in Nat /\ i # m + 1
        BY <1>s, <2>4
      <4> QED
        BY <4>1
    <3>2. B(m + 1) = B(m)
      BY <3>1
    <3> QED
      BY <2>2, <2>3, <2>4, <3>2
  <2>5. CASE m + 1 \in S
    <3> DEFINE q == g[m]
               u == Append(g[m], list[m + 1])
               R == B(m)
    <3>1. B(m + 1) = R \cup {m + 1} /\ m + 1 \notin R
      <4>1. ASSUME NEW i \in S PROVE i <= m + 1 <=> i <= m \/ i = m + 1
        <5>1. i \in Nat
          BY <1>s
        <5> QED
          BY <5>1
      <4>2. ~ (m + 1 <= m)
        OBVIOUS
      <4> QED
        BY <4>1, <4>2, <2>5
    <3>2. /\ IsSeq(u) /\ Len(u) = Len(q) + 1 /\ u[Len(q) + 1] = list[m + 1]
          /\ \A k \in 1..Len(q) : u[k] = q[k]
      <4>1. IsSeq(q)
        BY <2>2
      <4> HIDE DEF q
      <4>2. /\ IsSeq(Append(q, list[m + 1])) /\ Len(Append(q, list[m + 1])) = Len(q) + 1
            /\ Append(q, list[m + 1])[Len(q) + 1] = list[m + 1]
            /\ \A k \in 1..Len(q) : Append(q, list[m + 1])[k] = q[k]
        BY <4>1, AppendFacts
      <4> QED
        BY <4>2 DEF q
    <3>3. IsFiniteSet(R \cup {m + 1}) /\ Cardinality(R \cup {m + 1}) = Cardinality(R) + 1
      <4> HIDE DEF R
      <4> QED
        BY <2>2, <3>1, FS_AddElement DEF R
    <3>4. Len(q) \in Nat /\ Len(q) = Cardinality(R)
      BY <2>2 DEF IsSeq
    <3>5. /\ \A k \in 1..Len(q) : \E i \in R : q[k] = list[i]
          /\ \A i \in R : \E k \in 1..Len(q) : q[k] = list[i]
      BY <2>2
    <3>9. g[m + 1] = u
      BY <2>3, <2>5
    <3> HIDE DEF q, u, R
    <3>6. ASSUME NEW k \in 1..Len(u) PROVE \E i \in R \cup {m + 1} : u[k] = list[i]
      <4>1. k \in 1..Len(q) \/ k = Len(q) + 1
        BY <3>2, <3>4
      <4> QED
        BY <4>1, <3>2, <3>5
    <3>7. ASSUME NEW i \in R \cup {m + 1} PROVE \E k \in 1..Len(u) : u[k] = list[i]
      <4>1. CASE i \in R
        <5>1. PICK k \in 1..Len(q) : q[k] = list[i]
          BY <3>5, <4>1
        <5>2. k \in 1..Len(u)
          BY <3>2, <3>4
        <5> QED
          BY <5>1, <5>2, <3>2
      <4>2. CASE i = m + 1
        <5>1. Len(q) + 1 \in 1..Len(u)
          BY <3>2, <3>4
        <5> QED
          BY <5>1, <4>2, <3>2
      <4> QED
        BY <4>1, <4>2
    <3>8. P(u, R \cup {m + 1})
      BY <3>2, <3>3, <3>4, <3>6, <3>7
    <3> HIDE DEF P, B
    <3> QED
      BY <3>1, <3>8, <3>9
  <2> QED
    BY <2>4, <2>5
<1>4. n \in T
  <2> HIDE DEF T
  <2> QED
    BY <1>0, <1>2, <1>3, Induct
<1>5. B(n) = S
  BY <1>s
<1> HIDE DEF B
<1>6. P(g[n], S)
  <2> HIDE DEF P
  <2> QED
    BY <1>0, <1>4, <1>5
<1> QED
  BY <1>1, <1>6, Zenon DEF Selects

-----------------------------------------------------------------------------
(* FlattenSeq and the steps of execution. *)

\* Every element of the concatenation is an element of a piece.
LEMMA FlattenMembers ==
    ASSUME NEW s, Pieces(s)
    PROVE  \A i \in 1..Len(FlattenSeq(s)) :
              \E b \in 1..Len(s) : \E j \in 1..Len(s[b]) : FlattenSeq(s)[i] = s[b][j]
<1> DEFINE M(t) == \A i \in 1..Len(FlattenSeq(t)) :
                      \E b \in 1..Len(t) : \E j \in 1..Len(t[b]) : FlattenSeq(t)[i] = t[b][j]
           T == {n \in Nat : \A t : Pieces(t) /\ Len(t) = n => M(t)}
<1>1. 0 \in T
  <2> SUFFICES ASSUME NEW t, Pieces(t), Len(t) = 0 PROVE M(t)
    OBVIOUS
  <2>1. FlattenSeq(t) = << >>
    BY EmptyIffZero, FlattenNone DEF Pieces
  <2> QED
    BY <2>1, EmptySequence
<1>2. ASSUME NEW n \in Nat, n \in T PROVE n + 1 \in T
  <2> SUFFICES ASSUME NEW t, Pieces(t), Len(t) = n + 1 PROVE M(t)
    OBVIOUS
  <2> DEFINE r == [i \in 1..n |-> t[i]]
  <2>1. IsSeq(r) /\ Len(r) = n /\ \A i \in 1..n : r[i] = t[i]
    BY MakeSeq
  <2> HIDE DEF r
  <2>2. Pieces(r)
    <3>1. 1..n \subseteq 1..(n + 1)
      OBVIOUS
    <3> QED
      BY <2>1, <3>1 DEF Pieces
  <2>3. M(r)
    BY <1>2, <2>1, <2>2
  <2> DEFINE f == FlattenSeq(r)
             l == t[n + 1]
  <2>4. IsSeq(f) /\ IsSeq(l) /\ Len(f) \in Nat /\ Len(l) \in Nat
    <3>1. IsSeq(f) /\ IsSeq(l)
      BY <2>2, FlattenIsSeq DEF Pieces
    <3> QED
      BY <3>1 DEF IsSeq
  <2>5. FlattenSeq(t) = f \o l
    BY <2>1, <2>2, FlattenStep
  <2>6. IsCat(f \o l, f, l)
    BY <2>4, CatIs
  <2>7. \A i \in 1..Len(f) : \E b \in 1..n : \E j \in 1..Len(r[b]) : f[i] = r[b][j]
    BY <2>1, <2>3
  <2> HIDE DEF f, l
  <2>8. ASSUME NEW i \in 1..Len(f \o l)
        PROVE  \E b \in 1..(n + 1) : \E j \in 1..Len(t[b]) : (f \o l)[i] = t[b][j]
    <3>1. CASE i <= Len(f)
      <4>1. i \in 1..Len(f) /\ (f \o l)[i] = f[i]
        BY <2>4, <2>6, <3>1 DEF IsCat
      <4>2. PICK b \in 1..n : \E j \in 1..Len(r[b]) : f[i] = r[b][j]
        BY <2>7, <4>1
      <4>3. b \in 1..(n + 1) /\ r[b] = t[b]
        BY <2>1
      <4> QED
        BY <4>1, <4>2, <4>3
    <3>2. CASE i > Len(f)
      <4> DEFINE j == i - Len(f)
      <4>1. j \in 1..Len(l) /\ i = Len(f) + j
        BY <2>4, <2>6, <3>2 DEF IsCat
      <4> HIDE DEF j
      <4>2. (f \o l)[i] = l[j]
        BY <4>1, <2>6 DEF IsCat
      <4>3. n + 1 \in 1..(n + 1)
        OBVIOUS
      <4> QED
        BY <4>1, <4>2, <4>3 DEF l
    <3> QED
      BY <2>4, <2>6, <3>1, <3>2 DEF IsCat
  <2> QED
    BY <2>5, <2>8
<1>3. Nat \subseteq T
  <2> HIDE DEF T
  <2> QED
    BY <1>1, <1>2, Induct
<1>4. Len(s) \in Nat
  BY DEF Pieces, IsSeq
<1>5. M(s)
  <2> HIDE DEF M
  <2> QED
    BY <1>3, <1>4
<1> QED
  BY <1>5

\* Starting a new block adds no transaction.
LEMMA FlattenOpen ==
    ASSUME NEW s, Pieces(s)
    PROVE  /\ Pieces(Append(s, << >>))
           /\ FlattenSeq(Append(s, << >>)) = FlattenSeq(s)
<1> DEFINE t == Append(s, << >>)
<1>1. /\ IsSeq(t) /\ Len(t) = Len(s) + 1 /\ t[Len(s) + 1] = << >>
      /\ \A k \in 1..Len(s) : t[k] = s[k]
  BY AppendFacts DEF Pieces
<1>2. Len(s) \in Nat
  BY DEF Pieces, IsSeq
<1> HIDE DEF t
<1>3. Pieces(t)
  <2>1. ASSUME NEW i \in 1..Len(t) PROVE IsSeq(t[i])
    <3>1. i \in 1..Len(s) \/ i = Len(s) + 1
      BY <1>1, <1>2
    <3> QED
      BY <3>1, <1>1, EmptySequence DEF Pieces
  <2> QED
    BY <2>1, <1>1 DEF Pieces
<1>4. FlattenSeq(t) = FlattenSeq(s) \o << >>
  BY <1>1, <1>3, FlattenStep
<1>5. IsSeq(FlattenSeq(s))
  BY FlattenIsSeq
<1>6. FlattenSeq(s) \o << >> = FlattenSeq(s)
  <2> DEFINE f == FlattenSeq(s)
  <2>1. IsCat(f \o << >>, f, << >>) /\ Len(f) \in Nat
    BY <1>5, EmptySequence, CatIs DEF IsSeq
  <2> HIDE DEF f
  <2>2. f \o << >> = f
    BY <2>1, <1>5, EmptySequence, SeqEq DEF IsCat, f
  <2> QED
    BY <2>2 DEF f
<1> QED
  BY <1>3, <1>4, <1>6 DEF t

Appends(t, s, x) == t = [s EXCEPT ![Len(s)] = Append(@, x)]

\* A transaction executed in the last block is the last of all.
LEMMA FlattenAppend ==
    ASSUME NEW s, Pieces(s), Len(s) >= 1, NEW x, NEW t, Appends(t, s, x)
    PROVE  /\ Pieces(t) /\ Len(t) = Len(s)
           /\ \A i \in 1..Len(s) : t[i] = IF i = Len(s) THEN Append(s[i], x) ELSE s[i]
           /\ FlattenSeq(t) = Append(FlattenSeq(s), x)
<1> DEFINE n == Len(s)
           r == [i \in 1..(n - 1) |-> s[i]]
<1>1. n \in Nat /\ n >= 1 /\ s = [k \in 1..n |-> s[k]] /\ n - 1 \in Nat
  BY DEF Pieces, IsSeq
<1>2. /\ t = [i \in 1..n |-> t[i]]
      /\ \A i \in 1..n : t[i] = IF i = n THEN Append(s[i], x) ELSE s[i]
  BY <1>1 DEF Appends
<1>3. IsSeq(t) /\ Len(t) = n
  <2> HIDE DEF n
  <2> QED
    BY <1>1, <1>2, MakeSeq
<1>4. Pieces(t)
  <2>1. \A i \in 1..n : IsSeq(s[i])
    BY DEF Pieces
  <2>2. \A i \in 1..n : IsSeq(Append(s[i], x))
    BY <2>1, AppendFacts
  <2> QED
    BY <1>2, <1>3, <2>1, <2>2 DEF Pieces
<1>5. IsSeq(r) /\ Len(r) = n - 1 /\ \A i \in 1..(n - 1) : r[i] = s[i] /\ r[i] = t[i]
  <2>1. IsSeq(r) /\ Len(r) = n - 1
    <3> DEFINE m == n - 1
    <3>1. m \in Nat /\ r = [i \in 1..m |-> r[i]]
      BY <1>1
    <3> HIDE DEF m, r
    <3>2. IsSeq(r) /\ Len(r) = m
      BY <3>1, MakeSeq
    <3> QED
      BY <3>2 DEF m
  <2>2. \A i \in 1..(n - 1) : i \in 1..n /\ i # n
    BY <1>1
  <2> QED
    BY <1>2, <2>1, <2>2
<1> HIDE DEF r, n
<1>6. Pieces(r)
  <2>1. \A i \in 1..(n - 1) : i \in 1..n
    BY <1>1
  <2> QED
    BY <1>5, <2>1 DEF Pieces, n
<1>7. Len(s) = Len(r) + 1 /\ Len(t) = Len(r) + 1
  BY <1>1, <1>3, <1>5 DEF n
<1>8. FlattenSeq(s) = FlattenSeq(r) \o s[n]
  BY <1>5, <1>6, <1>7, FlattenStep DEF n
<1>9. FlattenSeq(t) = FlattenSeq(r) \o t[n]
  <2>1. \A i \in 1..Len(r) : r[i] = t[i]
    BY <1>5
  <2> QED
    BY <1>4, <1>3, <1>6, <1>7, <2>1, FlattenStep
<1>10. n \in 1..n /\ t[n] = Append(s[n], x) /\ IsSeq(s[n])
  BY <1>1, <1>2 DEF Pieces, n
<1>11. IsSeq(FlattenSeq(r))
  BY <1>6, FlattenIsSeq
<1>12. ASSUME NEW a, NEW b, IsSeq(a), IsSeq(b)
       PROVE  a \o Append(b, x) = Append(a \o b, x)
  <2> DEFINE bx == Append(b, x)
             ab == a \o b
             l == a \o bx
             q == Append(ab, x)
  <2>0. Len(a) \in Nat /\ Len(b) \in Nat
    BY <1>12 DEF IsSeq
  <2>1. /\ IsSeq(bx) /\ Len(bx) = Len(b) + 1 /\ bx[Len(b) + 1] = x
        /\ \A k \in 1..Len(b) : bx[k] = b[k]
    BY <1>12, AppendFacts
  <2>2. IsCat(ab, a, b)
    BY <1>12, CatIs
  <2> HIDE DEF bx, ab
  <2>3. IsCat(l, a, bx)
    BY <1>12, <2>1, CatIs
  <2>4. /\ IsSeq(q) /\ Len(q) = Len(ab) + 1 /\ q[Len(ab) + 1] = x
        /\ \A k \in 1..Len(ab) : q[k] = ab[k]
    BY <2>2, AppendFacts DEF IsCat
  <2> HIDE DEF l, q
  <2>5. Len(l) = Len(a) + Len(b) + 1 /\ Len(q) = Len(l) /\ IsSeq(l)
    BY <2>0, <2>1, <2>2, <2>3, <2>4 DEF IsCat
  <2>6. ASSUME NEW k \in 1..Len(l) PROVE l[k] = q[k]
    <3>1. CASE k <= Len(a)
      <4>1. k \in 1..Len(a) /\ k \in 1..Len(ab)
        BY <3>1, <2>0, <2>2 DEF IsCat
      <4> QED
        BY <4>1, <2>2, <2>3, <2>4 DEF IsCat
    <3>2. CASE k > Len(a) /\ k <= Len(a) + Len(b)
      <4> DEFINE j == k - Len(a)
      <4>1. j \in 1..Len(b) /\ j \in 1..Len(bx) /\ k = Len(a) + j /\ k \in 1..Len(ab)
        BY <3>2, <2>0, <2>1, <2>2 DEF IsCat
      <4> HIDE DEF j
      <4> QED
        BY <4>1, <2>1, <2>2, <2>3, <2>4 DEF IsCat
    <3>3. CASE k > Len(a) + Len(b)
      <4>0. /\ Len(ab) = Len(a) + Len(b) /\ Len(bx) = Len(b) + 1
            /\ Len(l) = Len(a) + Len(b) + 1
        BY <2>1, <2>2, <2>5 DEF IsCat
      <4>1. k = Len(a) + (Len(b) + 1) /\ Len(b) + 1 \in 1..Len(bx) /\ k = Len(ab) + 1
        BY <2>0, <2>6, <3>3, <4>0
      <4> QED
        BY <4>1, <2>1, <2>3, <2>4 DEF IsCat
    <3> QED
      BY <2>0, <2>5, <3>1, <3>2, <3>3
  <2>7. l = q
    BY <2>4, <2>5, <2>6, SeqEq
  <2> QED
    BY <2>7 DEF l, q, bx, ab
<1>13. FlattenSeq(t) = Append(FlattenSeq(s), x)
  <2>1. FlattenSeq(r) \o Append(s[n], x) = Append(FlattenSeq(r) \o s[n], x)
    BY <1>10, <1>11, <1>12
  <2> QED
    BY <1>8, <1>9, <1>10, <2>1
<1> QED
  BY <1>2, <1>3, <1>4, <1>13 DEF n

-----------------------------------------------------------------------------
(* The layouts of a batch output and what the settlement layer reads of it. *)

\* The words of a public input without a chain-config hash.
LEMMA Words3 == ASSUME NEW a, NEW b, NEW d PROVE <<a, b>> \o << >> \o <<d>> = <<a, b, d>>
<1> DEFINE u == <<a, b>>
           v == u \o << >>
           w == v \o <<d>>
<1>1. IsSeq(u) /\ Len(u) = 2 /\ u[1] = a /\ u[2] = b
  BY ShortSeqs
<1> HIDE DEF u
<1>2. IsCat(v, u, << >>)
  BY <1>1, EmptySequence, CatIs
<1>3. IsSeq(v) /\ Len(v) = 2 /\ v[1] = a /\ v[2] = b
  BY <1>1, <1>2, EmptySequence DEF IsCat
<1> HIDE DEF v
<1>4. IsSeq(<<d>>) /\ Len(<<d>>) = 1 /\ <<d>>[1] = d
  BY ShortSeqs
<1>5. IsCat(w, v, <<d>>)
  BY <1>3, <1>4, CatIs
<1>6. IsSeq(w) /\ Len(w) = 3 /\ w[1] = a /\ w[2] = b /\ w[3] = d
  <2>1. IsSeq(w) /\ Len(w) = 3 /\ w[1] = a /\ w[2] = b
    BY <1>3, <1>4, <1>5 DEF IsCat
  <2>2. w[2 + 1] = d
    BY <1>3, <1>4, <1>5 DEF IsCat
  <2> QED
    BY <2>1, <2>2
<1> HIDE DEF w
<1>7. w = <<a, b, d>>
  BY <1>6 DEF IsSeq
<1> QED
  BY <1>7 DEF w, v, u

\* The words of a public input with one.
LEMMA Words4 == ASSUME NEW a, NEW b, NEW c, NEW d
                PROVE  <<a, b>> \o <<c>> \o <<d>> = <<a, b, c, d>>
<1> DEFINE u == <<a, b>>
           v == u \o <<c>>
           w == v \o <<d>>
<1>1. IsSeq(u) /\ Len(u) = 2 /\ u[1] = a /\ u[2] = b
  BY ShortSeqs
<1>c. IsSeq(<<c>>) /\ Len(<<c>>) = 1 /\ <<c>>[1] = c
  BY ShortSeqs
<1> HIDE DEF u
<1>2. IsCat(v, u, <<c>>)
  BY <1>1, <1>c, CatIs
<1>3. IsSeq(v) /\ Len(v) = 3 /\ v[1] = a /\ v[2] = b /\ v[2 + 1] = c
  BY <1>1, <1>2, <1>c DEF IsCat
<1> HIDE DEF v
<1>4. IsSeq(<<d>>) /\ Len(<<d>>) = 1 /\ <<d>>[1] = d
  BY ShortSeqs
<1>5. IsCat(w, v, <<d>>)
  BY <1>3, <1>4, CatIs
<1>6. IsSeq(w) /\ Len(w) = 4 /\ w[1] = a /\ w[2] = b /\ w[3] = c /\ w[3 + 1] = d
  BY <1>3, <1>4, <1>5 DEF IsCat
<1> HIDE DEF w
<1>7. w = <<a, b, c, d>>
  BY <1>6 DEF IsSeq
<1> QED
  BY <1>7 DEF w, v, u

\* The words of the V30 batch output.
LEMMA Tuple10 ==
    ASSUME NEW c, NEW x1, NEW x2, NEW x3, NEW x4, NEW x5, NEW y1, NEW y2, NEW y3, NEW y4
    PROVE  <<c>> \o <<x1, x2, x3, x4, x5>> \o << >> \o <<y1, y2, y3, y4>> \o << >>
              = <<c, x1, x2, x3, x4, x5, y1, y2, y3, y4>>
<1> DEFINE A == <<c>>
           X == <<x1, x2, x3, x4, x5>>
           Y == <<y1, y2, y3, y4>>
           u == A \o X
           v == u \o << >>
           w == v \o Y
           z == w \o << >>
<1>1. /\ IsSeq(A) /\ Len(A) = 1 /\ A[1] = c
      /\ IsSeq(X) /\ Len(X) = 5 /\ X[1] = x1 /\ X[2] = x2 /\ X[3] = x3 /\ X[4] = x4 /\ X[5] = x5
      /\ IsSeq(Y) /\ Len(Y) = 4 /\ Y[1] = y1 /\ Y[2] = y2 /\ Y[3] = y3 /\ Y[4] = y4
  BY DEF IsSeq
<1> HIDE DEF A, X, Y
<1>2. IsCat(u, A, X)
  BY <1>1, CatIs
<1>3. /\ IsSeq(u) /\ Len(u) = 6 /\ u[1] = c
      /\ u[1 + 1] = x1 /\ u[1 + 2] = x2 /\ u[1 + 3] = x3 /\ u[1 + 4] = x4 /\ u[1 + 5] = x5
  BY <1>1, <1>2 DEF IsCat
<1> HIDE DEF u
<1>4. IsCat(v, u, << >>)
  BY <1>3, EmptySequence, CatIs
<1>5. /\ IsSeq(v) /\ Len(v) = 6 /\ v[1] = c
      /\ v[2] = x1 /\ v[3] = x2 /\ v[4] = x3 /\ v[5] = x4 /\ v[6] = x5
  BY <1>3, <1>4, EmptySequence DEF IsCat
<1> HIDE DEF v
<1>6. IsCat(w, v, Y)
  BY <1>1, <1>5, CatIs
<1>7. /\ IsSeq(w) /\ Len(w) = 10 /\ w[1] = c
      /\ w[2] = x1 /\ w[3] = x2 /\ w[4] = x3 /\ w[5] = x4 /\ w[6] = x5
      /\ w[6 + 1] = y1 /\ w[6 + 2] = y2 /\ w[6 + 3] = y3 /\ w[6 + 4] = y4
  <2>1. /\ IsSeq(w) /\ Len(w) = 10 /\ \A k \in 1..6 : w[k] = v[k]
        /\ \A k \in 1..4 : w[6 + k] = Y[k]
    BY <1>1, <1>5, <1>6 DEF IsCat
  <2> HIDE DEF w
  <2>2. w[1] = c /\ w[2] = x1 /\ w[3] = x2 /\ w[4] = x3 /\ w[5] = x4 /\ w[6] = x5
    BY <1>5, <2>1
  <2>3. w[6 + 1] = y1 /\ w[6 + 2] = y2 /\ w[6 + 3] = y3 /\ w[6 + 4] = y4
    BY <1>1, <2>1
  <2> QED
    BY <2>1, <2>2, <2>3
<1> HIDE DEF w
<1>8. IsCat(z, w, << >>)
  BY <1>7, EmptySequence, CatIs
<1>9. /\ IsSeq(z) /\ Len(z) = 10 /\ z[1] = c
      /\ z[2] = x1 /\ z[3] = x2 /\ z[4] = x3 /\ z[5] = x4 /\ z[6] = x5
      /\ z[7] = y1 /\ z[8] = y2 /\ z[9] = y3 /\ z[10] = y4
  <2>1. /\ IsSeq(z) /\ Len(z) = 10 /\ \A k \in 1..10 : z[k] = w[k]
    BY <1>7, <1>8, EmptySequence DEF IsCat
  <2> HIDE DEF z
  <2>2. /\ z[1] = c /\ z[2] = x1 /\ z[3] = x2 /\ z[4] = x3 /\ z[5] = x4 /\ z[6] = x5
        /\ z[7] = y1 /\ z[8] = y2 /\ z[9] = y3 /\ z[10] = y4
    BY <1>7, <2>1
  <2> QED
    BY <2>1, <2>2
<1> HIDE DEF z
<1>10. z = <<c, x1, x2, x3, x4, x5, y1, y2, y3, y4>>
  BY <1>9, SMTT(30) DEF IsSeq
<1> QED
  BY <1>10 DEF z, w, v, u, A, X, Y

\* The words of the V31 batch output.
LEMMA Tuple12 ==
    ASSUME NEW c, NEW x1, NEW x2, NEW x3, NEW x4, NEW x5, NEW n,
           NEW y1, NEW y2, NEW y3, NEW y4, NEW l
    PROVE  <<c>> \o <<x1, x2, x3, x4, x5>> \o <<n>> \o <<y1, y2, y3, y4>> \o <<l>>
              = <<c, x1, x2, x3, x4, x5, n, y1, y2, y3, y4, l>>
<1> DEFINE A == <<c>>
           X == <<x1, x2, x3, x4, x5>>
           N == <<n>>
           Y == <<y1, y2, y3, y4>>
           L == <<l>>
           u == A \o X
           v == u \o N
           w == v \o Y
           z == w \o L
<1>1. /\ IsSeq(A) /\ Len(A) = 1 /\ A[1] = c
      /\ IsSeq(X) /\ Len(X) = 5 /\ X[1] = x1 /\ X[2] = x2 /\ X[3] = x3 /\ X[4] = x4 /\ X[5] = x5
      /\ IsSeq(Y) /\ Len(Y) = 4 /\ Y[1] = y1 /\ Y[2] = y2 /\ Y[3] = y3 /\ Y[4] = y4
      /\ IsSeq(N) /\ Len(N) = 1 /\ N[1] = n
      /\ IsSeq(L) /\ Len(L) = 1 /\ L[1] = l
  BY DEF IsSeq
<1> HIDE DEF A, X, Y, N, L
<1>2. IsCat(u, A, X)
  BY <1>1, CatIs
<1>3. /\ IsSeq(u) /\ Len(u) = 6 /\ u[1] = c
      /\ u[1 + 1] = x1 /\ u[1 + 2] = x2 /\ u[1 + 3] = x3 /\ u[1 + 4] = x4 /\ u[1 + 5] = x5
  BY <1>1, <1>2 DEF IsCat
<1> HIDE DEF u
<1>4. IsCat(v, u, N)
  BY <1>1, <1>3, CatIs
<1>5. /\ IsSeq(v) /\ Len(v) = 7 /\ v[1] = c
      /\ v[2] = x1 /\ v[3] = x2 /\ v[4] = x3 /\ v[5] = x4 /\ v[6] = x5 /\ v[6 + 1] = n
  BY <1>1, <1>3, <1>4 DEF IsCat
<1> HIDE DEF v
<1>6. IsCat(w, v, Y)
  BY <1>1, <1>5, CatIs
<1>7. /\ IsSeq(w) /\ Len(w) = 11 /\ w[1] = c
      /\ w[2] = x1 /\ w[3] = x2 /\ w[4] = x3 /\ w[5] = x4 /\ w[6] = x5 /\ w[7] = n
      /\ w[7 + 1] = y1 /\ w[7 + 2] = y2 /\ w[7 + 3] = y3 /\ w[7 + 4] = y4
  <2>1. /\ IsSeq(w) /\ Len(w) = 11 /\ \A k \in 1..7 : w[k] = v[k]
        /\ \A k \in 1..4 : w[7 + k] = Y[k]
    BY <1>1, <1>5, <1>6 DEF IsCat
  <2> HIDE DEF w
  <2>2. /\ w[1] = c /\ w[2] = x1 /\ w[3] = x2 /\ w[4] = x3 /\ w[5] = x4 /\ w[6] = x5
        /\ w[7] = n
    BY <1>5, <2>1
  <2>3. w[7 + 1] = y1 /\ w[7 + 2] = y2 /\ w[7 + 3] = y3 /\ w[7 + 4] = y4
    BY <1>1, <2>1
  <2> QED
    BY <2>1, <2>2, <2>3
<1> HIDE DEF w
<1>8. IsCat(z, w, L)
  BY <1>1, <1>7, CatIs
<1>9. /\ IsSeq(z) /\ Len(z) = 12 /\ z[1] = c
      /\ z[2] = x1 /\ z[3] = x2 /\ z[4] = x3 /\ z[5] = x4 /\ z[6] = x5 /\ z[7] = n
      /\ z[8] = y1 /\ z[9] = y2 /\ z[10] = y3 /\ z[11] = y4 /\ z[11 + 1] = l
  <2>1. /\ IsSeq(z) /\ Len(z) = 12 /\ \A k \in 1..11 : z[k] = w[k]
        /\ \A k \in 1..1 : z[11 + k] = L[k]
    BY <1>1, <1>7, <1>8 DEF IsCat
  <2> HIDE DEF z
  <2>2. /\ z[1] = c /\ z[2] = x1 /\ z[3] = x2 /\ z[4] = x3 /\ z[5] = x4 /\ z[6] = x5
        /\ z[7] = n /\ z[8] = y1 /\ z[9] = y2 /\ z[10] = y3 /\ z[11] = y4
    BY <1>7, <2>1
  <2>3. z[11 + 1] = l
    BY <1>1, <2>1
  <2> QED
    BY <2>1, <2>2, <2>3
<1> HIDE DEF z
<1>10. z = <<c, x1, x2, x3, x4, x5, n, y1, y2, y3, y4, l>>
  BY <1>9, SMTT(30) DEF IsSeq
<1> QED
  BY <1>10 DEF z, w, v, u, A, X, Y, N, L

\* The words of the AtlasV4 batch output.
LEMMA Tuple11 ==
    ASSUME NEW x1, NEW x2, NEW x3, NEW x4, NEW x5, NEW n,
           NEW y1, NEW y2, NEW y3, NEW y4, NEW l
    PROVE  << >> \o <<x1, x2, x3, x4, x5>> \o <<n>> \o <<y1, y2, y3, y4>> \o <<l>>
              = <<x1, x2, x3, x4, x5, n, y1, y2, y3, y4, l>>
<1> DEFINE X == <<x1, x2, x3, x4, x5>>
           N == <<n>>
           Y == <<y1, y2, y3, y4>>
           L == <<l>>
           u == << >> \o X
           v == u \o N
           w == v \o Y
           z == w \o L
<1>1. /\ IsSeq(X) /\ Len(X) = 5 /\ X[1] = x1 /\ X[2] = x2 /\ X[3] = x3 /\ X[4] = x4 /\ X[5] = x5
      /\ IsSeq(Y) /\ Len(Y) = 4 /\ Y[1] = y1 /\ Y[2] = y2 /\ Y[3] = y3 /\ Y[4] = y4
      /\ IsSeq(N) /\ Len(N) = 1 /\ N[1] = n
      /\ IsSeq(L) /\ Len(L) = 1 /\ L[1] = l
  BY DEF IsSeq
<1> HIDE DEF X, Y, N, L
<1>2. IsCat(u, << >>, X)
  BY <1>1, EmptySequence, CatIs
<1>3. /\ IsSeq(u) /\ Len(u) = 5
      /\ u[0 + 1] = x1 /\ u[0 + 2] = x2 /\ u[0 + 3] = x3 /\ u[0 + 4] = x4 /\ u[0 + 5] = x5
  BY <1>1, <1>2, EmptySequence DEF IsCat
<1> HIDE DEF u
<1>4. IsCat(v, u, N)
  BY <1>1, <1>3, CatIs
<1>5. /\ IsSeq(v) /\ Len(v) = 6
      /\ v[1] = x1 /\ v[2] = x2 /\ v[3] = x3 /\ v[4] = x4 /\ v[5] = x5 /\ v[5 + 1] = n
  BY <1>1, <1>3, <1>4 DEF IsCat
<1> HIDE DEF v
<1>6. IsCat(w, v, Y)
  BY <1>1, <1>5, CatIs
<1>7. /\ IsSeq(w) /\ Len(w) = 10
      /\ w[1] = x1 /\ w[2] = x2 /\ w[3] = x3 /\ w[4] = x4 /\ w[5] = x5 /\ w[6] = n
      /\ w[6 + 1] = y1 /\ w[6 + 2] = y2 /\ w[6 + 3] = y3 /\ w[6 + 4] = y4
  <2>1. /\ IsSeq(w) /\ Len(w) = 10 /\ \A k \in 1..6 : w[k] = v[k]
        /\ \A k \in 1..4 : w[6 + k] = Y[k]
    BY <1>1, <1>5, <1>6 DEF IsCat
  <2> HIDE DEF w
  <2>2. w[1] = x1 /\ w[2] = x2 /\ w[3] = x3 /\ w[4] = x4 /\ w[5] = x5 /\ w[6] = n
    BY <1>5, <2>1
  <2>3. w[6 + 1] = y1 /\ w[6 + 2] = y2 /\ w[6 + 3] = y3 /\ w[6 + 4] = y4
    BY <1>1, <2>1
  <2> QED
    BY <2>1, <2>2, <2>3
<1> HIDE DEF w
<1>8. IsCat(z, w, L)
  BY <1>1, <1>7, CatIs
<1>9. /\ IsSeq(z) /\ Len(z) = 11
      /\ z[1] = x1 /\ z[2] = x2 /\ z[3] = x3 /\ z[4] = x4 /\ z[5] = x5 /\ z[6] = n
      /\ z[7] = y1 /\ z[8] = y2 /\ z[9] = y3 /\ z[10] = y4 /\ z[10 + 1] = l
  <2>1. /\ IsSeq(z) /\ Len(z) = 11 /\ \A k \in 1..10 : z[k] = w[k]
        /\ \A k \in 1..1 : z[10 + k] = L[k]
    BY <1>1, <1>7, <1>8 DEF IsCat
  <2> HIDE DEF z
  <2>2. /\ z[1] = x1 /\ z[2] = x2 /\ z[3] = x3 /\ z[4] = x4 /\ z[5] = x5 /\ z[6] = n
        /\ z[7] = y1 /\ z[8] = y2 /\ z[9] = y3 /\ z[10] = y4
    BY <1>7, <2>1
  <2>3. z[10 + 1] = l
    BY <1>1, <2>1
  <2> QED
    BY <2>1, <2>2, <2>3
<1> HIDE DEF z
<1>10. z = <<x1, x2, x3, x4, x5, n, y1, y2, y3, y4, l>>
  BY <1>9, SMTT(30) DEF IsSeq
<1> QED
  BY <1>10 DEF z, w, v, u, X, Y, N, L

\* Where the settlement layer of AtlasV1 and AtlasV2 finds each field.
LEMMA FieldsOld ==
    ASSUME NEW s, s \in AtlasV1..AtlasV2, NEW o, NEW w, Last(Words(o)) = keccak256(w)
    PROVE  /\ Len(L1Fields(s)) = 10 /\ Words(Last(Words(o))) = w
           /\ L1Field(s, o, "chain_id") = w[1]
           /\ L1Field(s, o, "first_ts") = w[2]
           /\ L1Field(s, o, "last_ts") = w[3]
           /\ L1Field(s, o, "da_commitment") = w[5]
           /\ L1Field(s, o, "n_l1") = w[6]
           /\ L1Field(s, o, "priority_ops") = w[7]
           /\ L1Field(s, o, "logs_root") = w[8]
           /\ L1Field(s, o, "upgrade_tx_hash") = w[9]
           /\ L1Field(s, o, "interop_roots") = w[10]
<1> DEFINE F == <<"chain_id", "first_ts", "last_ts", "da_scheme", "da_commitment",
                  "n_l1", "priority_ops", "logs_root", "upgrade_tx_hash",
                  "interop_roots">>
<1>1. L1Fields(s) = F
  BY DEF L1Fields, AtlasV1, AtlasV2, AtlasV3, AtlasV4, AtlasV5
<1>2. Len(F) = 10 /\ DOMAIN F = 1..10
  OBVIOUS
<1>3. Words(Last(Words(o))) = w
  BY DEF Words, keccak256
<1>4. \A i \in 1..10 : i \in {1, 2, 3, 4, 5, 6, 7, 8, 9, 10}
  OBVIOUS
<1>5. /\ F[1] = "chain_id" /\ F[2] = "first_ts" /\ F[3] = "last_ts" /\ F[4] = "da_scheme"
      /\ F[5] = "da_commitment" /\ F[6] = "n_l1" /\ F[7] = "priority_ops" /\ F[8] = "logs_root"
      /\ F[9] = "upgrade_tx_hash" /\ F[10] = "interop_roots"
  OBVIOUS
<1> HIDE DEF F
<1>6. (CHOOSE i \in DOMAIN L1Fields(s) : L1Fields(s)[i] = "chain_id") = 1
  <2>1. \A i \in 1..10 : F[i] = "chain_id" <=> i = 1
    BY <1>4, <1>5
  <2> QED
    BY <1>1, <1>2, <2>1
<1>7. (CHOOSE i \in DOMAIN L1Fields(s) : L1Fields(s)[i] = "first_ts") = 2
  <2>1. \A i \in 1..10 : F[i] = "first_ts" <=> i = 2
    BY <1>4, <1>5
  <2> QED
    BY <1>1, <1>2, <2>1
<1>8. (CHOOSE i \in DOMAIN L1Fields(s) : L1Fields(s)[i] = "last_ts") = 3
  <2>1. \A i \in 1..10 : F[i] = "last_ts" <=> i = 3
    BY <1>4, <1>5
  <2> QED
    BY <1>1, <1>2, <2>1
<1>9. (CHOOSE i \in DOMAIN L1Fields(s) : L1Fields(s)[i] = "da_commitment") = 5
  <2>1. \A i \in 1..10 : F[i] = "da_commitment" <=> i = 5
    BY <1>4, <1>5
  <2> QED
    BY <1>1, <1>2, <2>1
<1>10. (CHOOSE i \in DOMAIN L1Fields(s) : L1Fields(s)[i] = "n_l1") = 6
  <2>1. \A i \in 1..10 : F[i] = "n_l1" <=> i = 6
    BY <1>4, <1>5
  <2> QED
    BY <1>1, <1>2, <2>1
<1>11. (CHOOSE i \in DOMAIN L1Fields(s) : L1Fields(s)[i] = "priority_ops") = 7
  <2>1. \A i \in 1..10 : F[i] = "priority_ops" <=> i = 7
    BY <1>4, <1>5
  <2> QED
    BY <1>1, <1>2, <2>1
<1>12. (CHOOSE i \in DOMAIN L1Fields(s) : L1Fields(s)[i] = "logs_root") = 8
  <2>1. \A i \in 1..10 : F[i] = "logs_root" <=> i = 8
    BY <1>4, <1>5
  <2> QED
    BY <1>1, <1>2, <2>1
<1>13. (CHOOSE i \in DOMAIN L1Fields(s) : L1Fields(s)[i] = "upgrade_tx_hash") = 9
  <2>1. \A i \in 1..10 : F[i] = "upgrade_tx_hash" <=> i = 9
    BY <1>4, <1>5
  <2> QED
    BY <1>1, <1>2, <2>1
<1>14. (CHOOSE i \in DOMAIN L1Fields(s) : L1Fields(s)[i] = "interop_roots") = 10
  <2>1. \A i \in 1..10 : F[i] = "interop_roots" <=> i = 10
    BY <1>4, <1>5
  <2> QED
    BY <1>1, <1>2, <2>1
<1> QED
  BY <1>1, <1>2, <1>3, <1>6, <1>7, <1>8, <1>9,
     <1>10, <1>11, <1>12, <1>13, <1>14 DEF L1Field

\* The same for AtlasV3.
LEMMA FieldsMid ==
    ASSUME NEW s, s = AtlasV3, NEW o, NEW w, Last(Words(o)) = keccak256(w)
    PROVE  /\ Len(L1Fields(s)) = 12 /\ Words(Last(Words(o))) = w
           /\ L1Field(s, o, "chain_id") = w[1]
           /\ L1Field(s, o, "first_ts") = w[2]
           /\ L1Field(s, o, "last_ts") = w[3]
           /\ L1Field(s, o, "da_commitment") = w[5]
           /\ L1Field(s, o, "n_l1") = w[6]
           /\ L1Field(s, o, "n_l2") = w[7]
           /\ L1Field(s, o, "priority_ops") = w[8]
           /\ L1Field(s, o, "logs_root") = w[9]
           /\ L1Field(s, o, "upgrade_tx_hash") = w[10]
           /\ L1Field(s, o, "interop_roots") = w[11]
           /\ L1Field(s, o, "sl_chain_id") = w[12]
<1> DEFINE F == <<"chain_id", "first_ts", "last_ts", "da_scheme", "da_commitment",
                  "n_l1", "n_l2", "priority_ops", "logs_root", "upgrade_tx_hash",
                  "interop_roots", "sl_chain_id">>
<1>1. L1Fields(s) = F
  BY DEF L1Fields, AtlasV1, AtlasV2, AtlasV3, AtlasV4, AtlasV5
<1>2. Len(F) = 12 /\ DOMAIN F = 1..12
  OBVIOUS
<1>3. Words(Last(Words(o))) = w
  BY DEF Words, keccak256
<1>4. \A i \in 1..12 : i \in {1, 2, 3, 4, 5, 6, 7, 8, 9, 10, 11, 12}
  OBVIOUS
<1>5. /\ F[1] = "chain_id" /\ F[2] = "first_ts" /\ F[3] = "last_ts" /\ F[4] = "da_scheme"
      /\ F[5] = "da_commitment" /\ F[6] = "n_l1" /\ F[7] = "n_l2" /\ F[8] = "priority_ops"
      /\ F[9] = "logs_root" /\ F[10] = "upgrade_tx_hash" /\ F[11] = "interop_roots"
      /\ F[12] = "sl_chain_id"
  OBVIOUS
<1> HIDE DEF F
<1>6. (CHOOSE i \in DOMAIN L1Fields(s) : L1Fields(s)[i] = "chain_id") = 1
  <2>1. \A i \in 1..12 : F[i] = "chain_id" <=> i = 1
    BY <1>4, <1>5
  <2> QED
    BY <1>1, <1>2, <2>1
<1>7. (CHOOSE i \in DOMAIN L1Fields(s) : L1Fields(s)[i] = "first_ts") = 2
  <2>1. \A i \in 1..12 : F[i] = "first_ts" <=> i = 2
    BY <1>4, <1>5
  <2> QED
    BY <1>1, <1>2, <2>1
<1>8. (CHOOSE i \in DOMAIN L1Fields(s) : L1Fields(s)[i] = "last_ts") = 3
  <2>1. \A i \in 1..12 : F[i] = "last_ts" <=> i = 3
    BY <1>4, <1>5
  <2> QED
    BY <1>1, <1>2, <2>1
<1>9. (CHOOSE i \in DOMAIN L1Fields(s) : L1Fields(s)[i] = "da_commitment") = 5
  <2>1. \A i \in 1..12 : F[i] = "da_commitment" <=> i = 5
    BY <1>4, <1>5
  <2> QED
    BY <1>1, <1>2, <2>1
<1>10. (CHOOSE i \in DOMAIN L1Fields(s) : L1Fields(s)[i] = "n_l1") = 6
  <2>1. \A i \in 1..12 : F[i] = "n_l1" <=> i = 6
    BY <1>4, <1>5
  <2> QED
    BY <1>1, <1>2, <2>1
<1>11. (CHOOSE i \in DOMAIN L1Fields(s) : L1Fields(s)[i] = "n_l2") = 7
  <2>1. \A i \in 1..12 : F[i] = "n_l2" <=> i = 7
    BY <1>4, <1>5
  <2> QED
    BY <1>1, <1>2, <2>1
<1>12. (CHOOSE i \in DOMAIN L1Fields(s) : L1Fields(s)[i] = "priority_ops") = 8
  <2>1. \A i \in 1..12 : F[i] = "priority_ops" <=> i = 8
    BY <1>4, <1>5
  <2> QED
    BY <1>1, <1>2, <2>1
<1>13. (CHOOSE i \in DOMAIN L1Fields(s) : L1Fields(s)[i] = "logs_root") = 9
  <2>1. \A i \in 1..12 : F[i] = "logs_root" <=> i = 9
    BY <1>4, <1>5
  <2> QED
    BY <1>1, <1>2, <2>1
<1>14. (CHOOSE i \in DOMAIN L1Fields(s) : L1Fields(s)[i] = "upgrade_tx_hash") = 10
  <2>1. \A i \in 1..12 : F[i] = "upgrade_tx_hash" <=> i = 10
    BY <1>4, <1>5
  <2> QED
    BY <1>1, <1>2, <2>1
<1>15. (CHOOSE i \in DOMAIN L1Fields(s) : L1Fields(s)[i] = "interop_roots") = 11
  <2>1. \A i \in 1..12 : F[i] = "interop_roots" <=> i = 11
    BY <1>4, <1>5
  <2> QED
    BY <1>1, <1>2, <2>1
<1>16. (CHOOSE i \in DOMAIN L1Fields(s) : L1Fields(s)[i] = "sl_chain_id") = 12
  <2>1. \A i \in 1..12 : F[i] = "sl_chain_id" <=> i = 12
    BY <1>4, <1>5
  <2> QED
    BY <1>1, <1>2, <2>1
<1> QED
  BY <1>1, <1>2, <1>3, <1>6, <1>7, <1>8, <1>9,
     <1>10, <1>11, <1>12, <1>13, <1>14, <1>15, <1>16 DEF L1Field

\* The same for AtlasV4 and AtlasV5.
LEMMA FieldsNew ==
    ASSUME NEW s, s \in AtlasV4..AtlasV5, NEW o, NEW w, Last(Words(o)) = keccak256(w)
    PROVE  /\ Len(L1Fields(s)) = 11 /\ Words(Last(Words(o))) = w
           /\ L1Field(s, o, "first_ts") = w[1]
           /\ L1Field(s, o, "last_ts") = w[2]
           /\ L1Field(s, o, "da_commitment") = w[4]
           /\ L1Field(s, o, "n_l1") = w[5]
           /\ L1Field(s, o, "n_l2") = w[6]
           /\ L1Field(s, o, "priority_ops") = w[7]
           /\ L1Field(s, o, "logs_root") = w[8]
           /\ L1Field(s, o, "upgrade_tx_hash") = w[9]
           /\ L1Field(s, o, "interop_roots") = w[10]
           /\ L1Field(s, o, "sl_chain_id") = w[11]
<1> DEFINE F == <<"first_ts", "last_ts", "da_scheme", "da_commitment", "n_l1", "n_l2",
                  "priority_ops", "logs_root", "upgrade_tx_hash", "interop_roots",
                  "sl_chain_id">>
<1>1. L1Fields(s) = F
  BY DEF L1Fields, AtlasV1, AtlasV2, AtlasV3, AtlasV4, AtlasV5
<1>2. Len(F) = 11 /\ DOMAIN F = 1..11
  OBVIOUS
<1>3. Words(Last(Words(o))) = w
  BY DEF Words, keccak256
<1>4. \A i \in 1..11 : i \in {1, 2, 3, 4, 5, 6, 7, 8, 9, 10, 11}
  OBVIOUS
<1>5. /\ F[1] = "first_ts" /\ F[2] = "last_ts" /\ F[3] = "da_scheme" /\ F[4] = "da_commitment"
      /\ F[5] = "n_l1" /\ F[6] = "n_l2" /\ F[7] = "priority_ops" /\ F[8] = "logs_root"
      /\ F[9] = "upgrade_tx_hash" /\ F[10] = "interop_roots" /\ F[11] = "sl_chain_id"
  OBVIOUS
<1> HIDE DEF F
<1>6. (CHOOSE i \in DOMAIN L1Fields(s) : L1Fields(s)[i] = "first_ts") = 1
  <2>1. \A i \in 1..11 : F[i] = "first_ts" <=> i = 1
    BY <1>4, <1>5
  <2> QED
    BY <1>1, <1>2, <2>1
<1>7. (CHOOSE i \in DOMAIN L1Fields(s) : L1Fields(s)[i] = "last_ts") = 2
  <2>1. \A i \in 1..11 : F[i] = "last_ts" <=> i = 2
    BY <1>4, <1>5
  <2> QED
    BY <1>1, <1>2, <2>1
<1>8. (CHOOSE i \in DOMAIN L1Fields(s) : L1Fields(s)[i] = "da_commitment") = 4
  <2>1. \A i \in 1..11 : F[i] = "da_commitment" <=> i = 4
    BY <1>4, <1>5
  <2> QED
    BY <1>1, <1>2, <2>1
<1>9. (CHOOSE i \in DOMAIN L1Fields(s) : L1Fields(s)[i] = "n_l1") = 5
  <2>1. \A i \in 1..11 : F[i] = "n_l1" <=> i = 5
    BY <1>4, <1>5
  <2> QED
    BY <1>1, <1>2, <2>1
<1>10. (CHOOSE i \in DOMAIN L1Fields(s) : L1Fields(s)[i] = "n_l2") = 6
  <2>1. \A i \in 1..11 : F[i] = "n_l2" <=> i = 6
    BY <1>4, <1>5
  <2> QED
    BY <1>1, <1>2, <2>1
<1>11. (CHOOSE i \in DOMAIN L1Fields(s) : L1Fields(s)[i] = "priority_ops") = 7
  <2>1. \A i \in 1..11 : F[i] = "priority_ops" <=> i = 7
    BY <1>4, <1>5
  <2> QED
    BY <1>1, <1>2, <2>1
<1>12. (CHOOSE i \in DOMAIN L1Fields(s) : L1Fields(s)[i] = "logs_root") = 8
  <2>1. \A i \in 1..11 : F[i] = "logs_root" <=> i = 8
    BY <1>4, <1>5
  <2> QED
    BY <1>1, <1>2, <2>1
<1>13. (CHOOSE i \in DOMAIN L1Fields(s) : L1Fields(s)[i] = "upgrade_tx_hash") = 9
  <2>1. \A i \in 1..11 : F[i] = "upgrade_tx_hash" <=> i = 9
    BY <1>4, <1>5
  <2> QED
    BY <1>1, <1>2, <2>1
<1>14. (CHOOSE i \in DOMAIN L1Fields(s) : L1Fields(s)[i] = "interop_roots") = 10
  <2>1. \A i \in 1..11 : F[i] = "interop_roots" <=> i = 10
    BY <1>4, <1>5
  <2> QED
    BY <1>1, <1>2, <2>1
<1>15. (CHOOSE i \in DOMAIN L1Fields(s) : L1Fields(s)[i] = "sl_chain_id") = 11
  <2>1. \A i \in 1..11 : F[i] = "sl_chain_id" <=> i = 11
    BY <1>4, <1>5
  <2> QED
    BY <1>1, <1>2, <2>1
<1> QED
  BY <1>1, <1>2, <1>3, <1>6, <1>7, <1>8, <1>9,
     <1>10, <1>11, <1>12, <1>13, <1>14, <1>15 DEF L1Field

-----------------------------------------------------------------------------
(* A committed batch, opened by the settlement layer of its spec. *)

IsOutput(m, p) ==
    out = batch_public_input_hash(state_before, state_after(tree), chain_config,
                                  batch_hash(m, p))

\* The specs that commit alike.
Alike(s) == \/ spec <= AtlasV2 /\ s <= AtlasV2
            \/ spec = AtlasV3 /\ s = AtlasV3
            \/ spec >= AtlasV4 /\ s >= AtlasV4

SlChainId(m, p) == IF spec >= AtlasV3 THEN Value(p[1].sl) ELSE m.sl_chain_id

\* What each word of the public input holds.
Opens(s, m, p) ==
    /\ L1Shape(s, out)
    /\ Words(out)[1] = state_before /\ Words(out)[2] = state_after(tree)
    /\ spec = AtlasV4 => Words(out)[3] = chain_config_hash("AtlasV4", ChainConfigOf)
    /\ spec = AtlasV5 => Words(out)[3] = chain_config_hash("AtlasV5", ChainConfigOf)
    /\ s < AtlasV4 => L1Field(s, out, "chain_id") = Word(CHAIN)
    /\ L1Field(s, out, "first_ts") = Word(blocks[1].timestamp)
    /\ L1Field(s, out, "last_ts") = Word(Last(blocks).timestamp)
    /\ L1Field(s, out, "da_commitment") = da_commitment(m.da_scheme, m.pubdata)
    /\ L1Field(s, out, "n_l1") = Word(Len(L1TxHashes))
    /\ L1Field(s, out, "priority_ops") = priority_ops_rolling_hash(L1TxHashes)
    /\ L1Field(s, out, "logs_root") = chain_batch_root_of(p)
    /\ L1Field(s, out, "upgrade_tx_hash") = m.upgrade_tx_hash
    /\ L1Field(s, out, "interop_roots") = InteropRollingHash
    /\ s >= AtlasV3 => /\ L1Field(s, out, "n_l2") = Word(NumL2)
                       /\ L1Field(s, out, "sl_chain_id") = Word(SlChainId(m, p))

\* The words of the batch output, of each layout.
LEMMA HashWords ==
    ASSUME NEW m, NEW p, spec \in AtlasV1..AtlasV5
    PROVE  /\ spec <= AtlasV2 =>
                batch_hash(m, p) = keccak256(
                   <<Word(CHAIN), Word(blocks[1].timestamp), Word(Last(blocks).timestamp),
                     Word(m.da_scheme), da_commitment(m.da_scheme, m.pubdata),
                     Word(Len(L1TxHashes)), priority_ops_rolling_hash(L1TxHashes),
                     chain_batch_root_of(p), m.upgrade_tx_hash, InteropRollingHash>>)
           /\ spec = AtlasV3 =>
                batch_hash(m, p) = keccak256(
                   <<Word(CHAIN), Word(blocks[1].timestamp), Word(Last(blocks).timestamp),
                     Word(m.da_scheme), da_commitment(m.da_scheme, m.pubdata),
                     Word(Len(L1TxHashes)), Word(NumL2),
                     priority_ops_rolling_hash(L1TxHashes),
                     chain_batch_root_of(p), m.upgrade_tx_hash, InteropRollingHash,
                     Word(SlChainId(m, p))>>)
           /\ spec >= AtlasV4 =>
                batch_hash(m, p) = keccak256(
                   <<Word(blocks[1].timestamp), Word(Last(blocks).timestamp),
                     Word(m.da_scheme), da_commitment(m.da_scheme, m.pubdata),
                     Word(Len(L1TxHashes)), Word(NumL2),
                     priority_ops_rolling_hash(L1TxHashes),
                     chain_batch_root_of(p), m.upgrade_tx_hash, InteropRollingHash,
                     Word(SlChainId(m, p))>>)
<1> DEFINE f1 == blocks[1].timestamp
           f2 == Last(blocks).timestamp
           f3 == m.da_scheme
           f4 == da_commitment(m.da_scheme, m.pubdata)
           f5 == Len(L1TxHashes)
           f6 == NumL2
           f7 == priority_ops_rolling_hash(L1TxHashes)
           f8 == chain_batch_root_of(p)
           f9 == m.upgrade_tx_hash
           f10 == InteropRollingHash
           f11 == SlChainId(m, p)
           f == [chain_id |-> CHAIN, first_ts |-> f1, last_ts |-> f2,
                 da_scheme |-> f3, da_commitment |-> f4, n_l1 |-> f5, n_l2 |-> f6,
                 priority_ops |-> f7, logs_root |-> f8, upgrade_tx_hash |-> f9,
                 interop_roots |-> f10, sl_chain_id |-> f11]
<1>1. batch_hash(m, p) = batch_output_hash_native(batch_output_layout, f)
  BY DEF batch_hash, SlChainId
<1>2. /\ spec <= AtlasV2 => batch_output_layout = "V30"
      /\ spec = AtlasV3 => batch_output_layout = "V31"
      /\ spec >= AtlasV4 => batch_output_layout = "AtlasV4"
  BY DEF batch_output_layout, AtlasV1, AtlasV2, AtlasV3, AtlasV4, AtlasV5
<1> HIDE DEF f1, f2, f3, f4, f5, f6, f7, f8, f9, f10, f11
<1>3. /\ f.chain_id = CHAIN /\ f.first_ts = f1 /\ f.last_ts = f2 /\ f.da_scheme = f3
      /\ f.da_commitment = f4 /\ f.n_l1 = f5 /\ f.n_l2 = f6 /\ f.priority_ops = f7
      /\ f.logs_root = f8 /\ f.upgrade_tx_hash = f9 /\ f.interop_roots = f10
      /\ f.sl_chain_id = f11
  OBVIOUS
<1> HIDE DEF f
<1>4. batch_output_hash_native("V30", f)
        = keccak256(<<Word(CHAIN)>>
                    \o <<Word(f1), Word(f2), Word(f3), f4, Word(f5)>> \o << >>
                    \o <<f7, f8, f9, f10>> \o << >>)
  BY <1>3, Zenon DEF batch_output_hash_native
<1>5. batch_output_hash_native("V31", f)
        = keccak256(<<Word(CHAIN)>>
                    \o <<Word(f1), Word(f2), Word(f3), f4, Word(f5)>> \o <<Word(f6)>>
                    \o <<f7, f8, f9, f10>> \o <<Word(f11)>>)
  BY <1>3, Zenon DEF batch_output_hash_native
<1>6. batch_output_hash_native("AtlasV4", f)
        = keccak256(<< >>
                    \o <<Word(f1), Word(f2), Word(f3), f4, Word(f5)>> \o <<Word(f6)>>
                    \o <<f7, f8, f9, f10>> \o <<Word(f11)>>)
  BY <1>3, Zenon DEF batch_output_hash_native
<1>7. batch_output_hash_native("V30", f)
        = keccak256(<<Word(CHAIN), Word(f1), Word(f2), Word(f3), f4, Word(f5), f7, f8, f9, f10>>)
  <2>1. <<Word(CHAIN)>>
          \o <<Word(f1), Word(f2), Word(f3), f4, Word(f5)>> \o << >>
          \o <<f7, f8, f9, f10>> \o << >>
        = <<Word(CHAIN), Word(f1), Word(f2), Word(f3), f4, Word(f5), f7, f8, f9, f10>>
    BY ONLY Tuple10
  <2> QED
    BY <1>4, <2>1, Zenon
<1>8. batch_output_hash_native("V31", f)
        = keccak256(<<Word(CHAIN), Word(f1), Word(f2), Word(f3), f4, Word(f5), Word(f6),
                      f7, f8, f9, f10, Word(f11)>>)
  <2>1. <<Word(CHAIN)>>
          \o <<Word(f1), Word(f2), Word(f3), f4, Word(f5)>> \o <<Word(f6)>>
          \o <<f7, f8, f9, f10>> \o <<Word(f11)>>
        = <<Word(CHAIN), Word(f1), Word(f2), Word(f3), f4, Word(f5), Word(f6),
            f7, f8, f9, f10, Word(f11)>>
    BY ONLY Tuple12
  <2> QED
    BY <1>5, <2>1, Zenon
<1>9. batch_output_hash_native("AtlasV4", f)
        = keccak256(<<Word(f1), Word(f2), Word(f3), f4, Word(f5), Word(f6),
                      f7, f8, f9, f10, Word(f11)>>)
  <2>1. << >>
          \o <<Word(f1), Word(f2), Word(f3), f4, Word(f5)>> \o <<Word(f6)>>
          \o <<f7, f8, f9, f10>> \o <<Word(f11)>>
        = <<Word(f1), Word(f2), Word(f3), f4, Word(f5), Word(f6),
            f7, f8, f9, f10, Word(f11)>>
    BY ONLY Tuple11
  <2> QED
    BY <1>6, <2>1, Zenon
<1>10. /\ spec <= AtlasV2 => batch_hash(m, p) = batch_output_hash_native("V30", f)
       /\ spec = AtlasV3 => batch_hash(m, p) = batch_output_hash_native("V31", f)
       /\ spec >= AtlasV4 => batch_hash(m, p) = batch_output_hash_native("AtlasV4", f)
  BY <1>1, <1>2, Zenon
<1> QED
  BY <1>7, <1>8, <1>9, <1>10, Zenon DEF f1, f2, f3, f4, f5, f6, f7, f8, f9, f10, f11

\* The words of the public input, of each spec.
LEMMA OutputWords ==
    ASSUME NEW m, NEW p, spec \in AtlasV1..AtlasV5, IsOutput(m, p)
    PROVE  /\ spec < AtlasV4 =>
                Words(out) = <<state_before, state_after(tree), batch_hash(m, p)>>
           /\ spec = AtlasV4 =>
                Words(out) = <<state_before, state_after(tree),
                               chain_config_hash("AtlasV4", ChainConfigOf), batch_hash(m, p)>>
           /\ spec = AtlasV5 =>
                Words(out) = <<state_before, state_after(tree),
                               chain_config_hash("AtlasV5", ChainConfigOf), batch_hash(m, p)>>
<1> DEFINE a == state_before
           b == state_after(tree)
           h == batch_hash(m, p)
           c4 == chain_config_hash("AtlasV4", ChainConfigOf)
           c5 == chain_config_hash("AtlasV5", ChainConfigOf)
<1>1. out = <<"keccak", <<a, b>> \o chain_config \o <<h>> >>
  BY DEF IsOutput, batch_public_input_hash, keccak256
<1>2. /\ spec < AtlasV4 => chain_config = << >>
      /\ spec = AtlasV4 => chain_config = <<c4>>
      /\ spec = AtlasV5 => chain_config = <<c5>>
  <2> HIDE DEF c4, c5
  <2>1. chain_config = CASE spec < AtlasV4 -> << >>
                         [] spec = AtlasV4 -> <<c4>>
                         [] spec = AtlasV5 -> <<c5>>
    BY DEF chain_config, c4, c5
  <2> QED
    BY <2>1 DEF AtlasV1, AtlasV4, AtlasV5
<1> HIDE DEF a, b, h, c4, c5
<1>3. Words(out) = <<a, b>> \o chain_config \o <<h>>
  <2> DEFINE w == <<a, b>> \o chain_config \o <<h>>
  <2>1. out = <<"keccak", w>>
    BY <1>1
  <2> HIDE DEF w
  <2>2. Words(out) = w
    BY <2>1 DEF Words
  <2> QED
    BY <2>2 DEF w
<1>4. /\ <<a, b>> \o << >> \o <<h>> = <<a, b, h>>
      /\ <<a, b>> \o <<c4>> \o <<h>> = <<a, b, c4, h>>
      /\ <<a, b>> \o <<c5>> \o <<h>> = <<a, b, c5, h>>
  BY Words3, Words4
<1>5. /\ spec < AtlasV4 => Words(out) = <<a, b, h>>
      /\ spec = AtlasV4 => Words(out) = <<a, b, c4, h>>
      /\ spec = AtlasV5 => Words(out) = <<a, b, c5, h>>
  BY <1>2, <1>3, <1>4, Zenon
<1> QED
  BY <1>5, Zenon DEF a, b, h, c4, c5

\* The wire numbers of the specs.
LEMMA Specs == AtlasV1 = 0 /\ AtlasV2 = 1 /\ AtlasV3 = 2 /\ AtlasV4 = 3 /\ AtlasV5 = 4
BY DEF AtlasV1, AtlasV2, AtlasV3, AtlasV4, AtlasV5

\* The last word of a public input.
LEMMA LastWord ==
    /\ \A a, b, h : Last(<<a, b, h>>) = h /\ Len(<<a, b, h>>) = 3
    /\ \A a, b, c, h : Last(<<a, b, c, h>>) = h /\ Len(<<a, b, c, h>>) = 4
BY DEF Last

\* The last word of the public input is the batch output, and the first two
\* are the state commitments.
LEMMA OutputParts ==
    ASSUME NEW m, NEW p, spec \in AtlasV1..AtlasV5, IsOutput(m, p)
    PROVE  /\ Len(Words(out)) = IF spec >= AtlasV4 THEN 4 ELSE 3
           /\ Last(Words(out)) = batch_hash(m, p)
           /\ Words(out)[1] = state_before /\ Words(out)[2] = state_after(tree)
           /\ spec = AtlasV4 => Words(out)[3] = chain_config_hash("AtlasV4", ChainConfigOf)
           /\ spec = AtlasV5 => Words(out)[3] = chain_config_hash("AtlasV5", ChainConfigOf)
<1> DEFINE a == state_before
           b == state_after(tree)
           h == batch_hash(m, p)
           c4 == chain_config_hash("AtlasV4", ChainConfigOf)
           c5 == chain_config_hash("AtlasV5", ChainConfigOf)
           w == Words(out)
           sp == spec
<1>1. /\ sp < AtlasV4 => w = <<a, b, h>>
      /\ sp = AtlasV4 => w = <<a, b, c4, h>>
      /\ sp = AtlasV5 => w = <<a, b, c5, h>>
      /\ sp \in AtlasV1..AtlasV5
  BY OutputWords, Zenon
<1> HIDE DEF a, b, h, c4, c5, w, sp
<1>2. /\ Len(w) = IF sp >= AtlasV4 THEN 4 ELSE 3
      /\ Last(w) = h /\ w[1] = a /\ w[2] = b
      /\ sp = AtlasV4 => w[3] = c4
      /\ sp = AtlasV5 => w[3] = c5
  BY <1>1, Specs, LastWord
<1> QED
  BY <1>2 DEF a, b, h, c4, c5, w, sp

\* A layout that can open the public input is the one it was written in.
LEMMA ShapeAlike ==
    ASSUME NEW m, NEW p, spec \in AtlasV1..AtlasV5, IsOutput(m, p),
           NEW s \in AtlasV1..AtlasV5, L1Shape(s, out)
    PROVE  Alike(s)
<1>1. /\ Len(Words(out)) = IF spec >= AtlasV4 THEN 4 ELSE 3
      /\ Last(Words(out)) = batch_hash(m, p)
  BY OutputParts
<1>2. spec >= AtlasV4 <=> s >= AtlasV4
  <2> DEFINE sp == spec
             n == Len(Words(out))
  <2>1. n = (IF sp >= AtlasV4 THEN 4 ELSE 3) /\ n = IF s >= AtlasV4 THEN 4 ELSE 3
    BY <1>1 DEF L1Shape
  <2> HIDE DEF sp, n
  <2>2. sp >= AtlasV4 <=> s >= AtlasV4
    BY <2>1
  <2> QED
    BY <2>2 DEF sp
<1>3. CASE spec >= AtlasV4
  BY <1>2, <1>3 DEF Alike
<1>4. ASSUME NEW w, batch_hash(m, p) = keccak256(w) PROVE Len(w) = Len(L1Fields(s))
  <2>1. Words(batch_hash(m, p)) = w
    BY <1>4 DEF Words, keccak256
  <2> QED
    BY <1>1, <2>1 DEF L1Shape
<1>5. /\ s <= AtlasV2 => Len(L1Fields(s)) = 10
      /\ s = AtlasV3 => Len(L1Fields(s)) = 12
  BY Specs DEF L1Fields
<1>6. CASE spec <= AtlasV2
  <2>0. \E c, x1, x2, x3, x4, x5, y1, y2, y3, y4 : batch_hash(m, p)
            = keccak256(<<c, x1, x2, x3, x4, x5, y1, y2, y3, y4>>)
    BY <1>6, HashWords, Zenon
  <2>1. PICK w : batch_hash(m, p) = keccak256(w) /\ Len(w) = 10
    BY <2>0
  <2>2. Len(L1Fields(s)) = 10
    BY <1>4, <2>1
  <2>3. s <= AtlasV2 \/ s = AtlasV3
    BY <1>2, <1>6, Specs
  <2> QED
    BY <1>5, <1>6, <2>2, <2>3 DEF Alike
<1>7. CASE spec = AtlasV3
  <2>0. \E c, x1, x2, x3, x4, x5, n, y1, y2, y3, y4, l : batch_hash(m, p)
            = keccak256(<<c, x1, x2, x3, x4, x5, n, y1, y2, y3, y4, l>>)
    BY <1>7, HashWords, Zenon
  <2>1. PICK w : batch_hash(m, p) = keccak256(w) /\ Len(w) = 12
    BY <2>0
  <2>2. Len(L1Fields(s)) = 12
    BY <1>4, <2>1
  <2>3. s <= AtlasV2 \/ s = AtlasV3
    BY <1>2, <1>7, Specs
  <2> QED
    BY <1>5, <1>7, <2>2, <2>3 DEF Alike
<1> QED
  BY <1>3, <1>6, <1>7, Specs

\* What the settlement layer of that layout reads.
LEMMA OpensAlike ==
    ASSUME NEW m, NEW p, spec \in AtlasV1..AtlasV5, IsOutput(m, p),
           NEW s \in AtlasV1..AtlasV5, Alike(s)
    PROVE  Opens(s, m, p)
<1> DEFINE g1 == Word(blocks[1].timestamp)
           g2 == Word(Last(blocks).timestamp)
           g3 == Word(m.da_scheme)
           g4 == da_commitment(m.da_scheme, m.pubdata)
           g5 == Word(Len(L1TxHashes))
           g6 == Word(NumL2)
           g7 == priority_ops_rolling_hash(L1TxHashes)
           g8 == chain_batch_root_of(p)
           g9 == m.upgrade_tx_hash
           g10 == InteropRollingHash
           g11 == Word(SlChainId(m, p))
           ch == Word(CHAIN)
           b == batch_hash(m, p)
<1>0. Last(Words(out)) = b
  BY OutputParts
<1>1. /\ spec <= AtlasV2 => b = keccak256(<<ch, g1, g2, g3, g4, g5, g7, g8, g9, g10>>)
      /\ spec = AtlasV3 => b = keccak256(<<ch, g1, g2, g3, g4, g5, g6, g7, g8, g9, g10, g11>>)
      /\ spec >= AtlasV4 => b = keccak256(<<g1, g2, g3, g4, g5, g6, g7, g8, g9, g10, g11>>)
  BY HashWords, Zenon
<1> DEFINE Fs == /\ s < AtlasV4 => L1Field(s, out, "chain_id") = ch
                 /\ L1Field(s, out, "first_ts") = g1
                 /\ L1Field(s, out, "last_ts") = g2
                 /\ L1Field(s, out, "da_commitment") = g4
                 /\ L1Field(s, out, "n_l1") = g5
                 /\ L1Field(s, out, "priority_ops") = g7
                 /\ L1Field(s, out, "logs_root") = g8
                 /\ L1Field(s, out, "upgrade_tx_hash") = g9
                 /\ L1Field(s, out, "interop_roots") = g10
                 /\ s >= AtlasV3 => /\ L1Field(s, out, "n_l2") = g6
                                    /\ L1Field(s, out, "sl_chain_id") = g11
                 /\ Len(Words(Last(Words(out)))) = Len(L1Fields(s))
<1> HIDE DEF g1, g2, g3, g4, g5, g6, g7, g8, g9, g10, g11, ch, b
<1>2. ASSUME spec <= AtlasV2 /\ s <= AtlasV2 PROVE Fs
  <2> DEFINE w == <<ch, g1, g2, g3, g4, g5, g7, g8, g9, g10>>
  <2>1. Last(Words(out)) = keccak256(w) /\ s \in AtlasV1..AtlasV2
    BY <1>0, <1>1, <1>2, Specs
  <2>2. /\ Len(w) = 10 /\ w[1] = ch /\ w[2] = g1 /\ w[3] = g2 /\ w[5] = g4 /\ w[6] = g5
        /\ w[7] = g7 /\ w[8] = g8 /\ w[9] = g9 /\ w[10] = g10
    OBVIOUS
  <2>3. s < AtlasV3 /\ ~ (s >= AtlasV3)
    BY <2>1, Specs
  <2> HIDE DEF w
  <2> QED
    BY <2>1, <2>2, <2>3, FieldsOld
<1>3. ASSUME spec = AtlasV3 /\ s = AtlasV3 PROVE Fs
  <2> DEFINE w == <<ch, g1, g2, g3, g4, g5, g6, g7, g8, g9, g10, g11>>
  <2>1. Last(Words(out)) = keccak256(w)
    BY <1>0, <1>1, <1>3
  <2>2. /\ Len(w) = 12 /\ w[1] = ch /\ w[2] = g1 /\ w[3] = g2 /\ w[5] = g4 /\ w[6] = g5
        /\ w[7] = g6 /\ w[8] = g7 /\ w[9] = g8 /\ w[10] = g9 /\ w[11] = g10 /\ w[12] = g11
    OBVIOUS
  <2> HIDE DEF w
  <2> QED
    BY <1>3, <2>1, <2>2, FieldsMid
<1>4. ASSUME spec >= AtlasV4 /\ s >= AtlasV4 PROVE Fs
  <2> DEFINE w == <<g1, g2, g3, g4, g5, g6, g7, g8, g9, g10, g11>>
  <2>1. Last(Words(out)) = keccak256(w) /\ s \in AtlasV4..AtlasV5
    BY <1>0, <1>1, <1>4, Specs
  <2>2. /\ Len(w) = 11 /\ w[1] = g1 /\ w[2] = g2 /\ w[4] = g4 /\ w[5] = g5
        /\ w[6] = g6 /\ w[7] = g7 /\ w[8] = g8 /\ w[9] = g9 /\ w[10] = g10 /\ w[11] = g11
    OBVIOUS
  <2>3. ~ (s < AtlasV4)
    BY <2>1, Specs
  <2> HIDE DEF w
  <2> QED
    BY <2>1, <2>2, <2>3, FieldsNew
<1>5. Fs
  BY <1>2, <1>3, <1>4 DEF Alike
<1>6. Len(Words(out)) = IF s >= AtlasV4 THEN 4 ELSE 3
  <2>1. spec >= AtlasV4 <=> s >= AtlasV4
    BY Specs DEF Alike
  <2>2. Len(Words(out)) = IF spec >= AtlasV4 THEN 4 ELSE 3
    BY OutputParts
  <2> QED
    BY <2>1, <2>2, Zenon
<1>7. L1Shape(s, out)
  BY <1>5, <1>6 DEF L1Shape
<1>8. /\ Words(out)[1] = state_before /\ Words(out)[2] = state_after(tree)
      /\ spec = AtlasV4 => Words(out)[3] = chain_config_hash("AtlasV4", ChainConfigOf)
      /\ spec = AtlasV5 => Words(out)[3] = chain_config_hash("AtlasV5", ChainConfigOf)
  BY OutputParts
<1> QED
  BY <1>5, <1>7, <1>8, Zenon DEF Opens, g1, g2, g4, g5, g6, g7, g8, g9, g10, g11, ch

-----------------------------------------------------------------------------
(* The inductive invariant. *)

\* The normalised header that passed resolve_spec_and_validate.
InputSound ==
    /\ spec \in AtlasV1..AtlasV5
    /\ input.max_tx_gas_limit \in Caps
    /\ input.l1_tx_filtering \in BOOLEAN /\ input.large_contracts \in BOOLEAN
    /\ spec < AtlasV5 => ~input.l1_tx_filtering /\ ~input.large_contracts
    /\ (honest /\ spec >= AtlasV4) =>
          /\ input.max_tx_gas_limit >= DEFAULT_MAX_TX_GAS_LIMIT
          /\ input.pubdata_content \in {0, 1} /\ input.ct # NONE

BlocksSound == blocks \in BlockSeqs /\ validate_block_sequence(blocks)

\* A transaction that was executed: its label fits its encoding, its hash is
\* that of the encoding, and an L2 transaction obeys the cap.
TxSound(tx) ==
    /\ tx.enc \in Encodings
    /\ tx.auth \in {"L1", "Upgrade", "L2", "System"}
    /\ tx.auth \in {"L1", "Upgrade"} => tx.enc.kind = "abi" /\ tx.tx_hash = Hash(tx.enc)
    /\ tx.auth = "L2" =>
          tx.enc.kind = "envelope" /\ (IsAtlasV4 => tx.enc.gas <= input.max_tx_gas_limit)
    /\ tx.auth = "System" =>
          /\ tx.enc.kind = "system" /\ tx.enc.type = SYSTEM_TX_TYPE
          /\ tx.tx_hash = Hash(tx.enc)

TxsSound ==
    /\ Pieces(txs) /\ Len(txs) >= 1 /\ Len(txs) <= Len(blocks)
    /\ \A b \in 1..Len(txs) : \A i \in 1..Len(txs[b]) : TxSound(txs[b][i])

\* The hash execute_block_proven computes for a block of these transactions.
HeaderOf(parent, block, list) ==
    compute_block_header_hash(
        parent, block,
        IF IsAtlasV4 THEN block_tx_tree_root([i \in DOMAIN list |-> TxHashOf(list[i])])
        ELSE transactions_rolling_hash([i \in DOMAIN list |-> TxHashOf(list[i])],
                                       IF spec >= AtlasV3 THEN KECCAK_EMPTY ELSE ZERO),
        IF IsAtlasV4 THEN block_tx_tree_root(receipt_leaves(list)) ELSE ZERO,
        GasUpTo(list, Len(list)))

\* Every sealed block is final: its header is the one of its transactions.
HeadersSound ==
    /\ IsSeq(headers)
    /\ pc = "exec" => Len(headers) = Len(txs) - 1
    /\ pc \in {"commit", "done"} => Len(headers) = Len(txs) /\ Len(txs) = Len(blocks)
    /\ \A b \in 1..Len(headers) :
          /\ headers[b] = HeaderOf(IF b = 1 THEN Header0 ELSE headers[b - 1],
                                   blocks[b], txs[b])
          /\ IsAtlasV4 => FitsTree(txs[b], BLOCK_TX_TREE_DEPTH)

\* What the server's transactions satisfy beyond TxSound.
HonestSound ==
    honest =>
        /\ \A i \in 1..Len(FlatTxs) :
              /\ FlatTxs[i].auth = "System" => interop_selector_ok(FlatTxs[i], import_abi)
              /\ FlatTxs[i].auth = "Upgrade" => FlatTxs[i].enc.type = UPGRADE_TX_TYPE
        /\ \A i, j \in 1..Len(FlatTxs) :
              (FlatTxs[i].auth = "Upgrade" /\ FlatTxs[j].auth = "Upgrade") => i = j

\* The settlement layer's id is one the contract can hold.
HoldsId(t) == SlChainSlot \in DOMAIN t /\ t[SlChainSlot] \in {5, 8}
TreeSound == HoldsId(tree)

\* The checks a committed batch went through.
Committed(p) ==
    /\ interop_ok(p, tree) /\ IsOutput(meta, p)
    /\ upgrade_ok(meta.upgrade_tx_hash)
    /\ meta.forced => meta.upgrade_tx_hash # ZERO
    /\ \A i \in DOMAIN SystemTxs : interop_selector_ok(SystemTxs[i], import_abi)
    /\ FitsTree(AllLogs, L2_TO_L1_TREE_HEIGHT)
    /\ honest => HonestMeta(meta)

BatchInv ==
    /\ pc \in {"wire", "admit", "exec", "commit", "done", "rejected"}
    /\ pc = "rejected" => ~honest
    /\ pc \in {"wire", "admit"} => headers = << >>
    /\ pc \in {"admit", "exec", "commit", "done"} => InputSound
    /\ pc \in {"exec", "commit", "done"} =>
          BlocksSound /\ TxsSound /\ HeadersSound /\ HonestSound
    /\ TreeSound
    /\ pc = "done" => \E p : Committed(p)

-----------------------------------------------------------------------------
(* What the operators of the batch depend on. *)

\* What depends on the input alone.
LEMMA SameInput ==
    ASSUME input' = input
    PROVE  /\ spec' = spec /\ (IsAtlasV4' <=> IsAtlasV4) /\ import_abi' = import_abi
           /\ \A tx : TxSound(tx)' <=> TxSound(tx)
           /\ \A a, b, l : HeaderOf(a, b, l)' = HeaderOf(a, b, l)
           /\ \A bs : validate_block_sequence(bs)' <=> validate_block_sequence(bs)
<1>1. spec' = spec
  BY DEF spec
<1>2. IsAtlasV4' <=> IsAtlasV4
  BY <1>1 DEF IsAtlasV4
<1>3. import_abi' = import_abi
  BY <1>2 DEF import_abi
<1>4. \A tx : TxSound(tx)' <=> TxSound(tx)
  BY <1>2, Zenon DEF TxSound
<1>5. \A a, b, l : HeaderOf(a, b, l)' = HeaderOf(a, b, l)
  BY <1>1, <1>2, Zenon DEF HeaderOf
<1>6. \A bs : validate_atlas_v4_block_invariants(bs)' <=> validate_atlas_v4_block_invariants(bs)
  BY <1>2, Zenon DEF validate_atlas_v4_block_invariants
<1>7. \A bs : validate_block_sequence(bs)' <=> validate_block_sequence(bs)
  BY <1>6, Zenon DEF validate_block_sequence
<1> QED
  BY <1>1, <1>2, <1>3, <1>4, <1>5, <1>7, Zenon

RollRoots(abi, list) ==
    FoldLeft(LAMBDA r, t : fold_system_tx_interop_roots(t, abi, r), ZERO, list)

\* The rolling hash of the imported roots, as a fold over the system transactions.
LEMMA RollRootsIs == InteropRollingHash = RollRoots(import_abi, SystemTxs)
BY DEF InteropRollingHash, RollRoots

\* What depends on the transactions alone.
LEMMA SameTxs ==
    ASSUME txs' = txs
    PROVE  /\ FlatTxs' = FlatTxs /\ L1TxHashes' = L1TxHashes /\ NumL2' = NumL2
           /\ SystemTxs' = SystemTxs /\ LogsByBlock' = LogsByBlock /\ AllLogs' = AllLogs
           /\ \A a : Labelled(a)' = Labelled(a)
           /\ \A h : upgrade_ok(h)' <=> upgrade_ok(h)
           /\ \A m : HonestMeta(m)' <=> HonestMeta(m)
<1>1. FlatTxs' = FlatTxs
  BY DEF FlatTxs
<1>2. \A a : Labelled(a)' = Labelled(a)
  BY <1>1, Zenon DEF Labelled
<1>3. L1TxHashes' = L1TxHashes /\ NumL2' = NumL2 /\ SystemTxs' = SystemTxs
  BY <1>2, Zenon DEF L1TxHashes, NumL2, SystemTxs
<1>4. LogsByBlock' = LogsByBlock
  BY Zenon DEF LogsByBlock
<1>5. AllLogs' = AllLogs
  BY <1>4, Zenon DEF AllLogs
<1>6. \A h : upgrade_ok(h)' <=> upgrade_ok(h)
  BY <1>2, Zenon DEF upgrade_ok
<1>7. \A m : HonestMeta(m)' <=> HonestMeta(m)
  BY <1>2, <1>5, Zenon DEF HonestMeta
<1> QED
  BY <1>1, <1>2, <1>3, <1>4, <1>5, <1>6, <1>7, Zenon

\* What the commitment depends on.
LEMMA SameBatch ==
    ASSUME input' = input, blocks' = blocks, txs' = txs, headers' = headers
    PROVE  /\ state_before' = state_before /\ chain_config' = chain_config
           /\ \A t : state_after(t)' = state_after(t)
           /\ \A m, p : batch_hash(m, p)' = batch_hash(m, p)
           /\ \A p, t : interop_ok(p, t)' <=> interop_ok(p, t)
<1>1. spec' = spec /\ (IsAtlasV4' <=> IsAtlasV4) /\ import_abi' = import_abi
  BY SameInput
<1>2. /\ L1TxHashes' = L1TxHashes /\ NumL2' = NumL2
      /\ SystemTxs' = SystemTxs /\ LogsByBlock' = LogsByBlock /\ AllLogs' = AllLogs
  BY SameTxs
<1>3. state_before' = state_before
  BY DEF state_before
<1>4. ChainConfigOf' = ChainConfigOf
  BY DEF ChainConfigOf
<1>5. chain_config' = chain_config
  BY <1>1, <1>4, Zenon DEF chain_config
<1>6. \A t : state_after(t)' = state_after(t)
  BY Zenon DEF state_after
<1>7. InteropRollingHash' = InteropRollingHash
  <2>1. InteropRollingHash' = RollRoots(import_abi', SystemTxs')
    BY DEF InteropRollingHash, RollRoots, FoldLeft, MapThenFoldSet
  <2> QED
    BY <1>1, <1>2, <2>1, RollRootsIs, Zenon
<1>8. batch_output_layout' = batch_output_layout
  BY <1>1, Zenon DEF batch_output_layout
<1>9. \A a, b : da_commitment(a, b)' = da_commitment(a, b)
  BY <1>1, <1>2, Zenon DEF da_commitment
<1>10. \A p : chain_batch_root_of(p)' = chain_batch_root_of(p)
  BY <1>1, <1>2, Zenon DEF chain_batch_root_of
<1>11. \A m, p : batch_hash(m, p)' = batch_hash(m, p)
  BY <1>1, <1>2, <1>7, <1>8, <1>9, <1>10, Zenon DEF batch_hash
<1>12. \A p, t : interop_ok(p, t)' <=> interop_ok(p, t)
  BY <1>1, Zenon DEF interop_ok
<1> QED
  BY <1>3, <1>5, <1>6, <1>11, <1>12, Zenon

-----------------------------------------------------------------------------
(* Decoding. *)

\* The fields of an input and of what it is normalised to.
Fields == {"version", "spec_id", "minor", "max_tx_gas_limit", "pubdata_content", "ct",
           "l1_tx_filtering", "large_contracts"}
Kept(n, b) ==
    /\ n.version = b.version /\ n.spec_id = b.spec_id /\ n.minor = b.minor
    /\ n.max_tx_gas_limit = b.max_tx_gas_limit

\* normalize keeps what the wire version carries and defaults the rest.
LEMMA Normalized ==
    ASSUME NEW b, DOMAIN b = Fields, b.version \in SUPPORTED_BATCH_INPUT_VERSIONS
    PROVE  /\ DOMAIN normalize(b) = Fields /\ Kept(normalize(b), b)
           /\ b.version = V3 => /\ normalize(b).pubdata_content = FULL
                                /\ normalize(b).ct = NONE
           /\ b.version # V3 => /\ normalize(b).pubdata_content = b.pubdata_content
                                /\ normalize(b).ct = b.ct
           /\ b.version # BATCH_INPUT_VERSION =>
                /\ normalize(b).l1_tx_filtering = FALSE
                /\ normalize(b).large_contracts = FALSE
           /\ b.version = BATCH_INPUT_VERSION =>
                /\ normalize(b).l1_tx_filtering = b.l1_tx_filtering
                /\ normalize(b).large_contracts = b.large_contracts
<1> DEFINE n == normalize(b)
           S == Shared(b)
<1>1. LaterFields = {"pubdata_content", "ct", "l1_tx_filtering", "large_contracts"}
  BY DEF LaterFields, Defaults
<1>2. DOMAIN S = {"version", "spec_id", "minor", "max_tx_gas_limit"}
  BY <1>1 DEF Shared, Fields
<1>3. \A f \in DOMAIN S : S[f] = b[f]
  BY DEF Shared
<1>4. n = [f \in DOMAIN S \cup LaterFields |->
             IF f \in DOMAIN S THEN S[f]
             ELSE IF f \in SchemaFields(b.version) THEN b[f] ELSE Defaults[f]]
  BY DEF normalize
<1> HIDE DEF n, S
<1>5. DOMAIN n = Fields
  BY <1>1, <1>2, <1>4 DEF Fields
<1>6. \A f \in DOMAIN S : n[f] = b[f]
  BY <1>3, <1>4
<1>7. Kept(n, b)
  BY <1>2, <1>6 DEF Kept
<1>8. \A f \in LaterFields : n[f] = IF f \in SchemaFields(b.version) THEN b[f] ELSE Defaults[f]
  BY <1>1, <1>2, <1>4
<1>9. /\ b.version = V3 => SchemaFields(b.version) = {}
      /\ b.version = V5 => SchemaFields(b.version) = {"pubdata_content", "ct"}
      /\ b.version = BATCH_INPUT_VERSION =>
            SchemaFields(b.version)
               = {"pubdata_content", "ct", "l1_tx_filtering", "large_contracts"}
  BY DEF SchemaFields, V3, V5, BATCH_INPUT_VERSION
<1>10. /\ Defaults["pubdata_content"] = FULL /\ Defaults["ct"] = NONE
       /\ Defaults["l1_tx_filtering"] = FALSE /\ Defaults["large_contracts"] = FALSE
  BY DEF Defaults
<1>11. /\ b.version = V3 => n["pubdata_content"] = FULL /\ n["ct"] = NONE
       /\ b.version # V3 => n["pubdata_content"] = b["pubdata_content"] /\ n["ct"] = b["ct"]
       /\ b.version # BATCH_INPUT_VERSION =>
             n["l1_tx_filtering"] = FALSE /\ n["large_contracts"] = FALSE
       /\ b.version = BATCH_INPUT_VERSION =>
             /\ n["l1_tx_filtering"] = b["l1_tx_filtering"]
             /\ n["large_contracts"] = b["large_contracts"]
  BY <1>1, <1>8, <1>9, <1>10 DEF SUPPORTED_BATCH_INPUT_VERSIONS, V3, V5, BATCH_INPUT_VERSION
<1>12. /\ b.version = V3 => n.pubdata_content = FULL /\ n.ct = NONE
       /\ b.version # V3 => n.pubdata_content = b.pubdata_content /\ n.ct = b.ct
       /\ b.version # BATCH_INPUT_VERSION =>
             n.l1_tx_filtering = FALSE /\ n.large_contracts = FALSE
       /\ b.version = BATCH_INPUT_VERSION =>
             /\ n.l1_tx_filtering = b.l1_tx_filtering
             /\ n.large_contracts = b.large_contracts
  BY <1>11
<1> QED
  BY <1>5, <1>7, <1>12 DEF n

\* The input b arrives in wire version v, perhaps downgraded, and is decoded
\* to n.
Arrives(b, n, v) ==
    \/ v = b.version /\ v \in SUPPORTED_BATCH_INPUT_VERSIONS /\ n = normalize(b)
    \/ v = V3 /\ ~ConversionError(b) /\ n = normalize(normalize([b EXCEPT !.version = V3]))
Carries(b, n, v) ==
    /\ n.version = v /\ n.spec_id = b.spec_id /\ n.minor = b.minor
    /\ n.max_tx_gas_limit = b.max_tx_gas_limit /\ DOMAIN n = Fields
    /\ n.l1_tx_filtering \in BOOLEAN /\ n.large_contracts \in BOOLEAN
    /\ v # V3 => n.pubdata_content = b.pubdata_content /\ n.ct = b.ct
    /\ n.l1_tx_filtering => b.l1_tx_filtering
    /\ n.large_contracts => b.large_contracts
    /\ v # b.version => b.spec_id <= AtlasV3

\* An input that is accepted arrived as it was sent, or as its v3 form.
LEMMA Decoded ==
    ASSUME NEW b \in Inputs, NEW n, NEW v, DOMAIN b = Fields, Arrives(b, n, v)
    PROVE  Carries(b, n, v)
<1>0. b.l1_tx_filtering \in BOOLEAN /\ b.large_contracts \in BOOLEAN
  BY DEF Inputs
<1>1. CASE v = b.version /\ v \in SUPPORTED_BATCH_INPUT_VERSIONS /\ n = normalize(b)
  <2>1. /\ DOMAIN n = Fields /\ Kept(n, b)
        /\ v # V3 => n.pubdata_content = b.pubdata_content /\ n.ct = b.ct
        /\ v # BATCH_INPUT_VERSION =>
              n.l1_tx_filtering = FALSE /\ n.large_contracts = FALSE
        /\ v = BATCH_INPUT_VERSION => /\ n.l1_tx_filtering = b.l1_tx_filtering
                                      /\ n.large_contracts = b.large_contracts
    BY <1>1, Normalized
  <2>2. n.l1_tx_filtering \in BOOLEAN /\ n.large_contracts \in BOOLEAN
    <3>1. CASE v = BATCH_INPUT_VERSION
      BY <1>0, <2>1, <3>1
    <3>2. CASE v # BATCH_INPUT_VERSION
      BY <2>1, <3>2
    <3> QED
      BY <3>1, <3>2
  <2> QED
    BY <1>1, <2>1, <2>2 DEF Kept, Carries
<1>2. CASE v = V3 /\ ~ConversionError(b) /\ n = normalize(normalize([b EXCEPT !.version = V3]))
  <2> DEFINE c == [b EXCEPT !.version = V3]
             d == normalize(c)
  <2>1. /\ DOMAIN c = Fields /\ c.version = V3 /\ c.spec_id = b.spec_id /\ c.minor = b.minor
        /\ c.max_tx_gas_limit = b.max_tx_gas_limit
    BY DEF Fields
  <2>2. V3 \in SUPPORTED_BATCH_INPUT_VERSIONS /\ V3 # BATCH_INPUT_VERSION
    BY DEF SUPPORTED_BATCH_INPUT_VERSIONS, V3, BATCH_INPUT_VERSION
  <2> HIDE DEF c
  <2>3. DOMAIN d = Fields /\ Kept(d, c)
    BY <2>1, <2>2, Normalized
  <2> HIDE DEF d
  <2>4. d.version = V3
    BY <2>1, <2>3 DEF Kept
  <2>5. DOMAIN n = Fields /\ Kept(n, d)
        /\ n.l1_tx_filtering = FALSE /\ n.large_contracts = FALSE
    BY <1>2, <2>2, <2>3, <2>4, Normalized DEF c, d
  <2>6. b.spec_id <= AtlasV3
    BY <1>2, Specs DEF ConversionError, Inputs
  <2>7. n.l1_tx_filtering \in BOOLEAN /\ n.large_contracts \in BOOLEAN
    BY <2>5
  <2> QED
    BY <1>2, <2>1, <2>3, <2>5, <2>6, <2>7 DEF Kept, Carries
<1> QED
  BY <1>1, <1>2 DEF Arrives

\* The server's input passes the checks of the header.
LEMMA HonestResolves ==
    ASSUME NEW b \in Inputs, HonestInput(b), NEW n, NEW v,
           n.version = v, n.spec_id = b.spec_id, n.minor = b.minor,
           n.l1_tx_filtering => b.l1_tx_filtering, n.large_contracts => b.large_contracts,
           v = b.version \/ v = V3, v # b.version => b.spec_id <= AtlasV3
    PROVE  resolve_spec_ok(n)
<1>1. b.version \in {3, 5, 6} /\ b.spec_id \in 0..4 /\ b.minor \in HonestMinors(b.spec_id)
  BY Specs DEF HonestInput
<1>2. minor_ok(b.spec_id, b.minor)
  <2> DEFINE i == b.spec_id
             k == b.minor
  <2>1. i \in 0..4 /\ k \in HonestMinors(i)
    BY <1>1
  <2> HIDE DEF i, k
  <2>2. CASE i = 0 \/ i = 1
    <3>1. k = 30
      BY <2>1, <2>2, Specs DEF HonestMinors
    <3>2. minor_ok(i, k) <=> k <= 30
      <4>1. i \in {AtlasV1, AtlasV2}
        BY <2>2, Specs
      <4>2. i # AtlasV3 /\ i # AtlasV4 /\ i # AtlasV5
        BY <2>2, Specs
      <4> QED
        BY <4>1, <4>2 DEF minor_ok
    <3> QED
      BY <3>1, <3>2 DEF i, k
  <2>3. CASE i = 2
    <3>1. k \in {31, 32}
      BY <2>1, <2>3, Specs DEF HonestMinors
    <3> QED
      BY <2>3, <3>1, Specs DEF minor_ok, i, k
  <2>4. CASE i = 3
    <3>1. k \in {32, 33}
      BY <2>1, <2>4, Specs DEF HonestMinors
    <3> QED
      BY <2>4, <3>1, Specs DEF minor_ok, i, k, ATLAS_V4_MIN_PROTOCOL_MINOR,
           ATLAS_V5_MIN_PROTOCOL_MINOR
  <2>5. CASE i = 4
    <3>1. k = 34
      BY <2>1, <2>5, Specs DEF HonestMinors
    <3> QED
      BY <2>5, <3>1, Specs DEF minor_ok, i, k, ATLAS_V5_MIN_PROTOCOL_MINOR
  <2> QED
    BY <2>1, <2>2, <2>3, <2>4, <2>5
<1>3. v \in {3, 5, 6} /\ b.spec_id <= newest_spec(v)
  BY <1>1, Specs DEF newest_spec, V3, V5, HonestInput
<1>4. b.spec_id >= AtlasV5 \/ ~ (n.l1_tx_filtering \/ n.large_contracts)
  BY <1>1, Specs DEF HonestInput
<1>5. zk_spec_id(b.spec_id)
  BY <1>1, Specs DEF zk_spec_id
<1> QED
  BY <1>2, <1>3, <1>4, <1>5 DEF resolve_spec_ok, SUPPORTED_BATCH_INPUT_VERSIONS, V3, V5,
       BATCH_INPUT_VERSION

-----------------------------------------------------------------------------
(* The tree. *)

\* The settlement-layer id has a slot of its own.
LEMMA SlotsDiffer ==
    \A a, h : /\ SlChainSlot # HeightSlot(a) /\ SlChainSlot # NodesSlot(a, h)
              /\ SlChainSlot # ForcedSlot
BY DEF SlChainSlot, HeightSlot, NodesSlot, ForcedSlot

\* The state before the batch.
LEMMA GenesisHoldsId == HoldsId(Tree0)
<1>1. SlChainSlot \in Slots
  BY DEF Slots
<1>2. Tree0[SlChainSlot] = 5
  <2>1. SlChainSlot # NodesSlot("InteropCommitmentTree", 0)
    BY SlotsDiffer
  <2> QED
    BY <1>1, <2>1 DEF Tree0
<1>3. DOMAIN Tree0 = Slots
  BY DEF Tree0
<1> QED
  BY <1>1, <1>2, <1>3 DEF HoldsId

\* A transaction keeps the settlement layer's id one that exists.
LEMMA AppliedHoldsId == ASSUME NEW t, HoldsId(t), NEW tx PROVE HoldsId(Applied(t, tx))
<1>1. ASSUME NEW a PROVE HoldsId(Grown(t, a))
  <2> DEFINE h == t[HeightSlot(a)] + 1
             r == [t EXCEPT ![HeightSlot(a)] = h]
             q == [r EXCEPT ![NodesSlot(a, h)] = 10 + h]
  <2>0. Grown(t, a) = q
    BY DEF Grown
  <2> HIDE DEF h
  <2>1. DOMAIN r = DOMAIN t /\ r[SlChainSlot] = t[SlChainSlot]
    BY SlotsDiffer DEF HoldsId
  <2> HIDE DEF r
  <2>2. DOMAIN q = DOMAIN t /\ q[SlChainSlot] = t[SlChainSlot]
    BY <2>1, SlotsDiffer DEF HoldsId
  <2> HIDE DEF q
  <2> QED
    BY <2>0, <2>2 DEF HoldsId
<1>2. HoldsId([t EXCEPT ![SlChainSlot] = 8])
  BY DEF HoldsId
<1> QED
  BY <1>1, <1>2 DEF Applied

\* A forced deployment does not touch it.
LEMMA ForcedHoldsId ==
    ASSUME NEW t, HoldsId(t), NEW x PROVE HoldsId([t EXCEPT ![ForcedSlot] = x])
BY SlotsDiffer DEF HoldsId

-----------------------------------------------------------------------------
(* The steps. *)

\* The initial state.
LEMMA InitBatch == ASSUME Init PROVE BatchInv
BY GenesisHoldsId DEF Init, BatchInv, TreeSound

\* A panic leaves nothing to keep, and only a dishonest batch panics.
LEMMA RejectBatch ==
    ASSUME pc' = "rejected", ~honest', tree' = Tree0 PROVE BatchInv'
BY GenesisHoldsId DEF BatchInv, TreeSound

\* decode_batch_input and resolve_spec_and_validate.
LEMMA DecodeBatch == ASSUME BatchInv, DecodeInput PROVE BatchInv'
<1>1. PICK b \in Inputs, downgrade \in BOOLEAN :
        LET w == IF downgrade THEN to_v3(b) ELSE [ok |-> TRUE, input |-> b]
            d == decode_batch_input(w.input)
        IN  /\ w.ok
            /\ IF d.ok /\ resolve_spec_ok(d.input)
               THEN /\ pc' = "admit"
                    /\ input' = [d.input EXCEPT !.version = 0, !.minor = 0]
                    /\ honest' = HonestInput(b)
                    /\ UNCHANGED <<blocks, txs, tree, headers, meta, out>>
               ELSE Reject(HonestInput(b))
  BY DEF DecodeInput
<1> DEFINE w == IF downgrade THEN to_v3(b) ELSE [ok |-> TRUE, input |-> b]
           v == IF downgrade THEN V3 ELSE b.version
           x == w.input
           d == decode_batch_input(x)
           n == normalize(x)
<1>2. DOMAIN b = Fields
  BY DEF Inputs, Fields
<1>3. w.ok
  BY <1>1
<1>4. downgrade => ~ConversionError(b) /\ x = normalize([b EXCEPT !.version = V3])
  BY <1>3 DEF to_v3
<1>5. ~downgrade => x = b
  OBVIOUS
<1>v. V3 \in SUPPORTED_BATCH_INPUT_VERSIONS
  BY DEF SUPPORTED_BATCH_INPUT_VERSIONS
<1>6. x.version = v
  <2>1. CASE downgrade
    <3> DEFINE c == [b EXCEPT !.version = V3]
    <3>1. DOMAIN c = Fields /\ c.version = V3
      BY <1>2 DEF Fields
    <3> HIDE DEF c
    <3>2. normalize(c).version = V3
      BY <1>v, <3>1, Normalized DEF Kept
    <3> QED
      BY <1>4, <2>1, <3>2 DEF c
  <2>2. CASE ~downgrade
    BY <1>5, <2>2
  <2> QED
    BY <2>1, <2>2
<1>7. d = IF v \in SUPPORTED_BATCH_INPUT_VERSIONS THEN [ok |-> TRUE, input |-> n]
          ELSE [ok |-> FALSE]
  BY <1>6 DEF decode_batch_input
<1>8. d.ok <=> v \in SUPPORTED_BATCH_INPUT_VERSIONS
  BY <1>7
<1>9. d.ok => d.input = n
  BY <1>7
<1>10. IF d.ok /\ resolve_spec_ok(d.input)
       THEN /\ pc' = "admit"
            /\ input' = [d.input EXCEPT !.version = 0, !.minor = 0]
            /\ honest' = HonestInput(b)
            /\ UNCHANGED <<blocks, txs, tree, headers, meta, out>>
       ELSE Reject(HonestInput(b))
  BY <1>1
<1>11. d.ok => (\/ v = b.version /\ v \in SUPPORTED_BATCH_INPUT_VERSIONS /\ n = normalize(b)
                \/ v = V3 /\ ~ConversionError(b)
                   /\ n = normalize(normalize([b EXCEPT !.version = V3])))
  BY <1>4, <1>5, <1>8
<1> HIDE DEF w, x, d, n, v
<1>12. d.ok => /\ n.version = v /\ n.spec_id = b.spec_id /\ n.minor = b.minor
               /\ n.max_tx_gas_limit = b.max_tx_gas_limit /\ DOMAIN n = Fields
               /\ n.l1_tx_filtering \in BOOLEAN /\ n.large_contracts \in BOOLEAN
               /\ v # V3 => n.pubdata_content = b.pubdata_content /\ n.ct = b.ct
               /\ n.l1_tx_filtering => b.l1_tx_filtering
               /\ n.large_contracts => b.large_contracts
               /\ v # b.version => b.spec_id <= AtlasV3
  <2>1. d.ok => Arrives(b, n, v)
    BY <1>11, Zenon DEF Arrives
  <2>2. d.ok => Carries(b, n, v)
    BY <1>2, <2>1, Decoded
  <2> QED
    BY <2>2, Zenon DEF Carries
<1>13. v = b.version \/ v = V3
  BY DEF v
<1>14. CASE d.ok /\ resolve_spec_ok(d.input)
  <2>1. /\ pc' = "admit" /\ input' = [n EXCEPT !.version = 0, !.minor = 0]
        /\ honest' = HonestInput(b) /\ tree' = tree
    BY <1>9, <1>10, <1>14
  <2>2. /\ input'.spec_id = b.spec_id /\ input'.max_tx_gas_limit = b.max_tx_gas_limit
        /\ input'.l1_tx_filtering = n.l1_tx_filtering
        /\ input'.large_contracts = n.large_contracts
        /\ input'.pubdata_content = n.pubdata_content /\ input'.ct = n.ct
    BY <1>12, <1>14, <2>1 DEF Fields
  <2>3. resolve_spec_ok(n)
    BY <1>9, <1>14
  <2>4. InputSound'
    <3>1. b.spec_id \in AtlasV1..AtlasV5
      BY <1>12, <1>14, <2>3 DEF resolve_spec_ok, zk_spec_id
    <3>2. b.max_tx_gas_limit \in Caps
      BY DEF Inputs
    <3>3. b.spec_id < AtlasV5 => ~n.l1_tx_filtering /\ ~n.large_contracts
      BY <1>12, <1>14, <2>3, <3>1, Specs DEF resolve_spec_ok
    <3>4. ASSUME HonestInput(b), b.spec_id >= AtlasV4
          PROVE  /\ b.max_tx_gas_limit >= DEFAULT_MAX_TX_GAS_LIMIT
                 /\ n.pubdata_content \in {0, 1} /\ n.ct # NONE
      <4>1. v # V3
        <5>1. b.version # V3
          BY <3>1, <3>4, Specs DEF HonestInput, V3
        <5>2. ~ (b.spec_id <= AtlasV3)
          BY <3>1, <3>4, Specs
        <5> QED
          BY <1>12, <1>14, <5>1, <5>2
      <4> QED
        BY <1>12, <1>14, <3>4, <4>1 DEF HonestInput
    <3> QED
      BY <1>12, <1>14, <2>1, <2>2, <3>1, <3>2, <3>3, <3>4 DEF InputSound, spec
  <2>5. headers' = << >>
    <3>1. headers' = headers
      BY <1>9, <1>10, <1>14
    <3> QED
      BY <3>1 DEF BatchInv, DecodeInput
  <2> QED
    BY <2>1, <2>4, <2>5 DEF BatchInv, TreeSound, DecodeInput
<1>15. CASE ~ (d.ok /\ resolve_spec_ok(d.input))
  <2>1. Reject(HonestInput(b))
    BY <1>10, <1>15
  <2>2. ~HonestInput(b)
    <3> SUFFICES ASSUME HonestInput(b) PROVE FALSE
      OBVIOUS
    <3>1. v \in SUPPORTED_BATCH_INPUT_VERSIONS
      BY <1>13, <1>v DEF HonestInput, SUPPORTED_BATCH_INPUT_VERSIONS, V3, V5, BATCH_INPUT_VERSION
    <3>2. d.ok
      BY <1>8, <3>1
    <3>3. resolve_spec_ok(n)
      BY <1>12, <1>13, <3>2, HonestResolves
    <3> QED
      BY <1>9, <1>15, <3>2, <3>3
  <2> QED
    BY <2>1, <2>2, RejectBatch DEF Reject
<1> QED
  BY <1>14, <1>15

\* The type of a sequence of blocks.
LEMMA BlockSeqFacts ==
    ASSUME NEW bs \in BlockSeqs
    PROVE  /\ IsSeq(bs) /\ DOMAIN bs = 1..Len(bs) /\ Len(bs) \in Nat
           /\ \A i \in 1..Len(bs) :
                 bs[i].number \in Nat /\ bs[i].timestamp \in Nat /\ bs[i].gas_limit \in Nat
<1>1. PICK n \in 0..MaxBlocks, g \in BlockGas :
        bs \in [1..n -> [number : 0..(MaxBlocks + 1), timestamp : Timestamps, gas_limit : {g}]]
  BY DEF BlockSeqs
<1>2. n \in Nat /\ bs = [k \in 1..n |-> bs[k]]
  BY <1>1
<1>3. IsSeq(bs) /\ Len(bs) = n /\ DOMAIN bs = 1..n
  BY <1>2, MakeSeq
<1>4. MaxBlocks + 1 \in Nat /\ g \in Nat /\ Timestamps \subseteq Nat
  BY <1>1, BatchAssumption
<1>5. ASSUME NEW i \in 1..n
      PROVE  bs[i].number \in Nat /\ bs[i].timestamp \in Nat /\ bs[i].gas_limit \in Nat
  <2>1. bs[i] \in [number : 0..(MaxBlocks + 1), timestamp : Timestamps, gas_limit : {g}]
    BY <1>1
  <2> QED
    <3>1. /\ bs[i].number \in 0..(MaxBlocks + 1) /\ bs[i].timestamp \in Timestamps
          /\ bs[i].gas_limit = g
      BY <2>1
    <3>2. ASSUME NEW x \in 0..(MaxBlocks + 1) PROVE x \in Nat
      OBVIOUS
    <3> QED
      BY <1>4, <3>1, <3>2
<1> QED
  BY <1>2, <1>3, <1>5

\* The gas limits are naturals.
LEMMA LimitFacts == MAX_BLOCK_GAS_LIMIT \in Nat /\ MAX_TX_GAS_LIMIT = MAX_BLOCK_GAS_LIMIT
BY MaxU64Assumption, BatchAssumption DEF MAX_BLOCK_GAS_LIMIT, MAX_TX_GAS_LIMIT

\* The blocks the server sends are admitted.
LEMMA HonestAdmitted ==
    ASSUME InputSound, honest, NEW bs \in BlockSeqs, HonestBlocks(bs)
    PROVE  validate_block_sequence(bs)
<1>1. /\ IsSeq(bs) /\ DOMAIN bs = 1..Len(bs) /\ Len(bs) \in Nat /\ Len(bs) >= 1
      /\ \A i \in 1..Len(bs) :
            bs[i].number \in Nat /\ bs[i].timestamp \in Nat /\ bs[i].gas_limit \in Nat
  BY BlockSeqFacts DEF HonestBlocks
<1>2. \A i \in 1..Len(bs) :
         /\ bs[i].number = Number0 + i
         /\ bs[i].timestamp >= IF i = 1 THEN Timestamp0 ELSE bs[i - 1].timestamp
         /\ IsAtlasV4 => bs[i].gas_limit <= MAX_BLOCK_GAS_LIMIT
  BY <1>1 DEF HonestBlocks
<1>3. bs # << >>
  BY <1>1, EmptySequence
<1>4. validate_atlas_v4_block_invariants(bs)
  <2> SUFFICES ASSUME IsAtlasV4
      PROVE  /\ input.max_tx_gas_limit >= DEFAULT_MAX_TX_GAS_LIMIT
             /\ input.pubdata_content \in {PUBDATA_CONTENT_FULL, PUBDATA_CONTENT_LOGS_ONLY}
             /\ \A i \in DOMAIN bs :
                   /\ bs[i].number >= 1
                   /\ bs[i].gas_limit <= MAX_BLOCK_GAS_LIMIT
                   /\ Minimum(bs[i].gas_limit, input.max_tx_gas_limit) <= MAX_TX_GAS_LIMIT
    BY DEF validate_atlas_v4_block_invariants
  <2>1. /\ input.max_tx_gas_limit >= DEFAULT_MAX_TX_GAS_LIMIT /\ input.pubdata_content \in {0, 1}
        /\ input.max_tx_gas_limit \in Nat
    BY BatchAssumption DEF InputSound, IsAtlasV4
  <2>2. ASSUME NEW i \in DOMAIN bs
        PROVE  /\ bs[i].number >= 1
               /\ bs[i].gas_limit <= MAX_BLOCK_GAS_LIMIT
               /\ Minimum(bs[i].gas_limit, input.max_tx_gas_limit) <= MAX_TX_GAS_LIMIT
    <3>1. i \in 1..Len(bs)
      BY <1>1
    <3>2. bs[i].number >= 1
      BY <1>1, <1>2, <3>1 DEF Number0
    <3>3. bs[i].gas_limit <= MAX_BLOCK_GAS_LIMIT /\ bs[i].gas_limit \in Nat
      BY <1>1, <1>2, <3>1
    <3> DEFINE g == bs[i].gas_limit
               c == input.max_tx_gas_limit
    <3>4. g \in Nat /\ c \in Nat /\ g <= MAX_BLOCK_GAS_LIMIT
      BY <2>1, <3>3
    <3> HIDE DEF g, c
    <3>5. Minimum(g, c) <= MAX_TX_GAS_LIMIT
      BY <3>4, LimitFacts DEF Minimum
    <3> QED
      BY <3>2, <3>3, <3>5 DEF g, c
  <2> QED
    BY <2>1, <2>2 DEF PUBDATA_CONTENT_FULL, PUBDATA_CONTENT_LOGS_ONLY
<1>5. bs[1].number = Number0 + 1 /\ bs[1].timestamp >= Timestamp0
  BY <1>1, <1>2
<1>6. ASSUME NEW i \in 1..(Len(bs) - 1)
      PROVE  bs[i + 1].number = bs[i].number + 1 /\ bs[i + 1].timestamp >= bs[i].timestamp
  <2>1. i \in 1..Len(bs) /\ i + 1 \in 1..Len(bs) /\ i + 1 # 1 /\ (i + 1) - 1 = i /\ i \in Nat
    BY <1>1
  <2>2. bs[i].number = Number0 + i /\ bs[i + 1].number = Number0 + (i + 1)
    BY <1>2, <2>1
  <2>3. bs[i + 1].timestamp >= bs[i].timestamp
    BY <1>2, <2>1
  <2> QED
    BY <2>1, <2>2, <2>3 DEF Number0
<1> QED
  BY <1>3, <1>4, <1>5, <1>6 DEF validate_block_sequence

\* The first block starts with no transactions.
LEMMA FlattenFirst == Pieces(<<<< >>>>) /\ FlattenSeq(<<<< >>>>) = << >>
<1> DEFINE s == <<<< >>>>
<1>1. IsSeq(s) /\ Len(s) = 1 /\ s[1] = << >>
  BY ShortSeqs
<1> HIDE DEF s
<1>2. Pieces(s)
  <2>1. \A i \in 1..1 : i = 1
    OBVIOUS
  <2> QED
    BY <1>1, <2>1, EmptySequence DEF Pieces
<1>3. PICK g : Flattens(s, 1, g) /\ FlattenSeq(s) = g[1]
  <2>1. Len(s) \in Nat /\ Len(s) # 0
    BY <1>1
  <2> QED
    BY <1>1, <2>1, FlattenDef, Zenon
<1>4. g[1] = s[1]
  BY <1>3 DEF Flattens
<1> QED
  BY <1>1, <1>2, <1>3, <1>4 DEF s

\* validate_block_sequence.
LEMMA AdmitBatch == ASSUME BatchInv, AdmitBlocks PROVE BatchInv'
<1>0. pc = "admit" /\ InputSound /\ TreeSound /\ headers = << >>
  BY DEF AdmitBlocks, BatchInv
<1>1. PICK bs \in BlockSeqs :
        IF validate_block_sequence(bs)
        THEN /\ pc' = "exec" /\ blocks' = bs /\ txs' = <<<< >>>>
             /\ honest' = (honest /\ HonestBlocks(bs))
             /\ UNCHANGED <<input, tree, headers, meta, out>>
        ELSE Reject(honest /\ HonestBlocks(bs))
  BY DEF AdmitBlocks
<1>2. CASE validate_block_sequence(bs)
  <2>1. /\ pc' = "exec" /\ blocks' = bs /\ txs' = <<<< >>>>
        /\ honest' = (honest /\ HonestBlocks(bs))
        /\ input' = input /\ tree' = tree /\ headers' = << >>
    BY <1>0, <1>1, <1>2
  <2>2. InputSound'
    BY <1>0, <2>1 DEF InputSound, spec
  <2>3. BlocksSound'
    <3>1. validate_block_sequence(bs)'
      BY <1>2, <2>1, SameInput
    <3> QED
      BY <2>1, <3>1 DEF BlocksSound, BlockSeqs, validate_block_sequence,
           validate_atlas_v4_block_invariants
  <2>4. Len(bs) \in Nat /\ Len(bs) >= 1
    <3>1. bs # << >> /\ IsSeq(bs)
      BY <1>2, BlockSeqFacts DEF validate_block_sequence
    <3>2. Len(bs) \in Nat /\ Len(bs) # 0
      BY <3>1, EmptyIffZero DEF IsSeq
    <3> QED
      BY <3>2
  <2>5. /\ Pieces(txs') /\ Len(txs') = 1 /\ \A b \in 1..1 : txs'[b] = << >>
        /\ FlattenSeq(txs') = << >>
    <3>1. \A b \in 1..1 : b = 1
      OBVIOUS
    <3>2. Len(<<<< >>>>) = 1 /\ <<<< >>>>[1] = << >>
      BY ShortSeqs
    <3> QED
      BY <2>1, <3>1, <3>2, FlattenFirst
  <2>6. TxsSound'
    BY <2>1, <2>4, <2>5, EmptySequence DEF TxsSound
  <2>7. HeadersSound'
    BY <2>1, <2>5, EmptySequence DEF HeadersSound
  <2>8. HonestSound'
    <3>1. FlatTxs' = << >>
      BY <2>5 DEF FlatTxs
    <3> QED
      BY <3>1, EmptySequence DEF HonestSound
  <2> QED
    BY <1>0, <2>1, <2>2, <2>3, <2>6, <2>7, <2>8 DEF BatchInv, TreeSound
<1>3. CASE ~validate_block_sequence(bs)
  <2>1. Reject(honest /\ HonestBlocks(bs))
    BY <1>1, <1>3
  <2>2. ~ (honest /\ HonestBlocks(bs))
    BY <1>0, <1>3, HonestAdmitted
  <2> QED
    BY <2>1, <2>2, RejectBatch DEF Reject
<1> QED
  BY <1>2, <1>3

\* What an operator can submit.
LEMMA TxInputFacts ==
    ASSUME NEW tx \in TxInputs
    PROVE  /\ tx.enc \in Encodings /\ tx.gas_used = tx.enc.gas /\ tx.gas_used \in 0..MaxU64
           /\ tx.auth \in {"L1", "Upgrade", "L2", "System"}
           /\ tx.enc.kind \in {"abi", "envelope", "system"}
<1>1. PICK a \in {"L1", "Upgrade", "L2", "System"}, h \in Encodings, e \in Encodings :
        tx = [auth |-> a, tx_hash |-> Hash(h), enc |-> e, gas_used |-> e.gas]
  BY DEF TxInputs
<1>2. tx.auth = a /\ tx.enc = e /\ tx.gas_used = e.gas
  BY <1>1
<1> QED
  BY <1>1, <1>2, EncodingsAssumption

Limit(tx) == build_proven_tx(tx, Block.gas_limit, MaxTxGasLimit)
Executes(tx) ==
    /\ Limit(tx).ok /\ ~(IsAtlasV4 /\ Limit(tx).type = BLOB_TX_TYPE)
    /\ Transacts(Limit(tx), tx)

\* What each builder checked.
LEMMA BuiltIsSound ==
    ASSUME InputSound, NEW tx \in TxInputs, Limit(tx).ok, Block.gas_limit \in Nat
    PROVE  TxSound(tx)
<1>0. /\ tx.enc \in Encodings /\ tx.auth \in {"L1", "Upgrade", "L2", "System"}
      /\ tx.enc.gas \in Nat
  BY TxInputFacts
<1>p. Panic.ok = FALSE
  BY DEF Panic
<1>1. CASE tx.auth \in {"L1", "Upgrade"}
  <2>1. Limit(tx) = build_l1_upgrade_tx(tx)
    BY <1>1 DEF Limit, build_proven_tx
  <2>2. tx.enc.kind = "abi" /\ tx.tx_hash = Hash(tx.enc)
    BY <1>p, <2>1 DEF build_l1_upgrade_tx
  <2> QED
    BY <1>0, <1>1, <2>2 DEF TxSound
<1>2. CASE tx.auth = "L2"
  <2> DEFINE i == IF MaxTxGasLimit = << >> THEN Block.gas_limit
                  ELSE Minimum(Block.gas_limit, MaxTxGasLimit[1])
  <2>1. Limit(tx) = build_l2_tx(tx, i)
    BY <1>2 DEF Limit, build_proven_tx
  <2> HIDE DEF i
  <2>2. tx.enc.kind = "envelope" /\ ~ (tx.enc.gas > i)
    BY <1>p, <2>1 DEF build_l2_tx
  <2>3. IsAtlasV4 => tx.enc.gas <= input.max_tx_gas_limit
    <3> SUFFICES ASSUME IsAtlasV4 PROVE tx.enc.gas <= input.max_tx_gas_limit
      OBVIOUS
    <3> DEFINE c == input.max_tx_gas_limit
               g == Block.gas_limit
               x == tx.enc.gas
    <3>1. MaxTxGasLimit = <<c>>
      BY DEF MaxTxGasLimit
    <3>2. i = Minimum(g, c)
      BY <3>1 DEF i
    <3>3. c \in Nat /\ g \in Nat /\ x \in Nat /\ ~ (x > i)
      BY <1>0, <2>2, BatchAssumption DEF InputSound
    <3> HIDE DEF c, g, x
    <3>4. x <= c
      BY <3>2, <3>3 DEF Minimum
    <3> QED
      BY <3>4 DEF c, x
  <2> QED
    BY <1>0, <1>2, <2>2, <2>3 DEF TxSound
<1>3. CASE tx.auth = "System"
  <2>1. Limit(tx) = build_system_tx(tx, Block.gas_limit)
    BY <1>3 DEF Limit, build_proven_tx
  <2>2. decode_system_tx_ok(tx)
    BY <1>p, <2>1 DEF build_system_tx
  <2> QED
    BY <1>0, <1>3, <2>2 DEF TxSound, decode_system_tx_ok
<1> QED
  BY <1>0, <1>1, <1>2, <1>3

\* The server's transactions are executed.
LEMMA HonestExecutes ==
    ASSUME InputSound, NEW tx \in TxInputs, Plausible(tx), HonestTx(tx), Block.gas_limit \in Nat
    PROVE  Executes(tx)
<1>0. /\ tx.enc \in Encodings /\ tx.auth \in {"L1", "Upgrade", "L2", "System"}
      /\ tx.gas_used = tx.enc.gas /\ tx.enc.gas \in 0..MaxU64
      /\ tx.enc.kind \in {"abi", "envelope", "system"}
  BY TxInputFacts
<1>m. MaxU64 \in Nat
  BY MaxU64Assumption
<1>1. CASE tx.enc.kind = "abi"
  <2>1. /\ tx.tx_hash = Hash(tx.enc) /\ tx.enc.type \in {L1_TX_TYPE, UPGRADE_TX_TYPE}
        /\ tx.auth \in {"L1", "Upgrade"}
    BY <1>1 DEF HonestTx
  <2> DEFINE g == tx.enc.gas
             l == IF tx.enc.type = UPGRADE_TX_TYPE THEN saturating_mul(g, 10) ELSE g
  <2>2. Limit(tx) = Built(tx.tx_hash, tx.enc.type, l)
    <3>1. Limit(tx) = build_l1_upgrade_tx(tx)
      BY <2>1 DEF Limit, build_proven_tx
    <3> QED
      BY <1>1, <2>1, <3>1, Zenon DEF build_l1_upgrade_tx
  <2>3. g <= l
    <3>1. g \in Nat /\ g <= MaxU64
      BY <1>0, <1>m
    <3> HIDE DEF g
    <3>2. g <= saturating_mul(g, 10)
      BY <1>m, <3>1 DEF saturating_mul, Minimum
    <3> QED
      BY <3>1, <3>2
  <2> HIDE DEF l
  <2>4. Limit(tx).ok /\ Limit(tx).type = tx.enc.type /\ Limit(tx).gas_limit = l
    BY <2>2 DEF Built
  <2>5. tx.enc.type # BLOB_TX_TYPE
    BY <2>1 DEF L1_TX_TYPE, UPGRADE_TX_TYPE, BLOB_TX_TYPE
  <2> QED
    BY <1>0, <2>3, <2>4, <2>5 DEF Executes, Transacts
<1>2. CASE tx.enc.kind = "envelope"
  <2>1. /\ tx.auth = "L2" /\ tx.enc.signed /\ tx.enc.type # BLOB_TX_TYPE
        /\ tx.enc.gas <= Block.gas_limit
        /\ IsAtlasV4 => tx.enc.gas <= input.max_tx_gas_limit
    BY <1>2 DEF HonestTx
  <2> DEFINE i == IF MaxTxGasLimit = << >> THEN Block.gas_limit
                  ELSE Minimum(Block.gas_limit, MaxTxGasLimit[1])
  <2>2. Limit(tx) = build_l2_tx(tx, i)
    BY <2>1 DEF Limit, build_proven_tx
  <2>3. ~ (tx.enc.gas > i)
    <3> DEFINE c == input.max_tx_gas_limit
               g == Block.gas_limit
               x == tx.enc.gas
    <3>0. c \in Nat
      BY BatchAssumption DEF InputSound
    <3>1. c \in Nat /\ g \in Nat /\ x \in Nat /\ x <= g /\ (IsAtlasV4 => x <= c)
      BY <1>0, <1>m, <2>1, <3>0
    <3>2. i = IF IsAtlasV4 THEN Minimum(g, c) ELSE g
      BY DEF MaxTxGasLimit
    <3> HIDE DEF c, g, x, i
    <3>3. ~ (x > i)
      BY <3>1, <3>2 DEF Minimum
    <3> QED
      BY <3>3 DEF x
  <2> HIDE DEF i
  <2>4. Limit(tx) = Built(Hash(tx.enc), tx.enc.type, tx.enc.gas)
    BY <1>2, <2>1, <2>2, <2>3, Zenon DEF build_l2_tx
  <2>5. Limit(tx).ok /\ Limit(tx).type = tx.enc.type /\ Limit(tx).gas_limit = tx.enc.gas
    BY <2>4 DEF Built
  <2>6. tx.gas_used <= tx.enc.gas
    BY <1>2 DEF HonestTx
  <2> QED
    BY <2>1, <2>5, <2>6 DEF Executes, Transacts
<1>3. CASE tx.enc.kind = "system"
  <2>1. /\ tx.auth = "System" /\ tx.tx_hash = Hash(tx.enc) /\ tx.gas_used <= Block.gas_limit
        /\ tx.enc.type = SYSTEM_TX_TYPE
    BY <1>3 DEF HonestTx
  <2>2. Limit(tx) = build_system_tx(tx, Block.gas_limit)
    BY <2>1 DEF Limit, build_proven_tx
  <2>3. Limit(tx) = Built(tx.tx_hash, SYSTEM_TX_TYPE, Block.gas_limit)
    BY <1>3, <2>1, <2>2, Zenon DEF build_system_tx, decode_system_tx_ok
  <2>4. Limit(tx).ok /\ Limit(tx).type = SYSTEM_TX_TYPE /\ Limit(tx).gas_limit = Block.gas_limit
    BY <2>3 DEF Built
  <2>5. SYSTEM_TX_TYPE # BLOB_TX_TYPE
    BY DEF SYSTEM_TX_TYPE, BLOB_TX_TYPE
  <2> QED
    BY <2>1, <2>4, <2>5 DEF Executes, Transacts
<1> QED
  BY <1>0, <1>1, <1>2, <1>3

\* One turn of run_evm_block's loop.
LEMMA ExecuteBatch == ASSUME BatchInv, ExecuteTx PROVE BatchInv'
<1>0. /\ pc = "exec" /\ InputSound /\ TreeSound
      /\ BlocksSound /\ TxsSound /\ HeadersSound /\ HonestSound
  BY DEF ExecuteTx, BatchInv
<1>1. PICK tx \in TxInputs :
        /\ Plausible(tx)
        /\ IF Executes(tx)
           THEN /\ txs' = [txs EXCEPT ![Len(txs)] = Append(@, tx)]
                /\ tree' = Applied(tree, tx)
                /\ honest' = (honest /\ HonestTx(tx))
                /\ UNCHANGED <<pc, input, blocks, headers, meta, out>>
           ELSE Reject(honest /\ HonestTx(tx))
  BY Zenon DEF ExecuteTx, Executes, Limit
<1>2. Block.gas_limit \in Nat
  <2>1. Len(txs) \in 1..Len(blocks)
    BY <1>0, BlockSeqFacts DEF TxsSound, BlocksSound, Pieces, IsSeq
  <2> QED
    BY <1>0, <2>1, BlockSeqFacts DEF BlocksSound, Block
<1>3. CASE Executes(tx)
  <2>1. /\ txs' = [txs EXCEPT ![Len(txs)] = Append(@, tx)]
        /\ tree' = Applied(tree, tx) /\ honest' = (honest /\ HonestTx(tx))
        /\ pc' = pc /\ input' = input /\ blocks' = blocks /\ headers' = headers
    BY <1>1, <1>3
  <2>2. TxSound(tx)
    BY <1>0, <1>2, <1>3, BuiltIsSound DEF Executes
  <2>3. /\ Pieces(txs') /\ Len(txs') = Len(txs)
        /\ \A i \in 1..Len(txs) : txs'[i] = IF i = Len(txs) THEN Append(txs[i], tx) ELSE txs[i]
        /\ FlattenSeq(txs') = Append(FlattenSeq(txs), tx)
    <3>1. Pieces(txs) /\ Len(txs) >= 1
      BY <1>0 DEF TxsSound
    <3> DEFINE t == [txs EXCEPT ![Len(txs)] = Append(@, tx)]
    <3>2. txs' = t
      BY <2>1
    <3>3. Appends(t, txs, tx)
      BY DEF Appends
    <3> HIDE DEF t
    <3>4. /\ Pieces(t) /\ Len(t) = Len(txs)
          /\ \A i \in 1..Len(txs) : t[i] = IF i = Len(txs) THEN Append(txs[i], tx) ELSE txs[i]
          /\ FlattenSeq(t) = Append(FlattenSeq(txs), tx)
      BY <3>1, <3>3, FlattenAppend
    <3> QED
      BY <3>2, <3>4, Zenon
  <2>4. InputSound'
    BY <1>0, <2>1 DEF InputSound, spec
  <2>5. BlocksSound'
    BY <1>0, <2>1, SameInput DEF BlocksSound, BlockSeqs, validate_block_sequence,
         validate_atlas_v4_block_invariants
  <2>6. TxsSound'
    <3>1. ASSUME NEW b \in 1..Len(txs), NEW i \in 1..Len(txs'[b]) PROVE TxSound(txs'[b][i])
      <4>1. IsSeq(txs[b]) /\ \A k \in 1..Len(txs[b]) : TxSound(txs[b][k])
        BY <1>0 DEF TxsSound, Pieces
      <4>2. CASE b # Len(txs)
        BY <2>3, <3>1, <4>1, <4>2
      <4>3. CASE b = Len(txs)
        <5> DEFINE l == txs[b]
        <5>1. /\ Len(Append(l, tx)) = Len(l) + 1 /\ Append(l, tx)[Len(l) + 1] = tx
              /\ \A k \in 1..Len(l) : Append(l, tx)[k] = l[k]
          BY <4>1, AppendFacts
        <5>2. txs'[b] = Append(l, tx) /\ Len(l) \in Nat
          BY <2>3, <4>1, <4>3 DEF IsSeq
        <5>3. i \in 1..Len(l) \/ i = Len(l) + 1
          BY <5>1, <5>2
        <5> HIDE DEF l
        <5> QED
          BY <2>2, <4>1, <5>1, <5>2, <5>3 DEF l
      <4> QED
        BY <4>2, <4>3
    <3>2. \A t : TxSound(t)' <=> TxSound(t)
      BY <2>1, SameInput
    <3> QED
      BY <1>0, <2>1, <2>3, <3>1, <3>2 DEF TxsSound
  <2>7. HeadersSound'
    <3>1. \A a, b, l : HeaderOf(a, b, l)' = HeaderOf(a, b, l)
      BY <2>1, SameInput
    <3>2. IsAtlasV4' <=> IsAtlasV4
      BY <2>1, SameInput
    <3>3. \A b \in 1..Len(headers) : txs'[b] = txs[b]
      <4>1. Len(headers) = Len(txs) - 1 /\ Len(txs) \in Nat
        BY <1>0 DEF HeadersSound, TxsSound, Pieces, IsSeq
      <4>2. \A b \in 1..Len(headers) : b \in 1..Len(txs) /\ b # Len(txs)
        BY <4>1
      <4> QED
        BY <2>3, <4>2
    <3> QED
      BY <1>0, <2>1, <2>3, <3>1, <3>2, <3>3 DEF HeadersSound
  <2>8. HonestSound'
    <3> SUFFICES ASSUME honest, HonestTx(tx)
        PROVE  /\ \A i \in 1..Len(FlatTxs') :
                     /\ FlatTxs'[i].auth = "System" => interop_selector_ok(FlatTxs'[i], import_abi)
                     /\ FlatTxs'[i].auth = "Upgrade" => FlatTxs'[i].enc.type = UPGRADE_TX_TYPE
               /\ \A i, j \in 1..Len(FlatTxs') :
                     (FlatTxs'[i].auth = "Upgrade" /\ FlatTxs'[j].auth = "Upgrade") => i = j
      <4>1. import_abi' = import_abi
        BY <2>1, SameInput
      <4> QED
        BY <2>1, <4>1 DEF HonestSound
    <3> DEFINE f == FlatTxs
               g == FlatTxs'
    <3>1. IsSeq(f) /\ g = Append(f, tx) /\ DOMAIN f = 1..Len(f) /\ Len(f) \in Nat
      <4>1. IsSeq(f)
        BY <1>0, FlattenIsSeq DEF TxsSound, FlatTxs
      <4> QED
        BY <2>3, <4>1 DEF FlatTxs, IsSeq
    <3>2. /\ Len(g) = Len(f) + 1 /\ g[Len(f) + 1] = tx
          /\ \A k \in 1..Len(f) : g[k] = f[k]
      BY <3>1, AppendFacts
    <3>3. /\ \A i \in 1..Len(f) :
                /\ f[i].auth = "System" => interop_selector_ok(f[i], import_abi)
                /\ f[i].auth = "Upgrade" => f[i].enc.type = UPGRADE_TX_TYPE
          /\ \A i, j \in 1..Len(f) : (f[i].auth = "Upgrade" /\ f[j].auth = "Upgrade") => i = j
      BY <1>0 DEF HonestSound
    <3>4. /\ tx.auth = "System" => interop_selector_ok(tx, import_abi)
          /\ tx.auth = "Upgrade" => tx.enc.type = UPGRADE_TX_TYPE
      <4>0. tx.enc.kind \in {"abi", "envelope", "system"}
        BY TxInputFacts
      <4>1. CASE tx.enc.kind = "abi"
        BY <4>1 DEF HonestTx
      <4>2. CASE tx.enc.kind = "envelope"
        BY <4>2 DEF HonestTx
      <4>3. CASE tx.enc.kind = "system"
        BY <4>3 DEF HonestTx
      <4> QED
        BY <4>0, <4>1, <4>2, <4>3
    <3>5. tx.auth = "Upgrade" => \A i \in 1..Len(f) : f[i].auth # "Upgrade"
      BY <3>1 DEF HonestTx
    <3> HIDE DEF f, g
    <3>6. \A i \in 1..Len(g) : i \in 1..Len(f) \/ i = Len(f) + 1
      BY <3>1, <3>2
    <3>7. \A i \in 1..Len(g) :
             /\ g[i].auth = "System" => interop_selector_ok(g[i], import_abi)
             /\ g[i].auth = "Upgrade" => g[i].enc.type = UPGRADE_TX_TYPE
      BY <3>2, <3>3, <3>4, <3>6
    <3>8. ASSUME NEW i \in 1..Len(g), NEW j \in 1..Len(g),
                 g[i].auth = "Upgrade", g[j].auth = "Upgrade"
          PROVE  i = j
      <4>1. CASE i \in 1..Len(f) /\ j \in 1..Len(f)
        BY <3>2, <3>3, <3>8, <4>1
      <4>2. CASE i = Len(f) + 1 /\ j = Len(f) + 1
        BY <4>2
      <4>3. CASE i \in 1..Len(f) /\ j = Len(f) + 1
        BY <3>2, <3>5, <3>8, <4>3
      <4>4. CASE j \in 1..Len(f) /\ i = Len(f) + 1
        BY <3>2, <3>5, <3>8, <4>4
      <4> QED
        BY <3>6, <4>1, <4>2, <4>3, <4>4
    <3> QED
      BY <3>7, <3>8 DEF g
  <2>9. TreeSound'
    BY <1>0, <2>1, AppliedHoldsId DEF TreeSound
  <2> QED
    BY <1>0, <2>1, <2>4, <2>5, <2>6, <2>7, <2>8, <2>9 DEF BatchInv
<1>4. CASE ~Executes(tx)
  <2>1. Reject(honest /\ HonestTx(tx))
    BY <1>1, <1>4
  <2>2. ~ (honest /\ HonestTx(tx))
    BY <1>0, <1>1, <1>2, <1>4, HonestExecutes
  <2> QED
    BY <2>1, <2>2, RejectBatch DEF Reject
<1> QED
  BY <1>3, <1>4

\* The header hash follows from the parent's and the block.
LEMMA HeaderComputed ==
    ASSUME NEW l
    PROVE  computed_header_hash(l)
             = HeaderOf(IF headers = << >> THEN Header0 ELSE Last(headers), blocks[Len(txs)], l)
BY Zenon DEF computed_header_hash, HeaderOf, Block

\* The header chain, one block longer.
LEMMA HeadersGrow ==
    ASSUME TxsSound, HeadersSound, pc = "exec", NEW hs,
           hs = Append(headers, computed_header_hash(Last(txs))),
           IsAtlasV4 => FitsTree(Last(txs), BLOCK_TX_TREE_DEPTH)
    PROVE  /\ IsSeq(hs) /\ Len(hs) = Len(txs)
           /\ \A b \in 1..Len(hs) :
                 /\ hs[b] = HeaderOf(IF b = 1 THEN Header0 ELSE hs[b - 1], blocks[b], txs[b])
                 /\ IsAtlasV4 => FitsTree(txs[b], BLOCK_TX_TREE_DEPTH)
<1> DEFINE n == Len(headers)
           h == computed_header_hash(Last(txs))
<1>0. n \in Nat /\ IsSeq(headers) /\ Len(txs) = n + 1
  <2>1. IsSeq(headers) /\ n = Len(txs) - 1
    BY DEF HeadersSound
  <2>2. n \in Nat /\ Len(txs) \in Nat
    BY <2>1 DEF IsSeq, TxsSound, Pieces
  <2> HIDE DEF n
  <2> QED
    BY <2>1, <2>2
<1>1. /\ IsSeq(hs) /\ Len(hs) = n + 1 /\ hs[n + 1] = h
      /\ \A k \in 1..n : hs[k] = headers[k]
  BY <1>0, AppendFacts
<1>2. Last(txs) = txs[n + 1]
  BY <1>0 DEF Last
<1>3. h = HeaderOf(IF n + 1 = 1 THEN Header0 ELSE hs[n], blocks[n + 1], txs[n + 1])
  <2>1. h = HeaderOf(IF headers = << >> THEN Header0 ELSE Last(headers), blocks[n + 1], txs[n + 1])
    BY <1>0, <1>2, HeaderComputed
  <2>2. CASE n = 0
    <3>1. headers = << >> /\ n + 1 = 1
      BY <1>0, <2>2, EmptyIffZero
    <3> QED
      BY <2>1, <3>1
  <2>3. CASE n # 0
    <3>1. headers # << >> /\ n + 1 # 1 /\ n \in 1..n
      BY <1>0, <2>3, EmptySequence
    <3>2. Last(headers) = hs[n]
      BY <1>1, <3>1 DEF Last
    <3> QED
      BY <2>1, <3>1, <3>2
  <2> QED
    BY <2>2, <2>3
<1>4. ASSUME NEW b \in 1..(n + 1)
      PROVE  /\ hs[b] = HeaderOf(IF b = 1 THEN Header0 ELSE hs[b - 1], blocks[b], txs[b])
             /\ IsAtlasV4 => FitsTree(txs[b], BLOCK_TX_TREE_DEPTH)
  <2>1. CASE b = n + 1
    <3>1. b - 1 = n
      BY <1>0, <2>1
    <3> HIDE DEF n, h
    <3> QED
      BY <1>1, <1>2, <1>3, <2>1, <3>1
  <2>2. CASE b # n + 1
    <3>1. b \in 1..n /\ (b # 1 => b - 1 \in 1..n)
      BY <1>0, <2>2
    <3>2. hs[b] = headers[b] /\ (b # 1 => hs[b - 1] = headers[b - 1])
      BY <1>1, <3>1
    <3>3. /\ headers[b] = HeaderOf(IF b = 1 THEN Header0 ELSE headers[b - 1], blocks[b], txs[b])
          /\ IsAtlasV4 => FitsTree(txs[b], BLOCK_TX_TREE_DEPTH)
      BY <3>1 DEF HeadersSound
    <3> HIDE DEF n, h
    <3> QED
      BY <3>2, <3>3
  <2> QED
    BY <2>1, <2>2
<1> QED
  BY <1>0, <1>1, <1>4

SealOk(sealed) ==
    /\ IsAtlasV4 => sealed # "zero"
    /\ sealed # "wrong"
    /\ IsAtlasV4 => FitsTree(Last(txs), BLOCK_TX_TREE_DEPTH)
SealHonest(sealed) ==
    /\ honest /\ (sealed = "right" \/ (sealed = "zero" /\ ~IsAtlasV4))
    /\ Len(Last(txs)) <= 2 ^ BLOCK_TX_TREE_DEPTH

\* The end of execute_block_proven.
LEMMA SealBatch == ASSUME BatchInv, SealBlock PROVE BatchInv'
<1>0. /\ pc = "exec" /\ InputSound /\ TreeSound
      /\ BlocksSound /\ TxsSound /\ HeadersSound /\ HonestSound
  BY DEF SealBlock, BatchInv
<1>1. PICK sealed \in {"zero", "right", "wrong"} :
        IF ~SealOk(sealed) THEN Reject(SealHonest(sealed))
        ELSE /\ headers' = Append(headers, computed_header_hash(Last(txs)))
             /\ honest' = SealHonest(sealed)
             /\ IF Len(txs) < Len(blocks)
                THEN txs' = Append(txs, << >>) /\ UNCHANGED pc
                ELSE pc' = "commit" /\ UNCHANGED txs
             /\ UNCHANGED <<input, blocks, tree, meta, out>>
  BY Zenon DEF SealBlock, SealOk, SealHonest
<1>2. CASE ~SealOk(sealed)
  <2>1. Reject(SealHonest(sealed))
    BY <1>1, <1>2
  <2>2. ~SealHonest(sealed)
    BY <1>2 DEF SealOk, SealHonest, FitsTree
  <2> QED
    BY <2>1, <2>2, RejectBatch DEF Reject
<1>3. CASE SealOk(sealed)
  <2>1. /\ headers' = Append(headers, computed_header_hash(Last(txs)))
        /\ honest' = SealHonest(sealed)
        /\ input' = input /\ blocks' = blocks /\ tree' = tree
        /\ \/ Len(txs) < Len(blocks) /\ txs' = Append(txs, << >>) /\ pc' = pc
           \/ ~(Len(txs) < Len(blocks)) /\ pc' = "commit" /\ txs' = txs
    BY <1>1, <1>3
  <2>2. honest' => honest
    BY <2>1 DEF SealHonest
  <2>3. /\ IsSeq(headers') /\ Len(headers') = Len(txs)
        /\ \A b \in 1..Len(headers') :
              /\ headers'[b] = HeaderOf(IF b = 1 THEN Header0 ELSE headers'[b - 1],
                                        blocks[b], txs[b])
              /\ IsAtlasV4 => FitsTree(txs[b], BLOCK_TX_TREE_DEPTH)
    BY <1>0, <1>3, <2>1, HeadersGrow DEF SealOk
  <2>4. /\ Pieces(txs') /\ FlatTxs' = FlatTxs
        /\ Len(txs) \in Nat /\ Len(blocks) \in Nat /\ Len(txs) >= 1 /\ Len(txs) <= Len(blocks)
        /\ \A b \in 1..Len(txs) : txs'[b] = txs[b]
        /\ pc' = "exec" => /\ Len(txs') = Len(txs) + 1 /\ Len(txs) < Len(blocks)
                           /\ txs'[Len(txs) + 1] = << >>
        /\ pc' = "commit" => Len(txs') = Len(txs) /\ Len(txs) = Len(blocks)
        /\ pc' \in {"exec", "commit"}
    <3>0. /\ Pieces(txs) /\ Len(txs) \in Nat /\ Len(blocks) \in Nat /\ Len(txs) >= 1
          /\ Len(txs) <= Len(blocks)
      BY <1>0, BlockSeqFacts DEF TxsSound, Pieces, IsSeq, BlocksSound
    <3>1. CASE Len(txs) < Len(blocks) /\ txs' = Append(txs, << >>) /\ pc' = pc
      <4>1. Pieces(Append(txs, << >>)) /\ FlattenSeq(Append(txs, << >>)) = FlattenSeq(txs)
        BY <3>0, FlattenOpen
      <4>2. /\ Len(Append(txs, << >>)) = Len(txs) + 1
            /\ Append(txs, << >>)[Len(txs) + 1] = << >>
            /\ \A k \in 1..Len(txs) : Append(txs, << >>)[k] = txs[k]
        BY <3>0, AppendFacts DEF Pieces
      <4>3. pc' = "exec"
        BY <1>0, <3>1
      <4> QED
        BY <3>0, <3>1, <4>1, <4>2, <4>3 DEF FlatTxs
    <3>2. CASE ~(Len(txs) < Len(blocks)) /\ pc' = "commit" /\ txs' = txs
      <4>1. Len(txs) = Len(blocks)
        BY <3>0, <3>2
      <4> QED
        BY <3>0, <3>2, <4>1 DEF FlatTxs
    <3> QED
      BY <2>1, <3>1, <3>2
  <2>5. InputSound'
    BY <1>0, <2>1, <2>2 DEF InputSound, spec
  <2>6. BlocksSound'
    BY <1>0, <2>1, SameInput DEF BlocksSound, BlockSeqs, validate_block_sequence,
         validate_atlas_v4_block_invariants
  <2>7. TxsSound'
    <3>1. \A t : TxSound(t)' <=> TxSound(t)
      BY <2>1, SameInput
    <3>2. Len(txs') >= 1 /\ Len(txs') <= Len(blocks)
      BY <2>4
    <3>3. ASSUME NEW b \in 1..Len(txs'), NEW i \in 1..Len(txs'[b]) PROVE TxSound(txs'[b][i])
      <4>1. CASE b \in 1..Len(txs)
        BY <1>0, <2>4, <3>3, <4>1 DEF TxsSound
      <4>2. CASE b \notin 1..Len(txs)
        <5>1. txs'[b] = << >>
          BY <2>4, <4>2
        <5> QED
          BY <3>3, <5>1, EmptySequence
      <4> QED
        BY <4>1, <4>2
    <3> QED
      BY <2>1, <2>4, <3>1, <3>2, <3>3 DEF TxsSound
  <2>8. HeadersSound'
    <3>1. \A a, b, l : HeaderOf(a, b, l)' = HeaderOf(a, b, l)
      BY <2>1, SameInput
    <3>2. IsAtlasV4' <=> IsAtlasV4
      BY <2>1, SameInput
    <3>3. \A b \in 1..Len(headers') : txs'[b] = txs[b]
      BY <2>3, <2>4
    <3>4. /\ pc' = "exec" => Len(headers') = Len(txs') - 1
          /\ pc' \in {"commit", "done"} => Len(headers') = Len(txs') /\ Len(txs') = Len(blocks')
      BY <2>1, <2>3, <2>4
    <3> QED
      BY <2>1, <2>3, <3>1, <3>2, <3>3, <3>4 DEF HeadersSound
  <2>9. HonestSound'
    <3>1. import_abi' = import_abi
      BY <2>1, SameInput
    <3> QED
      BY <1>0, <2>2, <2>4, <3>1 DEF HonestSound
  <2> QED
    BY <1>0, <2>1, <2>4, <2>5, <2>6, <2>7, <2>8, <2>9 DEF BatchInv, TreeSound
<1> QED
  BY <1>2, <1>3

Post(m) == [tree EXCEPT ![ForcedSlot] = IF m.forced THEN 1 ELSE 0]
CommitOk(m) ==
    /\ m.forced => m.upgrade_tx_hash # ZERO
    /\ upgrade_ok(m.upgrade_tx_hash)
    /\ \A i \in DOMAIN SystemTxs : interop_selector_ok(SystemTxs[i], import_abi)
    /\ FitsTree(AllLogs, L2_TO_L1_TREE_HEIGHT)
    /\ m.da_scheme \in 0..4

\* The labelled transactions are some of the batch.
LEMMA LabelledFacts ==
    ASSUME TxsSound, NEW a
    PROVE  LET L == Labelled(a)
               S == {i \in 1..Len(FlatTxs) : FlatTxs[i].auth \in a}
           IN  /\ IsSeq(FlatTxs) /\ DOMAIN FlatTxs = 1..Len(FlatTxs)
               /\ IsSeq(L) /\ DOMAIN L = 1..Len(L)
               /\ L = Picked(FlatTxs, S)
               /\ IsFiniteSet(S) /\ Len(L) = Cardinality(S)
               /\ \A k \in 1..Len(L) : \E i \in S : L[k] = FlatTxs[i]
               /\ \A i \in S : \E k \in 1..Len(L) : L[k] = FlatTxs[i]
<1> DEFINE S == {i \in 1..Len(FlatTxs) : FlatTxs[i].auth \in a}
           f == FlatTxs
           L == Picked(f, S)
<1>1. IsSeq(f)
  BY FlattenIsSeq DEF TxsSound, FlatTxs
<1>2. DOMAIN f = 1..Len(f)
  <2> HIDE DEF f
  <2> QED
    BY <1>1 DEF IsSeq
<1>3. Labelled(a) = L
  BY <1>2 DEF Labelled
<1>4. S \subseteq 1..Len(f)
  OBVIOUS
<1> HIDE DEF S, f
<1>s. Selects(Picked(f, S), f, S)
  BY <1>1, <1>4, PickedFacts
<1> HIDE DEF L
<1>t. Selects(L, f, S)
  BY <1>s DEF L
<1>5. /\ IsSeq(L) /\ IsFiniteSet(S) /\ Len(L) = Cardinality(S)
      /\ \A k \in 1..Len(L) : \E i \in S : L[k] = f[i]
      /\ \A i \in S : \E k \in 1..Len(L) : L[k] = f[i]
  BY <1>t, Zenon DEF Selects
<1>6. DOMAIN L = 1..Len(L)
  BY <1>5 DEF IsSeq
<1> QED
  BY <1>1, <1>2, <1>3, <1>5, <1>6 DEF S, f, L

\* The server's upgrade hash passes the checks.
LEMMA HonestCommits ==
    ASSUME TxsSound, HonestSound, honest, NEW m, HonestMeta(m)
    PROVE  CommitOk(m)
<1> DEFINE ups == Labelled({"Upgrade"})
           S == {i \in 1..Len(FlatTxs) : FlatTxs[i].auth \in {"Upgrade"}}
           hash == m.upgrade_tx_hash
<1>1. /\ IsSeq(ups) /\ DOMAIN ups = 1..Len(ups) /\ IsFiniteSet(S) /\ Len(ups) = Cardinality(S)
      /\ \A k \in 1..Len(ups) : \E i \in S : ups[k] = FlatTxs[i]
  BY LabelledFacts
<1>2. \A i, j \in S : i = j
  BY DEF HonestSound
<1>3. Len(ups) \in {0, 1}
  <2>1. CASE S = {}
    BY <1>1, <2>1, FS_EmptySet
  <2>2. CASE S # {}
    <3>1. PICK i : i \in S
      BY <2>2
    <3>2. S = {i}
      BY <1>2, <3>1
    <3> HIDE DEF S
    <3>3. Cardinality({i}) = 1
      BY FS_Singleton
    <3> QED
      BY <1>1, <3>2, <3>3
  <2> QED
    BY <2>1, <2>2
<1>4. hash = IF ups = << >> THEN ZERO ELSE ups[1].tx_hash
  BY DEF HonestMeta
<1>5. \A k \in 1..Len(ups) : ups[k].tx_hash # ZERO
  <2> SUFFICES ASSUME NEW k \in 1..Len(ups) PROVE ups[k].tx_hash # ZERO
    OBVIOUS
  <2>1. PICK i \in S : ups[k] = FlatTxs[i]
    BY <1>1
  <2>2. PICK b \in 1..Len(txs) : \E j \in 1..Len(txs[b]) : FlatTxs[i] = txs[b][j]
    BY FlattenMembers DEF FlatTxs, TxsSound
  <2>3. TxSound(FlatTxs[i])
    BY <2>2 DEF TxsSound
  <2>4. FlatTxs[i].auth = "Upgrade"
    OBVIOUS
  <2>5. FlatTxs[i].tx_hash = Hash(FlatTxs[i].enc)
    BY <2>3, <2>4 DEF TxSound
  <2>6. \A e : Hash(e) # ZERO
    BY DEF Hash, keccak256, ZERO
  <2> QED
    BY <2>1, <2>5, <2>6
<1>6. upgrade_ok(hash)
  <2> HIDE DEF ups, hash
  <2>1. CASE Len(ups) = 0
    <3>1. ups = << >>
      BY <1>1, <2>1, EmptyIffZero
    <3>2. hash = ZERO /\ \A i \in DOMAIN ups : ups[i].tx_hash = hash
      BY <1>1, <1>4, <2>1, <3>1
    <3>3. Len(ups) <= 1 /\ ~ (Len(ups) = 1)
      BY <2>1
    <3> QED
      BY <3>2, <3>3 DEF upgrade_ok, ups
  <2>2. CASE Len(ups) = 1
    <3>1. ups # << >> /\ 1 \in 1..Len(ups) /\ \A i \in 1..Len(ups) : i = 1
      BY <2>2, EmptySequence
    <3>2. hash = ups[1].tx_hash /\ hash # ZERO
      BY <1>4, <1>5, <3>1
    <3>3. Len(ups) <= 1 /\ \A i \in DOMAIN ups : ups[i].tx_hash = hash
      BY <1>1, <2>2, <3>1, <3>2
    <3> QED
      BY <2>2, <3>2, <3>3 DEF upgrade_ok, ups
  <2> QED
    BY <1>3, <2>1, <2>2
<1>7. \A i \in DOMAIN SystemTxs : interop_selector_ok(SystemTxs[i], import_abi)
  <2> DEFINE sys == Labelled({"System"})
             T == {i \in 1..Len(FlatTxs) : FlatTxs[i].auth \in {"System"}}
  <2>1. /\ DOMAIN sys = 1..Len(sys)
        /\ \A k \in 1..Len(sys) : \E i \in T : sys[k] = FlatTxs[i]
    BY LabelledFacts
  <2>2. \A i \in T : interop_selector_ok(FlatTxs[i], import_abi)
    BY DEF HonestSound
  <2> HIDE DEF T
  <2> QED
    BY <2>1, <2>2 DEF SystemTxs
<1> QED
  BY <1>6, <1>7 DEF CommitOk, HonestMeta, FitsTree

\* The server's proofs are accepted.
LEMMA HonestProves ==
    ASSUME InputSound, honest, NEW t, HoldsId(t), NEW p, HonestProof(p, t)
    PROVE  interop_ok(p, t)
<1> SUFFICES ASSUME spec >= AtlasV3 PROVE interop_ok(p, t)
  BY DEF interop_ok
<1>1. p = <<ProofsFrom(t, t, Tree0, t, t)>>
  BY DEF HonestProof, HonestProofs
<1> DEFINE q == ProofsFrom(t, t, Tree0, t, t)
           At(x) == Proof(x, NodesSlot("InteropCommitmentTree",
                                       x[HeightSlot("InteropCommitmentTree")]))
           H(x) == Proof(x, HeightSlot("InteropCommitmentTree"))
<1>2. /\ q.sl = Proof(t, SlChainSlot)
      /\ q.mr_height = Proof(t, HeightSlot("MessageRoot"))
      /\ q.mr_root = Proof(t, NodesSlot("MessageRoot", t[HeightSlot("MessageRoot")]))
      /\ q.ct = IF input.ct = NONE THEN << >> ELSE <<H(Tree0), At(Tree0), H(t), At(t)>>
  BY DEF ProofsFrom
<1>3. \A x, s : Proof(x, s).tree = x /\ Proof(x, s).slot = s /\ Value(Proof(x, s)) = x[s]
  BY DEF Proof, Value
<1>4. \A x, s : Proves(Proof(x, s), s, TreeRoot(x))
  BY <1>3 DEF Proves
<1>5. p[1] = q /\ p # << >>
  BY <1>1
<1> HIDE DEF q
<1>6. derive_multichain_root_ok(q, TreeRoot(t))
  BY <1>2, <1>3, <1>4 DEF derive_multichain_root_ok, derive_merkle_engine_root_ok
<1>7. derive_sl_chain_id_ok(q.sl, TreeRoot(t), MaxU64)
  <2>1. t[SlChainSlot] <= MaxU64
    BY BatchAssumption, MaxU64Assumption DEF HoldsId
  <2> QED
    BY <1>2, <1>3, <1>4, <2>1 DEF derive_sl_chain_id_ok
<1>8. ASSUME IsAtlasV4
      PROVE  /\ q.ct # << >>
             /\ derive_interop_commitment_tree_roots_ok(q.ct, TreeRoot(Tree0), TreeRoot(t))
  <2>1. input.ct # NONE
    BY <1>8 DEF IsAtlasV4, InputSound
  <2>2. /\ q.ct # << >> /\ q.ct[1] = H(Tree0) /\ q.ct[2] = At(Tree0)
        /\ q.ct[3] = H(t) /\ q.ct[4] = At(t)
    BY <1>2, <2>1
  <2> QED
    BY <1>3, <1>4, <2>2 DEF derive_interop_commitment_tree_roots_ok,
         derive_merkle_engine_root_ok
<1> QED
  BY <1>5, <1>6, <1>7, <1>8 DEF interop_ok

\* The second half of run_execution_and_commit.
LEMMA CommitBatch == ASSUME BatchInv, Commit PROVE BatchInv'
<1>0. /\ pc = "commit" /\ InputSound /\ TreeSound
      /\ BlocksSound /\ TxsSound /\ HeadersSound /\ HonestSound
  BY DEF Commit, BatchInv
<1>1. PICK m \in Metas :
        IF ~CommitOk(m) THEN Reject(honest /\ HonestMeta(m))
        ELSE \E p \in InteropProofs(Post(m)) :
            IF ~interop_ok(p, Post(m))
            THEN Reject(honest /\ HonestMeta(m) /\ HonestProof(p, Post(m)))
            ELSE /\ pc' = "done"
                 /\ honest' = (honest /\ HonestMeta(m) /\ HonestProof(p, Post(m)))
                 /\ tree' = Post(m) /\ meta' = m
                 /\ out' = batch_public_input_hash(state_before, state_after(Post(m)),
                                                   chain_config, batch_hash(m, p))
                 /\ UNCHANGED <<input, blocks, txs, headers>>
  BY Zenon DEF Commit, CommitOk, Post
<1>2. CASE ~CommitOk(m)
  <2>1. Reject(honest /\ HonestMeta(m))
    BY <1>1, <1>2
  <2>2. ~ (honest /\ HonestMeta(m))
    BY <1>0, <1>2, HonestCommits
  <2> QED
    BY <2>1, <2>2, RejectBatch DEF Reject
<1>3. CASE CommitOk(m)
  <2>1. PICK p \in InteropProofs(Post(m)) :
            IF ~interop_ok(p, Post(m))
            THEN Reject(honest /\ HonestMeta(m) /\ HonestProof(p, Post(m)))
            ELSE /\ pc' = "done"
                 /\ honest' = (honest /\ HonestMeta(m) /\ HonestProof(p, Post(m)))
                 /\ tree' = Post(m) /\ meta' = m
                 /\ out' = batch_public_input_hash(state_before, state_after(Post(m)),
                                                   chain_config, batch_hash(m, p))
                 /\ UNCHANGED <<input, blocks, txs, headers>>
    BY <1>1, <1>3
  <2>2. HoldsId(Post(m))
    BY <1>0, ForcedHoldsId DEF TreeSound, Post
  <2>3. CASE ~interop_ok(p, Post(m))
    <3>1. Reject(honest /\ HonestMeta(m) /\ HonestProof(p, Post(m)))
      BY <2>1, <2>3
    <3>2. ~ (honest /\ HonestMeta(m) /\ HonestProof(p, Post(m)))
      BY <1>0, <2>2, <2>3, HonestProves
    <3> QED
      BY <3>1, <3>2, RejectBatch DEF Reject
  <2>4. CASE interop_ok(p, Post(m))
    <3>1. /\ pc' = "done" /\ (honest' => honest /\ HonestMeta(m))
          /\ tree' = Post(m) /\ meta' = m
          /\ out' = batch_public_input_hash(state_before, state_after(Post(m)),
                                            chain_config, batch_hash(m, p))
          /\ input' = input /\ blocks' = blocks /\ txs' = txs /\ headers' = headers
      BY <2>1, <2>4
    <3>2. InputSound'
      BY <1>0, <3>1 DEF InputSound, spec
    <3>3. BlocksSound'
      BY <1>0, <3>1, SameInput DEF BlocksSound, BlockSeqs, validate_block_sequence,
           validate_atlas_v4_block_invariants
    <3>4. TxsSound'
      <4>1. \A t : TxSound(t)' <=> TxSound(t)
        BY <3>1, SameInput
      <4> QED
        BY <1>0, <3>1, <4>1 DEF TxsSound
    <3>5. HeadersSound'
      <4>1. /\ \A a, b, l : HeaderOf(a, b, l)' = HeaderOf(a, b, l)
            /\ IsAtlasV4' <=> IsAtlasV4
        BY <3>1, SameInput
      <4> QED
        BY <1>0, <3>1, <4>1 DEF HeadersSound
    <3>6. HonestSound'
      <4>1. import_abi' = import_abi /\ FlatTxs' = FlatTxs
        BY <3>1, SameInput, SameTxs
      <4> QED
        BY <1>0, <3>1, <4>1 DEF HonestSound
    <3>7. Committed(p)'
      <4>1. interop_ok(p, tree)'
        BY <2>4, <3>1, SameBatch DEF interop_ok
      <4>2. IsOutput(meta, p)'
        BY <3>1, SameBatch, Zenon DEF IsOutput
      <4>3. upgrade_ok(meta.upgrade_tx_hash)'
        BY <1>3, <3>1, SameTxs DEF CommitOk, upgrade_ok
      <4>4. (meta.forced => meta.upgrade_tx_hash # ZERO)'
        BY <1>3, <3>1 DEF CommitOk
      <4>5. (\A i \in DOMAIN SystemTxs : interop_selector_ok(SystemTxs[i], import_abi))'
        BY <1>3, <3>1, SameTxs, SameInput DEF CommitOk
      <4>6. FitsTree(AllLogs, L2_TO_L1_TREE_HEIGHT)'
        BY <1>3, <3>1, SameTxs DEF CommitOk
      <4>7. (honest => HonestMeta(meta))'
        BY <3>1, SameTxs DEF HonestMeta
      <4> QED
        BY <4>1, <4>2, <4>3, <4>4, <4>5, <4>6, <4>7 DEF Committed
    <3>8. TreeSound'
      BY <2>2, <3>1 DEF TreeSound
    <3> QED
      BY <3>1, <3>2, <3>3, <3>4, <3>5, <3>6, <3>7, <3>8 DEF BatchInv
  <2> QED
    BY <2>3, <2>4
<1> QED
  BY <1>2, <1>3

\* A step that changes nothing.
LEMMA StutterBatch == ASSUME BatchInv, UNCHANGED vars PROVE BatchInv'
<1>1. /\ pc' = pc /\ input' = input /\ blocks' = blocks /\ txs' = txs /\ tree' = tree
      /\ headers' = headers /\ honest' = honest /\ meta' = meta /\ out' = out
  BY DEF vars
<1>2. InputSound' <=> InputSound
  BY <1>1, Zenon DEF InputSound, spec
<1>3. BlocksSound' <=> BlocksSound
  BY <1>1, SameInput DEF BlocksSound, BlockSeqs, validate_block_sequence,
       validate_atlas_v4_block_invariants
<1>4. TxsSound' <=> TxsSound
  <2>1. \A t : TxSound(t)' <=> TxSound(t)
    BY <1>1, SameInput
  <2> QED
    BY <1>1, <2>1 DEF TxsSound
<1>5. HeadersSound' <=> HeadersSound
  <2>1. /\ \A a, b, l : HeaderOf(a, b, l)' = HeaderOf(a, b, l)
        /\ IsAtlasV4' <=> IsAtlasV4
    BY <1>1, SameInput
  <2> QED
    BY <1>1, <2>1 DEF HeadersSound
<1>6. HonestSound' <=> HonestSound
  <2>1. import_abi' = import_abi /\ FlatTxs' = FlatTxs
    BY <1>1, SameInput, SameTxs
  <2> QED
    BY <1>1, <2>1 DEF HonestSound
<1>7. TreeSound' <=> TreeSound
  BY <1>1 DEF TreeSound
<1>8. ASSUME NEW p, Committed(p) PROVE Committed(p)'
  <2>1. interop_ok(p, tree)'
    BY <1>1, <1>8, SameBatch DEF Committed, interop_ok
  <2>2. IsOutput(meta, p)'
    BY <1>1, <1>8, SameBatch, Zenon DEF Committed, IsOutput
  <2>3. upgrade_ok(meta.upgrade_tx_hash)'
    BY <1>1, <1>8, SameTxs DEF Committed, upgrade_ok
  <2>4. (meta.forced => meta.upgrade_tx_hash # ZERO)'
    BY <1>1, <1>8 DEF Committed
  <2>5. (\A i \in DOMAIN SystemTxs : interop_selector_ok(SystemTxs[i], import_abi))'
    BY <1>1, <1>8, SameTxs, SameInput DEF Committed
  <2>6. FitsTree(AllLogs, L2_TO_L1_TREE_HEIGHT)'
    BY <1>1, <1>8, SameTxs DEF Committed
  <2>7. (honest => HonestMeta(meta))'
    BY <1>1, <1>8, SameTxs DEF Committed, HonestMeta
  <2> QED
    BY <2>1, <2>2, <2>3, <2>4, <2>5, <2>6, <2>7 DEF Committed
<1> QED
  BY <1>1, <1>2, <1>3, <1>4, <1>5, <1>6, <1>7, <1>8 DEF BatchInv

\* The invariant is inductive.
THEOREM BatchSound == Spec => []BatchInv
<1>1. Init => BatchInv
  BY InitBatch
<1>2. BatchInv /\ [Next]_vars => BatchInv'
  BY DecodeBatch, AdmitBatch, ExecuteBatch, SealBatch, CommitBatch, StutterBatch DEF Next
<1> QED
  BY <1>1, <1>2, PTL DEF Spec

-----------------------------------------------------------------------------
(* The spec and the chain config. *)

\* The words of a chain config at AtlasV4.
LEMMA Tuple4 == \A a, b, c, d : <<a, b, c, d>> \o << >> = <<a, b, c, d>>
BY DEF IsSeq

\* The words of a chain config at AtlasV5.
LEMMA Tuple6 ==
    ASSUME NEW a, NEW b, NEW c, NEW d, NEW e, NEW f
    PROVE  <<a, b, c, d>> \o <<e, f>> = <<a, b, c, d, e, f>>
<1> DEFINE u == <<a, b, c, d>>
           v == <<e, f>>
           w == u \o v
<1>1. IsSeq(u) /\ Len(u) = 4 /\ u[1] = a /\ u[2] = b /\ u[3] = c /\ u[4] = d
  BY DEF IsSeq
<1>2. IsSeq(v) /\ Len(v) = 2 /\ v[1] = e /\ v[2] = f
  BY ShortSeqs
<1> HIDE DEF u, v
<1>3. IsCat(w, u, v)
  BY <1>1, <1>2, CatIs
<1> HIDE DEF w
<1>4. /\ IsSeq(w) /\ Len(w) = 6 /\ w[1] = a /\ w[2] = b /\ w[3] = c /\ w[4] = d
      /\ w[4 + 1] = e /\ w[4 + 2] = f
  BY <1>1, <1>2, <1>3 DEF IsCat
<1>5. w = <<a, b, c, d, e, f>>
  BY <1>4 DEF IsSeq
<1> QED
  BY <1>5 DEF w, u, v

\* Words of different values differ, and so do flags.
LEMMA WordInjective == ASSUME NEW a, NEW b, Word(a) = Word(b) PROVE a = b
BY DEF Word, ZERO

\* Different flags have different words.
LEMMA FlagInjective ==
    ASSUME NEW a \in BOOLEAN, NEW b \in BOOLEAN, Flag(a) = Flag(b) PROVE a = b
<1>1. (IF a THEN 1 ELSE 0) = (IF b THEN 1 ELSE 0)
  BY WordInjective DEF Flag
<1> QED
  BY <1>1

\* One hash opens as four words at AtlasV4 and as six at AtlasV5.
LEMMA ConfigWords ==
    ASSUME NEW c
    PROVE  /\ chain_config_hash("AtlasV4", c)
                = keccak256(<<Word(c.chain_id), Flag(c.fri), Word(c.max_tx_gas_limit),
                              Word(c.pubdata_content)>>)
           /\ chain_config_hash("AtlasV5", c)
                = keccak256(<<Word(c.chain_id), Flag(c.fri), Word(c.max_tx_gas_limit),
                              Word(c.pubdata_content), Flag(c.l1_tx_filtering),
                              Flag(c.large_contracts)>>)
           /\ L1ConfigHash(AtlasV4, c) = chain_config_hash("AtlasV4", c)
           /\ L1ConfigHash(AtlasV5, c) = chain_config_hash("AtlasV5", c)
<1> DEFINE x1 == Word(c.chain_id)
           x2 == Flag(c.fri)
           x3 == Word(c.max_tx_gas_limit)
           x4 == Word(c.pubdata_content)
           x5 == Flag(c.l1_tx_filtering)
           x6 == Flag(c.large_contracts)
           t4 == <<x1, x2, x3, x4>>
           t6 == <<x1, x2, x3, x4, x5, x6>>
<1>1. /\ chain_config_hash("AtlasV4", c) = keccak256(t4 \o << >>)
      /\ chain_config_hash("AtlasV5", c) = keccak256(t4 \o <<x5, x6>>)
  BY Zenon DEF chain_config_hash
<1>2. /\ L1ConfigHash(AtlasV4, c) = keccak256(t4)
      /\ L1ConfigHash(AtlasV5, c) = keccak256(t4 \o <<x5, x6>>)
  <2>1. AtlasV5 # AtlasV4
    BY Specs
  <2> QED
    BY <2>1, Zenon DEF L1ConfigHash
<1> HIDE DEF x1, x2, x3, x4, x5, x6
<1>3. t4 \o << >> = t4
  BY ONLY Tuple4
<1>4. t4 \o <<x5, x6>> = t6
  BY ONLY Tuple6
<1> QED
  BY <1>1, <1>2, <1>3, <1>4, Zenon DEF x1, x2, x3, x4, x5, x6

\* A chain-config hash determines the spec and every value it covers.
LEMMA ConfigPinned ==
    ASSUME NEW s \in {AtlasV4, AtlasV5}, NEW t \in {AtlasV4, AtlasV5}, NEW a, NEW c,
           L1ConfigHash(t, a) = L1ConfigHash(s, c),
           a.l1_tx_filtering \in BOOLEAN, a.large_contracts \in BOOLEAN,
           c.l1_tx_filtering \in BOOLEAN, c.large_contracts \in BOOLEAN
    PROVE  /\ t = s /\ a.max_tx_gas_limit = c.max_tx_gas_limit
           /\ a.pubdata_content = c.pubdata_content
           /\ s = AtlasV5 => /\ a.l1_tx_filtering = c.l1_tx_filtering
                             /\ a.large_contracts = c.large_contracts
<1> DEFINE T4(x) == <<Word(x.chain_id), Flag(x.fri), Word(x.max_tx_gas_limit),
                      Word(x.pubdata_content)>>
           T6(x) == <<Word(x.chain_id), Flag(x.fri), Word(x.max_tx_gas_limit),
                      Word(x.pubdata_content), Flag(x.l1_tx_filtering),
                      Flag(x.large_contracts)>>
<1>1. \A x : /\ L1ConfigHash(AtlasV4, x) = keccak256(T4(x))
             /\ L1ConfigHash(AtlasV5, x) = keccak256(T6(x))
  BY ConfigWords, Zenon
<1>2. \A x, y : keccak256(x) = keccak256(y) => x = y
  BY DEF keccak256
<1>3. \A x, y : T4(x) # T6(y)
  <2>1. \A x, y : Len(T4(x)) = 4 /\ Len(T6(y)) = 6
    OBVIOUS
  <2> HIDE DEF T4, T6
  <2>2. SUFFICES ASSUME NEW x, NEW y, T4(x) = T6(y) PROVE FALSE
    OBVIOUS
  <2> QED
    BY <2>1, <2>2
<1>4. CASE t = AtlasV4 /\ s = AtlasV4
  <2>1. T4(a) = T4(c)
    <3> HIDE DEF T4, T6
    <3> QED
      BY <1>1, <1>2, <1>4
  <2>2. /\ Word(a.max_tx_gas_limit) = Word(c.max_tx_gas_limit)
        /\ Word(a.pubdata_content) = Word(c.pubdata_content)
    BY <2>1
  <2> QED
    BY <1>4, <2>2, WordInjective, Specs
<1>5. CASE t = AtlasV5 /\ s = AtlasV5
  <2>1. T6(a) = T6(c)
    <3> HIDE DEF T4, T6
    <3> QED
      BY <1>1, <1>2, <1>5
  <2>2. /\ Word(a.max_tx_gas_limit) = Word(c.max_tx_gas_limit)
        /\ Word(a.pubdata_content) = Word(c.pubdata_content)
        /\ Flag(a.l1_tx_filtering) = Flag(c.l1_tx_filtering)
        /\ Flag(a.large_contracts) = Flag(c.large_contracts)
    BY <2>1
  <2> QED
    BY <1>5, <2>2, WordInjective, FlagInjective
<1>6. CASE t # s
  <2> HIDE DEF T4, T6
  <2> QED
    BY <1>1, <1>2, <1>3, <1>6
<1> QED
  BY <1>4, <1>5, <1>6

\* Every executed transaction is sound.
LEMMA FlatSound ==
    ASSUME TxsSound
    PROVE  /\ IsSeq(FlatTxs) /\ DOMAIN FlatTxs = 1..Len(FlatTxs) /\ Len(FlatTxs) \in Nat
           /\ \A i \in 1..Len(FlatTxs) : TxSound(FlatTxs[i])
<1>1. IsSeq(FlatTxs)
  BY FlattenIsSeq DEF TxsSound, FlatTxs
<1>2. DOMAIN FlatTxs = 1..Len(FlatTxs) /\ Len(FlatTxs) \in Nat
  BY <1>1 DEF IsSeq
<1>3. ASSUME NEW i \in 1..Len(FlatTxs) PROVE TxSound(FlatTxs[i])
  <2>1. PICK b \in 1..Len(txs) : \E j \in 1..Len(txs[b]) : FlatTxs[i] = txs[b][j]
    BY FlattenMembers DEF FlatTxs, TxsSound
  <2> QED
    BY <2>1 DEF TxsSound
<1> QED
  BY <1>1, <1>2, <1>3

\* What a settlement layer that accepts the batch knows.
Accepted(s, c, u, p) ==
    /\ pc = "done" /\ Committed(p) /\ InputSound /\ BlocksSound /\ TxsSound /\ HeadersSound
    /\ s \in AtlasV1..AtlasV5 /\ c \in L1Configs(s) /\ u \in L1Upgrades
    /\ L1Accepts(s, c, u, out) /\ Alike(s) /\ Opens(s, meta, p)

\* The invariant, for a batch some settlement layer accepts.
LEMMA AcceptedFacts ==
    ASSUME BatchInv, pc = "done", NEW s \in AtlasV1..AtlasV5, L1Shape(s, out),
           NEW c \in L1Configs(s), NEW u \in L1Upgrades, L1Accepts(s, c, u, out)
    PROVE  \E p : Accepted(s, c, u, p)
<1>1. PICK p : Committed(p)
  BY DEF BatchInv
<1>2. InputSound /\ BlocksSound /\ TxsSound /\ HeadersSound
  BY DEF BatchInv
<1>3. spec \in AtlasV1..AtlasV5 /\ IsOutput(meta, p)
  BY <1>1, <1>2 DEF InputSound, Committed
<1>4. Alike(s)
  BY <1>3, ShapeAlike
<1>5. Opens(s, meta, p)
  BY <1>3, <1>4, OpensAlike
<1> QED
  BY <1>1, <1>2, <1>4, <1>5 DEF Accepted

\* The spec and the chain config of an accepted batch.
LEMMA PinnedWhenAccepted ==
    ASSUME NEW s, NEW c, NEW u, NEW p, Accepted(s, c, u, p)
    PROVE  /\ spec = s \/ {spec, s} = {AtlasV1, AtlasV2}
           /\ input.large_contracts = c.large_contracts
           /\ input.l1_tx_filtering = c.l1_tx_filtering
           /\ IsAtlasV4 => /\ input.max_tx_gas_limit = c.max_tx_gas_limit
                           /\ input.pubdata_content = c.pubdata_content
                           /\ \A i \in DOMAIN FlatTxs :
                                 FlatTxs[i].enc.kind = "envelope" =>
                                     FlatTxs[i].enc.gas <= c.max_tx_gas_limit
<1> DEFINE sp == spec
           a == ChainConfigOf
<1>0. /\ sp \in AtlasV1..AtlasV5 /\ s \in AtlasV1..AtlasV5
      /\ sp < AtlasV5 => ~input.l1_tx_filtering /\ ~input.large_contracts
      /\ input.l1_tx_filtering \in BOOLEAN /\ input.large_contracts \in BOOLEAN
  BY DEF Accepted, InputSound
<1>1. /\ s < AtlasV5 => ~c.l1_tx_filtering /\ ~c.large_contracts
      /\ c.l1_tx_filtering \in BOOLEAN /\ c.large_contracts \in BOOLEAN
  BY DEF Accepted, L1Configs
<1>2. /\ a.l1_tx_filtering = input.l1_tx_filtering /\ a.large_contracts = input.large_contracts
      /\ a.max_tx_gas_limit = input.max_tx_gas_limit /\ a.pubdata_content = input.pubdata_content
  BY DEF ChainConfigOf
<1>3. Alike(s)
  BY DEF Accepted
<1>4. CASE sp < AtlasV4
  <2>1. (sp = s \/ {sp, s} = {AtlasV1, AtlasV2}) /\ s < AtlasV4
    <3>1. \/ sp <= AtlasV2 /\ s <= AtlasV2
          \/ sp = AtlasV3 /\ s = AtlasV3
      BY <1>0, <1>3, <1>4, Specs DEF Alike
    <3> HIDE DEF sp
    <3>2. sp \in {0, 1, 2} /\ s \in {0, 1, 2} /\ (sp = 2 <=> s = 2)
      BY <1>0, <3>1, Specs
    <3> QED
      BY <3>2, Specs
  <2>2. sp < AtlasV5 /\ s < AtlasV5 /\ ~IsAtlasV4
    <3>1. sp < AtlasV5 /\ s < AtlasV5 /\ ~(sp >= AtlasV4)
      <4> HIDE DEF sp
      <4> QED
        BY <1>0, <1>4, <2>1, Specs
    <3> QED
      BY <3>1 DEF IsAtlasV4
  <2> QED
    BY <1>0, <1>1, <2>1, <2>2
<1>5. CASE ~(sp < AtlasV4)
  <2>1. sp \in {AtlasV4, AtlasV5} /\ s \in {AtlasV4, AtlasV5} /\ s >= AtlasV4
    <3>1. s >= AtlasV4
      BY <1>0, <1>3, <1>5, Specs DEF Alike
    <3> HIDE DEF sp
    <3> QED
      BY <1>0, <1>5, <3>1, Specs
  <2>2. Words(out)[3] = L1ConfigHash(s, c)
    BY <2>1 DEF Accepted, L1Accepts
  <2>3. Words(out)[3] = L1ConfigHash(sp, a)
    <3>1. /\ sp = AtlasV4 => Words(out)[3] = chain_config_hash("AtlasV4", a)
          /\ sp = AtlasV5 => Words(out)[3] = chain_config_hash("AtlasV5", a)
      BY DEF Accepted, Opens
    <3> HIDE DEF a, sp
    <3> QED
      BY <2>1, <3>1, ConfigWords
  <2> HIDE DEF a
  <2>4. /\ sp = s /\ a.max_tx_gas_limit = c.max_tx_gas_limit
        /\ a.pubdata_content = c.pubdata_content
        /\ s = AtlasV5 => /\ a.l1_tx_filtering = c.l1_tx_filtering
                          /\ a.large_contracts = c.large_contracts
    <3>1. L1ConfigHash(sp, a) = L1ConfigHash(s, c)
      BY <2>2, <2>3
    <3>2. a.l1_tx_filtering \in BOOLEAN /\ a.large_contracts \in BOOLEAN
      BY <1>0, <1>2
    <3> HIDE DEF sp
    <3> QED
      BY <1>1, <2>1, <3>1, <3>2, ConfigPinned
  <2>5. s < AtlasV5 => input.l1_tx_filtering = c.l1_tx_filtering
                       /\ input.large_contracts = c.large_contracts
    BY <1>0, <1>1, <2>4
  <2>6. s < AtlasV5 \/ s = AtlasV5
    BY <2>1, Specs
  <2>7. ASSUME NEW i \in DOMAIN FlatTxs, FlatTxs[i].enc.kind = "envelope", IsAtlasV4
        PROVE  FlatTxs[i].enc.gas <= input.max_tx_gas_limit
    <3>1. TxSound(FlatTxs[i])
      BY FlatSound DEF Accepted
    <3> QED
      BY <2>7, <3>1 DEF TxSound
  <2> QED
    BY <1>2, <2>4, <2>5, <2>6, <2>7
<1> QED
  BY <1>4, <1>5

\* A batch the settlement layer accepts ran under its spec and chain config.
THEOREM SpecPinnedHolds == Spec => []SpecPinned
<1>1. BatchInv => SpecPinned
  BY AcceptedFacts, PinnedWhenAccepted, Zenon DEF SpecPinned, WhenAccepted
<1> QED
  BY <1>1, BatchSound, PTL

-----------------------------------------------------------------------------
(* The folds.  One step of each, and what FoldLeft makes of it. *)

\* Fold of fixed_height_root: one level of the tree, in place.
Level(hash, e, n, level) ==
    [n EXCEPT !.count = (n.count + 1) \div 2,
              !.nodes = [i \in DOMAIN n.nodes |->
                  IF i > (n.count + 1) \div 2 THEN n.nodes[i]
                  ELSE compress(hash, n.nodes[2 * i - 1],
                            IF 2 * i <= n.count THEN n.nodes[2 * i]
                            ELSE e[level])]]

\* Fold of the reference for the imported roots.
RootStep(s, r, root) ==
    keccak256(IF s >= AtlasV4
        THEN <<r, Word(root.chain_id), Word(root.number), Word(root.ts)>> \o root.sides
        ELSE <<r, Word(root.chain_id), Word(root.number)>> \o root.sides)

FoldStep(kind, par, list, r, i) ==
    CASE kind = "roll" -> compress("keccak", r, list[i])
      [] kind = "level" -> Level(par[1], par[2], r, list[i])
      [] kind = "roots" -> keccak256(<<r>> \o InteropRootWords(par, list[i]))
      [] kind = "txs" -> fold_system_tx_interop_roots(list[i], par, r)
      [] kind = "flat" -> RootStep(par, r, list[i])

FoldsTo(kind, par, list, base, S, f) ==
    f = [s \in SUBSET S |-> IF s = {} THEN base
                            ELSE FoldStep(kind, par, list, f[s \ {Max(s)}], Max(s))]

Chain(kind, par, list, base, n, g) ==
    /\ g[0] = base
    /\ \A k \in 1..n : g[k] = FoldStep(kind, par, list, g[k - 1], k)

\* Max, when it is known.
LEMMA MaxIs ==
    ASSUME NEW s, s \subseteq Nat, NEW m \in s, \A y \in s : y <= m PROVE Max(s) = m
<1>1. m \in s /\ \A y \in s : m >= y
  OBVIOUS
<1>2. Max(s) \in s /\ \A y \in s : Max(s) >= y
  BY <1>1 DEF Max
<1>3. Max(s) >= m /\ m >= Max(s) /\ Max(s) \in Nat /\ m \in Nat
  BY <1>1, <1>2
<1> HIDE DEF Max
<1> QED
  BY <1>3

\* A finite set of positions has a greatest one.
LEMMA MaxExists ==
    ASSUME NEW n \in Nat, NEW s, s \subseteq 1..n, s # {}
    PROVE  Max(s) \in s
<1> DEFINE B == {m \in Nat : \A y \in s : y <= m}
<1>1. n \in B
  OBVIOUS
<1>2. PICK m \in B : \A x \in B : m <= x
  <2> HIDE DEF B
  <2>1. B \subseteq Nat
    BY DEF B
  <2> QED
    BY <1>1, <2>1, LeastElement
<1>3. m \in Nat /\ \A y \in s : y <= m
  OBVIOUS
<1>4. m \in s
  <2> SUFFICES ASSUME m \notin s PROVE FALSE
    OBVIOUS
  <2>1. PICK z : z \in s
    OBVIOUS
  <2>2. m - 1 \in Nat
    BY <1>3, <2>1
  <2>3. \A y \in s : y <= m - 1
    BY <1>3
  <2>4. m - 1 \in B
    BY <2>2, <2>3
  <2> HIDE DEF B
  <2>5. m <= m - 1
    BY <1>2, <2>4
  <2> QED
    BY <1>3, <2>5
<1>5. s \subseteq Nat
  OBVIOUS
<1>6. Max(s) = m
  BY <1>3, <1>4, <1>5, MaxIs
<1> QED
  BY <1>4, <1>6

\* The fold that FoldLeft's CHOOSE looks for exists.
LEMMA FoldExists ==
    ASSUME NEW kind, NEW par, NEW list, NEW base, NEW n \in Nat
    PROVE  \E f : FoldsTo(kind, par, list, base, 1..n, f)
<1> DEFINE St(r, i) == FoldStep(kind, par, list, r, i)
           F(m, f) == f = [s \in SUBSET (1..m) |->
                             IF s = {} THEN base ELSE St(f[s \ {Max(s)}], Max(s))]
           T == {m \in Nat : \E f : F(m, f)}
<1> HIDE DEF St
<1>1. 0 \in T
  <2> DEFINE f == [s \in SUBSET (1..0) |-> base]
  <2>1. \A s \in SUBSET (1..0) : s = {}
    OBVIOUS
  <2>2. F(0, f)
    BY <2>1
  <2> QED
    BY <2>2
<1>2. ASSUME NEW m \in Nat, m \in T PROVE m + 1 \in T
  <2>1. PICK g : F(m, g)
    BY <1>2
  <2>g. \A s \in SUBSET (1..m) :
            g[s] = IF s = {} THEN base ELSE St(g[s \ {Max(s)}], Max(s))
    BY <2>1
  <2> DEFINE h == [s \in SUBSET (1..(m + 1)) |->
                     IF m + 1 \in s THEN St(g[s \ {m + 1}], m + 1) ELSE g[s]]
  <2>2. ASSUME NEW s \in SUBSET (1..(m + 1))
        PROVE  h[s] = IF s = {} THEN base ELSE St(h[s \ {Max(s)}], Max(s))
    <3>1. CASE s = {}
      <4>1. h[s] = g[s] /\ s \in SUBSET (1..m)
        BY <3>1
      <4> QED
        BY <2>g, <3>1, <4>1
    <3>2. CASE m + 1 \in s
      <4>1. Max(s) = m + 1
        <5>1. s \subseteq Nat /\ \A y \in s : y <= m + 1
          OBVIOUS
        <5> QED
          BY <3>2, <5>1, MaxIs
      <4>2. s \ {m + 1} \in SUBSET (1..(m + 1)) /\ m + 1 \notin s \ {m + 1} /\ s # {}
        BY <3>2
      <4>3. h[s \ {m + 1}] = g[s \ {m + 1}]
        BY <4>2
      <4>4. h[s] = St(g[s \ {m + 1}], m + 1)
        BY <3>2
      <4> QED
        BY <4>1, <4>2, <4>3, <4>4, Zenon
    <3>3. CASE s # {} /\ m + 1 \notin s
      <4>1. s \in SUBSET (1..m)
        BY <3>3
      <4>2. Max(s) \in s
        BY <3>3, <4>1, MaxExists
      <4>3. /\ s \ {Max(s)} \in SUBSET (1..(m + 1)) /\ m + 1 \notin s \ {Max(s)}
        BY <4>1, <3>3
      <4>4. h[s \ {Max(s)}] = g[s \ {Max(s)}] /\ h[s] = g[s]
        BY <3>3, <4>3
      <4>5. g[s] = St(g[s \ {Max(s)}], Max(s))
        BY <2>g, <3>3, <4>1
      <4> QED
        BY <3>3, <4>4, <4>5, Zenon
    <3> QED
      BY <3>1, <3>2, <3>3
  <2>3. F(m + 1, h)
    <3>1. h = [s \in SUBSET (1..(m + 1)) |-> h[s]]
      OBVIOUS
    <3> HIDE DEF h
    <3> QED
      BY <2>2, <3>1
  <2>4. m + 1 \in Nat
    OBVIOUS
  <2> HIDE DEF F, h
  <2> QED
    BY <2>3, <2>4
<1>3. n \in T
  <2> HIDE DEF T
  <2> QED
    BY <1>1, <1>2, Induct
<1> QED
  BY <1>3 DEF FoldsTo, St

\* A fold goes through the list from its first element to its last.
LEMMA FoldChain ==
    ASSUME NEW kind, NEW par, NEW list, NEW base, NEW n \in Nat, NEW f,
           FoldsTo(kind, par, list, base, 1..n, f)
    PROVE  \E g : Chain(kind, par, list, base, n, g) /\ f[1..n] = g[n]
<1> DEFINE St(r, i) == FoldStep(kind, par, list, r, i)
           g == [k \in 0..n |-> f[1..k]]
<1> HIDE DEF St
<1>1. \A s \in SUBSET (1..n) : f[s] = IF s = {} THEN base ELSE St(f[s \ {Max(s)}], Max(s))
  BY DEF FoldsTo, St
<1>2. g[0] = base
  <2>1. 1..0 = {} /\ 1..0 \in SUBSET (1..n)
    OBVIOUS
  <2>2. f[1..0] = base
    BY <1>1, <2>1
  <2> QED
    BY <2>2
<1>3. ASSUME NEW k \in 1..n PROVE g[k] = St(g[k - 1], k)
  <2>0. k \in 0..n /\ k - 1 \in 0..n /\ k \in 1..k
    OBVIOUS
  <2>1. 1..k \in SUBSET (1..n) /\ 1..k # {} /\ (1..k) \ {k} = 1..(k - 1)
    OBVIOUS
  <2>2. Max(1..k) = k
    <3>1. 1..k \subseteq Nat /\ k \in 1..k /\ \A y \in 1..k : y <= k
      OBVIOUS
    <3> QED
      BY <3>1, MaxIs
  <2>3. f[1..k] = St(f[1..(k - 1)], k)
    BY <1>1, <2>1, <2>2
  <2> QED
    BY <2>0, <2>3
<1>4. n \in 0..n
  OBVIOUS
<1>5. Chain(kind, par, list, base, n, g)
  <2> HIDE DEF g
  <2> QED
    BY <1>2, <1>3 DEF Chain, St
<1>6. f[1..n] = g[n]
  BY <1>4
<1> QED
  BY <1>5, <1>6, Zenon

\* The fold that FoldLeft chooses is one.
LEMMA Rolls ==
    ASSUME NEW list, IsSeq(list)
    PROVE  \E g : Chain("roll", 0, list, KECCAK_EMPTY, Len(list), g)
                  /\ priority_ops_rolling_hash(list) = g[Len(list)]
<1> DEFINE P(f) == f = [s \in SUBSET (DOMAIN list) |->
                          IF s = {} THEN KECCAK_EMPTY
                          ELSE compress("keccak", f[s \ {Max(s)}], list[Max(s)])]
<1>1. priority_ops_rolling_hash(list) = (CHOOSE f : P(f))[DOMAIN list]
  BY DEF priority_ops_rolling_hash, FoldLeft, MapThenFoldSet
<1>2. DOMAIN list = 1..Len(list) /\ Len(list) \in Nat
  BY DEF IsSeq
<1>3. \A r, i : FoldStep("roll", 0, list, r, i) = compress("keccak", r, list[i])
  BY DEF FoldStep
<1>4. \A f : P(f) <=> FoldsTo("roll", 0, list, KECCAK_EMPTY, 1..Len(list), f)
  BY <1>2, <1>3, Zenon DEF FoldsTo
<1> HIDE DEF P
<1>5. \E f : P(f)
  BY <1>2, <1>4, FoldExists
<1>6. P(CHOOSE f : P(f))
  BY <1>5, Zenon
<1> DEFINE f0 == CHOOSE f : P(f)
<1>7. FoldsTo("roll", 0, list, KECCAK_EMPTY, 1..Len(list), f0)
  BY <1>4, <1>6
<1>8. priority_ops_rolling_hash(list) = f0[1..Len(list)]
  BY <1>1, <1>2
<1> HIDE DEF f0
<1>9. \E g : Chain("roll", 0, list, KECCAK_EMPTY, Len(list), g) /\ f0[1..Len(list)] = g[Len(list)]
  BY <1>2, <1>7, FoldChain
<1> QED
  BY <1>8, <1>9

\* Rolling hashes of as many hashes are of the same ones.
LEMMA RollInjective ==
    ASSUME NEW s, NEW t, IsSeq(s), IsSeq(t), Len(s) = Len(t),
           priority_ops_rolling_hash(s) = priority_ops_rolling_hash(t)
    PROVE  s = t
<1> DEFINE n == Len(s)
<1>0. n \in Nat
  BY DEF IsSeq
<1>1. PICK g : Chain("roll", 0, s, KECCAK_EMPTY, n, g) /\ priority_ops_rolling_hash(s) = g[n]
  BY Rolls
<1>2. PICK h : Chain("roll", 0, t, KECCAK_EMPTY, n, h) /\ priority_ops_rolling_hash(t) = h[n]
  BY Rolls
<1>3. \A l, r, i : FoldStep("roll", 0, l, r, i) = compress("keccak", r, l[i])
  BY DEF FoldStep
<1>4. \A k \in 1..n : /\ g[k] = compress("keccak", g[k - 1], s[k])
                      /\ h[k] = compress("keccak", h[k - 1], t[k])
  BY <1>1, <1>2, <1>3 DEF Chain
<1>5. \A a, b, c, d : compress("keccak", a, b) = compress("keccak", c, d) => a = c /\ b = d
  BY DEF compress
<1> DEFINE D == {j \in Nat : j <= n => g[n - j] = h[n - j]}
<1> HIDE DEF n
<1>6. 0 \in D
  <2>1. n - 0 = n
    BY <1>0
  <2> QED
    BY <1>1, <1>2, <2>1
<1>7. ASSUME NEW j \in Nat, j \in D PROVE j + 1 \in D
  <2> SUFFICES ASSUME j + 1 <= n PROVE g[n - (j + 1)] = h[n - (j + 1)]
    OBVIOUS
  <2>1. n - j \in 1..n /\ (n - j) - 1 = n - (j + 1) /\ j <= n
    BY <1>0
  <2>2. g[n - j] = h[n - j]
    BY <1>7, <2>1
  <2>3. g[(n - j) - 1] = h[(n - j) - 1]
    BY <1>4, <1>5, <2>1, <2>2
  <2> QED
    BY <2>1, <2>3
<1>8. \A j \in Nat : j \in D
  <2> HIDE DEF D
  <2> QED
    BY <1>6, <1>7, Induct
<1>9. ASSUME NEW k \in 1..n PROVE s[k] = t[k]
  <2>1. n - k \in Nat /\ n - k <= n /\ n - (n - k) = k
    BY <1>0
  <2>2. n - k \in D
    BY <1>8, <2>1
  <2>3. g[k] = h[k]
    BY <2>1, <2>2
  <2> QED
    BY <1>4, <1>5, <2>3
<1> QED
  BY <1>9, SeqEq DEF n

\* Its own bytes determine a hash.
LEMMA HashInjective ==
    ASSUME NEW e \in Encodings, NEW f \in Encodings, Hash(e) = Hash(f) PROVE e = f
<1>1. e.kind = f.kind /\ e.id = f.id
  BY DEF Hash, keccak256
<1> QED
  BY <1>1, EncodingsAssumption

PriorityEncodings == {e \in Encodings : e.kind = "abi" /\ e.type = L1_TX_TYPE}

\* The queue holds the hashes of priority operations.
LEMMA QueueFacts ==
    /\ IsSeq(PriorityQueue)
    /\ \A i \in 1..Len(PriorityQueue) : \E e \in PriorityEncodings : PriorityQueue[i] = Hash(e)
<1> DEFINE A == PriorityEncodings
           n == Cardinality(A)
           q == SetToSeq(A)
<1>1. IsFiniteSet(A)
  BY EncodingsAssumption, FS_Subset DEF PriorityEncodings
<1>2. n \in Nat /\ ExistsBijection(1..n, A)
  BY <1>1, FS_CardinalityType
<1>3. \E f \in [1..n -> A] : IsInjective(f)
  BY <1>2 DEF ExistsBijection, Bijection, Injection
<1>4. q \in [1..n -> A]
  BY <1>3 DEF SetToSeq
<1>5. PriorityQueue = [i \in DOMAIN q |-> Hash(q[i])]
  BY DEF PriorityQueue, PriorityEncodings
<1> HIDE DEF q, n, A
<1>6. PriorityQueue = [i \in 1..n |-> PriorityQueue[i]]
  BY <1>4, <1>5
<1>7. IsSeq(PriorityQueue) /\ Len(PriorityQueue) = n
  BY <1>2, <1>6, MakeSeq
<1>8. \A i \in 1..n : q[i] \in A /\ PriorityQueue[i] = Hash(q[i])
  BY <1>4, <1>5
<1> QED
  BY <1>7, <1>8 DEF A

\* The accepted priority operations are the first of the queue.
LEMMA PriorityAccepted ==
    ASSUME NEW s, NEW c, NEW u, NEW p, Accepted(s, c, u, p)
    PROVE  /\ IsSeq(L1TxHashes) /\ Len(L1TxHashes) <= Len(PriorityQueue)
           /\ \A k \in 1..Len(L1TxHashes) : L1TxHashes[k] = PriorityQueue[k]
<1> DEFINE l == L1TxHashes
           q == PriorityQueue
           l1 == Labelled({"L1"})
<1>1. IsSeq(l1) /\ DOMAIN l1 = 1..Len(l1) /\ Len(l1) \in Nat
  <2>1. TxsSound
    BY DEF Accepted
  <2>2. IsSeq(l1) /\ DOMAIN l1 = 1..Len(l1)
    BY <2>1, LabelledFacts
  <2> QED
    BY <2>2 DEF IsSeq
<1>2. IsSeq(l) /\ Len(l) = Len(l1)
  <2>1. l = [i \in 1..Len(l1) |-> l1[i].tx_hash]
    BY <1>1 DEF L1TxHashes
  <2>2. l = [i \in 1..Len(l1) |-> l[i]]
    BY <2>1
  <2> HIDE DEF l, l1
  <2> QED
    BY <1>1, <2>2, MakeSeq
<1>3. PICK n \in 0..Len(q) :
        /\ L1Field(s, out, "n_l1") = Word(n)
        /\ L1Field(s, out, "priority_ops") = priority_ops_rolling_hash(SubSeq(q, 1, n))
  BY DEF Accepted, L1Accepts
<1>4. /\ L1Field(s, out, "n_l1") = Word(Len(l))
      /\ L1Field(s, out, "priority_ops") = priority_ops_rolling_hash(l)
  BY DEF Accepted, Opens
<1>5. n = Len(l)
  BY <1>3, <1>4, WordInjective
<1>6. IsSeq(q) /\ Len(q) \in Nat
  BY QueueFacts DEF IsSeq
<1> HIDE DEF l, q
<1>7. /\ IsSeq(SubSeq(q, 1, n)) /\ Len(SubSeq(q, 1, n)) = n
      /\ \A k \in 1..n : SubSeq(q, 1, n)[k] = q[k]
  <2>1. 0 + n <= Len(q) /\ n \in Nat /\ 0 \in Nat /\ 0 + 1 = 1 /\ 0 + n = n
    BY <1>6
  <2>2. /\ IsSeq(SubSeq(q, 0 + 1, 0 + n)) /\ Len(SubSeq(q, 0 + 1, 0 + n)) = n
        /\ \A k \in 1..n : SubSeq(q, 0 + 1, 0 + n)[k] = q[0 + k]
    BY <1>6, <2>1, Sub
  <2>3. \A k \in 1..n : 0 + k = k
    OBVIOUS
  <2> QED
    BY <2>1, <2>2, <2>3
<1>8. l = SubSeq(q, 1, n)
  BY <1>2, <1>3, <1>4, <1>5, <1>7, RollInjective
<1> QED
  BY <1>2, <1>5, <1>6, <1>7, <1>8 DEF l, q

\* In an accepted batch the labels are the types.
LabelsAreTypes ==
    \A i \in 1..Len(FlatTxs) :
        /\ FlatTxs[i].auth = "L1" <=> FlatTxs[i].enc.type = L1_TX_TYPE
        /\ FlatTxs[i].auth = "Upgrade" <=> FlatTxs[i].enc.type = UPGRADE_TX_TYPE
        /\ FlatTxs[i].auth = "System" <=> FlatTxs[i].enc.type = SYSTEM_TX_TYPE

\* A wrong label leaves a trace in a word the settlement layer checks.
LEMMA LabelsAccepted ==
    ASSUME NEW s, NEW c, NEW u, NEW p, Accepted(s, c, u, p)
    PROVE  LabelsAreTypes /\ meta.upgrade_tx_hash = u
<1> DEFINE f == FlatTxs
<1>0. TxsSound /\ u \in L1Upgrades /\ Committed(p)
  BY DEF Accepted
<1>1. \A i \in 1..Len(f) : TxSound(f[i])
  BY <1>0, FlatSound
<1>2. meta.upgrade_tx_hash = u
  BY DEF Accepted, L1Accepts, Opens
<1>3. ASSUME NEW i \in 1..Len(f), f[i].auth = "L1" PROVE f[i].enc.type = L1_TX_TYPE
  <2> DEFINE l1 == Labelled({"L1"})
             S == {j \in 1..Len(f) : f[j].auth \in {"L1"}}
  <2>0. DOMAIN l1 = 1..Len(l1) /\ \A j \in S : \E k \in 1..Len(l1) : l1[k] = f[j]
    BY <1>0, LabelledFacts
  <2>1. i \in S
    BY <1>3
  <2>2. PICK k \in 1..Len(l1) : l1[k] = f[i]
    BY <2>0, <2>1
  <2>3. L1TxHashes = [j \in 1..Len(l1) |-> l1[j].tx_hash]
    BY <2>0 DEF L1TxHashes
  <2>4. /\ IsSeq(L1TxHashes) /\ Len(L1TxHashes) <= Len(PriorityQueue)
        /\ \A j \in 1..Len(L1TxHashes) : L1TxHashes[j] = PriorityQueue[j]
    BY PriorityAccepted
  <2>5. k \in 1..Len(L1TxHashes) /\ L1TxHashes[k] = f[i].tx_hash
    <3>1. DOMAIN L1TxHashes = 1..Len(l1) /\ DOMAIN L1TxHashes = 1..Len(L1TxHashes)
      BY <2>3, <2>4 DEF IsSeq
    <3> HIDE DEF l1
    <3> QED
      BY <2>2, <2>3, <3>1
  <2>6. k \in 1..Len(PriorityQueue)
    BY <2>4, <2>5, QueueFacts DEF IsSeq
  <2>7. PICK e \in PriorityEncodings : PriorityQueue[k] = Hash(e)
    BY <2>6, QueueFacts
  <2>8. f[i].enc \in Encodings /\ f[i].tx_hash = Hash(f[i].enc)
    BY <1>1, <1>3 DEF TxSound
  <2>9. Hash(f[i].enc) = Hash(e)
    BY <2>4, <2>5, <2>7, <2>8
  <2>10. f[i].enc = e
    BY <2>7, <2>8, <2>9, HashInjective DEF PriorityEncodings
  <2> QED
    BY <2>7, <2>10 DEF PriorityEncodings
<1>4. ASSUME NEW i \in 1..Len(f), f[i].auth = "Upgrade" PROVE f[i].enc.type = UPGRADE_TX_TYPE
  <2> DEFINE ups == Labelled({"Upgrade"})
             S == {j \in 1..Len(f) : f[j].auth \in {"Upgrade"}}
  <2>0. DOMAIN ups = 1..Len(ups) /\ \A j \in S : \E k \in 1..Len(ups) : ups[k] = f[j]
    BY <1>0, LabelledFacts
  <2>1. i \in S
    BY <1>4
  <2>2. PICK k \in 1..Len(ups) : ups[k] = f[i]
    BY <2>0, <2>1
  <2>3. \A j \in DOMAIN ups : ups[j].tx_hash = u
    BY <1>0, <1>2 DEF Committed, upgrade_ok
  <2>4. f[i].tx_hash = u
    BY <2>0, <2>2, <2>3
  <2>5. f[i].enc \in Encodings /\ f[i].tx_hash = Hash(f[i].enc)
    BY <1>1, <1>4 DEF TxSound
  <2>6. u # ZERO
    BY <2>4, <2>5 DEF Hash, keccak256, ZERO
  <2>7. PICK e \in Encodings : e.type = UPGRADE_TX_TYPE /\ u = Hash(e)
    BY <1>0, <2>6 DEF L1Upgrades
  <2>8. f[i].enc = e
    BY <2>4, <2>5, <2>7, HashInjective
  <2> QED
    BY <2>7, <2>8
<1>5. ASSUME NEW i \in 1..Len(f)
      PROVE  /\ f[i].auth \in {"L1", "Upgrade", "L2", "System"}
             /\ f[i].auth = "System" => f[i].enc.type = SYSTEM_TX_TYPE
             /\ f[i].auth = "L2" =>
                   f[i].enc.type \notin {L1_TX_TYPE, UPGRADE_TX_TYPE, SYSTEM_TX_TYPE}
  BY <1>1, EncodingsAssumption DEF TxSound
<1>6. /\ L1_TX_TYPE # UPGRADE_TX_TYPE /\ L1_TX_TYPE # SYSTEM_TX_TYPE
      /\ UPGRADE_TX_TYPE # SYSTEM_TX_TYPE
  BY DEF L1_TX_TYPE, UPGRADE_TX_TYPE, SYSTEM_TX_TYPE
<1>7. ASSUME NEW i \in 1..Len(f)
      PROVE  /\ f[i].auth = "L1" <=> f[i].enc.type = L1_TX_TYPE
             /\ f[i].auth = "Upgrade" <=> f[i].enc.type = UPGRADE_TX_TYPE
             /\ f[i].auth = "System" <=> f[i].enc.type = SYSTEM_TX_TYPE
  <2> HIDE DEF f
  <2> QED
    BY <1>3, <1>4, <1>5, <1>6
<1> QED
  BY <1>2, <1>7 DEF LabelsAreTypes

\* The upgrade of an accepted batch.
LEMMA UpgradeWhenAccepted ==
    ASSUME NEW s, NEW c, NEW u, NEW p, Accepted(s, c, u, p)
    PROVE  LET ran == {i \in DOMAIN FlatTxs : FlatTxs[i].enc.type = UPGRADE_TX_TYPE}
           IN  IF u = ZERO THEN ran = {} /\ ~meta.forced
               ELSE \E i \in DOMAIN FlatTxs :
                       ran = {i} /\ Hash(FlatTxs[i].enc) = u
<1> DEFINE f == FlatTxs
           ran == {i \in DOMAIN f : f[i].enc.type = UPGRADE_TX_TYPE}
           ups == Labelled({"Upgrade"})
           S == {j \in 1..Len(f) : f[j].auth \in {"Upgrade"}}
<1>0. TxsSound /\ Committed(p)
  BY DEF Accepted
<1>1. LabelsAreTypes /\ meta.upgrade_tx_hash = u
  BY LabelsAccepted
<1>2. /\ DOMAIN ups = 1..Len(ups) /\ DOMAIN f = 1..Len(f)
      /\ IsFiniteSet(S) /\ Len(ups) = Cardinality(S) /\ IsSeq(ups)
      /\ \A j \in S : \E k \in 1..Len(ups) : ups[k] = f[j]
  BY <1>0, LabelledFacts
<1>3. ran = S
  BY <1>1, <1>2 DEF LabelsAreTypes
<1>4. /\ \A j \in DOMAIN ups : ups[j].tx_hash = u
      /\ Len(ups) <= 1 /\ ((Len(ups) = 1) <=> (u # ZERO))
      /\ meta.forced => u # ZERO
  BY <1>0, <1>1 DEF Committed, upgrade_ok
<1>5. CASE u = ZERO
  <2>1. Len(ups) = 0
    <3> DEFINE n == Len(ups)
    <3>1. n \in Nat /\ n <= 1 /\ n # 1
      BY <1>2, <1>4, <1>5 DEF IsSeq
    <3> HIDE DEF n
    <3>2. n = 0
      BY <3>1
    <3> QED
      BY <3>2 DEF n
  <2>2. S = {}
    BY <1>2, <2>1, FS_EmptySet
  <2> QED
    BY <1>3, <1>4, <1>5, <2>2
<1>6. CASE u # ZERO
  <2>1. Cardinality(S) = 1
    BY <1>2, <1>4, <1>6
  <2>2. PICK i : S = {i}
    <3> HIDE DEF S
    <3> QED
      BY <1>2, <2>1, FS_Singleton
  <2>3. i \in S /\ i \in DOMAIN f
    BY <1>2, <1>3, <2>2
  <2>4. PICK k \in 1..Len(ups) : ups[k] = f[i]
    BY <1>2, <2>3
  <2>5. f[i].tx_hash = u
    BY <1>2, <1>4, <2>4
  <2>6. TxSound(f[i]) /\ f[i].auth = "Upgrade"
    BY <1>0, <2>3, FlatSound
  <2>7. Hash(f[i].enc) = u
    BY <2>5, <2>6 DEF TxSound
  <2> QED
    BY <1>3, <1>6, <2>2, <2>3, <2>7
<1> QED
  BY <1>5, <1>6

\* An accepted batch ran the pending upgrade once, and no other.
THEOREM UpgradeFromL1Holds == Spec => []UpgradeFromL1
<1>1. BatchInv => UpgradeFromL1
  BY AcceptedFacts, UpgradeWhenAccepted, Zenon DEF UpgradeFromL1, WhenAccepted
<1> QED
  BY <1>1, BatchSound, PTL

-----------------------------------------------------------------------------
(* The server's batches. *)

\* The settlement layer accepts what an honest operator commits.
LEMMA HonestIsAccepted ==
    ASSUME BatchInv, pc = "done", honest, IsPrefix(L1TxHashes, PriorityQueue)
    PROVE  \E u \in L1Upgrades : L1Accepts(spec, ChainConfigOf, u, out)
<1>1. PICK p : Committed(p)
  BY DEF BatchInv
<1>2. InputSound /\ TxsSound /\ HonestSound
  BY DEF BatchInv
<1>3. spec \in AtlasV1..AtlasV5 /\ IsOutput(meta, p) /\ HonestMeta(meta)
  BY <1>1, <1>2 DEF InputSound, Committed
<1>4. Opens(spec, meta, p)
  <2> DEFINE s == spec
  <2>1. s <= AtlasV2 \/ s = AtlasV3 \/ s >= AtlasV4
    <3>1. s \in AtlasV1..AtlasV5
      BY <1>3
    <3> HIDE DEF s
    <3> QED
      BY <3>1, Specs
  <2>2. Alike(s)
    BY <2>1 DEF Alike
  <2> HIDE DEF s
  <2>3. s \in AtlasV1..AtlasV5
    BY <1>3 DEF s
  <2>4. Opens(s, meta, p)
    BY <1>3, <2>2, <2>3, OpensAlike
  <2> QED
    BY <2>4 DEF s
<1> DEFINE u == meta.upgrade_tx_hash
           ups == Labelled({"Upgrade"})
           S == {j \in 1..Len(FlatTxs) : FlatTxs[j].auth \in {"Upgrade"}}
<1>5. u \in L1Upgrades
  <2>1. u = IF ups = << >> THEN ZERO ELSE ups[1].tx_hash
    BY <1>3 DEF HonestMeta
  <2>2. CASE ups = << >>
    BY <2>1, <2>2 DEF L1Upgrades
  <2>3. CASE ups # << >>
    <3>1. IsSeq(ups) /\ \A k \in 1..Len(ups) : \E i \in S : ups[k] = FlatTxs[i]
      BY <1>2, LabelledFacts
    <3>2. 1 \in 1..Len(ups)
      <4>1. Len(ups) # 0 /\ Len(ups) \in Nat
        BY <2>3, <3>1, EmptyIffZero DEF IsSeq
      <4> QED
        BY <4>1
    <3>3. PICK i \in S : ups[1] = FlatTxs[i]
      BY <3>1, <3>2
    <3>4. i \in 1..Len(FlatTxs) /\ FlatTxs[i].auth = "Upgrade"
      OBVIOUS
    <3>5. TxSound(FlatTxs[i]) /\ FlatTxs[i].enc.type = UPGRADE_TX_TYPE
      BY <1>2, <3>4, FlatSound DEF HonestSound
    <3>6. /\ FlatTxs[i].enc \in Encodings /\ FlatTxs[i].enc.kind = "abi"
          /\ FlatTxs[i].tx_hash = Hash(FlatTxs[i].enc)
      BY <3>4, <3>5 DEF TxSound
    <3> QED
      BY <2>1, <2>3, <3>3, <3>5, <3>6 DEF L1Upgrades
  <2> QED
    BY <2>2, <2>3
<1>6. IF spec >= AtlasV4 THEN Words(out)[3] = L1ConfigHash(spec, ChainConfigOf)
      ELSE L1Field(spec, out, "chain_id") = Word(CHAIN)
  <2> DEFINE s == spec
             a == ChainConfigOf
  <2>1. /\ s = AtlasV4 => Words(out)[3] = chain_config_hash("AtlasV4", a)
        /\ s = AtlasV5 => Words(out)[3] = chain_config_hash("AtlasV5", a)
        /\ s < AtlasV4 => L1Field(s, out, "chain_id") = Word(CHAIN)
        /\ s \in AtlasV1..AtlasV5
    BY <1>3, <1>4 DEF Opens
  <2> HIDE DEF a, s
  <2>2. CASE s >= AtlasV4
    <3>1. s = AtlasV4 \/ s = AtlasV5
      BY <2>1, <2>2, Specs
    <3> QED
      BY <2>1, <2>2, <3>1, ConfigWords DEF a, s
  <2>3. CASE ~(s >= AtlasV4)
    <3>1. s < AtlasV4
      BY <2>1, <2>3, Specs
    <3> QED
      BY <2>1, <2>3, <3>1 DEF s
  <2> QED
    BY <2>2, <2>3
<1>7. \E n \in 0..Len(PriorityQueue) :
          /\ L1Field(spec, out, "n_l1") = Word(n)
          /\ L1Field(spec, out, "priority_ops")
                = priority_ops_rolling_hash(SubSeq(PriorityQueue, 1, n))
  <2> DEFINE l == L1TxHashes
             q == PriorityQueue
             n == Len(l)
             l1 == Labelled({"L1"})
  <2>0. /\ L1Field(spec, out, "n_l1") = Word(n)
        /\ L1Field(spec, out, "priority_ops") = priority_ops_rolling_hash(l)
    BY <1>4 DEF Opens
  <2>1. IsSeq(l)
    <3>1. IsSeq(l1) /\ DOMAIN l1 = 1..Len(l1)
      BY <1>2, LabelledFacts
    <3>2. l = [i \in 1..Len(l1) |-> l1[i].tx_hash] /\ Len(l1) \in Nat
      BY <3>1 DEF L1TxHashes, IsSeq
    <3>3. l = [i \in 1..Len(l1) |-> l[i]]
      BY <3>2
    <3> HIDE DEF l, l1
    <3> QED
      BY <3>2, <3>3, MakeSeq
  <2>2. n <= Len(q) /\ SubSeq(l, 1, n) = SubSeq(q, 1, n)
    BY DEF IsPrefix
  <2>3. Len(q) \in Nat
    BY QueueFacts DEF IsSeq
  <2> HIDE DEF l, q
  <2>4. n \in Nat /\ 0 \in Nat /\ 0 + n = n /\ 0 + 1 = 1 /\ 0 + n <= Len(l)
    BY <2>1 DEF IsSeq
  <2>5. /\ IsSeq(SubSeq(l, 0 + 1, 0 + n)) /\ Len(SubSeq(l, 0 + 1, 0 + n)) = n
        /\ \A k \in 1..n : SubSeq(l, 0 + 1, 0 + n)[k] = l[0 + k]
    BY <2>1, <2>4, Sub
  <2>6. \A k \in 1..n : 0 + k = k
    BY <2>4
  <2>7. SubSeq(l, 1, n) = l
    BY <2>1, <2>4, <2>5, <2>6, SeqEq
  <2>8. n \in 0..Len(q)
    BY <2>2, <2>3, <2>4
  <2> HIDE DEF n
  <2>9. L1Field(spec, out, "priority_ops") = priority_ops_rolling_hash(SubSeq(q, 1, n))
    BY <2>0, <2>2, <2>7, Zenon
  <2> QED
    BY <2>0, <2>8, <2>9 DEF q
<1>8. L1Accepts(spec, ChainConfigOf, u, out)
  <2>1. /\ L1Shape(spec, out) /\ Words(out)[1] = state_before
        /\ L1Field(spec, out, "upgrade_tx_hash") = u
    BY <1>4 DEF Opens
  <2> HIDE DEF u
  <2> QED
    BY <1>6, <1>7, <2>1, Zenon DEF L1Accepts
<1> QED
  BY <1>5, <1>8

\* No batch of the server's is refused, and the settlement layer of its spec
\* accepts the result.
THEOREM HonestAcceptedHolds == Spec => []HonestAccepted
<1>1. BatchInv => HonestAccepted
  BY HonestIsAccepted DEF HonestAccepted, BatchInv
<1> QED
  BY <1>1, BatchSound, PTL

-----------------------------------------------------------------------------
(* Recursion on 0..n, one step of each. *)

RecStep(kind, par, prev, k) ==
    CASE kind = "empty" -> compress(par, prev, prev)
      [] kind = "row" -> [i \in 1..(2 ^ (par[2] - k)) |->
                            compress(par[1], prev[2 * i - 1], prev[2 * i])]

Recurs(kind, par, base, n, g) ==
    g = [k \in 0..n |-> IF k = 0 THEN base ELSE RecStep(kind, par, g[k - 1], k)]

\* The recursive function exists, so its CHOOSE finds it.
LEMMA RecExists ==
    ASSUME NEW kind, NEW par, NEW base, NEW n \in Nat
    PROVE  \E g : Recurs(kind, par, base, n, g)
<1> DEFINE W(k, prev) == RecStep(kind, par, prev, k)
           V(i, prev) == IF i = 0 THEN base ELSE W(i, prev)
           T == {m \in Nat : \E g : g = [i \in 0..m |-> V(i, g[i - 1])]}
<1> HIDE DEF W
<1>1. 0 \in T
  <2> DEFINE g == [i \in 0..0 |-> base]
  <2>1. g = [i \in 0..0 |-> V(i, g[i - 1])]
    OBVIOUS
  <2> QED
    BY <2>1
<1>2. ASSUME NEW m \in Nat, m \in T PROVE m + 1 \in T
  <2>1. PICK g : g = [i \in 0..m |-> V(i, g[i - 1])]
    BY <1>2
  <2> DEFINE h == [i \in 0..(m + 1) |-> IF i = m + 1 THEN V(i, g[i - 1]) ELSE g[i]]
  <2>2. \A i \in 0..m : h[i] = g[i]
    OBVIOUS
  <2>3. \A i \in 0..m : V(i, g[i - 1]) = V(i, h[i - 1])
    <3> TAKE i \in 0..m
    <3>1. CASE i = 0
      BY <3>1
    <3>2. CASE i # 0
      <4>1. i - 1 \in 0..m
        BY <3>2
      <4>2. h[i - 1] = g[i - 1]
        BY <2>2, <4>1
      <4> QED
        BY <4>2
    <3> QED
      BY <3>1, <3>2
  <2>4. \A i \in 0..m : h[i] = V(i, h[i - 1])
    <3> TAKE i \in 0..m
    <3>1. g[i] = V(i, g[i - 1])
      BY <2>1
    <3> HIDE DEF h, V
    <3> QED
      BY <2>2, <2>3, <3>1
  <2>5. h[m + 1] = V(m + 1, h[(m + 1) - 1])
    <3>1. (m + 1) - 1 = m /\ m \in 0..m /\ m + 1 \in 0..(m + 1)
      OBVIOUS
    <3>2. h[m + 1] = V(m + 1, g[(m + 1) - 1])
      BY <3>1
    <3>3. h[m] = g[m]
      BY <2>2, <3>1
    <3> HIDE DEF h, V
    <3> QED
      BY <3>1, <3>2, <3>3
  <2>6. DOMAIN h = 0..(m + 1) /\ h = [i \in 0..(m + 1) |-> h[i]]
    OBVIOUS
  <2>7. \A i \in 0..(m + 1) : i \in 0..m \/ i = m + 1
    OBVIOUS
  <2> HIDE DEF h, V
  <2>8. h = [i \in 0..(m + 1) |-> V(i, h[i - 1])]
    BY <2>4, <2>5, <2>6, <2>7
  <2> QED
    BY <2>8
<1>3. n \in T
  <2> HIDE DEF T
  <2> QED
    BY <1>1, <1>2, Induct
<1> QED
  BY <1>3 DEF Recurs, W

-----------------------------------------------------------------------------
(* The fixed-height fold computes the root of the padded tree. *)

IsEmpties(hash, leaf, height, e) ==
    /\ e[0] = leaf
    /\ \A k \in 1..height : e[k] = compress(hash, e[k - 1], e[k - 1])

\* The table of empty subtree hashes.
LEMMA EmptySubtrees ==
    ASSUME NEW hash, NEW leaf, NEW height \in Nat
    PROVE  IsEmpties(hash, leaf, height, empty_subtree_hashes(hash, leaf, height))
<1> DEFINE P(f) == f = [i \in 0..height |->
                          IF i = 0 THEN leaf ELSE compress(hash, f[i - 1], f[i - 1])]
           e == CHOOSE f : P(f)
<1>1. empty_subtree_hashes(hash, leaf, height) = e
  BY DEF empty_subtree_hashes
<1>2. \A r, k : RecStep("empty", hash, r, k) = compress(hash, r, r)
  BY DEF RecStep
<1>3. \A f : P(f) <=> Recurs("empty", hash, leaf, height, f)
  BY <1>2, Zenon DEF Recurs
<1> HIDE DEF P
<1>4. \E f : P(f)
  BY <1>3, RecExists
<1>5. P(e)
  BY <1>4, Zenon
<1> HIDE DEF e
<1>6. \A k \in 0..height : e[k] = IF k = 0 THEN leaf ELSE compress(hash, e[k - 1], e[k - 1])
  BY <1>5 DEF P
<1>7. 0 \in 0..height /\ \A k \in 1..height : k \in 0..height /\ k # 0
  OBVIOUS
<1>8. IsEmpties(hash, leaf, height, e)
  BY <1>6, <1>7 DEF IsEmpties
<1> QED
  BY <1>1, <1>8

\* The rows of the padded tree, bottom up.
IsRows(hash, leaves, height, empty, row) ==
    /\ \A i \in 1..(2 ^ height) : row[0][i] = IF i <= Len(leaves) THEN leaves[i] ELSE empty
    /\ \A h \in 1..height : \A i \in 1..(2 ^ (height - h)) :
          row[h][i] = compress(hash, row[h - 1][2 * i - 1], row[h - 1][2 * i])

\* The rows of the padded tree.
LEMMA PaddedRows ==
    ASSUME NEW hash, NEW leaves, NEW height \in Nat, NEW empty
    PROVE  \E row : /\ IsRows(hash, leaves, height, empty, row)
                    /\ PaddedRoot(hash, leaves, height, empty) = row[height][1]
<1> DEFINE Lf(i) == IF i <= Len(leaves) THEN leaves[i] ELSE empty
           P(f) == f = [h \in 0..height |->
                         [i \in 1..(2 ^ (height - h)) |->
                            IF h = 0 THEN Lf(i)
                            ELSE compress(hash, f[h - 1][2 * i - 1], f[h - 1][2 * i])]]
           base == [i \in 1..(2 ^ height) |-> Lf(i)]
           row == CHOOSE f : P(f)
<1>1. PaddedRoot(hash, leaves, height, empty) = row[height][1]
  BY DEF PaddedRoot
<1>2. \A r, k : RecStep("row", <<hash, height>>, r, k)
                  = [i \in 1..(2 ^ (height - k)) |-> compress(hash, r[2 * i - 1], r[2 * i])]
  BY DEF RecStep
<1> HIDE DEF Lf
<1>3. ASSUME NEW f, Recurs("row", <<hash, height>>, base, height, f) PROVE P(f)
  <2>1. f = [k \in 0..height |-> f[k]]
    BY <1>3 DEF Recurs
  <2>2. ASSUME NEW k \in 0..height
        PROVE  f[k] = [i \in 1..(2 ^ (height - k)) |->
                         IF k = 0 THEN Lf(i)
                         ELSE compress(hash, f[k - 1][2 * i - 1], f[k - 1][2 * i])]
    <3>0. f[k] = IF k = 0 THEN base ELSE RecStep("row", <<hash, height>>, f[k - 1], k)
      BY <1>3 DEF Recurs
    <3>1. CASE k = 0
      <4>1. height - k = height
        BY <3>1
      <4> QED
        BY <3>0, <3>1, <4>1
    <3>2. CASE k # 0
      <4>1. f[k] = [i \in 1..(2 ^ (height - k)) |->
                      compress(hash, f[k - 1][2 * i - 1], f[k - 1][2 * i])]
        BY <1>2, <3>0, <3>2, Zenon
      <4> QED
        BY <3>2, <4>1
    <3> QED
      BY <3>1, <3>2
  <2> QED
    BY <2>1, <2>2
<1>4. \E f : P(f)
  <2>1. PICK f : Recurs("row", <<hash, height>>, base, height, f)
    BY RecExists
  <2> HIDE DEF P
  <2> QED
    BY <1>3, <2>1
<1> HIDE DEF P
<1>5. P(row)
  BY <1>4, Zenon
<1> HIDE DEF row
<1>6. \A h \in 0..height : row[h] = [i \in 1..(2 ^ (height - h)) |->
                                       IF h = 0 THEN Lf(i)
                                       ELSE compress(hash, row[h - 1][2 * i - 1],
                                                     row[h - 1][2 * i])]
  BY <1>5 DEF P
<1>7. \A i \in 1..(2 ^ height) : row[0][i] = Lf(i)
  <2>1. 0 \in 0..height /\ height - 0 = height
    OBVIOUS
  <2> QED
    BY <1>6, <2>1
<1>8. ASSUME NEW h \in 1..height, NEW i \in 1..(2 ^ (height - h))
      PROVE  row[h][i] = compress(hash, row[h - 1][2 * i - 1], row[h - 1][2 * i])
  <2>1. h \in 0..height /\ h # 0
    OBVIOUS
  <2> QED
    BY <1>6, <2>1
<1>9. IsRows(hash, leaves, height, empty, row)
  BY <1>7, <1>8 DEF IsRows, Lf
<1> QED
  BY <1>1, <1>9

\* fixed_height_root goes up one level at a time.
LEMMA Levels ==
    ASSUME NEW hash, NEW leaves, leaves # << >>, NEW height \in Nat, NEW empty
    PROVE  \E g : /\ Chain("level", <<hash, empty_subtree_hashes(hash, empty, height)>>,
                           [i \in 1..height |-> i - 1],
                           [nodes |-> leaves, count |-> Len(leaves)], height, g)
                  /\ fixed_height_root(hash, leaves, height, empty) = g[height].nodes[1]
<1> DEFINE e == empty_subtree_hashes(hash, empty, height)
           list == [i \in 1..height |-> i - 1]
           base == [nodes |-> leaves, count |-> Len(leaves)]
           P(f) == f = [s \in SUBSET (DOMAIN list) |->
                          IF s = {} THEN base
                          ELSE Level(hash, e, f[s \ {Max(s)}], list[Max(s)])]
           f0 == CHOOSE f : P(f)
<1>1. fixed_height_root(hash, leaves, height, empty) = f0[DOMAIN list].nodes[1]
  BY Zenon DEF fixed_height_root, FoldLeft, MapThenFoldSet, Level
<1>2. DOMAIN list = 1..height
  OBVIOUS
<1> HIDE DEF e, base, list
<1>3. \A r, i : FoldStep("level", <<hash, e>>, list, r, i) = Level(hash, e, r, list[i])
  BY DEF FoldStep
<1>4. \A f : P(f) <=> FoldsTo("level", <<hash, e>>, list, base, 1..height, f)
  BY <1>2, <1>3, Zenon DEF FoldsTo
<1> HIDE DEF P
<1>5. \E f : P(f)
  BY <1>2, <1>4, FoldExists
<1>6. P(f0)
  BY <1>5, Zenon
<1>7. FoldsTo("level", <<hash, e>>, list, base, 1..height, f0)
  BY <1>4, <1>6
<1> HIDE DEF f0
<1>8. \E g : Chain("level", <<hash, e>>, list, base, height, g) /\ f0[1..height] = g[height]
  BY <1>7, FoldChain
<1> QED
  BY <1>1, <1>2, <1>8 DEF e, list, base

\* A level of the fold holds a row of the padded tree: the nodes up to the
\* count, and empty subtrees after them.
RowHeld(row, e, height, k, nodes, count) ==
    \A i \in 1..(2 ^ (height - k)) : row[k][i] = IF i <= count THEN nodes[i] ELSE e[k]

\* The state of the fold after k levels, over m leaves.
LevelHeld(row, e, height, k, m, r) ==
    \E nodes, count :
        /\ r = [nodes |-> nodes, count |-> count]
        /\ count \in Nat /\ count >= 1 /\ count <= m /\ DOMAIN nodes = 1..m
        /\ RowHeld(row, e, height, k, nodes, count)

\* Halves, rounded up.
LEMMA LevelHalves ==
    ASSUME NEW c \in Nat, NEW i \in Nat \ {0}
    PROVE  /\ (c + 1) \div 2 \in Nat /\ (c >= 1 => (c + 1) \div 2 >= 1)
           /\ (c + 1) \div 2 <= c
           /\ i <= (c + 1) \div 2 <=> 2 * i - 1 <= c
BY SMT

\* One turn of the fold.
LEMMA LevelStep ==
    ASSUME NEW hash, NEW leaves, NEW height \in Nat, NEW empty, NEW row, NEW e,
           IsRows(hash, leaves, height, empty, row), IsEmpties(hash, empty, height, e),
           NEW k \in 1..height, NEW m \in Nat, NEW r,
           LevelHeld(row, e, height, k - 1, m, r)
    PROVE  LevelHeld(row, e, height, k, m, Level(hash, e, r, k - 1))
<1>0. PICK nodes, count :
        /\ r = [nodes |-> nodes, count |-> count]
        /\ count \in Nat /\ count >= 1 /\ count <= m /\ DOMAIN nodes = 1..m
        /\ RowHeld(row, e, height, k - 1, nodes, count)
  BY DEF LevelHeld
<1> DEFINE c2 == (count + 1) \div 2
           n2 == [i \in 1..m |-> IF i > c2 THEN nodes[i]
                                 ELSE compress(hash, nodes[2 * i - 1],
                                        IF 2 * i <= count THEN nodes[2 * i] ELSE e[k - 1])]
<1>1. Level(hash, e, r, k - 1) = [nodes |-> n2, count |-> c2]
  <2>1. r.nodes = nodes /\ r.count = count
    BY <1>0
  <2>2. Level(hash, e, r, k - 1) = [[r EXCEPT !.count = c2] EXCEPT !.nodes = n2]
    BY <1>0, <2>1 DEF Level
  <2> HIDE DEF c2, n2
  <2> QED
    BY <1>0, <2>2
<1>2. /\ c2 \in Nat /\ c2 >= 1 /\ c2 <= count
      /\ \A i \in Nat \ {0} : i <= c2 <=> 2 * i - 1 <= count
  BY <1>0, LevelHalves
<1> HIDE DEF c2
<1>3. c2 <= m
  BY <1>0, <1>2
<1> DEFINE w == 2 ^ (height - k)
<1>4. w \in Nat /\ 2 ^ (height - (k - 1)) = 2 * w
  <2>1. height - k \in Nat /\ height - (k - 1) = (height - k) + 1
    OBVIOUS
  <2> QED
    BY <2>1, PowerOfTwo
<1>5. \A j \in 1..(2 * w) : row[k - 1][j] = IF j <= count THEN nodes[j] ELSE e[k - 1]
  BY <1>0, <1>4 DEF RowHeld
<1>6. \A i \in 1..w : row[k][i] = compress(hash, row[k - 1][2 * i - 1], row[k - 1][2 * i])
  BY DEF IsRows
<1>7. e[k] = compress(hash, e[k - 1], e[k - 1])
  BY DEF IsEmpties
<1> HIDE DEF w
<1>8. ASSUME NEW i \in 1..w PROVE row[k][i] = IF i <= c2 THEN n2[i] ELSE e[k]
  <2>0. i \in Nat \ {0} /\ 2 * i - 1 \in 1..(2 * w) /\ 2 * i \in 1..(2 * w)
    BY <1>4
  <2>1. row[k][i] = compress(hash, row[k - 1][2 * i - 1], row[k - 1][2 * i])
    BY <1>6
  <2>2. /\ row[k - 1][2 * i - 1] = IF 2 * i - 1 <= count THEN nodes[2 * i - 1] ELSE e[k - 1]
        /\ row[k - 1][2 * i] = IF 2 * i <= count THEN nodes[2 * i] ELSE e[k - 1]
    BY <1>5, <2>0
  <2>3. i <= c2 <=> 2 * i - 1 <= count
    BY <1>2, <2>0
  <2>4. CASE i <= c2
    <3>1. i \in 1..m /\ ~(i > c2) /\ 2 * i - 1 <= count
      BY <1>0, <1>2, <1>3, <2>0, <2>3, <2>4
    <3>2. n2[i] = compress(hash, nodes[2 * i - 1],
                           IF 2 * i <= count THEN nodes[2 * i] ELSE e[k - 1])
      BY <3>1
    <3> HIDE DEF n2
    <3> QED
      BY <2>1, <2>2, <2>4, <3>1, <3>2
  <2>5. CASE ~(i <= c2)
    <3>1. ~(2 * i - 1 <= count) /\ ~(2 * i <= count)
      <4>1. ~(2 * i - 1 <= count)
        BY <2>3, <2>5
      <4> QED
        BY <1>0, <2>0, <4>1
    <3> HIDE DEF n2
    <3> QED
      BY <1>7, <2>1, <2>2, <2>5, <3>1
  <2> QED
    BY <2>4, <2>5
<1>9. RowHeld(row, e, height, k, n2, c2)
  <2> HIDE DEF n2
  <2> QED
    BY <1>8 DEF RowHeld, w
<1>10. DOMAIN n2 = 1..m
  OBVIOUS
<1> HIDE DEF n2
<1> QED
  BY <1>1, <1>2, <1>3, <1>9, <1>10 DEF LevelHeld

\* merkle_root and fixed_height_keccak_root compute the root of the tree
\* padded with empty leaves, in place and with a table of empty subtrees.
LEMMA FoldedIsPadded ==
    ASSUME NEW hash, NEW leaves, IsSeq(leaves), NEW height \in Nat, NEW empty,
           Len(leaves) <= 2 ^ height
    PROVE  fixed_height_root(hash, leaves, height, empty)
             = PaddedRoot(hash, leaves, height, empty)
<1> DEFINE e == empty_subtree_hashes(hash, empty, height)
           list == [i \in 1..height |-> i - 1]
           m == Len(leaves)
<1>0. m \in Nat /\ DOMAIN leaves = 1..m
  BY DEF IsSeq
<1>1. IsEmpties(hash, empty, height, e)
  BY EmptySubtrees
<1>2. PICK row : /\ IsRows(hash, leaves, height, empty, row)
                 /\ PaddedRoot(hash, leaves, height, empty) = row[height][1]
  BY PaddedRows
<1> HIDE DEF e
<1>t. 1 \in 1..(2 ^ (height - height)) /\ height - 0 = height
  <2>1. height - height = 0 /\ 2 ^ 0 = 1
    OBVIOUS
  <2> QED
    BY <2>1
<1>3. CASE leaves = << >>
  <2> DEFINE D == {k \in Nat : k <= height => RowHeld(row, e, height, k, leaves, 0)}
  <2>1. 0 \in D
    <3>1. Len(leaves) = 0
      BY <1>3, EmptySequence
    <3>2. \A i \in 1..(2 ^ height) : row[0][i] = IF i <= 0 THEN leaves[i] ELSE e[0]
      BY <1>1, <1>2, <3>1 DEF IsRows, IsEmpties
    <3>3. RowHeld(row, e, height, 0, leaves, 0)
      BY <1>t, <3>2 DEF RowHeld
    <3> QED
      BY <3>3
  <2>2. ASSUME NEW k \in Nat, k \in D PROVE k + 1 \in D
    <3> SUFFICES ASSUME k + 1 <= height PROVE RowHeld(row, e, height, k + 1, leaves, 0)
      OBVIOUS
    <3>1. k + 1 \in 1..height /\ (k + 1) - 1 = k /\ k <= height
      OBVIOUS
    <3> DEFINE w == 2 ^ (height - (k + 1))
    <3>2. w \in Nat /\ 2 ^ (height - k) = 2 * w
      <4>1. height - (k + 1) \in Nat /\ height - k = (height - (k + 1)) + 1
        BY <3>1
      <4> QED
        BY <4>1, PowerOfTwo
    <3>3. \A j \in 1..(2 * w) : row[k][j] = IF j <= 0 THEN leaves[j] ELSE e[k]
      BY <2>2, <3>1, <3>2 DEF RowHeld
    <3>4. /\ \A i \in 1..w : row[k + 1][i] = compress(hash, row[k][2 * i - 1], row[k][2 * i])
          /\ e[k + 1] = compress(hash, e[k], e[k])
      BY <1>1, <1>2, <3>1 DEF IsRows, IsEmpties
    <3> HIDE DEF w
    <3>5. ASSUME NEW i \in 1..w PROVE row[k + 1][i] = IF i <= 0 THEN leaves[i] ELSE e[k + 1]
      <4>1. /\ 2 * i - 1 \in 1..(2 * w) /\ 2 * i \in 1..(2 * w)
            /\ ~(i <= 0) /\ ~(2 * i - 1 <= 0) /\ ~(2 * i <= 0)
        BY <3>2
      <4>2. row[k][2 * i - 1] = e[k] /\ row[k][2 * i] = e[k]
        BY <3>3, <4>1
      <4> QED
        BY <3>4, <4>1, <4>2
    <3> QED
      BY <3>5 DEF RowHeld, w
  <2>3. height \in D
    <3> HIDE DEF D
    <3> QED
      BY <2>1, <2>2, Induct
  <2>4. RowHeld(row, e, height, height, leaves, 0)
    BY <2>3
  <2>5. row[height][1] = e[height]
    BY <1>t, <2>4 DEF RowHeld
  <2>6. fixed_height_root(hash, leaves, height, empty) = e[height]
    BY <1>3 DEF fixed_height_root, e
  <2> QED
    BY <1>2, <2>5, <2>6
<1>4. CASE leaves # << >>
  <2>1. PICK g : /\ Chain("level", <<hash, e>>, list,
                          [nodes |-> leaves, count |-> m], height, g)
                 /\ fixed_height_root(hash, leaves, height, empty) = g[height].nodes[1]
    BY <1>4, Levels DEF e
  <2>2. \A k \in 1..height : g[k] = Level(hash, e, g[k - 1], k - 1)
    <3>1. \A r, k : FoldStep("level", <<hash, e>>, list, r, k) = Level(hash, e, r, list[k])
      BY DEF FoldStep
    <3>2. \A k \in 1..height : list[k] = k - 1
      OBVIOUS
    <3>3. \A k \in 1..height : g[k] = FoldStep("level", <<hash, e>>, list, g[k - 1], k)
      BY <2>1, Zenon DEF Chain
    <3> HIDE DEF list
    <3> QED
      BY <3>1, <3>2, <3>3
  <2> DEFINE Held(k) == LevelHeld(row, e, height, k, m, g[k])
             D == {k \in Nat : k <= height => Held(k)}
  <2>3. 0 \in D
    <3>1. m >= 1
      <4>1. m # 0
        BY <1>4, EmptyIffZero
      <4> HIDE DEF m
      <4> QED
        BY <1>0, <4>1
    <3>2. RowHeld(row, e, height, 0, leaves, m)
      BY <1>1, <1>2, <1>t DEF RowHeld, IsRows, IsEmpties
    <3>3. g[0] = [nodes |-> leaves, count |-> m]
      BY <2>1 DEF Chain
    <3>4. Held(0)
      <4> HIDE DEF m
      <4> QED
        BY <1>0, <3>1, <3>2, <3>3 DEF LevelHeld
    <3> QED
      BY <3>4
  <2>4. ASSUME NEW k \in Nat, k \in D PROVE k + 1 \in D
    <3> SUFFICES ASSUME k + 1 <= height PROVE Held(k + 1)
      OBVIOUS
    <3>1. k + 1 \in 1..height /\ (k + 1) - 1 = k /\ k <= height
      OBVIOUS
    <3> DEFINE j == k + 1
    <3>2. j \in 1..height /\ j - 1 = k /\ LevelHeld(row, e, height, j - 1, m, g[k])
      BY <2>4, <3>1
    <3> HIDE DEF j, m
    <3>3. LevelHeld(row, e, height, j, m, Level(hash, e, g[k], j - 1))
      BY <1>0, <1>1, <1>2, <3>2, LevelStep
    <3>4. g[j] = Level(hash, e, g[k], j - 1)
      BY <2>2, <3>2
    <3> QED
      BY <3>3, <3>4 DEF j
  <2>5. height \in D
    <3> HIDE DEF D
    <3> QED
      BY <2>3, <2>4, Induct
  <2>6. PICK nodes, count :
             /\ g[height] = [nodes |-> nodes, count |-> count]
             /\ count \in Nat /\ count >= 1
             /\ RowHeld(row, e, height, height, nodes, count)
    <3>1. LevelHeld(row, e, height, height, m, g[height])
      BY <2>5
    <3> QED
      BY <3>1, Zenon DEF LevelHeld
  <2>7. row[height][1] = nodes[1]
    BY <1>t, <2>6 DEF RowHeld
  <2>8. g[height].nodes = nodes
    BY <2>6
  <2> QED
    BY <1>2, <2>1, <2>7, <2>8
<1> QED
  BY <1>3, <1>4

\* The logs of each block, and of the batch, are sequences.
LEMMA LogsAreSeqs ==
    ASSUME TxsSound
    PROVE  /\ Pieces(LogsByBlock) /\ Len(LogsByBlock) = Len(txs) /\ IsSeq(AllLogs)
           /\ DOMAIN AllLogs = 1..Len(AllLogs)
<1>0. /\ IsSeq(txs) /\ Len(txs) \in Nat /\ DOMAIN txs = 1..Len(txs)
      /\ \A b \in 1..Len(txs) : IsSeq(txs[b])
  BY DEF TxsSound, Pieces, IsSeq
<1>1. ASSUME NEW l, IsSeq(l) PROVE IsSeq(LogsOf(l))
  <2> DEFINE S == {i \in DOMAIN l : Does(l[i]) = "log"}
             k == Picked(l, S)
  <2>1. LogsOf(l) = [i \in DOMAIN k |-> k[i].enc.id]
    BY DEF LogsOf
  <2>2. S \subseteq 1..Len(l)
    BY <1>1 DEF IsSeq
  <2> HIDE DEF S
  <2>3. IsSeq(k)
    BY <1>1, <2>2, PickedFacts DEF Selects
  <2> HIDE DEF k
  <2>4. DOMAIN k = 1..Len(k) /\ Len(k) \in Nat
    BY <2>3 DEF IsSeq
  <2>5. LogsOf(l) = [i \in 1..Len(k) |-> LogsOf(l)[i]]
    BY <2>1, <2>4
  <2> HIDE DEF LogsOf
  <2> QED
    BY <2>4, <2>5, MakeSeq
<1> DEFINE B == LogsByBlock
<1>2. B = [b \in 1..Len(txs) |-> LogsOf(txs[b])]
  BY <1>0 DEF LogsByBlock
<1>3. B = [b \in 1..Len(txs) |-> B[b]] /\ \A b \in 1..Len(txs) : B[b] = LogsOf(txs[b])
  BY <1>2
<1> HIDE DEF B
<1>4. IsSeq(B) /\ Len(B) = Len(txs)
  BY <1>0, <1>3, MakeSeq
<1>5. Pieces(B)
  BY <1>0, <1>1, <1>3, <1>4 DEF Pieces
<1>6. IsSeq(AllLogs)
  BY <1>5, FlattenIsSeq DEF AllLogs, B
<1>7. DOMAIN AllLogs = 1..Len(AllLogs)
  BY <1>6 DEF IsSeq
<1> QED
  BY <1>4, <1>5, <1>6, <1>7 DEF B

\* The logs root is that of the padded tree.
LEMMA LogsRootPadded ==
    ASSUME TxsSound, FitsTree(AllLogs, L2_TO_L1_TREE_HEIGHT)
    PROVE  l2_to_l1_logs_root(AllLogs)
             = PaddedRoot("keccak",
                          [i \in DOMAIN AllLogs |-> keccak256(<<L2ToL1Log(AllLogs[i])>>)],
                          L2_TO_L1_TREE_HEIGHT, keccak256(<<EmptyLog>>))
<1> DEFINE a == AllLogs
           n == Len(a)
           l == [i \in DOMAIN a |-> keccak256(<<L2ToL1Log(a[i])>>)]
<1>1. DOMAIN a = 1..n /\ n \in Nat /\ n <= 2 ^ L2_TO_L1_TREE_HEIGHT
  BY LogsAreSeqs DEF IsSeq, FitsTree
<1>2. l = [i \in 1..n |-> l[i]]
  BY <1>1
<1>3. l2_to_l1_logs_root(a)
        = fixed_height_root("keccak", l, L2_TO_L1_TREE_HEIGHT, keccak256(<<EmptyLog>>))
  BY DEF l2_to_l1_logs_root
<1> HIDE DEF l, n
<1>4. IsSeq(l) /\ Len(l) = n
  BY <1>1, <1>2, MakeSeq
<1>5. fixed_height_root("keccak", l, L2_TO_L1_TREE_HEIGHT, keccak256(<<EmptyLog>>))
        = PaddedRoot("keccak", l, L2_TO_L1_TREE_HEIGHT, keccak256(<<EmptyLog>>))
  BY <1>1, <1>4, TreeHeightAssumption, FoldedIsPadded
<1> QED
  BY <1>3, <1>5, Zenon DEF l

\* The tree of the chain batch root.
LEMMA SmallTree ==
    ASSUME NEW a, NEW b, NEW c, NEW d
    PROVE  fixed_height_root("keccak", <<a, b, c, d>>, 3, ZERO)
             = PaddedRoot("keccak", <<a, b, c, d>>, 3, ZERO)
<1> DEFINE l == <<a, b, c, d>>
<1>1. IsSeq(l) /\ Len(l) = 4
  BY DEF IsSeq
<1>2. 2 ^ 0 = 1 /\ 2 ^ (0 + 1) = 2 * 2 ^ 0 /\ 2 ^ (1 + 1) = 2 * 2 ^ 1 /\ 2 ^ (2 + 1) = 2 * 2 ^ 2
  BY PowerOfTwo
<1>3. 4 <= 2 ^ 3
  BY <1>2
<1> HIDE DEF l
<1>4. 3 \in Nat /\ Len(l) <= 2 ^ 3
  BY <1>1, <1>3
<1>5. fixed_height_root("keccak", l, 3, ZERO) = PaddedRoot("keccak", l, 3, ZERO)
  BY <1>1, <1>4, FoldedIsPadded
<1> QED
  BY <1>5 DEF l

\* A pair of proofs that is accepted proves the root of the engine in that state.
LEMMA EngineProved ==
    ASSUME NEW t, NEW address, NEW h, NEW r,
           derive_merkle_engine_root_ok(address, h, r, TreeRoot(t))
    PROVE  Word(Value(r)) = EngineRoot(t, address)
<1>1. \A x, y : TreeRoot(x) = TreeRoot(y) => x = y
  BY DEF TreeRoot
<1>2. h.slot = HeightSlot(address) /\ h.tree = t
  BY <1>1 DEF derive_merkle_engine_root_ok, Proves
<1>3. Value(h) = t[HeightSlot(address)]
  BY <1>2 DEF Value
<1>4. r.slot = NodesSlot(address, t[HeightSlot(address)]) /\ r.tree = t
  BY <1>1, <1>3 DEF derive_merkle_engine_root_ok, Proves
<1> QED
  BY <1>4 DEF Value, EngineRoot

\* The chain batch root of an accepted batch.
LEMMA BoundariesWhenAccepted ==
    ASSUME NEW s, NEW c, NEW u, NEW p, Accepted(s, c, u, p)
    PROVE  LET logs == PaddedRoot("keccak",
                        [i \in DOMAIN AllLogs |-> keccak256(<<L2ToL1Log(AllLogs[i])>>)],
                        L2_TO_L1_TREE_HEIGHT, keccak256(<<EmptyLog>>))
               multichain == EngineRoot(tree, "MessageRoot")
           IN  L1Field(s, out, "logs_root") =
                CASE s <= AtlasV2 -> compress("keccak", logs, ZERO)
                  [] s = AtlasV3 -> compress("keccak", logs, multichain)
                  [] OTHER -> PaddedRoot("keccak",
                                  <<logs, multichain,
                                    EngineRoot(Tree0, "InteropCommitmentTree"),
                                    EngineRoot(tree, "InteropCommitmentTree")>>, 3, ZERO)
<1> DEFINE logs == l2_to_l1_logs_root(AllLogs)
           mr == EngineRoot(tree, "MessageRoot")
           cb == EngineRoot(Tree0, "InteropCommitmentTree")
           ce == EngineRoot(tree, "InteropCommitmentTree")
           sp == spec
           x == L1Field(s, out, "logs_root")
<1>0. /\ TxsSound /\ Committed(p) /\ Alike(s)
      /\ sp \in AtlasV1..AtlasV5 /\ s \in AtlasV1..AtlasV5
  BY DEF Accepted, InputSound
<1>1. x = chain_batch_root_of(p)
  BY DEF Accepted, Opens
<1>2. interop_ok(p, tree) /\ FitsTree(AllLogs, L2_TO_L1_TREE_HEIGHT)
  BY <1>0 DEF Committed
<1>3. logs = PaddedRoot("keccak",
                        [i \in DOMAIN AllLogs |-> keccak256(<<L2ToL1Log(AllLogs[i])>>)],
                        L2_TO_L1_TREE_HEIGHT, keccak256(<<EmptyLog>>))
  BY <1>0, <1>2, LogsRootPadded
<1>4. sp >= AtlasV3 => Word(Value(p[1].mr_root)) = mr
  BY <1>2, EngineProved DEF interop_ok, derive_multichain_root_ok
<1>5. sp >= AtlasV4 => Word(Value(p[1].ct[2])) = cb /\ Word(Value(p[1].ct[4])) = ce
  <2> SUFFICES ASSUME sp >= AtlasV4
               PROVE  Word(Value(p[1].ct[2])) = cb /\ Word(Value(p[1].ct[4])) = ce
    OBVIOUS
  <2>1. sp >= AtlasV3 /\ IsAtlasV4
    <3>1. sp >= AtlasV3
      <4> HIDE DEF sp
      <4> QED
        BY <1>0, Specs
    <3> QED
      BY <3>1 DEF IsAtlasV4
  <2>2. derive_interop_commitment_tree_roots_ok(p[1].ct, TreeRoot(Tree0), TreeRoot(tree))
    BY <1>2, <2>1 DEF interop_ok
  <2> QED
    BY <2>2, EngineProved DEF derive_interop_commitment_tree_roots_ok
<1>6. chain_batch_root_of(p)
        = chain_batch_root(IF sp >= AtlasV4 THEN "HeightThreeMerkle" ELSE "TwoPreimageKeccak",
                           logs,
                           IF sp >= AtlasV3 THEN Word(Value(p[1].mr_root)) ELSE ZERO,
                           IF sp >= AtlasV4 THEN Word(Value(p[1].ct[2])) ELSE ZERO,
                           IF sp >= AtlasV4 THEN Word(Value(p[1].ct[4])) ELSE ZERO)
  BY Zenon DEF chain_batch_root_of, IsAtlasV4
<1> DEFINE F == fixed_height_root("keccak", <<logs, mr, cb, ce>>, 3, ZERO)
           G == PaddedRoot("keccak", <<logs, mr, cb, ce>>, 3, ZERO)
<1>7. F = G
  <2> HIDE DEF logs, mr, cb, ce
  <2> QED
    BY SmallTree
<1> HIDE DEF logs, mr, cb, ce, sp, x
<1>8. CASE s <= AtlasV2
  <2>1. ~(sp >= AtlasV4) /\ ~(sp >= AtlasV3)
    <3>1. sp <= AtlasV2
      BY <1>0, <1>8, Specs DEF Alike, sp
    <3> QED
      BY <1>0, <3>1, Specs
  <2>2. x = compress("keccak", logs, ZERO)
    BY <1>1, <1>6, <2>1, Zenon DEF chain_batch_root
  <2>3. ~(s = AtlasV3)
    BY <1>8, Specs
  <2> QED
    BY <1>3, <1>8, <2>2, <2>3, Zenon DEF x
<1>9. CASE s = AtlasV3
  <2>1. ~(sp >= AtlasV4) /\ sp >= AtlasV3
    <3>1. sp = AtlasV3
      BY <1>0, <1>9, Specs DEF Alike, sp
    <3> QED
      BY <1>0, <3>1, Specs
  <2>2. x = compress("keccak", logs, mr)
    BY <1>1, <1>4, <1>6, <2>1, Zenon DEF chain_batch_root
  <2>3. ~(s <= AtlasV2)
    BY <1>9, Specs
  <2> QED
    BY <1>3, <1>9, <2>2, <2>3, Zenon DEF x, mr
<1>10. CASE s >= AtlasV4
  <2>1. sp >= AtlasV4 /\ sp >= AtlasV3
    <3>1. sp >= AtlasV4
      BY <1>0, <1>10, Specs DEF Alike, sp
    <3> QED
      BY <1>0, <3>1, Specs
  <2>2. x = F
    <3>1. "HeightThreeMerkle" # "TwoPreimageKeccak"
      OBVIOUS
    <3> QED
      BY <1>1, <1>4, <1>5, <1>6, <2>1, <3>1, Zenon
         DEF chain_batch_root, CHAIN_BATCH_ROOT_TREE_HEIGHT
  <2>3. ~(s <= AtlasV2) /\ ~(s = AtlasV3)
    BY <1>0, <1>10, Specs
  <2> QED
    BY <1>3, <1>7, <2>2, <2>3, Zenon DEF x, mr, cb, ce
<1>11. s <= AtlasV2 \/ s = AtlasV3 \/ s >= AtlasV4
  BY <1>0, Specs
<1> QED
  BY <1>8, <1>9, <1>10, <1>11

\* The interop roots of an accepted batch belong to the states at its ends.
THEOREM InteropBoundariesHold == Spec => []InteropBoundaries
<1>1. BatchInv => InteropBoundaries
  BY AcceptedFacts, BoundariesWhenAccepted, Zenon DEF InteropBoundaries, WhenAccepted
<1> QED
  BY <1>1, BatchSound, PTL

-----------------------------------------------------------------------------
(* The imported interop roots. *)

FlatFold(s, base, l) == FoldLeft(LAMBDA r, root : RootStep(s, r, root), base, l)
AbiFold(abi, base, l) ==
    FoldLeft(LAMBDA r, root : keccak256(<<r>> \o InteropRootWords(abi, root)), base, l)

\* The fold of roots, step by step.
LEMMA FlatChain ==
    ASSUME NEW s, NEW base, NEW list, IsSeq(list)
    PROVE  \E g : Chain("flat", s, list, base, Len(list), g)
                  /\ FlatFold(s, base, list) = g[Len(list)]
<1> DEFINE P(f) == f = [x \in SUBSET (DOMAIN list) |->
                          IF x = {} THEN base
                          ELSE RootStep(s, f[x \ {Max(x)}], list[Max(x)])]
           f0 == CHOOSE f : P(f)
<1>1. FlatFold(s, base, list) = f0[DOMAIN list]
  BY DEF FlatFold, FoldLeft, MapThenFoldSet
<1>2. DOMAIN list = 1..Len(list) /\ Len(list) \in Nat
  BY DEF IsSeq
<1>3. \A r, i : FoldStep("flat", s, list, r, i) = RootStep(s, r, list[i])
  BY DEF FoldStep
<1>4. \A f : P(f) <=> FoldsTo("flat", s, list, base, 1..Len(list), f)
  BY <1>2, <1>3, Zenon DEF FoldsTo
<1> HIDE DEF P
<1>5. \E f : P(f)
  BY <1>2, <1>4, FoldExists
<1>6. P(f0)
  BY <1>5, Zenon
<1>7. FoldsTo("flat", s, list, base, 1..Len(list), f0)
  BY <1>4, <1>6
<1> HIDE DEF f0
<1>8. \E g : Chain("flat", s, list, base, Len(list), g) /\ f0[1..Len(list)] = g[Len(list)]
  BY <1>2, <1>7, FoldChain
<1> QED
  BY <1>1, <1>2, <1>8

\* The fold of one transaction's roots, step by step.
LEMMA AbiChain ==
    ASSUME NEW abi, NEW base, NEW list, IsSeq(list)
    PROVE  \E g : Chain("roots", abi, list, base, Len(list), g)
                  /\ AbiFold(abi, base, list) = g[Len(list)]
<1> DEFINE P(f) == f = [x \in SUBSET (DOMAIN list) |->
                          IF x = {} THEN base
                          ELSE keccak256(<<f[x \ {Max(x)}]>>
                                         \o InteropRootWords(abi, list[Max(x)]))]
           f0 == CHOOSE f : P(f)
<1>1. AbiFold(abi, base, list) = f0[DOMAIN list]
  BY DEF AbiFold, FoldLeft, MapThenFoldSet
<1>2. DOMAIN list = 1..Len(list) /\ Len(list) \in Nat
  BY DEF IsSeq
<1>3. \A r, i : FoldStep("roots", abi, list, r, i)
                   = keccak256(<<r>> \o InteropRootWords(abi, list[i]))
  BY DEF FoldStep
<1>4. \A f : P(f) <=> FoldsTo("roots", abi, list, base, 1..Len(list), f)
  BY <1>2, <1>3, Zenon DEF FoldsTo
<1> HIDE DEF P
<1>5. \E f : P(f)
  BY <1>2, <1>4, FoldExists
<1>6. P(f0)
  BY <1>5, Zenon
<1>7. FoldsTo("roots", abi, list, base, 1..Len(list), f0)
  BY <1>4, <1>6
<1> HIDE DEF f0
<1>8. \E g : Chain("roots", abi, list, base, Len(list), g) /\ f0[1..Len(list)] = g[Len(list)]
  BY <1>2, <1>7, FoldChain
<1> QED
  BY <1>1, <1>2, <1>8

\* The fold over the system transactions, step by step.
LEMMA TxsChain ==
    ASSUME NEW abi, NEW list, IsSeq(list)
    PROVE  \E g : Chain("txs", abi, list, ZERO, Len(list), g)
                  /\ RollRoots(abi, list) = g[Len(list)]
<1> DEFINE P(f) == f = [x \in SUBSET (DOMAIN list) |->
                          IF x = {} THEN ZERO
                          ELSE fold_system_tx_interop_roots(list[Max(x)], abi, f[x \ {Max(x)}])]
           f0 == CHOOSE f : P(f)
<1>1. RollRoots(abi, list) = f0[DOMAIN list]
  BY DEF RollRoots, FoldLeft, MapThenFoldSet
<1>2. DOMAIN list = 1..Len(list) /\ Len(list) \in Nat
  BY DEF IsSeq
<1>3. \A r, i : FoldStep("txs", abi, list, r, i) = fold_system_tx_interop_roots(list[i], abi, r)
  BY DEF FoldStep
<1>4. \A f : P(f) <=> FoldsTo("txs", abi, list, ZERO, 1..Len(list), f)
  BY <1>2, <1>3, Zenon DEF FoldsTo
<1> HIDE DEF P
<1>5. \E f : P(f)
  BY <1>2, <1>4, FoldExists
<1>6. P(f0)
  BY <1>5, Zenon
<1>7. FoldsTo("txs", abi, list, ZERO, 1..Len(list), f0)
  BY <1>4, <1>6
<1> HIDE DEF f0
<1>8. \E g : Chain("txs", abi, list, ZERO, Len(list), g) /\ f0[1..Len(list)] = g[Len(list)]
  BY <1>2, <1>7, FoldChain
<1> QED
  BY <1>1, <1>2, <1>8

\* Tuples, put together.
LEMMA Tuple21 == ASSUME NEW a, NEW b, NEW t PROVE <<a, b>> \o <<t>> = <<a, b, t>>
<1> DEFINE u == <<a, b>>
           v == <<t>>
           w == u \o v
<1>1. IsSeq(u) /\ Len(u) = 2 /\ u[1] = a /\ u[2] = b
  BY ShortSeqs
<1>2. IsSeq(v) /\ Len(v) = 1 /\ v[1] = t
  BY ShortSeqs
<1> HIDE DEF u, v
<1>3. IsCat(w, u, v)
  BY <1>1, <1>2, CatIs
<1> HIDE DEF w
<1>4. /\ IsSeq(w) /\ Len(w) = 3 /\ w[1] = a /\ w[2] = b
      /\ w[2 + 1] = t
  BY <1>1, <1>2, <1>3 DEF IsCat
<1>5. w = <<a, b, t>>
  BY <1>4 DEF IsSeq
<1> QED
  BY <1>5 DEF w, u, v

\* Three words after a first one.
LEMMA Tuple13 == ASSUME NEW r, NEW a, NEW b, NEW t PROVE <<r>> \o <<a, b, t>> = <<r, a, b, t>>
<1> DEFINE u == <<r>>
           v == <<a, b, t>>
           w == u \o v
<1>1. IsSeq(u) /\ Len(u) = 1 /\ u[1] = r
  BY ShortSeqs
<1>2. IsSeq(v) /\ Len(v) = 3 /\ v[1] = a /\ v[2] = b /\ v[3] = t
  BY ShortSeqs
<1> HIDE DEF u, v
<1>3. IsCat(w, u, v)
  BY <1>1, <1>2, CatIs
<1> HIDE DEF w
<1>4. /\ IsSeq(w) /\ Len(w) = 4 /\ w[1] = r
      /\ w[1 + 1] = a /\ w[1 + 2] = b /\ w[1 + 3] = t
  BY <1>1, <1>2, <1>3 DEF IsCat
<1>5. w = <<r, a, b, t>>
  BY <1>4 DEF IsSeq
<1> QED
  BY <1>5 DEF w, u, v

\* Two words after a first one.
LEMMA Tuple12b == ASSUME NEW r, NEW a, NEW b PROVE <<r>> \o <<a, b>> = <<r, a, b>>
<1> DEFINE u == <<r>>
           v == <<a, b>>
           w == u \o v
<1>1. IsSeq(u) /\ Len(u) = 1 /\ u[1] = r
  BY ShortSeqs
<1>2. IsSeq(v) /\ Len(v) = 2 /\ v[1] = a /\ v[2] = b
  BY ShortSeqs
<1> HIDE DEF u, v
<1>3. IsCat(w, u, v)
  BY <1>1, <1>2, CatIs
<1> HIDE DEF w
<1>4. /\ IsSeq(w) /\ Len(w) = 3 /\ w[1] = r
      /\ w[1 + 1] = a /\ w[1 + 2] = b
  BY <1>1, <1>2, <1>3 DEF IsCat
<1>5. w = <<r, a, b>>
  BY <1>4 DEF IsSeq
<1> QED
  BY <1>5 DEF w, u, v

\* Two words and no more.
LEMMA Tuple20 == ASSUME NEW a, NEW b PROVE <<a, b>> \o << >> = <<a, b>>
<1> DEFINE u == <<a, b>>
<1>1. IsSeq(u)
  BY ShortSeqs
<1> HIDE DEF u
<1>2. IsCat(u \o << >>, u, << >>)
  BY <1>1, EmptySequence, CatIs
<1>3. u \o << >> = u
  <2> DEFINE w == u \o << >>
  <2>1. IsSeq(w) /\ Len(w) = Len(u) /\ \A k \in 1..Len(u) : w[k] = u[k]
    BY <1>1, <1>2, EmptySequence DEF IsCat, IsSeq
  <2> HIDE DEF w
  <2>2. w = u
    BY <1>1, <2>1, SeqEq
  <2> QED
    BY <2>2 DEF w
<1> QED
  BY <1>3 DEF u

\* The words one root adds, in either form.
LEMMA RootWords ==
    ASSUME NEW s, NEW abi, abi = IF s >= AtlasV4 THEN "WithTimestamp" ELSE "WithoutTimestamp",
           NEW r, NEW root, IsSeq(root.sides)
    PROVE  keccak256(<<r>> \o InteropRootWords(abi, root)) = RootStep(s, r, root)
<1> DEFINE a == Word(root.chain_id)
           b == Word(root.number)
           t == Word(root.ts)
           sides == root.sides
<1>0. IsSeq(sides)
  OBVIOUS
<1>1. InteropRootWords(abi, root)
        = <<a, b>> \o (IF abi = "WithTimestamp" THEN <<t>> ELSE << >>) \o sides
  BY DEF InteropRootWords
<1>2. RootStep(s, r, root) = keccak256(IF s >= AtlasV4 THEN <<r, a, b, t>> \o sides
                                       ELSE <<r, a, b>> \o sides)
  BY DEF RootStep
<1> HIDE DEF a, b, t, sides
<1>3. <<a, b>> \o <<t>> = <<a, b, t>> /\ <<a, b>> \o << >> = <<a, b>>
  BY Tuple21, Tuple20
<1>4. <<r>> \o <<a, b, t>> = <<r, a, b, t>> /\ <<r>> \o <<a, b>> = <<r, a, b>>
  BY Tuple13, Tuple12b
<1>5. IsSeq(<<r>>) /\ IsSeq(<<a, b>>) /\ IsSeq(<<a, b, t>>)
  BY ShortSeqs
<1>6. /\ <<r>> \o (<<a, b, t>> \o sides) = (<<r>> \o <<a, b, t>>) \o sides
      /\ <<r>> \o (<<a, b>> \o sides) = (<<r>> \o <<a, b>>) \o sides
  BY <1>0, <1>5, CatAssoc
<1>7. CASE s >= AtlasV4
  <2>1. InteropRootWords(abi, root) = <<a, b, t>> \o sides
    BY <1>1, <1>3, <1>7, Zenon
  <2> QED
    BY <1>2, <1>4, <1>6, <1>7, <2>1, Zenon
<1>8. CASE ~(s >= AtlasV4)
  <2>0. abi # "WithTimestamp"
    BY <1>8
  <2>1. InteropRootWords(abi, root) = <<a, b>> \o sides
    BY <1>1, <1>3, <2>0, Zenon
  <2> QED
    BY <1>2, <1>4, <1>6, <1>8, <2>1, Zenon
<1> QED
  BY <1>7, <1>8

\* Two chains whose steps are the same end alike.
LEMMA ChainSame ==
    ASSUME NEW k1, NEW k2, NEW p1, NEW p2, NEW l1, NEW l2, NEW base, NEW n \in Nat,
           NEW g, NEW h, Chain(k1, p1, l1, base, n, g), Chain(k2, p2, l2, base, n, h),
           \A i \in 1..n : \A r : FoldStep(k1, p1, l1, r, i) = FoldStep(k2, p2, l2, r, i)
    PROVE  \A i \in 0..n : g[i] = h[i]
<1> DEFINE D == {i \in Nat : i <= n => g[i] = h[i]}
<1>1. 0 \in D
  BY DEF Chain
<1>2. ASSUME NEW i \in Nat, i \in D PROVE i + 1 \in D
  <2> SUFFICES ASSUME i + 1 <= n PROVE g[i + 1] = h[i + 1]
    OBVIOUS
  <2>1. i + 1 \in 1..n /\ (i + 1) - 1 = i /\ i <= n
    OBVIOUS
  <2>2. g[i] = h[i]
    BY <1>2, <2>1
  <2>3. /\ g[i + 1] = FoldStep(k1, p1, l1, g[i], i + 1)
        /\ h[i + 1] = FoldStep(k2, p2, l2, h[i], i + 1)
    BY <2>1 DEF Chain
  <2> QED
    BY <2>1, <2>2, <2>3
<1>3. \A i \in Nat : i \in D
  <2> HIDE DEF D
  <2> QED
    BY <1>1, <1>2, Induct
<1> QED
  BY <1>3

\* The fold of one transaction's roots.
LEMMA AbiIsFlat ==
    ASSUME NEW s, NEW abi, abi = IF s >= AtlasV4 THEN "WithTimestamp" ELSE "WithoutTimestamp",
           NEW base, NEW list, IsSeq(list), \A i \in 1..Len(list) : IsSeq(list[i].sides)
    PROVE  AbiFold(abi, base, list) = FlatFold(s, base, list)
<1> DEFINE n == Len(list)
<1>0. n \in Nat /\ n \in 0..n
  BY DEF IsSeq
<1>1. PICK g : Chain("roots", abi, list, base, n, g) /\ AbiFold(abi, base, list) = g[n]
  BY AbiChain
<1>2. PICK h : Chain("flat", s, list, base, n, h) /\ FlatFold(s, base, list) = h[n]
  BY FlatChain
<1>3. ASSUME NEW i \in 1..n, NEW r
      PROVE  FoldStep("roots", abi, list, r, i) = FoldStep("flat", s, list, r, i)
  <2>1. FoldStep("roots", abi, list, r, i) = keccak256(<<r>> \o InteropRootWords(abi, list[i]))
    BY DEF FoldStep
  <2>2. FoldStep("flat", s, list, r, i) = RootStep(s, r, list[i])
    BY DEF FoldStep
  <2>3. keccak256(<<r>> \o InteropRootWords(abi, list[i])) = RootStep(s, r, list[i])
    BY RootWords
  <2> QED
    BY <2>1, <2>2, <2>3
<1> HIDE DEF n
<1>4. \A i \in 1..n : \A r : FoldStep("roots", abi, list, r, i) = FoldStep("flat", s, list, r, i)
  BY <1>3
<1>5. \A i \in 0..n : g[i] = h[i]
  BY <1>0, <1>1, <1>2, <1>4, ChainSame
<1>6. g[n] = h[n]
  BY <1>0, <1>5
<1> QED
  BY <1>1, <1>2, <1>6

\* Folding a concatenation is folding its parts in turn.
LEMMA FlatCat ==
    ASSUME NEW s, NEW base, NEW l, NEW m, IsSeq(l), IsSeq(m)
    PROVE  FlatFold(s, base, l \o m) = FlatFold(s, FlatFold(s, base, l), m)
<1> DEFINE c == l \o m
           a == Len(l)
           b == Len(m)
<1>0. a \in Nat /\ b \in Nat /\ a \in 0..a /\ b \in 0..b
  BY DEF IsSeq
<1>1. /\ IsSeq(c) /\ Len(c) = a + b
      /\ \A k \in 1..a : c[k] = l[k]
      /\ \A k \in 1..b : c[a + k] = m[k]
  BY Cat
<1>2. PICK g : Chain("flat", s, l, base, a, g) /\ FlatFold(s, base, l) = g[a]
  BY FlatChain
<1>3. PICK h : Chain("flat", s, m, g[a], b, h) /\ FlatFold(s, g[a], m) = h[b]
  BY FlatChain
<1> HIDE DEF c
<1>4. PICK f : Chain("flat", s, c, base, a + b, f) /\ FlatFold(s, base, c) = f[a + b]
  BY <1>1, FlatChain
<1>5. \A x, r, i : FoldStep("flat", s, x, r, i) = RootStep(s, r, x[i])
  BY DEF FoldStep
<1> HIDE DEF a, b
<1>6. f[a] = g[a]
  <2>1. Chain("flat", s, c, base, a, f)
    BY <1>0, <1>4 DEF Chain
  <2>2. \A i \in 1..a : \A r : FoldStep("flat", s, c, r, i) = FoldStep("flat", s, l, r, i)
    BY <1>1, <1>5
  <2> QED
    BY <1>0, <1>2, <2>1, <2>2, ChainSame
<1> DEFINE f2 == [i \in 0..b |-> f[a + i]]
<1>7. Chain("flat", s, m, g[a], b, f2)
  <2>1. f2[0] = g[a]
    BY <1>0, <1>6
  <2>2. ASSUME NEW k \in 1..b PROVE f2[k] = FoldStep("flat", s, m, f2[k - 1], k)
    <3>1. a + k \in 1..(a + b) /\ (a + k) - 1 = a + (k - 1) /\ k \in 0..b /\ k - 1 \in 0..b
      BY <1>0
    <3>2. f[a + k] = FoldStep("flat", s, c, f[(a + k) - 1], a + k)
      BY <1>4, <3>1 DEF Chain
    <3>3. f2[k] = f[a + k] /\ f2[k - 1] = f[(a + k) - 1]
      BY <3>1
    <3> HIDE DEF f2
    <3> QED
      BY <1>1, <1>5, <3>2, <3>3
  <2> HIDE DEF f2
  <2> QED
    BY <2>1, <2>2 DEF Chain
<1>8. f2[b] = f[a + b]
  BY <1>0
<1> HIDE DEF f2
<1>9. f2[b] = h[b]
  BY <1>0, <1>3, <1>7, ChainSame
<1> QED
  BY <1>2, <1>3, <1>4, <1>8, <1>9 DEF c

\* In an accepted batch, what ran of a type is what carries its label.
LEMMA RanIsLabelled ==
    ASSUME TxsSound, LabelsAreTypes
    PROVE  /\ RanType(L1_TX_TYPE) = Labelled({"L1"})
           /\ RanType(UPGRADE_TX_TYPE) = Labelled({"Upgrade"})
           /\ RanType(SYSTEM_TX_TYPE) = SystemTxs
<1> DEFINE f == FlatTxs
<1>1. DOMAIN f = 1..Len(f)
  BY FlatSound
<1>2. ASSUME NEW t, NEW a, \A i \in 1..Len(f) : f[i].auth = a <=> f[i].enc.type = t
      PROVE  RanType(t) = Labelled({a})
  <2>1. {i \in DOMAIN f : f[i].enc.type = t} = {i \in DOMAIN f : f[i].auth \in {a}}
    <3> HIDE DEF f
    <3> QED
      BY <1>1, <1>2
  <2> QED
    BY <2>1, Zenon DEF RanType, Labelled
<1>3. /\ \A i \in 1..Len(f) : f[i].auth = "L1" <=> f[i].enc.type = L1_TX_TYPE
      /\ \A i \in 1..Len(f) : f[i].auth = "Upgrade" <=> f[i].enc.type = UPGRADE_TX_TYPE
      /\ \A i \in 1..Len(f) : f[i].auth = "System" <=> f[i].enc.type = SYSTEM_TX_TYPE
  BY DEF LabelsAreTypes
<1> QED
  BY <1>2, <1>3, Zenon DEF SystemTxs

\* The size of a disjoint union.
LEMMA DisjointUnion ==
    ASSUME NEW X, NEW Y, IsFiniteSet(X), IsFiniteSet(Y), X \cap Y = {}
    PROVE  IsFiniteSet(X \cup Y) /\ Cardinality(X \cup Y) = Cardinality(X) + Cardinality(Y)
<1> DEFINE x == Cardinality(X)
           y == Cardinality(Y)
<1>1. /\ IsFiniteSet(X \cup Y)
      /\ Cardinality(X \cup Y) = x + y - Cardinality(X \cap Y)
  BY FS_Union
<1>2. x \in Nat /\ y \in Nat
  BY FS_CardinalityType
<1>3. Cardinality(X \cap Y) = 0
  BY FS_EmptySet
<1> HIDE DEF x, y
<1>4. Cardinality(X \cup Y) = x + y
  BY <1>1, <1>2, <1>3
<1> QED
  BY <1>1, <1>4 DEF x, y

\* Every transaction has one of the labels, so the counts add up.
LEMMA CountsAddUp ==
    ASSUME TxsSound
    PROVE  /\ NumL2 = Len(FlatTxs) - Len(Labelled({"L1"})) - Len(Labelled({"Upgrade"}))
<1> DEFINE f == FlatTxs
           n == Len(f)
           A(a) == {i \in 1..n : f[i].auth \in a}
           X == A({"L1"})
           Y == A({"Upgrade"})
           Z == A({"L2", "System"})
<1>1. n \in Nat /\ \A i \in 1..n : f[i].auth \in {"L1", "Upgrade", "L2", "System"}
  BY FlatSound DEF TxSound
<1>2. /\ IsFiniteSet(X) /\ Len(Labelled({"L1"})) = Cardinality(X)
      /\ IsFiniteSet(Y) /\ Len(Labelled({"Upgrade"})) = Cardinality(Y)
      /\ IsFiniteSet(Z) /\ Len(Labelled({"L2", "System"})) = Cardinality(Z)
  BY LabelledFacts
<1>3. X \cap Y = {} /\ (X \cup Y) \cap Z = {} /\ (X \cup Y) \cup Z = 1..n
  <2> HIDE DEF f, n
  <2> QED
    BY <1>1
<1> HIDE DEF X, Y, Z
<1>4. IsFiniteSet(X \cup Y) /\ Cardinality(X \cup Y) = Cardinality(X) + Cardinality(Y)
  BY <1>2, <1>3, DisjointUnion
<1>5. Cardinality((X \cup Y) \cup Z) = Cardinality(X \cup Y) + Cardinality(Z)
  BY <1>2, <1>3, <1>4, DisjointUnion
<1>6. Cardinality(1..n) = n
  <2>1. Cardinality(1..n) = IF 1 > n THEN 0 ELSE n - 1 + 1
    BY <1>1, FS_Interval
  <2> HIDE DEF n
  <2> QED
    BY <1>1, <2>1
<1>7. Cardinality(X) \in Nat /\ Cardinality(Y) \in Nat /\ Cardinality(Z) \in Nat
  BY <1>2, FS_CardinalityType
<1>8. n = Cardinality(X) + Cardinality(Y) + Cardinality(Z)
  BY <1>3, <1>4, <1>5, <1>6
<1> HIDE DEF n
<1>9. Cardinality(Z) = n - Cardinality(X) - Cardinality(Y)
  BY <1>7, <1>8
<1> QED
  BY <1>2, <1>9 DEF NumL2, n

\* The settlement layer's id is the one the contract holds after the batch.
LEMMA SlAccepted ==
    ASSUME NEW s, NEW c, NEW u, NEW p, Accepted(s, c, u, p), s >= AtlasV3
    PROVE  SlChainId(meta, p) = tree[SlChainSlot]
<1> DEFINE sp == spec
<1>1. sp \in AtlasV1..AtlasV5 /\ s \in AtlasV1..AtlasV5 /\ Alike(s) /\ interop_ok(p, tree)
  BY DEF Accepted, InputSound, Committed
<1>2. sp >= AtlasV3
  <2>1. \/ sp <= AtlasV2 /\ s <= AtlasV2
        \/ sp = AtlasV3
        \/ sp >= AtlasV4
    BY <1>1 DEF Alike
  <2> HIDE DEF sp
  <2> QED
    BY <1>1, <2>1, Specs
<1>3. Proves(p[1].sl, SlChainSlot, TreeRoot(tree))
  BY <1>1, <1>2 DEF interop_ok, derive_sl_chain_id_ok
<1>4. \A x, y : TreeRoot(x) = TreeRoot(y) => x = y
  BY DEF TreeRoot
<1>5. p[1].sl.slot = SlChainSlot /\ p[1].sl.tree = tree
  BY <1>3, <1>4 DEF Proves
<1> QED
  BY <1>2, <1>5 DEF SlChainId, Value

\* The fold of no roots.
LEMMA FlatNone == ASSUME NEW s, NEW base PROVE FlatFold(s, base, << >>) = base
<1>1. PICK g : Chain("flat", s, << >>, base, Len(<< >>), g)
               /\ FlatFold(s, base, << >>) = g[Len(<< >>)]
  BY EmptySequence, FlatChain
<1> QED
  BY <1>1, EmptySequence DEF Chain

\* Folding piece after piece is folding their concatenation.
LEMMA FoldPieces ==
    ASSUME NEW s, NEW base, NEW l, Pieces(l), NEW G, G[0] = base,
           \A k \in 1..Len(l) : G[k] = FlatFold(s, G[k - 1], l[k])
    PROVE  G[Len(l)] = FlatFold(s, base, FlattenSeq(l))
<1> DEFINE n == Len(l)
<1>0. n \in Nat /\ IsSeq(l) /\ \A i \in 1..n : IsSeq(l[i])
  BY DEF Pieces, IsSeq
<1>1. CASE n = 0
  <2>1. FlattenSeq(l) = << >>
    BY <1>0, <1>1, EmptyIffZero, FlattenNone
  <2> QED
    BY <1>1, <2>1, FlatNone
<1>2. CASE n # 0
  <2>1. PICK g : Flattens(l, n, g) /\ FlattenSeq(l) = g[n]
    BY <1>0, <1>2, FlattenDef
  <2> HIDE DEF n
  <2>2. \A i \in 1..n : IsSeq(g[i])
    BY <1>0, <2>1, FlattenAgree
  <2> DEFINE D == {i \in Nat : i \in 1..n => G[i] = FlatFold(s, base, g[i])}
  <2>3. 0 \in D
    OBVIOUS
  <2>4. ASSUME NEW i \in Nat, i \in D PROVE i + 1 \in D
    <3> SUFFICES ASSUME i + 1 \in 1..n PROVE G[i + 1] = FlatFold(s, base, g[i + 1])
      OBVIOUS
    <3>1. (i + 1) - 1 = i /\ (i + 1 # 1 => i \in 1..n)
      BY <1>0
    <3>2. g[i + 1] = IF i + 1 = 1 THEN l[i + 1] ELSE g[i] \o l[i + 1]
      BY <2>1, <3>1, ZenonT(60) DEF Flattens
    <3>3. G[i + 1] = FlatFold(s, G[i], l[i + 1])
      BY <3>1 DEF n
    <3>4. CASE i + 1 = 1
      <4>1. G[i] = base
        BY <3>4
      <4> QED
        BY <3>2, <3>3, <3>4, <4>1
    <3>5. CASE i + 1 # 1
      <4>1. G[i] = FlatFold(s, base, g[i]) /\ IsSeq(g[i]) /\ IsSeq(l[i + 1])
        BY <1>0, <2>2, <2>4, <3>1, <3>5
      <4>2. FlatFold(s, base, g[i] \o l[i + 1]) = FlatFold(s, FlatFold(s, base, g[i]), l[i + 1])
        BY <4>1, FlatCat
      <4> QED
        BY <3>2, <3>3, <3>5, <4>1, <4>2, Zenon
    <3> QED
      BY <3>4, <3>5
  <2>5. n \in D
    <3> HIDE DEF D
    <3> QED
      BY <1>0, <2>3, <2>4, Induct
  <2>6. G[n] = FlatFold(s, base, g[n])
    BY <1>0, <1>2, <2>5
  <2> QED
    BY <2>1, <2>6 DEF n
<1> QED
  BY <1>1, <1>2

\* The roots a transaction's calldata holds.
LEMMA RootsAreSeqs ==
    ASSUME NEW e \in Encodings
    PROVE  IsSeq(e.roots) /\ \A i \in 1..Len(e.roots) : IsSeq(e.roots[i].sides)
<1> DEFINE R == [chain_id : Nat, number : Nat, ts : Nat, sides : Seq(STRING \X Nat)]
           l == e.roots
<1>1. l \in Seq(R)
  BY EncodingsAssumption
<1>2. \A S, x : x \in Seq(S) => IsSeq(x)
  BY DEF IsSeq
<1>3. \A r \in R : r.sides \in Seq(STRING \X Nat)
  OBVIOUS
<1> HIDE DEF R
<1>4. ASSUME NEW i \in 1..Len(l) PROVE IsSeq(l[i].sides)
  <2>1. l[i] \in R
    BY <1>1
  <2> QED
    BY <1>2, <1>3, <2>1
<1> QED
  BY <1>1, <1>2, <1>4

\* One system transaction: a call that imports nothing holds no roots.
LEMMA FoldOne ==
    ASSUME NEW s, NEW abi, abi = IF s >= AtlasV4 THEN "WithTimestamp" ELSE "WithoutTimestamp",
           NEW tx, tx.enc \in Encodings, interop_selector_ok(tx, abi), NEW r
    PROVE  fold_system_tx_interop_roots(tx, abi, r) = FlatFold(s, r, tx.enc.roots)
<1>1. CASE tx.enc.sel = selector(abi)
  <2>1. fold_system_tx_interop_roots(tx, abi, r) = AbiFold(abi, r, tx.enc.roots)
    BY <1>1 DEF fold_system_tx_interop_roots, AbiFold
  <2>2. IsSeq(tx.enc.roots) /\ \A i \in 1..Len(tx.enc.roots) : IsSeq(tx.enc.roots[i].sides)
    BY RootsAreSeqs
  <2>3. AbiFold(abi, r, tx.enc.roots) = FlatFold(s, r, tx.enc.roots)
    BY <2>2, AbiIsFlat
  <2> QED
    BY <2>1, <2>3
<1>2. CASE tx.enc.sel # selector(abi)
  <2>1. fold_system_tx_interop_roots(tx, abi, r) = r
    BY <1>2 DEF fold_system_tx_interop_roots
  <2>2. tx.enc.sel \in {"setSettlementLayerChainId", "setInteropFee"}
    BY <1>2 DEF interop_selector_ok
  <2>3. tx.enc.roots = << >>
    BY <2>2, EncodingsAssumption DEF selector
  <2> QED
    BY <2>1, <2>3, FlatNone
<1> QED
  BY <1>1, <1>2

\* The rolling hash of an accepted batch covers every imported root, in order.
LEMMA ImportsAccepted ==
    ASSUME NEW s, NEW c, NEW u, NEW p, Accepted(s, c, u, p)
    PROVE  InteropRollingHash = FlatFold(s, ZERO, ImportedRoots)
<1> DEFINE L == SystemTxs
           abi == import_abi
           R == [i \in DOMAIN L |-> L[i].enc.roots]
<1>0. TxsSound /\ LabelsAreTypes /\ Committed(p)
  BY LabelsAccepted DEF Accepted
<1>1. abi = IF s >= AtlasV4 THEN "WithTimestamp" ELSE "WithoutTimestamp"
  <2> DEFINE sp == spec
  <2>1. sp \in AtlasV1..AtlasV5 /\ s \in AtlasV1..AtlasV5 /\ Alike(s)
    BY DEF Accepted, InputSound
  <2>2. sp >= AtlasV4 <=> s >= AtlasV4
    <3>1. \/ sp <= AtlasV2 /\ s <= AtlasV2
          \/ sp = AtlasV3 /\ s = AtlasV3
          \/ sp >= AtlasV4 /\ s >= AtlasV4
      BY <2>1 DEF Alike
    <3> HIDE DEF sp
    <3> QED
      BY <2>1, <3>1, Specs
  <2> QED
    BY <2>2 DEF import_abi, IsAtlasV4
<1>2. IsSeq(L) /\ DOMAIN L = 1..Len(L) /\ \A k \in 1..Len(L) : L[k].enc \in Encodings
  <2>1. /\ IsSeq(L) /\ DOMAIN L = 1..Len(L)
        /\ \A k \in 1..Len(L) : \E i \in 1..Len(FlatTxs) : L[k] = FlatTxs[i]
    BY <1>0, LabelledFacts DEF SystemTxs
  <2>2. \A i \in 1..Len(FlatTxs) : FlatTxs[i].enc \in Encodings
    BY <1>0, FlatSound DEF TxSound
  <2> HIDE DEF L
  <2> QED
    BY <2>1, <2>2
<1>3. \A k \in 1..Len(L) : interop_selector_ok(L[k], abi)
  BY <1>0, <1>2 DEF Committed
<1>4. ImportedRoots = FlattenSeq(R)
  BY <1>0, RanIsLabelled DEF ImportedRoots
<1>5. InteropRollingHash = RollRoots(abi, L)
  BY RollRootsIs
<1> HIDE DEF abi, L
<1>6. PICK G : Chain("txs", abi, L, ZERO, Len(L), G) /\ RollRoots(abi, L) = G[Len(L)]
  BY <1>2, TxsChain
<1>7. R = [i \in 1..Len(L) |-> R[i]] /\ \A i \in 1..Len(L) : R[i] = L[i].enc.roots
  BY <1>2
<1> HIDE DEF R
<1>8. Len(L) \in Nat
  BY <1>2 DEF IsSeq
<1>9. IsSeq(R) /\ Len(R) = Len(L)
  BY <1>7, <1>8, MakeSeq
<1>10. Pieces(R)
  BY <1>2, <1>7, <1>9, RootsAreSeqs DEF Pieces
<1>11. ASSUME NEW k \in 1..Len(L) PROVE G[k] = FlatFold(s, G[k - 1], R[k])
  <2>1. G[k] = FoldStep("txs", abi, L, G[k - 1], k)
    BY <1>6 DEF Chain
  <2>2. FoldStep("txs", abi, L, G[k - 1], k) = fold_system_tx_interop_roots(L[k], abi, G[k - 1])
    BY DEF FoldStep
  <2>3. fold_system_tx_interop_roots(L[k], abi, G[k - 1]) = FlatFold(s, G[k - 1], L[k].enc.roots)
    BY <1>1, <1>2, <1>3, FoldOne
  <2> QED
    BY <1>7, <2>1, <2>2, <2>3
<1>12. G[0] = ZERO
  BY <1>6 DEF Chain
<1>13. G[Len(R)] = FlatFold(s, ZERO, FlattenSeq(R))
  BY <1>9, <1>10, <1>11, <1>12, FoldPieces
<1> QED
  BY <1>4, <1>5, <1>6, <1>9, <1>13

\* The blocks of a batch are numbered from the one after the chain's tip.
LEMMA BlocksNumbered ==
    ASSUME BlocksSound
    PROVE  /\ Len(blocks) \in Nat /\ Len(blocks) # 0
           /\ Last(blocks).number = Number0 + Len(blocks)
<1> DEFINE n == Len(blocks)
           D == {i \in Nat : i \in 1..n => blocks[i].number = i}
<1>0. IsSeq(blocks) /\ n \in Nat /\ \A i \in 1..n : blocks[i].number \in Nat
  BY BlockSeqFacts DEF BlocksSound
<1>1. n # 0
  BY <1>0, EmptyIffZero DEF BlocksSound, validate_block_sequence
<1>2. /\ blocks[1].number = 1
      /\ \A i \in 1..(n - 1) : blocks[i + 1].number = blocks[i].number + 1
  BY DEF BlocksSound, validate_block_sequence, Number0
<1> HIDE DEF n
<1>3. 0 \in D
  OBVIOUS
<1>4. ASSUME NEW i \in Nat, i \in D PROVE i + 1 \in D
  <2> SUFFICES ASSUME i + 1 \in 1..n PROVE blocks[i + 1].number = i + 1
    OBVIOUS
  <2>1. CASE i = 0
    BY <1>2, <2>1
  <2>2. CASE i # 0
    <3>1. i \in 1..(n - 1) /\ i \in 1..n
      BY <1>0, <2>2
    <3> QED
      BY <1>2, <1>4, <3>1
  <2> QED
    BY <2>1, <2>2
<1>5. n \in D
  <2> HIDE DEF D
  <2> QED
    BY <1>0, <1>3, <1>4, Induct
<1>6. blocks[n].number = n
  BY <1>0, <1>1, <1>5
<1>7. Number0 + n = n
  BY <1>0 DEF Number0
<1> QED
  BY <1>0, <1>1, <1>6, <1>7 DEF Last, n

-----------------------------------------------------------------------------
(* The headers, from what ran. *)

GasFold(l) == FoldLeft(LAMBDA g, t : g + t.gas_used, 0, l)
RanHashes(l) == [i \in DOMAIN l |-> Hash(l[i].enc)]
RanReceipts(l) ==
    [i \in DOMAIN l |-> receipt_leaf(l[i].enc.type, TRUE, GasFold(SubSeq(l, 1, i)), << >>)]
PaddedTree(l) == PaddedRoot("blake2s", l, BLOCK_TX_TREE_DEPTH, ZERO)
RanHeader(prev, b) ==
    compute_block_header_hash(
        prev, blocks[b],
        IF IsAtlasV4 THEN PaddedTree(RanHashes(txs[b]))
        ELSE transactions_rolling_hash(RanHashes(txs[b]),
                                       IF spec = AtlasV3 THEN KECCAK_EMPTY ELSE ZERO),
        IF IsAtlasV4 THEN PaddedTree(RanReceipts(txs[b])) ELSE ZERO, GasFold(txs[b]))
RunsTo(h) ==
    h = [b \in 0..Len(txs) |-> IF b = 0 THEN Header0 ELSE RanHeader(h[b - 1], b)]

\* RanHeaders, by its parts.
LEMMA RanHeadersDef ==
    RanHeaders = [b \in 1..(Len(txs) + 1) |-> (CHOOSE h : RunsTo(h))[b - 1]]
BY Zenon DEF RanHeaders, RunsTo, RanHeader, RanHashes, RanReceipts, PaddedTree, GasFold

\* The cumulative gas.
LEMMA GasUpToIs == ASSUME NEW l, NEW i PROVE GasUpTo(l, i) = GasFold(SubSeq(l, 1, i))
BY DEF GasUpTo, GasFold

\* All of a sequence.
LEMMA WholeSeq == ASSUME NEW l, IsSeq(l) PROVE SubSeq(l, 1, Len(l)) = l
<1> DEFINE n == Len(l)
           w == SubSeq(l, 0 + 1, 0 + n)
<1>1. n \in Nat /\ 0 \in Nat /\ 0 + n <= Len(l) /\ 0 + 1 = 1 /\ 0 + n = n
  BY DEF IsSeq
<1>2. IsSeq(w) /\ Len(w) = n /\ \A k \in 1..n : w[k] = l[0 + k]
  BY <1>1, Sub
<1>3. \A k \in 1..n : 0 + k = k
  OBVIOUS
<1> HIDE DEF w
<1>4. w = l
  BY <1>2, <1>3, SeqEq
<1> HIDE DEF n
<1> QED
  BY <1>1, <1>4 DEF w, n

\* The header of a block is the one of what ran in it.
LEMMA RanHeaderIs ==
    ASSUME spec \in AtlasV1..AtlasV5, NEW b, IsSeq(txs[b]),
           \A i \in 1..Len(txs[b]) : TxSound(txs[b][i]),
           IsAtlasV4 => FitsTree(txs[b], BLOCK_TX_TREE_DEPTH), NEW prev
    PROVE  RanHeader(prev, b) = HeaderOf(prev, blocks[b], txs[b])
<1> DEFINE l == txs[b]
           n == Len(l)
           hashes == [i \in DOMAIN l |-> TxHashOf(l[i])]
           rs == receipt_leaves(l)
<1>0. n \in Nat /\ DOMAIN l = 1..n /\ IsSeq(l)
  BY DEF IsSeq
<1>1. \A i \in 1..n : TxHashOf(l[i]) = Hash(l[i].enc) /\ TypeOf(l[i]) = l[i].enc.type
  <2> TAKE i \in 1..n
  <2>1. TxSound(l[i])
    OBVIOUS
  <2> HIDE DEF l
  <2> QED
    BY <2>1 DEF TxSound, TxHashOf, TypeOf
<1>g. GasFold(l) = GasUpTo(l, Len(l))
  BY <1>0, GasUpToIs, WholeSeq
<1>r. rs = [i \in DOMAIN l |->
              receipt_leaf(TypeOf(l[i]), TRUE, GasFold(SubSeq(l, 1, i)), << >>)]
  BY GasUpToIs, Zenon DEF receipt_leaves
<1>2. RanHeader(prev, b) = compute_block_header_hash(
        prev, blocks[b],
        IF IsAtlasV4 THEN PaddedTree(RanHashes(l))
        ELSE transactions_rolling_hash(RanHashes(l),
                                       IF spec = AtlasV3 THEN KECCAK_EMPTY ELSE ZERO),
        IF IsAtlasV4 THEN PaddedTree(RanReceipts(l)) ELSE ZERO, GasFold(l))
  BY Zenon DEF RanHeader
<1>3. HeaderOf(prev, blocks[b], l) = compute_block_header_hash(
        prev, blocks[b],
        IF IsAtlasV4 THEN block_tx_tree_root(hashes)
        ELSE transactions_rolling_hash(hashes, IF spec >= AtlasV3 THEN KECCAK_EMPTY ELSE ZERO),
        IF IsAtlasV4 THEN block_tx_tree_root(rs) ELSE ZERO, GasUpTo(l, Len(l)))
  BY Zenon DEF HeaderOf
<1>f. IsAtlasV4 => n <= 2 ^ BLOCK_TX_TREE_DEPTH
  BY DEF FitsTree
<1> HIDE DEF l, n, rs
<1>4. RanHashes(l) = hashes
  BY <1>0, <1>1 DEF RanHashes
<1>5. RanReceipts(l) = rs
  <2>1. \A i \in DOMAIN l : TypeOf(l[i]) = l[i].enc.type
    BY <1>0, <1>1
  <2> QED
    BY <1>r, <2>1 DEF RanReceipts
<1>6. ASSUME NEW x, x = [i \in 1..n |-> x[i]], IsAtlasV4 PROVE block_tx_tree_root(x) = PaddedTree(x)
  <2>1. IsSeq(x) /\ Len(x) = n
    BY <1>0, <1>6, MakeSeq
  <2>2. fixed_height_root("blake2s", x, BLOCK_TX_TREE_DEPTH, ZERO)
          = PaddedRoot("blake2s", x, BLOCK_TX_TREE_DEPTH, ZERO)
    BY <1>f, <1>6, <2>1, TreeHeightAssumption, FoldedIsPadded
  <2> QED
    BY <2>2 DEF block_tx_tree_root, PaddedTree
<1>7. hashes = [i \in 1..n |-> hashes[i]]
  BY <1>0
<1>8. rs = [i \in 1..n |-> rs[i]]
  BY <1>0, <1>r
<1> HIDE DEF hashes
<1>9. IsAtlasV4 => /\ block_tx_tree_root(hashes) = PaddedTree(hashes)
                   /\ block_tx_tree_root(rs) = PaddedTree(rs)
  BY <1>6, <1>7, <1>8
<1>10. ~IsAtlasV4 => (IF spec = AtlasV3 THEN KECCAK_EMPTY ELSE ZERO)
                      = (IF spec >= AtlasV3 THEN KECCAK_EMPTY ELSE ZERO)
  <2>1. ~IsAtlasV4 => (spec = AtlasV3 <=> spec >= AtlasV3)
    BY Specs DEF IsAtlasV4
  <2> QED
    BY <2>1, Zenon
<1>11. CASE IsAtlasV4
  BY <1>2, <1>3, <1>4, <1>5, <1>9, <1>11, <1>g, Zenon DEF l
<1>12. CASE ~IsAtlasV4
  <2> DEFINE e1 == IF spec = AtlasV3 THEN KECCAK_EMPTY ELSE ZERO
             e2 == IF spec >= AtlasV3 THEN KECCAK_EMPTY ELSE ZERO
  <2>1. RanHeader(prev, b) = compute_block_header_hash(
          prev, blocks[b], transactions_rolling_hash(hashes, e1), ZERO, GasUpTo(l, Len(l)))
    BY <1>2, <1>4, <1>12, <1>g, Zenon
  <2>2. HeaderOf(prev, blocks[b], l) = compute_block_header_hash(
          prev, blocks[b], transactions_rolling_hash(hashes, e2), ZERO, GasUpTo(l, Len(l)))
    BY <1>3, <1>12, Zenon
  <2>3. e1 = e2
    BY <1>10, <1>12
  <2> HIDE DEF e1, e2
  <2>4. RanHeader(prev, b) = HeaderOf(prev, blocks[b], l)
    BY <2>1, <2>2, <2>3, Zenon
  <2> QED
    BY <2>4 DEF l
<1> QED
  BY <1>11, <1>12

\* The first elements of a sequence.
LEMMA Prefix ==
    ASSUME NEW s, IsSeq(s), NEW n \in Nat, n <= Len(s)
    PROVE  /\ IsSeq(SubSeq(s, 1, n)) /\ Len(SubSeq(s, 1, n)) = n
           /\ \A k \in 1..n : SubSeq(s, 1, n)[k] = s[k]
<1> DEFINE S == {s[i] : i \in 1..Len(s)}
           u == SubSeq(s, 1, n)
<1>1. s \in Seq(S) /\ Len(s) \in Nat
  BY Typed DEF IsSeq
<1> HIDE DEF S
<1>2. u \in Seq(S) /\ Len(u) = n
  BY <1>1, SMTT(30)
<1>3. ASSUME NEW k \in 1..n PROVE u[k] = s[k]
  BY <1>1, SMTT(30)
<1> HIDE DEF u
<1>4. IsSeq(u)
  BY <1>2 DEF IsSeq
<1> QED
  BY <1>2, <1>3, <1>4 DEF u

\* The header chain that is committed is the one of what ran.
LEMMA HeadersAccepted ==
    ASSUME InputSound, TxsSound, HeadersSound, pc = "done"
    PROVE  Append(<<Header0>> \o Front(headers), Last(headers)) = RanHeaders
<1> DEFINE n == Len(txs)
           h == [b \in 0..n |-> IF b = 0 THEN Header0 ELSE headers[b]]
           c == CHOOSE x : RunsTo(x)
<1>0. n \in Nat /\ n >= 1 /\ IsSeq(headers) /\ Len(headers) = n
  BY DEF TxsSound, HeadersSound, Pieces, IsSeq
<1>1. ASSUME NEW b \in 1..n, NEW prev
      PROVE  RanHeader(prev, b) = HeaderOf(prev, blocks[b], txs[b])
  <2>1. /\ spec \in AtlasV1..AtlasV5 /\ IsSeq(txs[b])
        /\ \A i \in 1..Len(txs[b]) : TxSound(txs[b][i])
    BY DEF InputSound, TxsSound, Pieces
  <2>2. IsAtlasV4 => FitsTree(txs[b], BLOCK_TX_TREE_DEPTH)
    BY <1>0 DEF HeadersSound
  <2> QED
    BY <2>1, <2>2, RanHeaderIs
<1>2. ASSUME NEW b \in 1..n
      PROVE  headers[b] = HeaderOf(IF b = 1 THEN Header0 ELSE headers[b - 1], blocks[b], txs[b])
  BY <1>0 DEF HeadersSound
<1> HIDE DEF n
<1>3. h[0] = Header0 /\ \A b \in 1..n : h[b] = headers[b]
  BY <1>0
<1>4. ASSUME NEW b \in 1..n PROVE h[b] = RanHeader(h[b - 1], b)
  <2>1. h[b - 1] = IF b = 1 THEN Header0 ELSE headers[b - 1]
    <3>1. CASE b = 1
      BY <1>3, <3>1
    <3>2. CASE b # 1
      <4>1. b - 1 \in 1..n
        BY <1>0, <3>2
      <4> QED
        BY <1>3, <3>2, <4>1
    <3> QED
      BY <3>1, <3>2
  <2> HIDE DEF h
  <2> QED
    BY <1>1, <1>2, <1>3, <2>1
<1>5. DOMAIN h = 0..n /\ h = [b \in 0..n |-> h[b]]
  OBVIOUS
<1> HIDE DEF h
<1>6. h = [b \in 0..n |-> IF b = 0 THEN Header0 ELSE RanHeader(h[b - 1], b)]
  <2>1. \A b \in 0..n : h[b] = IF b = 0 THEN Header0 ELSE RanHeader(h[b - 1], b)
    BY <1>0, <1>3, <1>4
  <2> QED
    BY <1>5, <2>1, Zenon
<1>7. RunsTo(h)
  BY <1>6, Zenon DEF RunsTo, n
<1>8. RunsTo(c)
  BY <1>7, Zenon
<1>9. RanHeaders = [b \in 1..(n + 1) |-> c[b - 1]]
  BY RanHeadersDef, Zenon DEF n
<1> HIDE DEF c
<1>10. c[0] = Header0 /\ \A b \in 1..n : c[b] = RanHeader(c[b - 1], b)
  <2>1. c = [b \in 0..n |-> IF b = 0 THEN Header0 ELSE RanHeader(c[b - 1], b)]
    BY <1>8, Zenon DEF RunsTo, n
  <2> DEFINE V(b) == RanHeader(c[b - 1], b)
  <2>2. c = [b \in 0..n |-> IF b = 0 THEN Header0 ELSE V(b)]
    BY <2>1
  <2> HIDE DEF V
  <2>3. c[0] = Header0 /\ \A b \in 1..n : c[b] = V(b)
    BY <1>0, <2>2
  <2> QED
    BY <2>3 DEF V
<1> DEFINE D == {i \in Nat : i <= n => c[i] = h[i]}
<1>11. n \in D /\ \A i \in 0..n : i \in D
  <2>1. 0 \in D
    BY <1>3, <1>10
  <2>2. ASSUME NEW i \in Nat, i \in D PROVE i + 1 \in D
    <3> SUFFICES ASSUME i + 1 <= n PROVE c[i + 1] = h[i + 1]
      OBVIOUS
    <3>1. i + 1 \in 1..n /\ (i + 1) - 1 = i /\ i <= n
      BY <1>0
    <3>2. c[i] = h[i]
      BY <2>2, <3>1
    <3>3. c[i + 1] = RanHeader(c[(i + 1) - 1], i + 1) /\ h[i + 1] = RanHeader(h[(i + 1) - 1], i + 1)
      BY <1>4, <1>10, <3>1
    <3> QED
      BY <3>1, <3>2, <3>3
  <2> HIDE DEF D
  <2>3. Nat \subseteq D
    BY <2>1, <2>2, Induct
  <2> QED
    BY <1>0, <2>3
<1>12. \A i \in 0..n : c[i] = h[i]
  BY <1>11
<1>13. RanHeaders = [b \in 1..(n + 1) |-> h[b - 1]]
  <2>1. \A b \in 1..(n + 1) : c[b - 1] = h[b - 1]
    BY <1>0, <1>12
  <2> QED
    BY <1>9, <2>1
<1> DEFINE r == [b \in 1..(n + 1) |-> h[b - 1]]
           f == Front(headers)
           q == <<Header0>> \o f
           w == Append(q, Last(headers))
<1>14. IsSeq(r) /\ Len(r) = n + 1 /\ r[1] = Header0 /\ \A k \in 1..n : r[k + 1] = headers[k]
  <2>1. n + 1 \in Nat /\ r = [b \in 1..(n + 1) |-> r[b]] /\ 1 - 1 = 0
    BY <1>0
  <2>2. r[1] = Header0
    BY <1>0, <1>3, <2>1
  <2>3. \A k \in 1..n : r[k + 1] = headers[k]
    <3> TAKE k \in 1..n
    <3>1. k + 1 \in 1..(n + 1) /\ (k + 1) - 1 = k
      BY <1>0
    <3> QED
      BY <1>3, <3>1
  <2> HIDE DEF r
  <2> QED
    BY <2>1, <2>2, <2>3, MakeSeq
<1>15. IsSeq(f) /\ Len(f) = n - 1 /\ \A k \in 1..(n - 1) : f[k] = headers[k]
  <2> DEFINE m == n - 1
  <2>1. m \in Nat /\ m <= Len(headers)
    BY <1>0
  <2>2. f = SubSeq(headers, 1, m)
    BY <1>0 DEF Front
  <2> HIDE DEF m, f
  <2>3. IsSeq(f) /\ Len(f) = m /\ \A k \in 1..m : f[k] = headers[k]
    BY <1>0, <2>1, <2>2, Prefix
  <2> QED
    BY <2>3 DEF m
<1>16. Last(headers) = headers[n]
  BY <1>0 DEF Last
<1> HIDE DEF r, f
<1>17. /\ IsSeq(q) /\ Len(q) = n /\ q[1] = Header0
       /\ \A k \in 1..(n - 1) : q[1 + k] = headers[k]
  <2> DEFINE o == <<Header0>>
  <2>1. IsSeq(o) /\ Len(o) = 1 /\ o[1] = Header0
    BY ShortSeqs
  <2> HIDE DEF o
  <2>2. IsCat(o \o f, o, f)
    BY <1>15, <2>1, CatIs
  <2>3. q = o \o f
    BY DEF o
  <2> HIDE DEF q
  <2>4. IsCat(q, o, f)
    BY <2>2, <2>3
  <2> QED
    BY <1>0, <1>15, <2>1, <2>4 DEF IsCat
<1> HIDE DEF q
<1>18. /\ IsSeq(w) /\ Len(w) = n + 1 /\ w[n + 1] = headers[n]
       /\ \A k \in 1..n : w[k] = q[k]
  BY <1>16, <1>17, AppendFacts
<1> HIDE DEF w
<1>19. \A k \in 1..(n + 1) : w[k] = r[k]
  <2> TAKE k \in 1..(n + 1)
  <2>1. CASE k = 1
    BY <1>0, <1>14, <1>17, <1>18, <2>1
  <2>2. CASE k = n + 1
    BY <1>0, <1>14, <1>18, <2>2
  <2>3. CASE k # 1 /\ k # n + 1
    <3>1. k - 1 \in 1..(n - 1) /\ k - 1 \in 1..n /\ 1 + (k - 1) = k /\ (k - 1) + 1 = k /\ k \in 1..n
      BY <1>0, <2>3
    <3>2. w[k] = q[k] /\ q[1 + (k - 1)] = headers[k - 1] /\ r[(k - 1) + 1] = headers[k - 1]
      BY <1>14, <1>17, <1>18, <3>1
    <3> QED
      BY <3>1, <3>2
  <2> QED
    BY <2>1, <2>2, <2>3
<1>20. w = r
  BY <1>14, <1>18, <1>19, SeqEq
<1> QED
  BY <1>13, <1>20 DEF w, q, f, r

\* What the settlement layer reads off an accepted batch is what ran.
DeclaresWhatRan(s, c) ==
    LET ops == RanType(L1_TX_TYPE)
    IN  /\ L1Field(s, out, "n_l1") = Word(Len(ops))
        /\ \A i \in DOMAIN ops : PriorityQueue[i] = Hash(ops[i].enc)
        /\ s >= AtlasV3 =>
              /\ L1Field(s, out, "n_l2")
                    = Word(Len(FlatTxs) - Len(ops) - Len(RanType(UPGRADE_TX_TYPE)))
              /\ L1Field(s, out, "sl_chain_id") = Word(tree[SlChainSlot])
        /\ L1Field(s, out, "first_ts") = Word(blocks[1].timestamp)
        /\ L1Field(s, out, "last_ts") = Word(Last(blocks).timestamp)
        /\ L1Field(s, out, "interop_roots") = FlatFold(s, ZERO, ImportedRoots)
        /\ (s >= AtlasV4 /\ c.pubdata_content = 1 /\ meta.da_scheme = 3) =>
              L1Field(s, out, "da_commitment")
                 = da_commitment_calldata(logs_only_pubdata(LogsByBlock))
        /\ Words(out)[2]
              = state_commitment_hash(
                    TreeRoot(tree), LeafCount(tree), Number0 + Len(blocks),
                    blake2s(RanHeaders), Last(blocks).timestamp)

\* What an accepted batch declares.
LEMMA RanWhenAccepted ==
    ASSUME NEW s, NEW c, NEW u, NEW p, Accepted(s, c, u, p)
    PROVE  DeclaresWhatRan(s, c)
<1> DEFINE ops == RanType(L1_TX_TYPE)
<1>0. /\ InputSound /\ BlocksSound /\ TxsSound /\ HeadersSound /\ LabelsAreTypes
      /\ pc = "done" /\ Opens(s, meta, p)
  BY LabelsAccepted DEF Accepted
<1>1. /\ ops = Labelled({"L1"}) /\ RanType(UPGRADE_TX_TYPE) = Labelled({"Upgrade"})
  BY <1>0, RanIsLabelled
<1>2. /\ IsSeq(ops) /\ DOMAIN ops = 1..Len(ops) /\ Len(ops) \in Nat
      /\ \A k \in 1..Len(ops) : \E i \in 1..Len(FlatTxs) :
            ops[k] = FlatTxs[i] /\ FlatTxs[i].auth = "L1"
  <2> DEFINE L == Labelled({"L1"})
             S == {i \in 1..Len(FlatTxs) : FlatTxs[i].auth \in {"L1"}}
  <2>0. /\ IsSeq(L) /\ DOMAIN L = 1..Len(L)
        /\ \A k \in 1..Len(L) : \E i \in S : L[k] = FlatTxs[i]
    BY <1>0, LabelledFacts, Zenon
  <2>1. /\ IsSeq(L) /\ DOMAIN L = 1..Len(L)
        /\ \A k \in 1..Len(L) : \E i \in 1..Len(FlatTxs) :
              L[k] = FlatTxs[i] /\ FlatTxs[i].auth = "L1"
    <3> HIDE DEF L
    <3> QED
      BY <2>0
  <2> HIDE DEF L
  <2>2. Len(L) \in Nat
    BY <2>1 DEF IsSeq
  <2>3. ops = L
    BY <1>1 DEF L
  <2> HIDE DEF ops
  <2> QED
    BY <2>1, <2>2, <2>3
<1>3. L1TxHashes = [i \in 1..Len(ops) |-> ops[i].tx_hash]
  BY <1>1, <1>2 DEF L1TxHashes
<1> HIDE DEF ops
<1>4. Len(L1TxHashes) = Len(ops)
  <2>1. L1TxHashes = [i \in 1..Len(ops) |-> L1TxHashes[i]]
    BY <1>3
  <2> QED
    BY <1>2, <2>1, MakeSeq
<1>5. \A i \in DOMAIN ops : PriorityQueue[i] = Hash(ops[i].enc)
  <2> TAKE i \in DOMAIN ops
  <2>1. i \in 1..Len(L1TxHashes) /\ i \in 1..Len(ops)
    BY <1>2, <1>4
  <2>2. L1TxHashes[i] = PriorityQueue[i]
    BY <2>1, PriorityAccepted
  <2>3. L1TxHashes[i] = ops[i].tx_hash
    BY <1>3, <2>1
  <2>4. PICK j \in 1..Len(FlatTxs) : ops[i] = FlatTxs[j] /\ FlatTxs[j].auth = "L1"
    BY <1>2, <2>1
  <2>5. TxSound(FlatTxs[j])
    BY <1>0, <2>4, FlatSound
  <2>6. ops[i].tx_hash = Hash(ops[i].enc)
    BY <2>4, <2>5 DEF TxSound
  <2> QED
    BY <2>2, <2>3, <2>6
<1>6. /\ L1Field(s, out, "n_l1") = Word(Len(ops))
      /\ L1Field(s, out, "first_ts") = Word(blocks[1].timestamp)
      /\ L1Field(s, out, "last_ts") = Word(Last(blocks).timestamp)
      /\ s >= AtlasV3 => /\ L1Field(s, out, "n_l2") = Word(NumL2)
                         /\ L1Field(s, out, "sl_chain_id") = Word(SlChainId(meta, p))
      /\ L1Field(s, out, "interop_roots") = InteropRollingHash
      /\ L1Field(s, out, "da_commitment") = da_commitment(meta.da_scheme, meta.pubdata)
      /\ Words(out)[2] = state_after(tree)
  BY <1>0, <1>4 DEF Opens
<1>7. NumL2 = Len(FlatTxs) - Len(ops) - Len(RanType(UPGRADE_TX_TYPE))
  BY <1>0, <1>1, CountsAddUp
<1>8. s >= AtlasV3 => L1Field(s, out, "sl_chain_id") = Word(tree[SlChainSlot])
  BY <1>6, SlAccepted
<1>9. L1Field(s, out, "interop_roots") = FlatFold(s, ZERO, ImportedRoots)
  BY <1>6, ImportsAccepted
<1>10. (s >= AtlasV4 /\ c.pubdata_content = 1 /\ meta.da_scheme = 3) =>
          L1Field(s, out, "da_commitment")
             = da_commitment_calldata(logs_only_pubdata(LogsByBlock))
  <2> SUFFICES ASSUME s >= AtlasV4, c.pubdata_content = 1, meta.da_scheme = 3
               PROVE  da_commitment(meta.da_scheme, meta.pubdata)
                        = da_commitment_calldata(logs_only_pubdata(LogsByBlock))
    BY <1>6
  <2>1. IsAtlasV4
    <3> DEFINE sp == spec
    <3>1. sp \in AtlasV1..AtlasV5 /\ s \in AtlasV1..AtlasV5 /\ Alike(s)
      BY DEF Accepted, InputSound
    <3>2. \/ sp <= AtlasV2 /\ s <= AtlasV2
          \/ sp = AtlasV3 /\ s = AtlasV3
          \/ sp >= AtlasV4 /\ s >= AtlasV4
      BY <3>1 DEF Alike
    <3> HIDE DEF sp
    <3>3. sp >= AtlasV4
      BY <3>1, <3>2, Specs
    <3> QED
      BY <3>3 DEF IsAtlasV4, sp
  <2>2. input.pubdata_content = PUBDATA_CONTENT_LOGS_ONLY
    BY <2>1, PinnedWhenAccepted DEF PUBDATA_CONTENT_LOGS_ONLY
  <2> DEFINE k == IF IsAtlasV4 /\ input.pubdata_content = PUBDATA_CONTENT_LOGS_ONLY
                  THEN logs_only_pubdata(LogsByBlock) ELSE meta.pubdata
  <2>3. k = logs_only_pubdata(LogsByBlock)
    BY <2>1, <2>2, Zenon
  <2>4. da_commitment(meta.da_scheme, meta.pubdata)
          = CASE meta.da_scheme \in {0, 1} -> ZERO
              [] meta.da_scheme \in {2, 3} -> da_commitment_calldata(k)
              [] meta.da_scheme = 4 -> da_commitment_blobs(<<<<"blob", 0>>>>)
    BY Zenon DEF da_commitment
  <2> HIDE DEF k
  <2>5. da_commitment(meta.da_scheme, meta.pubdata) = da_commitment_calldata(k)
    <3>1. meta.da_scheme \notin {0, 1} /\ meta.da_scheme \in {2, 3} /\ meta.da_scheme # 4
      OBVIOUS
    <3> QED
      BY <2>4, <3>1, Zenon
  <2> QED
    BY <2>3, <2>5
<1>11. state_after(tree) = state_commitment_hash(
                    TreeRoot(tree), LeafCount(tree), Number0 + Len(blocks),
                    blake2s(RanHeaders), Last(blocks).timestamp)
  <2>1. Last(blocks).number = Number0 + Len(blocks)
    BY <1>0, BlocksNumbered
  <2>2. Append(<<Header0>> \o Front(headers), Last(headers)) = RanHeaders
    BY <1>0, HeadersAccepted
  <2>3. block_hashes_blake(<<Header0>> \o Front(headers), Last(headers)) = blake2s(RanHeaders)
    BY <2>2, Zenon DEF block_hashes_blake
  <2> QED
    BY <2>1, <2>3, Zenon DEF state_after
<1> QED
  BY <1>5, <1>6, <1>7, <1>8, <1>9, <1>10, <1>11, Zenon DEF DeclaresWhatRan, ops

\* What an accepted batch declares is what ran.
THEOREM CommitsWhatRanHolds == Spec => []CommitsWhatRan
<1>1. BatchInv => CommitsWhatRan
  <2>1. ASSUME BatchInv, pc = "done", NEW s \in AtlasV1..AtlasV5, L1Shape(s, out),
               NEW c \in L1Configs(s), NEW u \in L1Upgrades, L1Accepts(s, c, u, out)
        PROVE  DeclaresWhatRan(s, c)
    BY <2>1, AcceptedFacts, RanWhenAccepted, Zenon
  <2> QED
    BY <2>1, Zenon DEF CommitsWhatRan, WhenAccepted, DeclaresWhatRan, FlatFold, RootStep
<1> QED
  BY <1>1, BatchSound, PTL
=============================================================================

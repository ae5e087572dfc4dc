------------------------- MODULE AggregationProofs -------------------------
(***************************************************************************)
(* The aggregated lane is sound for ranges and sections of every size.      *)
(***************************************************************************)
EXTENDS Aggregation, WellFoundedInduction, TLAPS

(* Induction over the naturals, from the well-foundedness of <. *)

LEMMA LeastElement ==
    ASSUME NEW T, T \subseteq Nat, T # {}
    PROVE  \E x \in T : \A y \in T : x <= y
<1> DEFINE R == {ss \in Nat \X Nat : ss[1] < ss[2]}
<1>1. IsWellFoundedOn(R, Nat)
  BY NatLessThanWellFounded DEF OpToRel
<1>2. \E x \in T : \A y \in T : ~ (<<y, x>> \in R)
  <2> HIDE DEF R
  <2> QED
    BY <1>1, WFMin
<1>3. PICK x \in T : \A y \in T : ~ (<<y, x>> \in R)
  BY <1>2
<1>4. ASSUME NEW y \in T PROVE x <= y
  <2>1. x \in Nat /\ y \in Nat
    OBVIOUS
  <2>2. ~ (y < x)
    BY <1>3, <2>1
  <2> QED
    BY <2>1, <2>2
<1> QED
  BY <1>4

LEMMA Induct ==
    ASSUME NEW S, 0 \in S, \A n \in Nat : n \in S => n + 1 \in S
    PROVE  Nat \subseteq S
<1> DEFINE T == Nat \ S
<1> SUFFICES ASSUME T # {} PROVE FALSE
  OBVIOUS
<1>1. PICK x \in T : \A y \in T : x <= y
  <2> HIDE DEF T
  <2>1. T \subseteq Nat
    BY DEF T
  <2> QED
    BY <2>1, LeastElement
<1>2. x # 0 /\ x - 1 \in Nat /\ x - 1 \notin T
  BY <1>1
<1> QED
  BY <1>1, <1>2

-----------------------------------------------------------------------------
(* Sequences, of elements of any kind. *)

IsSeq(s) == Len(s) \in Nat /\ s = [k \in 1..Len(s) |-> s[k]]

LEMMA Typed == ASSUME NEW s, IsSeq(s) PROVE s \in Seq({s[i] : i \in 1..Len(s)})
<1> DEFINE S == {s[i] : i \in 1..Len(s)}
<1>1. Len(s) \in Nat /\ DOMAIN s = 1..Len(s)
  BY DEF IsSeq
<1>2. s \in [1..Len(s) -> S]
  BY DEF IsSeq
<1> HIDE DEF S
<1>3. s \in Seq(S)
  BY <1>1, <1>2
<1> QED
  BY <1>3 DEF S

\* A function on an initial interval is a sequence of that length.
LEMMA MakeSeq ==
    ASSUME NEW s, NEW n \in Nat, s = [k \in 1..n |-> s[k]]
    PROVE  IsSeq(s) /\ Len(s) = n /\ DOMAIN s = 1..n
<1>1. DOMAIN s = 1..n
  OBVIOUS
<1>2. Len(s) = n
  BY <1>1
<1> QED
  BY <1>1, <1>2 DEF IsSeq

LEMMA SeqEq ==
    ASSUME NEW s, NEW t, IsSeq(s), IsSeq(t), Len(s) = Len(t),
           \A k \in 1..Len(s) : s[k] = t[k]
    PROVE  s = t
BY DEF IsSeq

LEMMA Cat ==
    ASSUME NEW s, NEW t, IsSeq(s), IsSeq(t)
    PROVE  /\ IsSeq(s \o t)
           /\ Len(s \o t) = Len(s) + Len(t)
           /\ \A k \in 1..Len(s) : (s \o t)[k] = s[k]
           /\ \A k \in 1..Len(t) : (s \o t)[Len(s) + k] = t[k]
<1> DEFINE S == {s[i] : i \in 1..Len(s)} \cup {t[i] : i \in 1..Len(t)}
<1>1. Len(s) \in Nat /\ Len(t) \in Nat /\ DOMAIN s = 1..Len(s) /\ DOMAIN t = 1..Len(t)
  BY DEF IsSeq
<1>2. s \in [1..Len(s) -> S] /\ t \in [1..Len(t) -> S]
  BY DEF IsSeq
<1> HIDE DEF S
<1>3. s \in Seq(S) /\ t \in Seq(S)
  BY <1>1, <1>2
<1>4. s \o t \in Seq(S) /\ Len(s \o t) = Len(s) + Len(t)
  BY <1>3
<1>5. /\ \A k \in 1..Len(s) : (s \o t)[k] = s[k]
      /\ \A k \in 1..Len(t) : (s \o t)[Len(s) + k] = t[k]
  BY <1>3
<1>6. IsSeq(s \o t)
  <2> DEFINE u == s \o t
  <2>1. u \in Seq(S)
    BY <1>4
  <2> HIDE DEF u
  <2>2. IsSeq(u)
    BY <2>1 DEF IsSeq
  <2> QED
    BY <2>2 DEF u
<1> QED
  BY <1>4, <1>5, <1>6

IsCat(u, s, t) ==
    /\ IsSeq(u) /\ Len(u) = Len(s) + Len(t)
    /\ \A k \in 1..Len(s) : u[k] = s[k]
    /\ \A k \in 1..Len(t) : u[Len(s) + k] = t[k]

LEMMA CatIs == ASSUME NEW s, NEW t, IsSeq(s), IsSeq(t) PROVE IsCat(s \o t, s, t)
BY Cat DEF IsCat

LEMMA Sub ==
    ASSUME NEW s, IsSeq(s), NEW a \in Nat, NEW n \in Nat, a + n <= Len(s)
    PROVE  /\ IsSeq(SubSeq(s, a + 1, a + n)) /\ Len(SubSeq(s, a + 1, a + n)) = n
           /\ \A k \in 1..n : SubSeq(s, a + 1, a + n)[k] = s[a + k]
<1> DEFINE S == {s[i] : i \in 1..Len(s)}
           u == SubSeq(s, a + 1, a + n)
<1>1. s \in Seq(S) /\ Len(s) \in Nat
  BY Typed DEF IsSeq
<1> HIDE DEF S
<1>2. u \in Seq(S) /\ Len(u) = n
  BY <1>1, SMTT(30)
<1>3. ASSUME NEW k \in 1..n PROVE u[k] = s[a + k]
  BY <1>1, SMTT(30)
<1> HIDE DEF u
<1>4. IsSeq(u)
  BY <1>2 DEF IsSeq
<1> QED
  BY <1>2, <1>3, <1>4 DEF u

LEMMA EmptySequence == IsSeq(<< >>) /\ Len(<< >>) = 0
BY DEF IsSeq

LEMMA ShortSeqs ==
    /\ \A x : IsSeq(<<x>>) /\ Len(<<x>>) = 1 /\ <<x>>[1] = x
    /\ \A x, y : IsSeq(<<x, y>>) /\ Len(<<x, y>>) = 2 /\ <<x, y>>[1] = x /\ <<x, y>>[2] = y
    /\ \A x, y, z : /\ IsSeq(<<x, y, z>>) /\ Len(<<x, y, z>>) = 3
                    /\ <<x, y, z>>[1] = x /\ <<x, y, z>>[2] = y /\ <<x, y, z>>[3] = z
<1>1. ASSUME NEW x PROVE IsSeq(<<x>>) /\ Len(<<x>>) = 1 /\ <<x>>[1] = x
  BY DEF IsSeq
<1>2. ASSUME NEW x, NEW y
      PROVE  IsSeq(<<x, y>>) /\ Len(<<x, y>>) = 2 /\ <<x, y>>[1] = x /\ <<x, y>>[2] = y
  BY DEF IsSeq
<1>3. ASSUME NEW x, NEW y, NEW z
      PROVE  /\ IsSeq(<<x, y, z>>) /\ Len(<<x, y, z>>) = 3
             /\ <<x, y, z>>[1] = x /\ <<x, y, z>>[2] = y /\ <<x, y, z>>[3] = z
  BY DEF IsSeq
<1> QED
  BY <1>1, <1>2, <1>3

LEMMA EmptyIffZero == ASSUME NEW s, IsSeq(s), Len(s) = 0 PROVE s = << >>
BY EmptySequence, SeqEq

-----------------------------------------------------------------------------
(* Concatenation of a sequence of sequences. *)

Pieces(s) == IsSeq(s) /\ \A i \in 1..Len(s) : IsSeq(s[i])

\* g holds the concatenations of the first pieces.
Flattens(s, n, g) == g = [i \in 1..n |-> IF i = 1 THEN s[i] ELSE g[i - 1] \o s[i]]

LEMMA FlattenExists == ASSUME NEW s, NEW n \in Nat PROVE \E g : Flattens(s, n, g)
<1> DEFINE S == {m \in Nat : \E g : Flattens(s, m, g)}
<1>1. 0 \in S
  <2> DEFINE g == [i \in 1..0 |-> s]
  <2>1. Flattens(s, 0, g)
    BY DEF Flattens
  <2> QED
    BY <2>1
<1>2. ASSUME NEW m \in Nat, m \in S PROVE m + 1 \in S
  <2>1. PICK g : Flattens(s, m, g)
    BY <1>2
  <2> DEFINE h == [i \in 1..(m + 1) |-> IF i = m + 1 THEN (IF i = 1 THEN s[i] ELSE g[i - 1] \o s[i])
                                         ELSE g[i]]
  <2>2. \A i \in 1..m : h[i] = g[i]
    OBVIOUS
  <2>3. ASSUME NEW i \in 1..(m + 1)
        PROVE  h[i] = IF i = 1 THEN s[i] ELSE h[i - 1] \o s[i]
    <3>1. CASE i = m + 1
      <4>1. i # 1 => i - 1 \in 1..m
        BY <3>1
      <4> QED
        BY <2>2, <3>1, <4>1
    <3>2. CASE i # m + 1
      <4>1. i \in 1..m /\ (i # 1 => i - 1 \in 1..m)
        BY <3>2
      <4>2. g[i] = IF i = 1 THEN s[i] ELSE g[i - 1] \o s[i]
        BY <2>1, <4>1 DEF Flattens
      <4> HIDE DEF h
      <4> QED
        BY <2>2, <4>1, <4>2
    <3> QED
      BY <3>1, <3>2
  <2>4. Flattens(s, m + 1, h)
    BY <2>3 DEF Flattens
  <2> HIDE DEF h
  <2> QED
    BY <2>4
<1>3. n \in S
  <2> HIDE DEF S
  <2> QED
    BY <1>1, <1>2, Induct
<1> QED
  BY <1>3

LEMMA FlattenDef ==
    ASSUME NEW s, Len(s) \in Nat, Len(s) # 0
    PROVE  \E g : Flattens(s, Len(s), g) /\ FlattenSeq(s) = g[Len(s)]
<1> DEFINE c == CHOOSE g : g = [i \in 1..Len(s) |-> IF i = 1 THEN s[i] ELSE g[i - 1] \o s[i]]
<1>1. FlattenSeq(s) = c[Len(s)]
  BY DEF FlattenSeq
<1>2. \E g : g = [i \in 1..Len(s) |-> IF i = 1 THEN s[i] ELSE g[i - 1] \o s[i]]
  BY FlattenExists DEF Flattens
<1>3. Flattens(s, Len(s), c)
  BY <1>2, Zenon DEF Flattens
<1> HIDE DEF c
<1> QED
  BY <1>1, <1>3

\* Two lists that begin alike have the same concatenations to that point, and
\* these are sequences.
LEMMA FlattenAgree ==
    ASSUME NEW s, NEW t, NEW n \in Nat, NEW m \in Nat, n <= m, NEW f, NEW g,
           Flattens(s, n, f), Flattens(t, m, g),
           \A i \in 1..n : s[i] = t[i] /\ IsSeq(s[i])
    PROVE  \A i \in 1..n : f[i] = g[i] /\ IsSeq(f[i])
<1> DEFINE S == {i \in Nat : i \in 1..n => f[i] = g[i] /\ IsSeq(f[i])}
<1>1. 0 \in S
  OBVIOUS
<1>2. ASSUME NEW i \in Nat, i \in S PROVE i + 1 \in S
  <2> SUFFICES ASSUME i + 1 \in 1..n PROVE f[i + 1] = g[i + 1] /\ IsSeq(f[i + 1])
    OBVIOUS
  <2>0. i + 1 \in 1..m /\ (i + 1) - 1 = i /\ (i + 1 # 1 => i \in 1..n)
    OBVIOUS
  <2>1. /\ f[i + 1] = IF i + 1 = 1 THEN s[i + 1] ELSE f[i] \o s[i + 1]
        /\ g[i + 1] = IF i + 1 = 1 THEN t[i + 1] ELSE g[i] \o t[i + 1]
    BY <2>0, ZenonT(60) DEF Flattens
  <2>2. CASE i + 1 = 1
    BY <2>1, <2>2
  <2>3. CASE i + 1 # 1
    <3>1. f[i] = g[i] /\ IsSeq(f[i])
      BY <1>2, <2>0, <2>3
    <3>2. IsSeq(f[i] \o s[i + 1])
      BY <3>1, Cat
    <3> QED
      BY <2>1, <2>3, <3>1, <3>2
  <2> QED
    BY <2>2, <2>3
<1>3. Nat \subseteq S
  <2> HIDE DEF S
  <2> QED
    BY <1>1, <1>2, Induct
<1> QED
  BY <1>3

LEMMA FlattenNone == FlattenSeq(<< >>) = << >>
BY EmptySequence DEF FlattenSeq

LEMMA FlattenIsSeq ==
    ASSUME NEW s, Pieces(s)
    PROVE  IsSeq(FlattenSeq(s))
<1>1. CASE Len(s) = 0
  BY <1>1, EmptyIffZero, FlattenNone, EmptySequence DEF Pieces
<1>2. CASE Len(s) # 0
  <2>1. PICK g : Flattens(s, Len(s), g) /\ FlattenSeq(s) = g[Len(s)]
    BY <1>2, FlattenDef DEF Pieces, IsSeq
  <2>2. Len(s) \in Nat /\ Len(s) \in 1..Len(s)
    BY <1>2 DEF Pieces, IsSeq
  <2>3. \A i \in 1..Len(s) : IsSeq(g[i])
    BY <2>1, <2>2, FlattenAgree DEF Pieces
  <2> QED
    BY <2>1, <2>2, <2>3
<1> QED
  BY <1>1, <1>2

\* The concatenation of one more piece.
LEMMA FlattenStep ==
    ASSUME NEW s, NEW t, Pieces(s), Pieces(t), Len(t) = Len(s) + 1,
           \A i \in 1..Len(s) : s[i] = t[i]
    PROVE  FlattenSeq(t) = FlattenSeq(s) \o t[Len(t)]
<1> DEFINE n == Len(s)
<1>0. n \in Nat /\ n + 1 \in Nat /\ Len(t) = n + 1
  BY DEF Pieces, IsSeq
<1> HIDE DEF n
<1>1. PICK g : Flattens(t, n + 1, g) /\ FlattenSeq(t) = g[n + 1]
  BY <1>0, FlattenDef
<1>2. CASE n = 0
  <2>1. FlattenSeq(s) = << >>
    BY <1>2, EmptyIffZero, FlattenNone DEF Pieces, n
  <2>2. FlattenSeq(t) = t[1]
    BY <1>0, <1>1, <1>2 DEF Flattens
  <2>3. IsSeq(t[1])
    BY <1>0, <1>2 DEF Pieces
  <2>4. << >> \o t[1] = t[1]
    <3>1. /\ IsSeq(<< >> \o t[1]) /\ Len(<< >> \o t[1]) = 0 + Len(t[1])
          /\ \A k \in 1..Len(t[1]) : (<< >> \o t[1])[0 + k] = t[1][k]
      BY <2>3, EmptySequence, Cat
    <3>2. Len(t[1]) \in Nat
      BY <2>3 DEF IsSeq
    <3> QED
      BY <2>3, <3>1, <3>2, SeqEq
  <2> QED
    BY <1>0, <1>2, <2>1, <2>2, <2>4
<1>3. CASE n # 0
  <2>1. PICK f : Flattens(s, n, f) /\ FlattenSeq(s) = f[n]
    BY <1>0, <1>3, FlattenDef DEF n
  <2>2. \A i \in 1..n : f[i] = g[i]
    BY <1>0, <1>1, <2>1, FlattenAgree, SMTT(30) DEF Pieces, n
  <2>3. g[n + 1] = g[n] \o t[n + 1]
    <3>1. n + 1 \in 1..(n + 1) /\ n + 1 # 1 /\ (n + 1) - 1 = n
      BY <1>0, <1>3
    <3> QED
      BY <1>1, <3>1 DEF Flattens
  <2>4. n \in 1..n
    BY <1>0, <1>3
  <2> QED
    BY <1>0, <1>1, <2>1, <2>2, <2>3, <2>4
<1> QED
  BY <1>2, <1>3

Prefix(s, k) == [i \in 1..k |-> s[i]]

LEMMA PrefixPieces ==
    ASSUME NEW s, Pieces(s), NEW k \in Nat, k <= Len(s)
    PROVE  /\ Pieces(Prefix(s, k)) /\ Len(Prefix(s, k)) = k
           /\ \A i \in 1..k : Prefix(s, k)[i] = s[i]
           /\ IsSeq(FlattenSeq(Prefix(s, k)))
<1>1. Len(s) \in Nat
  BY DEF Pieces, IsSeq
<1>2. IsSeq(Prefix(s, k)) /\ Len(Prefix(s, k)) = k
  BY MakeSeq DEF Prefix
<1>3. \A i \in 1..k : Prefix(s, k)[i] = s[i] /\ IsSeq(s[i])
  BY <1>1 DEF Prefix, Pieces
<1>4. Pieces(Prefix(s, k))
  BY <1>2, <1>3 DEF Pieces
<1> QED
  BY <1>2, <1>3, <1>4, FlattenIsSeq

LEMMA PrefixAll == ASSUME NEW s, IsSeq(s) PROVE Prefix(s, Len(s)) = s
BY DEF Prefix, IsSeq

LEMMA PrefixStep ==
    ASSUME NEW s, Pieces(s), NEW k \in Nat, k + 1 <= Len(s)
    PROVE  FlattenSeq(Prefix(s, k + 1)) = FlattenSeq(Prefix(s, k)) \o s[k + 1]
<1>0. k <= Len(s) /\ k + 1 \in Nat /\ k + 1 \in 1..(k + 1)
      /\ \A i \in 1..k : i \in 1..(k + 1)
  BY DEF Pieces, IsSeq
<1>1. /\ Pieces(Prefix(s, k)) /\ Len(Prefix(s, k)) = k
      /\ \A i \in 1..k : Prefix(s, k)[i] = s[i]
  BY <1>0, PrefixPieces
<1>2. /\ Pieces(Prefix(s, k + 1)) /\ Len(Prefix(s, k + 1)) = k + 1
      /\ \A i \in 1..(k + 1) : Prefix(s, k + 1)[i] = s[i]
  BY <1>0, PrefixPieces
<1> DEFINE a == Prefix(s, k)
           b == Prefix(s, k + 1)
<1> HIDE DEF a, b
<1>3. FlattenSeq(b) = FlattenSeq(a) \o b[Len(b)]
  BY <1>0, <1>1, <1>2, FlattenStep DEF a, b
<1> QED
  BY <1>0, <1>2, <1>3 DEF a, b

LEMMA CatAssoc ==
    ASSUME NEW a, NEW b, NEW c, IsSeq(a), IsSeq(b), IsSeq(c)
    PROVE  (a \o b) \o c = a \o (b \o c)
<1> DEFINE ab == a \o b
           bc == b \o c
           l == ab \o c
           r == a \o bc
<1>0. Len(a) \in Nat /\ Len(b) \in Nat /\ Len(c) \in Nat
  BY DEF IsSeq
<1>1. /\ IsSeq(ab) /\ Len(ab) = Len(a) + Len(b)
      /\ \A k \in 1..Len(a) : ab[k] = a[k]
      /\ \A k \in 1..Len(b) : ab[Len(a) + k] = b[k]
  BY Cat
<1>2. /\ IsSeq(bc) /\ Len(bc) = Len(b) + Len(c)
      /\ \A k \in 1..Len(b) : bc[k] = b[k]
      /\ \A k \in 1..Len(c) : bc[Len(b) + k] = c[k]
  BY Cat
<1> HIDE DEF ab, bc
<1>3. /\ IsSeq(l) /\ Len(l) = Len(ab) + Len(c)
      /\ \A k \in 1..Len(ab) : l[k] = ab[k]
      /\ \A k \in 1..Len(c) : l[Len(ab) + k] = c[k]
  BY <1>1, Cat
<1>4. /\ IsSeq(r) /\ Len(r) = Len(a) + Len(bc)
      /\ \A k \in 1..Len(a) : r[k] = a[k]
      /\ \A k \in 1..Len(bc) : r[Len(a) + k] = bc[k]
  BY <1>2, Cat
<1> HIDE DEF l, r
<1>5. ASSUME NEW k \in 1..Len(l) PROVE l[k] = r[k]
  <2>0. k \in Nat /\ k >= 1 /\ k <= Len(a) + Len(b) + Len(c)
    BY <1>0, <1>1, <1>3
  <2>1. CASE k <= Len(a)
    <3>1. k \in 1..Len(a) /\ k \in 1..Len(ab)
      BY <1>0, <1>1, <2>0, <2>1
    <3> QED
      BY <1>1, <1>3, <1>4, <3>1
  <2>2. CASE k > Len(a) /\ k <= Len(a) + Len(b)
    <3> DEFINE j == k - Len(a)
    <3>1. j \in 1..Len(b) /\ j \in 1..Len(bc) /\ k \in 1..Len(ab) /\ k = Len(a) + j
      BY <1>0, <1>1, <1>2, <2>0, <2>2
    <3> HIDE DEF j
    <3> QED
      BY <1>1, <1>2, <1>3, <1>4, <3>1
  <2>3. CASE k > Len(a) + Len(b)
    <3> DEFINE j == k - (Len(a) + Len(b))
    <3>1. /\ j \in 1..Len(c) /\ Len(b) + j \in 1..Len(bc)
          /\ k = Len(ab) + j /\ k = Len(a) + (Len(b) + j)
      BY <1>0, <1>1, <1>2, <2>0, <2>3
    <3> HIDE DEF j
    <3> QED
      BY <1>2, <1>3, <1>4, <3>1
  <2> QED
    BY <1>0, <2>0, <2>1, <2>2, <2>3
<1>6. Len(l) = Len(r)
  BY <1>0, <1>1, <1>2, <1>3, <1>4
<1>7. l = r
  BY <1>3, <1>4, <1>5, <1>6, SeqEq
<1> QED
  BY <1>7 DEF l, r, ab, bc

\* The concatenation of the first pieces begins the concatenation of all.
LEMMA FlattenSplit ==
    ASSUME NEW s, Pieces(s), NEW k \in Nat, k <= Len(s)
    PROVE  \E r : IsSeq(r) /\ FlattenSeq(s) = FlattenSeq(Prefix(s, k)) \o r
<1> DEFINE F(j) == FlattenSeq(Prefix(s, j))
           S == {j \in Nat : k + j <= Len(s) => \E r : IsSeq(r) /\ F(k + j) = F(k) \o r}
<1>0. Len(s) \in Nat
  BY DEF Pieces, IsSeq
<1>f. \A j \in Nat : j <= Len(s) => IsSeq(F(j))
  BY PrefixPieces
<1>s. \A j \in Nat : j + 1 <= Len(s) => F(j + 1) = F(j) \o s[j + 1]
  BY PrefixStep
<1> HIDE DEF F
<1>1. 0 \in S
  <2>1. k + 0 = k
    OBVIOUS
  <2>2. F(k) = F(k) \o << >>
    <3>1. /\ IsSeq(F(k) \o << >>) /\ Len(F(k) \o << >>) = Len(F(k)) + 0
          /\ \A i \in 1..Len(F(k)) : (F(k) \o << >>)[i] = F(k)[i]
      BY <1>f, EmptySequence, Cat
    <3>2. Len(F(k)) \in Nat /\ IsSeq(F(k))
      BY <1>f DEF IsSeq
    <3> QED
      BY <3>1, <3>2, SeqEq
  <2> QED
    BY <2>1, <2>2, EmptySequence
<1>2. ASSUME NEW j \in Nat, j \in S PROVE j + 1 \in S
  <2> SUFFICES ASSUME k + (j + 1) <= Len(s)
               PROVE  \E r : IsSeq(r) /\ F(k + (j + 1)) = F(k) \o r
    OBVIOUS
  <2>0. k + j <= Len(s) /\ k + (j + 1) = (k + j) + 1 /\ k + j \in Nat /\ (k + j) + 1 \in 1..Len(s)
    BY <1>0
  <2>1. PICK r : IsSeq(r) /\ F(k + j) = F(k) \o r
    BY <1>2, <2>0
  <2>2. F(k + (j + 1)) = (F(k) \o r) \o s[(k + j) + 1]
    BY <1>s, <2>0, <2>1
  <2>3. IsSeq(s[(k + j) + 1])
    BY <2>0 DEF Pieces
  <2>4. F(k + (j + 1)) = F(k) \o (r \o s[(k + j) + 1]) /\ IsSeq(r \o s[(k + j) + 1])
    <3>1. IsSeq(F(k))
      BY <1>0, <1>f
    <3> DEFINE x == F(k)
               y == s[(k + j) + 1]
    <3>2. IsSeq(x) /\ IsSeq(y) /\ IsSeq(r)
      BY <2>1, <2>3, <3>1
    <3>3. F(k + (j + 1)) = (x \o r) \o y
      BY <2>2
    <3> HIDE DEF x, y
    <3>4. (x \o r) \o y = x \o (r \o y) /\ IsSeq(r \o y)
      BY <3>2, Cat, CatAssoc, SMTT(30)
    <3> QED
      BY <3>3, <3>4 DEF x, y
  <2> QED
    BY <2>4
<1>3. Len(s) - k \in S
  <2>1. Len(s) - k \in Nat
    BY <1>0
  <2> HIDE DEF S
  <2> QED
    BY <1>1, <1>2, <2>1, Induct
<1>4. k + (Len(s) - k) = Len(s) /\ Len(s) <= Len(s)
  BY <1>0
<1>5. F(Len(s)) = FlattenSeq(s)
  BY PrefixAll DEF F, Pieces
<1> QED
  BY <1>3, <1>4, <1>5 DEF F

\* A list of pairs, laid out one after another.
LEMMA FlattenPairs ==
    ASSUME NEW s, IsSeq(s), \A i \in 1..Len(s) : IsSeq(s[i]) /\ Len(s[i]) = 2
    PROVE  /\ IsSeq(FlattenSeq(s)) /\ Len(FlattenSeq(s)) = 2 * Len(s)
           /\ \A i \in 1..Len(s) : /\ FlattenSeq(s)[2 * i - 1] = s[i][1]
                                   /\ FlattenSeq(s)[2 * i] = s[i][2]
<1> DEFINE F(j) == FlattenSeq(Prefix(s, j))
           S == {j \in Nat : j <= Len(s) =>
                   /\ Len(F(j)) = 2 * j
                   /\ \A i \in 1..j : F(j)[2 * i - 1] = s[i][1] /\ F(j)[2 * i] = s[i][2]}
<1>0. Pieces(s) /\ Len(s) \in Nat
  BY DEF Pieces, IsSeq
<1>f. \A j \in Nat : j <= Len(s) => IsSeq(F(j))
  BY <1>0, PrefixPieces
<1>s. \A j \in Nat : j + 1 <= Len(s) => F(j + 1) = F(j) \o s[j + 1]
  BY <1>0, PrefixStep
<1>z. F(0) = << >>
  <2>1. IsSeq(Prefix(s, 0)) /\ Len(Prefix(s, 0)) = 0
    BY <1>0, PrefixPieces DEF Pieces
  <2> QED
    BY <2>1, EmptyIffZero, FlattenNone
<1> HIDE DEF F
<1>1. 0 \in S
  BY <1>z, EmptySequence
<1>2. ASSUME NEW j \in Nat, j \in S PROVE j + 1 \in S
  <2> SUFFICES ASSUME j + 1 <= Len(s)
               PROVE  /\ Len(F(j + 1)) = 2 * (j + 1)
                      /\ \A i \in 1..(j + 1) : F(j + 1)[2 * i - 1] = s[i][1] /\ F(j + 1)[2 * i] = s[i][2]
    BY SMTT(30)
  <2>0. j <= Len(s) /\ j + 1 \in 1..Len(s)
    BY <1>0
  <2> DEFINE a == F(j)
             b == s[j + 1]
  <2>1. IsSeq(a) /\ IsSeq(b) /\ Len(b) = 2 /\ Len(a) = 2 * j /\ F(j + 1) = a \o b
    BY <1>2, <1>f, <1>s, <2>0
  <2>2. \A i \in 1..j : a[2 * i - 1] = s[i][1] /\ a[2 * i] = s[i][2]
    BY <1>2, <2>0
  <2> HIDE DEF a
  <2>3. /\ Len(a \o b) = 2 * j + 2
        /\ \A k \in 1..(2 * j) : (a \o b)[k] = a[k]
        /\ (a \o b)[2 * j + 1] = b[1] /\ (a \o b)[2 * j + 2] = b[2]
    <3> HIDE DEF b
    <3>1. /\ Len(a \o b) = Len(a) + Len(b)
          /\ \A k \in 1..Len(a) : (a \o b)[k] = a[k]
          /\ \A k \in 1..Len(b) : (a \o b)[Len(a) + k] = b[k]
      <4>1. IsCat(a \o b, a, b)
        BY <2>1, CatIs
      <4> QED
        BY <4>1 DEF IsCat
    <3>2. 1 \in 1..Len(b) /\ 2 \in 1..Len(b)
      BY <2>1
    <3> QED
      BY <2>1, <3>1, <3>2
  <2>4. ASSUME NEW i \in 1..(j + 1)
        PROVE  (a \o b)[2 * i - 1] = s[i][1] /\ (a \o b)[2 * i] = s[i][2]
    <3>1. CASE i = j + 1
      <4>1. 2 * i - 1 = 2 * j + 1 /\ 2 * i = 2 * j + 2
        BY <3>1
      <4> QED
        BY <2>3, <3>1, <4>1
    <3>2. CASE i # j + 1
      <4>1. i \in 1..j /\ 2 * i - 1 \in 1..(2 * j) /\ 2 * i \in 1..(2 * j)
        BY <3>2
      <4> QED
        BY <2>2, <2>3, <4>1
    <3> QED
      BY <3>1, <3>2
  <2>5. F(j + 1) = a \o b
    BY <2>1
  <2> HIDE DEF b
  <2>6. 2 * j + 2 = 2 * (j + 1)
    OBVIOUS
  <2> QED
    BY <2>3, <2>4, <2>5, <2>6
<1>3. Len(s) \in S
  <2> HIDE DEF S
  <2> QED
    BY <1>0, <1>1, <1>2, Induct, SMTT(30)
<1>4. F(Len(s)) = FlattenSeq(s)
  BY PrefixAll DEF F
<1> QED
  BY <1>0, <1>3, <1>4, <1>f

\* A concatenation and the length of one part determine the parts.
LEMMA CatParts ==
    ASSUME NEW e, NEW a, NEW b, NEW c, NEW d, IsSeq(a), IsSeq(b), IsSeq(c), IsSeq(d),
           IsCat(e, a, b), IsCat(e, c, d), Len(a) = Len(c) \/ Len(b) = Len(d)
    PROVE  a = c /\ b = d
<1>0. Len(a) \in Nat /\ Len(b) \in Nat /\ Len(c) \in Nat /\ Len(d) \in Nat
  BY Zenon DEF IsSeq
<1>4. Len(a) = Len(c) /\ Len(b) = Len(d)
  BY <1>0 DEF IsCat
<1>5. \A k \in 1..Len(a) : a[k] = c[k]
  BY <1>4 DEF IsCat
<1>6. \A k \in 1..Len(b) : b[k] = d[k]
  BY <1>4 DEF IsCat
<1> QED
  BY <1>4, <1>5, <1>6, SeqEq

\* Concatenations of pieces of one length determine the pieces.
LEMMA FlattenInjective ==
    ASSUME NEW m \in Nat, m > 0, NEW s, NEW t, IsSeq(s), IsSeq(t),
           \A i \in 1..Len(s) : IsSeq(s[i]) /\ Len(s[i]) = m,
           \A i \in 1..Len(t) : IsSeq(t[i]) /\ Len(t[i]) = m,
           FlattenSeq(s) = FlattenSeq(t)
    PROVE  s = t
<1> DEFINE F(j) == FlattenSeq(Prefix(s, j))
           G(j) == FlattenSeq(Prefix(t, j))
           S == {j \in Nat : j <= Len(s) => \A k \in Nat : k <= Len(t) /\ F(j) = G(k)
                    => j = k /\ \A i \in 1..j : s[i] = t[i]}
<1>0. Pieces(s) /\ Pieces(t) /\ Len(s) \in Nat /\ Len(t) \in Nat
  BY DEF Pieces, IsSeq
<1>f. /\ \A j \in Nat : j <= Len(s) => IsSeq(F(j))
      /\ \A j \in Nat : j <= Len(t) => IsSeq(G(j))
  BY <1>0, PrefixPieces
<1>s. /\ \A j \in Nat : j + 1 <= Len(s) => F(j + 1) = F(j) \o s[j + 1]
      /\ \A j \in Nat : j + 1 <= Len(t) => G(j + 1) = G(j) \o t[j + 1]
  BY <1>0, PrefixStep
<1>z. F(0) = << >> /\ G(0) = << >>
  <2>1. /\ IsSeq(Prefix(s, 0)) /\ Len(Prefix(s, 0)) = 0
        /\ IsSeq(Prefix(t, 0)) /\ Len(Prefix(t, 0)) = 0
    BY <1>0, PrefixPieces DEF Pieces
  <2> QED
    BY <2>1, EmptyIffZero, FlattenNone
<1> HIDE DEF F, G
\* A concatenation of at least one piece is not empty, and ends in that piece.
<1>a. ASSUME NEW a, NEW b, IsSeq(a), IsSeq(b), Len(b) = m
      PROVE  a \o b # << >>
  <2>1. Len(a \o b) = Len(a) + m /\ Len(a) \in Nat
    BY <1>a, Cat DEF IsSeq
  <2> QED
    BY <2>1, EmptySequence
<1>1. 0 \in S
  <2> SUFFICES ASSUME NEW k \in Nat, k <= Len(t), F(0) = G(k) PROVE k = 0
    OBVIOUS
  <2> SUFFICES ASSUME k # 0 PROVE FALSE
    OBVIOUS
  <2>1. k - 1 \in Nat /\ k - 1 <= Len(t) /\ (k - 1) + 1 = k /\ k \in 1..Len(t)
    BY <1>0
  <2>2. G(k) = G(k - 1) \o t[k]
    BY <1>s, <2>1
  <2> QED
    BY <1>a, <1>f, <1>z, <2>1, <2>2
<1>2. ASSUME NEW j \in Nat, j \in S PROVE j + 1 \in S
  <2> SUFFICES ASSUME j + 1 <= Len(s), NEW k \in Nat, k <= Len(t), F(j + 1) = G(k)
               PROVE  j + 1 = k /\ \A i \in 1..(j + 1) : s[i] = t[i]
    BY SMTT(30)
  <2>0. j <= Len(s) /\ j + 1 \in 1..Len(s) /\ F(j + 1) = F(j) \o s[j + 1]
    BY <1>0, <1>s, SMTT(30)
  <2>1. k # 0
    BY <1>a, <1>f, <1>z, <2>0
  <2>2. k - 1 \in Nat /\ k - 1 <= Len(t) /\ (k - 1) + 1 = k /\ k \in 1..Len(t)
    BY <1>0, <2>1
  <2>3. G(k) = G(k - 1) \o t[k]
    BY <1>s, <2>2
  <2>4. F(j) = G(k - 1) /\ s[j + 1] = t[k]
    <3> DEFINE a == F(j)
               c == G(k - 1)
    <3>1. /\ IsSeq(a) /\ IsSeq(c) /\ IsSeq(s[j + 1]) /\ IsSeq(t[k])
          /\ Len(s[j + 1]) = Len(t[k]) /\ a \o s[j + 1] = c \o t[k]
      BY <1>f, <2>0, <2>2, <2>3
    <3> HIDE DEF a, c
    <3>2. IsCat(F(j + 1), a, s[j + 1]) /\ IsCat(G(k), c, t[k])
      BY <2>0, <2>3, <3>1, CatIs DEF a, c
    <3>3. a = c /\ s[j + 1] = t[k]
      BY <3>1, <3>2, CatParts
    <3> QED
      BY <3>3 DEF a, c
  <2>5. j = k - 1 /\ \A i \in 1..j : s[i] = t[i]
    BY <1>2, <2>0, <2>2, <2>4
  <2> QED
    BY <2>2, <2>4, <2>5
<1>3. Len(s) \in S
  <2> HIDE DEF S
  <2> QED
    BY <1>0, <1>1, <1>2, Induct
<1>4. F(Len(s)) = FlattenSeq(s) /\ G(Len(t)) = FlattenSeq(t)
  BY PrefixAll DEF F, G
<1>5. Len(s) = Len(t) /\ \A i \in 1..Len(s) : s[i] = t[i]
  BY <1>0, <1>3, <1>4
<1> QED
  BY <1>5, SeqEq

-----------------------------------------------------------------------------
(* Words and their bytes. *)

IsWord(x) == x = [lo |-> x.lo, hi |-> x.hi]
AreWords(w) == IsSeq(w) /\ \A i \in 1..Len(w) : IsWord(w[i])

LEMMA SliceFacts ==
    ASSUME NEW s, IsSeq(s), NEW a \in Nat, NEW n \in Nat, a + n <= Len(s)
    PROVE  /\ IsSeq(Slice(s, a, n)) /\ Len(Slice(s, a, n)) = n
           /\ \A k \in 1..n : Slice(s, a, n)[k] = s[a + k]
BY Sub DEF Slice

LEMMA SliceIs ==
    ASSUME NEW s, IsSeq(s), NEW a \in Nat, NEW t, IsSeq(t), a + Len(t) <= Len(s),
           \A k \in 1..Len(t) : s[a + k] = t[k]
    PROVE  Slice(s, a, Len(t)) = t
<1> DEFINE n == Len(t)
           u == Slice(s, a, n)
<1>1. n \in Nat
  BY DEF IsSeq
<1>2. IsSeq(u) /\ Len(u) = n /\ \A k \in 1..n : u[k] = s[a + k]
  BY <1>1, SliceFacts
<1> HIDE DEF u
<1>3. u = t
  BY <1>2, SeqEq
<1> QED
  BY <1>3 DEF u

LEMMA SliceRight ==
    ASSUME NEW u, NEW s, NEW t, IsSeq(s), IsSeq(t), IsCat(u, s, t)
    PROVE  Slice(u, Len(s), Len(t)) = t
<1>1. Len(s) \in Nat /\ Len(t) \in Nat /\ IsSeq(u) /\ Len(s) + Len(t) <= Len(u)
  BY DEF IsCat, IsSeq
<1>2. \A k \in 1..Len(t) : u[Len(s) + k] = t[k]
  BY DEF IsCat
<1> QED
  BY <1>1, <1>2, SliceIs

LEMMA SliceLeft ==
    ASSUME NEW u, NEW s, NEW t, IsSeq(s), IsSeq(t), IsCat(u, s, t),
           NEW a \in Nat, NEW n \in Nat, a + n <= Len(s)
    PROVE  Slice(u, a, n) = Slice(s, a, n)
<1>0. Len(s) \in Nat /\ Len(t) \in Nat
  BY DEF IsSeq
<1>1. IsSeq(u) /\ a + n <= Len(u)
  BY <1>0 DEF IsCat
<1>2. /\ IsSeq(Slice(u, a, n)) /\ Len(Slice(u, a, n)) = n
      /\ \A k \in 1..n : Slice(u, a, n)[k] = u[a + k]
  BY <1>1, SliceFacts
<1>3. /\ IsSeq(Slice(s, a, n)) /\ Len(Slice(s, a, n)) = n
      /\ \A k \in 1..n : Slice(s, a, n)[k] = s[a + k]
  BY SliceFacts
<1>4. \A k \in 1..n : u[a + k] = s[a + k]
  <2> TAKE k \in 1..n
  <2>1. a + k \in 1..Len(s)
    BY <1>0
  <2> QED
    BY <2>1 DEF IsCat
<1> QED
  BY <1>2, <1>3, <1>4, SeqEq

LEMMA PairSeq == ASSUME NEW x, NEW y PROVE IsSeq(<<x, y>>) /\ Len(<<x, y>>) = 2
BY ShortSeqs, Zenon

LEMMA LeFacts ==
    ASSUME NEW w, IsSeq(w)
    PROVE  /\ IsSeq(LeBytes(w)) /\ Len(LeBytes(w)) = 2 * Len(w)
           /\ \A i \in 1..Len(w) : /\ LeBytes(w)[2 * i - 1] = w[i].lo
                                   /\ LeBytes(w)[2 * i] = w[i].hi
<1> DEFINE s == [i \in DOMAIN w |-> to_le_bytes(w[i])]
<1>0. DOMAIN w = 1..Len(w) /\ Len(w) \in Nat
  BY DEF IsSeq
<1>1. s = [i \in 1..Len(w) |-> s[i]]
  BY <1>0
<1>2. \A i \in 1..Len(w) : s[i] = <<w[i].lo, w[i].hi>>
  BY <1>0 DEF to_le_bytes
<1>3. FlattenSeq(s) = LeBytes(w)
  BY DEF LeBytes
<1> HIDE DEF s
<1>4. IsSeq(s) /\ Len(s) = Len(w)
  BY <1>0, <1>1, MakeSeq
<1>5. \A i \in 1..Len(s) : IsSeq(s[i]) /\ Len(s[i]) = 2
  <2> TAKE i \in 1..Len(s)
  <2>1. s[i] = <<w[i].lo, w[i].hi>>
    BY <1>2, <1>4
  <2>2. IsSeq(<<w[i].lo, w[i].hi>>) /\ Len(<<w[i].lo, w[i].hi>>) = 2
    BY PairSeq
  <2> QED
    BY <2>1, <2>2
<1>6. /\ IsSeq(FlattenSeq(s)) /\ Len(FlattenSeq(s)) = 2 * Len(s)
      /\ \A i \in 1..Len(s) : FlattenSeq(s)[2 * i - 1] = s[i][1] /\ FlattenSeq(s)[2 * i] = s[i][2]
  BY <1>4, <1>5, FlattenPairs
<1> QED
  BY <1>2, <1>3, <1>4, <1>6

LEMMA BeFacts ==
    ASSUME NEW w, IsSeq(w)
    PROVE  /\ IsSeq(extend_be(w)) /\ Len(extend_be(w)) = 2 * Len(w)
           /\ \A i \in 1..Len(w) : /\ extend_be(w)[2 * i - 1] = swap32(w[i].hi)
                                   /\ extend_be(w)[2 * i] = swap32(w[i].lo)
<1> DEFINE s == [i \in DOMAIN w |-> to_be_bytes(w[i])]
<1>0. DOMAIN w = 1..Len(w) /\ Len(w) \in Nat
  BY DEF IsSeq
<1>1. s = [i \in 1..Len(w) |-> s[i]]
  BY <1>0
<1>2. \A i \in 1..Len(w) : s[i] = <<swap32(w[i].hi), swap32(w[i].lo)>>
  BY <1>0 DEF to_be_bytes
<1>3. FlattenSeq(s) = extend_be(w)
  BY DEF extend_be
<1> HIDE DEF s
<1>4. IsSeq(s) /\ Len(s) = Len(w)
  BY <1>0, <1>1, MakeSeq
<1>5. \A i \in 1..Len(s) : IsSeq(s[i]) /\ Len(s[i]) = 2
  <2> TAKE i \in 1..Len(s)
  <2>1. s[i] = <<swap32(w[i].hi), swap32(w[i].lo)>>
    BY <1>2, <1>4
  <2>2. IsSeq(<<swap32(w[i].hi), swap32(w[i].lo)>>) /\ Len(<<swap32(w[i].hi), swap32(w[i].lo)>>) = 2
    BY PairSeq
  <2> QED
    BY <2>1, <2>2
<1>6. /\ IsSeq(FlattenSeq(s)) /\ Len(FlattenSeq(s)) = 2 * Len(s)
      /\ \A i \in 1..Len(s) : FlattenSeq(s)[2 * i - 1] = s[i][1] /\ FlattenSeq(s)[2 * i] = s[i][2]
  BY <1>4, <1>5, FlattenPairs
<1> QED
  BY <1>2, <1>3, <1>4, <1>6

\* Bytes are cut back into the words they came from.
LEMMA WordsOfLe ==
    ASSUME NEW w, AreWords(w)
    PROVE  words_from_bytes(LeBytes(w)) = w
<1> DEFINE b == LeBytes(w)
<1>0. IsSeq(w) /\ Len(w) \in Nat
  BY DEF AreWords, IsSeq
<1>1. /\ Len(b) = 2 * Len(w)
      /\ \A i \in 1..Len(w) : b[2 * i - 1] = w[i].lo /\ b[2 * i] = w[i].hi
  BY <1>0, LeFacts
<1> HIDE DEF b
<1>2. Len(b) \div 2 = Len(w)
  BY <1>0, <1>1
<1>3. words_from_bytes(b) = [i \in 1..Len(w) |-> [lo |-> b[2 * i - 1], hi |-> b[2 * i]]]
  BY <1>2 DEF words_from_bytes
<1>4. \A i \in 1..Len(w) : [lo |-> b[2 * i - 1], hi |-> b[2 * i]] = w[i]
  BY <1>1 DEF AreWords, IsWord
<1>5. words_from_bytes(b) = [i \in 1..Len(w) |-> w[i]]
  BY <1>3, <1>4
<1> QED
  BY <1>0, <1>5 DEF b, IsSeq

LEMMA LeInjective ==
    ASSUME NEW v, NEW w, AreWords(v), AreWords(w), LeBytes(v) = LeBytes(w)
    PROVE  v = w
BY WordsOfLe

-----------------------------------------------------------------------------
(***************************************************************************)
(* Where the quads of a guest's input come from. A quad is never swapped, a *)
(* number is a natural number, and a piece of a STARK body of the STF guest *)
(* under the release setup carries the public input of an execution.        *)
(***************************************************************************)
Executed(pub) == \E b \in 1..MaxBatches : pub = commit_slice(PublicInput(b, "real"))

Genuine(q) ==
    q[2] = StfVk /\ q[4] = TRUSTED_VADCOP_VK /\ q[5] = IS_VADCOP_FINAL_PROOF
      => Executed(q[3])

OkQuad(q) ==
    /\ q[1] # "swapped"
    /\ q[1] = "u32" => q[2] \in Nat
    /\ q[1] = "stark" => Genuine(q)

AllOk(s) == IsSeq(s) /\ \A i \in 1..Len(s) : OkQuad(s[i])

OkWords(w) == AreWords(w) /\ \A i \in 1..Len(w) : OkQuad(w[i].lo) /\ OkQuad(w[i].hi)

LEMMA OkNumber == ASSUME NEW n \in Nat PROVE OkQuad(u32(n))
BY DEF OkQuad, u32

LEMMA OkCat == ASSUME NEW s, NEW t, AllOk(s), AllOk(t) PROVE AllOk(s \o t)
<1> DEFINE u == s \o t
<1>0. Len(s) \in Nat /\ Len(t) \in Nat /\ IsSeq(s) /\ IsSeq(t)
  BY DEF AllOk, IsSeq
<1>1. IsCat(u, s, t)
  BY <1>0, CatIs
<1> HIDE DEF u
<1>2. ASSUME NEW k \in 1..Len(u) PROVE OkQuad(u[k])
  <2>0. k \in 1..(Len(s) + Len(t))
    BY <1>1 DEF IsCat
  <2>1. CASE k <= Len(s)
    <3>1. k \in 1..Len(s)
      BY <1>0, <2>0, <2>1
    <3> QED
      BY <1>1, <3>1 DEF IsCat, AllOk
  <2>2. CASE k > Len(s)
    <3> DEFINE j == k - Len(s)
    <3>1. j \in 1..Len(t) /\ k = Len(s) + j
      BY <1>0, <2>0, <2>2
    <3> HIDE DEF j
    <3> QED
      BY <1>1, <3>1 DEF IsCat, AllOk
  <2> QED
    BY <1>0, <2>0, <2>1, <2>2
<1> QED
  BY <1>1, <1>2 DEF AllOk, IsCat, u

LEMMA OkWordsCat == ASSUME NEW s, NEW t, OkWords(s), OkWords(t) PROVE OkWords(s \o t)
<1> DEFINE u == s \o t
<1>0. Len(s) \in Nat /\ Len(t) \in Nat /\ IsSeq(s) /\ IsSeq(t)
  BY DEF OkWords, AreWords, IsSeq
<1>1. IsCat(u, s, t)
  BY <1>0, CatIs
<1> HIDE DEF u
<1>2. ASSUME NEW k \in 1..Len(u) PROVE IsWord(u[k]) /\ OkQuad(u[k].lo) /\ OkQuad(u[k].hi)
  <2>0. k \in 1..(Len(s) + Len(t))
    BY <1>1 DEF IsCat
  <2>1. CASE k <= Len(s)
    <3>1. k \in 1..Len(s)
      BY <1>0, <2>0, <2>1
    <3> QED
      BY <1>1, <3>1 DEF IsCat, OkWords, AreWords
  <2>2. CASE k > Len(s)
    <3> DEFINE j == k - Len(s)
    <3>1. j \in 1..Len(t) /\ k = Len(s) + j
      BY <1>0, <2>0, <2>2
    <3> HIDE DEF j
    <3> QED
      BY <1>1, <3>1 DEF IsCat, OkWords, AreWords
  <2> QED
    BY <1>0, <2>0, <2>1, <2>2
<1> QED
  BY <1>1, <1>2 DEF OkWords, AreWords, IsCat, u

LEMMA OkSlice ==
    ASSUME NEW s, AllOk(s), NEW a \in Nat, NEW n \in Nat, a + n <= Len(s)
    PROVE  AllOk(Slice(s, a, n)) /\ Len(Slice(s, a, n)) = n
<1> DEFINE u == Slice(s, a, n)
<1>0. IsSeq(s) /\ Len(s) \in Nat
  BY DEF AllOk, IsSeq
<1>1. IsSeq(u) /\ Len(u) = n /\ \A k \in 1..n : u[k] = s[a + k]
  BY <1>0, SliceFacts
<1> HIDE DEF u
<1>2. ASSUME NEW k \in 1..n PROVE OkQuad(u[k])
  <2>1. a + k \in 1..Len(s)
    BY <1>0
  <2> QED
    BY <1>1, <2>1 DEF AllOk
<1> QED
  BY <1>1, <1>2 DEF AllOk, u

LEMMA OkFlatten ==
    ASSUME NEW s, IsSeq(s), \A i \in 1..Len(s) : AllOk(s[i])
    PROVE  AllOk(FlattenSeq(s))
<1> DEFINE F(j) == FlattenSeq(Prefix(s, j))
           S == {j \in Nat : j <= Len(s) => AllOk(F(j))}
<1>0. Pieces(s) /\ Len(s) \in Nat
  BY DEF Pieces, IsSeq, AllOk
<1>s. \A j \in Nat : j + 1 <= Len(s) => F(j + 1) = F(j) \o s[j + 1]
  BY <1>0, PrefixStep
<1>z. F(0) = << >>
  <2>1. IsSeq(Prefix(s, 0)) /\ Len(Prefix(s, 0)) = 0
    BY <1>0, PrefixPieces DEF Pieces
  <2> QED
    BY <2>1, EmptyIffZero, FlattenNone
<1> HIDE DEF F
<1>1. 0 \in S
  BY <1>z, EmptySequence DEF AllOk
<1>2. ASSUME NEW j \in Nat, j \in S PROVE j + 1 \in S
  <2> SUFFICES ASSUME j + 1 <= Len(s) PROVE AllOk(F(j + 1))
    OBVIOUS
  <2>0. j <= Len(s) /\ j + 1 \in 1..Len(s)
    BY <1>0
  <2>1. AllOk(F(j)) /\ AllOk(s[j + 1]) /\ F(j + 1) = F(j) \o s[j + 1]
    BY <1>2, <1>s, <2>0
  <2>2. AllOk(F(j) \o s[j + 1])
    BY <2>1, OkCat
  <2> QED
    BY <2>1, <2>2
<1>3. Len(s) \in S
  <2> HIDE DEF S
  <2> QED
    BY <1>0, <1>1, <1>2, Induct
<1>4. F(Len(s)) = FlattenSeq(s)
  BY PrefixAll DEF F
<1> QED
  BY <1>0, <1>3, <1>4

LEMMA OkPair == ASSUME NEW x, NEW y, OkQuad(x), OkQuad(y) PROVE AllOk(<<x, y>>)
<1>1. IsSeq(<<x, y>>) /\ Len(<<x, y>>) = 2
  BY PairSeq
<1>2. <<x, y>>[1] = x /\ <<x, y>>[2] = y
  OBVIOUS
<1> DEFINE s == <<x, y>>
<1> HIDE DEF s
<1>3. ASSUME NEW i \in 1..2 PROVE OkQuad(s[i])
  <2>1. i = 1 \/ i = 2
    OBVIOUS
  <2> QED
    BY <1>2, <2>1 DEF s
<1> QED
  BY <1>1, <1>3 DEF AllOk, s

LEMMA OkLe == ASSUME NEW w, OkWords(w) PROVE AllOk(LeBytes(w)) /\ Len(LeBytes(w)) = 2 * Len(w)
<1> DEFINE s == [i \in DOMAIN w |-> to_le_bytes(w[i])]
<1>0. DOMAIN w = 1..Len(w) /\ Len(w) \in Nat /\ IsSeq(w)
  BY DEF IsSeq, OkWords, AreWords
<1>1. s = [i \in 1..Len(w) |-> s[i]]
  BY <1>0
<1>2. \A i \in 1..Len(w) : s[i] = <<w[i].lo, w[i].hi>>
  BY <1>0 DEF to_le_bytes
<1>3. FlattenSeq(s) = LeBytes(w)
  BY DEF LeBytes
<1> HIDE DEF s
<1>4. IsSeq(s) /\ Len(s) = Len(w)
  BY <1>0, <1>1, MakeSeq
<1>5. \A i \in 1..Len(s) : AllOk(s[i])
  <2> TAKE i \in 1..Len(s)
  <2>1. s[i] = <<w[i].lo, w[i].hi>>
    BY <1>2, <1>4
  <2>2. AllOk(<<w[i].lo, w[i].hi>>)
    BY <1>4, OkPair DEF OkWords
  <2> QED
    BY <2>1, <2>2
<1> QED
  BY <1>0, <1>3, <1>4, <1>5, OkFlatten, LeFacts

-----------------------------------------------------------------------------
(* The parts of a proof stream, and that its quads are in order. *)

VkOf(p) == IF p.maker = "other guest" THEN OtherVk ELSE StfVk
SetupOf(p) == IF p.maker = "other setup" THEN OtherSetup ELSE TRUSTED_VADCOP_VK
PubOf(p) == commit_slice(PublicInput(p.batch, p.claim))
FlagOf(p) == IF p.maker = "fold" THEN u64(0) ELSE IS_VADCOP_FINAL_PROOF
HeadOf(p) == <<IF p.shape = "minimal" THEN u64(1) ELSE u64(0),
               IF p.shape = "publics" THEN u64(PROGRAM_VK_WORDS + PUBLICS_WORDS)
                                      ELSE EXPECTED_N_PUBLICS,
               FlagOf(p)>>
BodyOf(p) == IF p.maker = "synthetic" THEN StarkBody(<< >>, << >>, << >>, FlagOf(p))
             ELSE StarkBody(VkOf(p), PubOf(p), SetupOf(p), FlagOf(p))
TagOf(p) == <<IF p.shape = "family" THEN u64(1) ELSE EXPECTED_HASH_TAG>>

LEMMA StreamParts ==
    ASSUME NEW p
    PROVE  StreamWords(p) = HeadOf(p) \o VkOf(p) \o PubOf(p) \o BodyOf(p) \o SetupOf(p) \o TagOf(p)
BY DEF StreamWords, HeadOf, VkOf, PubOf, BodyOf, SetupOf, TagOf, FlagOf

LEMMA ProofCases ==
    ASSUME NEW p \in Proofs
    PROVE  /\ p.batch \in 1..MaxBatches /\ p.shape \in Shapes
           /\ \/ p.maker = "stf" /\ p.claim = "real"
              \/ /\ p.maker \in {"other guest", "other setup", "synthetic", "fold"}
                 /\ p.claim = "bad" /\ p.shape = "plain"
BY DEF Proofs, Shapes

LEMMA Sizes ==
    /\ PROGRAM_VK_WORDS \in Nat \ {0} /\ PUBLICS_WORDS \in Nat \ {0}
    /\ VADCOP_VK_WORDS \in Nat \ {0} /\ VADCOP_FINAL_BODY_WORDS \in Nat \ {0}
    /\ COMMITMENT_WORDS \in Nat /\ COMMITMENT_WORDS > 1 /\ COMMITMENT_WORDS <= PUBLICS_WORDS
BY SectionSizes

\* Sequences of words given by their elements.
LEMMA MakeWords ==
    ASSUME NEW w, NEW n \in Nat, w = [i \in 1..n |-> w[i]],
           \A i \in 1..n : IsWord(w[i]) /\ OkQuad(w[i].lo) /\ OkQuad(w[i].hi)
    PROVE  OkWords(w) /\ Len(w) = n
BY MakeSeq DEF OkWords, AreWords

LEMMA OkU64 == ASSUME NEW n \in Nat PROVE IsWord(u64(n)) /\ OkQuad(u64(n).lo) /\ OkQuad(u64(n).hi)
BY OkNumber DEF u64, IsWord

LEMMA OkWiden == ASSUME NEW q, OkQuad(q) PROVE IsWord(widen(q)) /\ OkQuad(widen(q).lo) /\ OkQuad(widen(q).hi)
BY OkNumber DEF widen, IsWord

LEMMA OkKey ==
    ASSUME NEW name, NEW n \in Nat
    PROVE  OkWords(Key(name, n)) /\ Len(Key(name, n)) = n
<1> DEFINE w == Key(name, n)
<1>1. w = [i \in 1..n |-> w[i]]
  BY DEF Key
<1>2. \A i \in 1..n : IsWord(w[i]) /\ OkQuad(w[i].lo) /\ OkQuad(w[i].hi)
  BY DEF Key, IsWord, OkQuad
<1> HIDE DEF w
<1>3. OkWords(w) /\ Len(w) = n
  BY <1>1, <1>2, MakeWords
<1> QED
  BY <1>3 DEF w

LEMMA OkKeys ==
    /\ OkWords(StfVk) /\ Len(StfVk) = PROGRAM_VK_WORDS
    /\ OkWords(AggregatorVk) /\ Len(AggregatorVk) = PROGRAM_VK_WORDS
    /\ OkWords(OtherVk) /\ Len(OtherVk) = PROGRAM_VK_WORDS
    /\ OkWords(TRUSTED_VADCOP_VK) /\ Len(TRUSTED_VADCOP_VK) = VADCOP_VK_WORDS
    /\ OkWords(OtherSetup) /\ Len(OtherSetup) = VADCOP_VK_WORDS
BY Sizes, OkKey DEF StfVk, AggregatorVk, OtherVk, TRUSTED_VADCOP_VK, OtherSetup

LEMMA KeysDiffer == StfVk # OtherVk /\ AggregatorVk # OtherVk /\ TRUSTED_VADCOP_VK # OtherSetup
<1>1. 1 \in 1..PROGRAM_VK_WORDS /\ 1 \in 1..VADCOP_VK_WORDS
  BY Sizes
<1>2. /\ StfVk[1].lo[2] = "stf guest" /\ AggregatorVk[1].lo[2] = "aggregator guest"
      /\ OtherVk[1].lo[2] = "other guest"
      /\ TRUSTED_VADCOP_VK[1].lo[2] = "release setup" /\ OtherSetup[1].lo[2] = "other setup"
  BY <1>1 DEF StfVk, AggregatorVk, OtherVk, TRUSTED_VADCOP_VK, OtherSetup, Key
<1>3. /\ "stf guest" # "other guest" /\ "aggregator guest" # "other guest"
      /\ "release setup" # "other setup"
  OBVIOUS
<1> QED
  BY <1>2, <1>3, Zenon

LEMMA OkPublics ==
    ASSUME NEW s, AllOk(s), Len(s) <= PUBLICS_WORDS
    PROVE  OkWords(commit_slice(s)) /\ Len(commit_slice(s)) = PUBLICS_WORDS
<1> DEFINE w == commit_slice(s)
<1>0. Len(s) \in Nat /\ PUBLICS_WORDS \in Nat
  BY Sizes DEF AllOk, IsSeq
<1>1. w = [i \in 1..PUBLICS_WORDS |-> w[i]]
  BY DEF commit_slice
<1>2. ASSUME NEW i \in 1..PUBLICS_WORDS
      PROVE  IsWord(w[i]) /\ OkQuad(w[i].lo) /\ OkQuad(w[i].hi)
  <2>1. CASE i <= Len(s)
    <3>1. w[i] = widen(s[i]) /\ OkQuad(s[i])
      BY <1>0, <2>1 DEF commit_slice, AllOk
    <3> QED
      BY <3>1, OkWiden
  <2>2. CASE ~ (i <= Len(s))
    <3>1. w[i] = u64(0)
      BY <2>2 DEF commit_slice
    <3> QED
      BY <3>1, OkU64
  <2> QED
    BY <2>1, <2>2
<1> HIDE DEF w
<1>3. OkWords(w) /\ Len(w) = PUBLICS_WORDS
  BY <1>0, <1>1, <1>2, MakeWords
<1> QED
  BY <1>3 DEF w

LEMMA OkPublicInput ==
    ASSUME NEW b, NEW c \in {"real", "bad"}
    PROVE  AllOk(PublicInput(b, c)) /\ Len(PublicInput(b, c)) = COMMITMENT_WORDS
<1> DEFINE s == PublicInput(b, c)
<1>1. s = [i \in 1..COMMITMENT_WORDS |-> s[i]]
  BY DEF PublicInput
<1>2. \A i \in 1..COMMITMENT_WORDS : OkQuad(s[i])
  BY DEF PublicInput, OkQuad
<1> HIDE DEF s
<1>3. AllOk(s) /\ Len(s) = COMMITMENT_WORDS
  BY <1>1, <1>2, Sizes, MakeSeq DEF AllOk
<1> QED
  BY <1>3 DEF s

LEMMA OkBody ==
    ASSUME NEW vk, NEW pub, NEW setup, NEW leaf,
           vk = StfVk /\ setup = TRUSTED_VADCOP_VK /\ leaf = IS_VADCOP_FINAL_PROOF => Executed(pub)
    PROVE  /\ OkWords(StarkBody(vk, pub, setup, leaf))
           /\ Len(StarkBody(vk, pub, setup, leaf)) = VADCOP_FINAL_BODY_WORDS
<1> DEFINE w == StarkBody(vk, pub, setup, leaf)
<1>1. w = [i \in 1..VADCOP_FINAL_BODY_WORDS |-> w[i]]
  BY DEF StarkBody
<1>2. ASSUME NEW i \in 1..VADCOP_FINAL_BODY_WORDS
      PROVE  IsWord(w[i]) /\ OkQuad(w[i].lo) /\ OkQuad(w[i].hi)
  <2> DEFINE q == <<"stark", vk, pub, setup, leaf, i>>
  <2>1. OkQuad(q)
    BY DEF OkQuad, Genuine
  <2>2. w[i] = widen(q)
    BY DEF StarkBody
  <2> HIDE DEF q, w
  <2> QED
    BY <2>1, <2>2, OkWiden
<1> HIDE DEF w
<1>3. OkWords(w) /\ Len(w) = VADCOP_FINAL_BODY_WORDS
  BY <1>1, <1>2, Sizes, MakeWords
<1> QED
  BY <1>3 DEF w

\* A value in a short list of words.
LEMMA OkShort ==
    /\ \A x : IsWord(x) /\ OkQuad(x.lo) /\ OkQuad(x.hi) => OkWords(<<x>>) /\ Len(<<x>>) = 1
    /\ \A x, y, z : /\ IsWord(x) /\ OkQuad(x.lo) /\ OkQuad(x.hi)
                    /\ IsWord(y) /\ OkQuad(y.lo) /\ OkQuad(y.hi)
                    /\ IsWord(z) /\ OkQuad(z.lo) /\ OkQuad(z.hi)
                    => OkWords(<<x, y, z>>) /\ Len(<<x, y, z>>) = 3
<1>1. ASSUME NEW x, IsWord(x), OkQuad(x.lo), OkQuad(x.hi) PROVE OkWords(<<x>>) /\ Len(<<x>>) = 1
  <2> DEFINE w == <<x>>
  <2>1. IsSeq(w) /\ Len(w) = 1 /\ w[1] = x
    BY ShortSeqs
  <2> HIDE DEF w
  <2>2. \A i \in 1..Len(w) : w[i] = x
    BY <2>1
  <2>3. OkWords(w)
    BY <1>1, <2>1, <2>2 DEF OkWords, AreWords
  <2> QED
    BY <2>1, <2>3 DEF w
<1>2. ASSUME NEW x, NEW y, NEW z, IsWord(x), OkQuad(x.lo), OkQuad(x.hi),
             IsWord(y), OkQuad(y.lo), OkQuad(y.hi), IsWord(z), OkQuad(z.lo), OkQuad(z.hi)
      PROVE  OkWords(<<x, y, z>>) /\ Len(<<x, y, z>>) = 3
  <2> DEFINE w == <<x, y, z>>
  <2>1. IsSeq(w) /\ Len(w) = 3 /\ w[1] = x /\ w[2] = y /\ w[3] = z
    BY ShortSeqs
  <2> HIDE DEF w
  <2>2. \A i \in 1..Len(w) : w[i] = x \/ w[i] = y \/ w[i] = z
    BY <2>1
  <2>3. OkWords(w)
    BY <1>2, <2>1, <2>2 DEF OkWords, AreWords
  <2> QED
    BY <2>1, <2>3 DEF w
<1> QED
  BY <1>1, <1>2

LEMMA OkParts ==
    ASSUME NEW p \in Proofs
    PROVE  /\ OkWords(HeadOf(p)) /\ Len(HeadOf(p)) = 3
           /\ OkWords(VkOf(p)) /\ Len(VkOf(p)) = PROGRAM_VK_WORDS
           /\ OkWords(PubOf(p)) /\ Len(PubOf(p)) = PUBLICS_WORDS
           /\ OkWords(BodyOf(p)) /\ Len(BodyOf(p)) = VADCOP_FINAL_BODY_WORDS
           /\ OkWords(SetupOf(p)) /\ Len(SetupOf(p)) = VADCOP_VK_WORDS
           /\ OkWords(TagOf(p)) /\ Len(TagOf(p)) = 1
<1>0. /\ IsWord(u64(0)) /\ OkQuad(u64(0).lo) /\ OkQuad(u64(0).hi)
      /\ IsWord(u64(1)) /\ OkQuad(u64(1).lo) /\ OkQuad(u64(1).hi)
  BY OkU64
<1>1. OkWords(HeadOf(p)) /\ Len(HeadOf(p)) = 3
  <2> DEFINE x == IF p.shape = "minimal" THEN u64(1) ELSE u64(0)
             y == IF p.shape = "publics" THEN u64(PROGRAM_VK_WORDS + PUBLICS_WORDS) ELSE EXPECTED_N_PUBLICS
             z == FlagOf(p)
  <2>1. IsWord(x) /\ OkQuad(x.lo) /\ OkQuad(x.hi)
    BY <1>0
  <2>2. IsWord(y) /\ OkQuad(y.lo) /\ OkQuad(y.hi)
    <3>1. PROGRAM_VK_WORDS + PUBLICS_WORDS \in Nat /\ 1 + PROGRAM_VK_WORDS + PUBLICS_WORDS \in Nat
      BY Sizes
    <3> QED
      BY <3>1, OkU64 DEF EXPECTED_N_PUBLICS, LEAF_FLAG_WORDS
  <2>3. IsWord(z) /\ OkQuad(z.lo) /\ OkQuad(z.hi)
    BY <1>0 DEF FlagOf, IS_VADCOP_FINAL_PROOF
  <2>4. HeadOf(p) = <<x, y, z>>
    BY DEF HeadOf
  <2> HIDE DEF x, y, z
  <2> QED
    BY <2>1, <2>2, <2>3, <2>4, OkShort
<1>2. OkWords(VkOf(p)) /\ Len(VkOf(p)) = PROGRAM_VK_WORDS
  BY OkKeys DEF VkOf
<1>3. OkWords(PubOf(p)) /\ Len(PubOf(p)) = PUBLICS_WORDS
  <2>1. p.claim \in {"real", "bad"}
    BY ProofCases
  <2> QED
    BY <2>1, OkPublicInput, OkPublics, Sizes DEF PubOf
<1>4. OkWords(BodyOf(p)) /\ Len(BodyOf(p)) = VADCOP_FINAL_BODY_WORDS
  <2>1. CASE p.maker = "synthetic"
    <3>1. << >> # StfVk
      BY EmptySequence, OkKeys, Sizes
    <3> QED
      BY <2>1, <3>1, OkBody DEF BodyOf
  <2>2. CASE p.maker # "synthetic"
    <3>1. ASSUME VkOf(p) = StfVk, SetupOf(p) = TRUSTED_VADCOP_VK, FlagOf(p) = IS_VADCOP_FINAL_PROOF
          PROVE  Executed(PubOf(p))
      <4>1. p.maker # "other guest" /\ p.maker # "other setup"
        BY <3>1, KeysDiffer DEF VkOf, SetupOf
      <4>2. u64(0) # u64(1)
        BY DEF u64, u32
      <4>3. p.maker # "fold"
        BY <3>1, <4>2 DEF FlagOf, IS_VADCOP_FINAL_PROOF
      <4>4. p.claim = "real" /\ p.batch \in 1..MaxBatches
        BY <2>2, <4>1, <4>3, ProofCases
      <4> QED
        BY <4>4 DEF Executed, PubOf
    <3> QED
      BY <2>2, <3>1, OkBody DEF BodyOf
  <2> QED
    BY <2>1, <2>2
<1>5. OkWords(SetupOf(p)) /\ Len(SetupOf(p)) = VADCOP_VK_WORDS
  BY OkKeys DEF SetupOf
<1>6. OkWords(TagOf(p)) /\ Len(TagOf(p)) = 1
  BY <1>0, OkShort DEF TagOf, EXPECTED_HASH_TAG
<1> QED
  BY <1>1, <1>2, <1>3, <1>4, <1>5, <1>6

\* What the stream of a proof holds, section by section.
LEMMA StreamLayout ==
    ASSUME NEW p \in Proofs
    PROVE  /\ OkWords(StreamWords(p)) /\ Len(StreamWords(p)) = PROOF_STREAM_WORDS
           /\ \A k \in 1..3 : StreamWords(p)[k] = HeadOf(p)[k]
           /\ program_vk(StreamWords(p)) = VkOf(p)
           /\ publics(StreamWords(p)) = PubOf(p)
           /\ body(StreamWords(p)) = BodyOf(p)
           /\ vadcop_vk(StreamWords(p)) = SetupOf(p)
           /\ StreamWords(p)[PROOF_STREAM_WORDS] = TagOf(p)[1]
<1> DEFINE h == HeadOf(p)
           v == VkOf(p)
           u == PubOf(p)
           b == BodyOf(p)
           s == SetupOf(p)
           t == TagOf(p)
           a1 == h \o v
           a2 == a1 \o u
           a3 == a2 \o b
           a4 == a3 \o s
           w == a4 \o t
<1>0. StreamWords(p) = w
  BY StreamParts
<1>1. /\ OkWords(h) /\ Len(h) = 3
      /\ OkWords(v) /\ Len(v) = PROGRAM_VK_WORDS
      /\ OkWords(u) /\ Len(u) = PUBLICS_WORDS
      /\ OkWords(b) /\ Len(b) = VADCOP_FINAL_BODY_WORDS
      /\ OkWords(s) /\ Len(s) = VADCOP_VK_WORDS
      /\ OkWords(t) /\ Len(t) = 1
  BY OkParts
<1> HIDE DEF h, v, u, b, s, t
<1>2. /\ OkWords(a1) /\ OkWords(a2) /\ OkWords(a3) /\ OkWords(a4) /\ OkWords(w)
  <2>1. OkWords(a1)
    BY <1>1, OkWordsCat
  <2> HIDE DEF a1
  <2>2. OkWords(a2)
    BY <1>1, <2>1, OkWordsCat
  <2> HIDE DEF a2
  <2>3. OkWords(a3)
    BY <1>1, <2>2, OkWordsCat
  <2> HIDE DEF a3
  <2>4. OkWords(a4)
    BY <1>1, <2>3, OkWordsCat
  <2> HIDE DEF a4
  <2>5. OkWords(w)
    BY <1>1, <2>4, OkWordsCat
  <2> QED
    BY <2>1, <2>2, <2>3, <2>4, <2>5
<1>3. /\ IsSeq(h) /\ IsSeq(v) /\ IsSeq(u) /\ IsSeq(b) /\ IsSeq(s) /\ IsSeq(t)
      /\ IsSeq(a1) /\ IsSeq(a2) /\ IsSeq(a3) /\ IsSeq(a4) /\ IsSeq(w)
  <2> HIDE DEF a1, a2, a3, a4, w
  <2> QED
    BY <1>1, <1>2 DEF OkWords, AreWords
<1>4. IsCat(a1, h, v) /\ IsCat(a2, a1, u) /\ IsCat(a3, a2, b) /\ IsCat(a4, a3, s) /\ IsCat(w, a4, t)
  <2>1. IsCat(a1, h, v)
    BY <1>3, CatIs
  <2>2. IsCat(a2, a1, u)
    <3> HIDE DEF a1
    <3> QED
      BY <1>3, CatIs
  <2>3. IsCat(a3, a2, b)
    <3> HIDE DEF a1, a2
    <3> QED
      BY <1>3, CatIs
  <2>4. IsCat(a4, a3, s)
    <3> HIDE DEF a1, a2, a3
    <3> QED
      BY <1>3, CatIs
  <2>5. IsCat(w, a4, t)
    <3> HIDE DEF a1, a2, a3, a4
    <3> QED
      BY <1>3, CatIs
  <2> QED
    BY <2>1, <2>2, <2>3, <2>4, <2>5
<1> HIDE DEF a1, a2, a3, a4, w
<1>5. /\ Len(a1) = 3 + PROGRAM_VK_WORDS
      /\ Len(a2) = 3 + PROGRAM_VK_WORDS + PUBLICS_WORDS
      /\ Len(a3) = 3 + PROGRAM_VK_WORDS + PUBLICS_WORDS + VADCOP_FINAL_BODY_WORDS
      /\ Len(a4) = 3 + PROGRAM_VK_WORDS + PUBLICS_WORDS + VADCOP_FINAL_BODY_WORDS + VADCOP_VK_WORDS
      /\ Len(w) = PROOF_STREAM_WORDS /\ Len(w) = Len(a4) + 1
  BY <1>1, <1>4, Sizes DEF IsCat, PROOF_STREAM_WORDS, HEADER_WORDS, LEAF_FLAG_WORDS, HASH_TAG_WORDS
<1>n. /\ PROGRAM_VK_WORDS \in Nat /\ PUBLICS_WORDS \in Nat /\ VADCOP_FINAL_BODY_WORDS \in Nat
      /\ VADCOP_VK_WORDS \in Nat /\ Len(a1) \in Nat /\ Len(a2) \in Nat /\ Len(a3) \in Nat
  BY <1>5, Sizes
<1>6. Slice(a1, 3, PROGRAM_VK_WORDS) = v
  <2>1. Slice(a1, Len(h), Len(v)) = v
    BY <1>3, <1>4, SliceRight
  <2> QED
    BY <1>1, <2>1
<1>7. Slice(a2, Len(a1), PUBLICS_WORDS) = u
  BY <1>1, <1>3, <1>4, SliceRight
<1>8. Slice(a3, Len(a2), VADCOP_FINAL_BODY_WORDS) = b
  BY <1>1, <1>3, <1>4, SliceRight
<1>9. Slice(a4, Len(a3), VADCOP_VK_WORDS) = s
  BY <1>1, <1>3, <1>4, SliceRight
<1>10. Slice(w, 3, PROGRAM_VK_WORDS) = v
  <2>1. Slice(a2, 3, PROGRAM_VK_WORDS) = v
    BY <1>3, <1>4, <1>5, <1>6, <1>n, SliceLeft
  <2>2. Slice(a3, 3, PROGRAM_VK_WORDS) = v
    BY <1>3, <1>4, <1>5, <1>n, <2>1, SliceLeft
  <2>3. Slice(a4, 3, PROGRAM_VK_WORDS) = v
    BY <1>3, <1>4, <1>5, <1>n, <2>2, SliceLeft
  <2> QED
    BY <1>3, <1>4, <1>5, <1>n, <2>3, SliceLeft
<1>11. Slice(w, Len(a1), PUBLICS_WORDS) = u
  <2>2. Slice(a3, Len(a1), PUBLICS_WORDS) = u
    BY <1>3, <1>4, <1>5, <1>n, <1>7, SliceLeft
  <2>3. Slice(a4, Len(a1), PUBLICS_WORDS) = u
    BY <1>3, <1>4, <1>5, <1>n, <2>2, SliceLeft
  <2> QED
    BY <1>3, <1>4, <1>5, <1>n, <2>3, SliceLeft
<1>12. Slice(w, Len(a2), VADCOP_FINAL_BODY_WORDS) = b
  <2>3. Slice(a4, Len(a2), VADCOP_FINAL_BODY_WORDS) = b
    BY <1>3, <1>4, <1>5, <1>n, <1>8, SliceLeft
  <2> QED
    BY <1>3, <1>4, <1>5, <1>n, <2>3, SliceLeft
<1>13. Slice(w, Len(a3), VADCOP_VK_WORDS) = s
  BY <1>3, <1>4, <1>5, <1>n, <1>9, SliceLeft
<1>14. ASSUME NEW k \in 1..3 PROVE w[k] = h[k]
  <2>1. k \in 1..Len(h) /\ k \in 1..Len(a1) /\ k \in 1..Len(a2) /\ k \in 1..Len(a3) /\ k \in 1..Len(a4)
    BY <1>1, <1>5, <1>n
  <2> QED
    BY <1>4, <2>1 DEF IsCat
<1>15. w[PROOF_STREAM_WORDS] = t[1]
  <2>1. 1 \in 1..Len(t) /\ PROOF_STREAM_WORDS = Len(a4) + 1
    BY <1>1, <1>5
  <2> QED
    BY <1>4, <2>1 DEF IsCat
<1>16. /\ program_vk(w) = v /\ publics(w) = u /\ body(w) = b /\ vadcop_vk(w) = s
  <2>1. /\ HEADER_WORDS + LEAF_FLAG_WORDS = 3
        /\ HEADER_WORDS + LEAF_FLAG_WORDS + PROGRAM_VK_WORDS = Len(a1)
        /\ HEADER_WORDS + LEAF_FLAG_WORDS + PROGRAM_VK_WORDS + PUBLICS_WORDS = Len(a2)
        /\ Len(w) - HASH_TAG_WORDS - VADCOP_VK_WORDS = Len(a3)
    BY <1>5, <1>n DEF HEADER_WORDS, LEAF_FLAG_WORDS, HASH_TAG_WORDS
  <2> QED
    BY <1>10, <1>11, <1>12, <1>13, <2>1 DEF program_vk, publics, body, vadcop_vk
<1> QED
  BY <1>0, <1>2, <1>5, <1>14, <1>15, <1>16 DEF h, v, u, b, s, t

\* Every file, and every stream taken out of one, has its quads in order.
LEMMA OkStream ==
    ASSUME NEW p \in Proofs
    PROVE  AllOk(LeBytes(StreamWords(p))) /\ Len(LeBytes(StreamWords(p))) = 2 * PROOF_STREAM_WORDS
BY StreamLayout, OkLe

LEMMA StreamSize == PROOF_STREAM_WORDS \in Nat /\ PROOF_STREAM_WORDS >= 8
BY Sizes DEF PROOF_STREAM_WORDS, HEADER_WORDS, LEAF_FLAG_WORDS, HASH_TAG_WORDS

LEMMA OkTrailer == AllOk(Trailer) /\ Len(Trailer) = 10
<1> DEFINE w == [i \in 1..4 |-> widen(<<"seed", i>>)]
           t == <<SEED_TRAILER_TAG>>
<1>1. OkWords(w) /\ Len(w) = 4
  <2>1. ASSUME NEW i \in 1..4 PROVE IsWord(w[i]) /\ OkQuad(w[i].lo) /\ OkQuad(w[i].hi)
    <3>1. OkQuad(<<"seed", i>>)
      BY DEF OkQuad
    <3>2. w[i] = widen(<<"seed", i>>)
      OBVIOUS
    <3> HIDE DEF w
    <3> QED
      BY <3>1, <3>2, OkWiden
  <2>2. w = [i \in 1..4 |-> w[i]] /\ 4 \in Nat
    OBVIOUS
  <2> HIDE DEF w
  <2> QED
    BY <2>1, <2>2, MakeWords
<1>2. OkWords(t) /\ Len(t) = 1
  <2>1. /\ IsWord(SEED_TRAILER_TAG) /\ OkQuad(SEED_TRAILER_TAG.lo) /\ OkQuad(SEED_TRAILER_TAG.hi)
    BY DEF SEED_TRAILER_TAG, IsWord, OkQuad
  <2> QED
    BY <2>1, OkShort
<1>3. Trailer = LeBytes(w \o t)
  BY DEF Trailer
<1> HIDE DEF w, t
<1>4. OkWords(w \o t)
  BY <1>1, <1>2, OkWordsCat
<1>5. IsCat(w \o t, w, t)
  BY <1>1, <1>2, CatIs DEF OkWords, AreWords
<1>6. Len(w \o t) = 5
  BY <1>1, <1>2, <1>5 DEF IsCat
<1>7. AllOk(LeBytes(w \o t)) /\ Len(LeBytes(w \o t)) = 2 * Len(w \o t)
  BY <1>4, OkLe
<1> QED
  BY <1>3, <1>6, <1>7

LEMMA OkMagic == AllOk(SNARK_FILE_MAGIC) /\ Len(SNARK_FILE_MAGIC) = 2
<1>1. OkQuad(<<"ZISK">>) /\ OkQuad(<<"PLNK">>)
  BY DEF OkQuad
<1> QED
  BY <1>1, OkPair, PairSeq DEF SNARK_FILE_MAGIC

LEMMA OkFront ==
    ASSUME NEW s, AllOk(s), NEW n \in Nat, n <= Len(s)
    PROVE  AllOk(SubSeq(s, 1, n)) /\ Len(SubSeq(s, 1, n)) = n
<1>1. AllOk(Slice(s, 0, n)) /\ Len(Slice(s, 0, n)) = n
  BY OkSlice
<1>2. Slice(s, 0, n) = SubSeq(s, 1, n)
  BY DEF Slice
<1> QED
  BY <1>1, <1>2

LEMMA OkFile == ASSUME NEW p \in Proofs PROVE AllOk(ProofFile(p))
<1> DEFINE s == LeBytes(StreamWords(p))
<1>1. AllOk(s) /\ Len(s) - 2 \in Nat /\ Len(s) - 1 \in Nat /\ Len(s) - 2 <= Len(s) /\ Len(s) - 1 <= Len(s)
  BY OkStream, StreamSize
<1>2. ProofFile(p) = CASE p.shape = "trailer" -> s \o Trailer
                       [] p.shape = "short"   -> SubSeq(s, 1, Len(s) - 2)
                       [] p.shape = "ragged"  -> SubSeq(s, 1, Len(s) - 1)
                       [] p.shape = "snark"   -> SNARK_FILE_MAGIC \o s
                       [] OTHER               -> s
  BY DEF ProofFile
<1> HIDE DEF s
<1>3. /\ AllOk(s \o Trailer) /\ AllOk(SNARK_FILE_MAGIC \o s)
      /\ AllOk(SubSeq(s, 1, Len(s) - 2)) /\ AllOk(SubSeq(s, 1, Len(s) - 1))
  BY <1>1, OkCat, OkFront, OkTrailer, OkMagic
<1>4. CASE p.shape = "trailer"
  BY <1>2, <1>3, <1>4
<1>5. CASE p.shape = "short"
  BY <1>2, <1>3, <1>5
<1>6. CASE p.shape = "ragged"
  BY <1>2, <1>3, <1>6
<1>7. CASE p.shape = "snark"
  BY <1>2, <1>3, <1>7
<1>8. CASE p.shape \notin {"trailer", "short", "ragged", "snark"}
  BY <1>1, <1>2, <1>8
<1> QED
  BY <1>4, <1>5, <1>6, <1>7, <1>8

LEMMA OkWithoutTrailer == ASSUME NEW s, AllOk(s) PROVE AllOk(without_seed_trailer(s))
<1>1. Len(s) \in Nat
  BY DEF AllOk, IsSeq
<1>2. CASE Len(s) >= 2 * SEED_TRAILER_WORDS /\ EndsWithTag(s)
  <2>1. Len(s) - 2 * SEED_TRAILER_WORDS \in Nat /\ Len(s) - 2 * SEED_TRAILER_WORDS <= Len(s)
    BY <1>1, <1>2 DEF SEED_TRAILER_WORDS
  <2> QED
    BY <1>2, <2>1, OkFront DEF without_seed_trailer
<1>3. CASE ~ (Len(s) >= 2 * SEED_TRAILER_WORDS /\ EndsWithTag(s))
  BY <1>3 DEF without_seed_trailer
<1> QED
  BY <1>2, <1>3

\* A frame's two length quads, its payload and its padding.
LEMMA FrameLayout ==
    ASSUME NEW x, AllOk(x)
    PROVE  /\ AllOk(encode_frame(x))
           /\ Len(encode_frame(x)) = 2 + div_ceil2(Len(x)) * 2
           /\ Len(x) <= div_ceil2(Len(x)) * 2 /\ div_ceil2(Len(x)) \in Nat
           /\ encode_frame(x)[1] = u32(Len(x) * 4) /\ encode_frame(x)[2] = u32(0)
           /\ \A k \in 1..Len(x) : encode_frame(x)[2 + k] = x[k]
<1> DEFINE h == to_le_bytes(u64(Len(x) * BytesPerQuad))
           n == (div_ceil2(Len(x)) * 2) - Len(x)
           z == Zeros(n)
           a == h \o x
           e == a \o z
<1>0. Len(x) \in Nat /\ IsSeq(x) /\ Len(x) * 4 \in Nat
  BY DEF AllOk, IsSeq
<1>1. n \in Nat /\ div_ceil2(Len(x)) \in Nat
  BY <1>0 DEF div_ceil2
<1>2. h = <<u32(Len(x) * 4), u32(0)>>
  BY DEF to_le_bytes, u64, BytesPerQuad
<1>3. AllOk(h) /\ Len(h) = 2 /\ h[1] = u32(Len(x) * 4) /\ h[2] = u32(0)
  <2>1. OkQuad(u32(Len(x) * 4)) /\ OkQuad(u32(0))
    BY <1>0, OkNumber
  <2> QED
    BY <1>2, <2>1, OkPair, PairSeq
<1>4. encode_frame(x) = e
  BY DEF encode_frame
<1>5. AllOk(z) /\ Len(z) = n
  <2> HIDE DEF n
  <2>1. z = [i \in 1..n |-> z[i]] /\ \A i \in 1..n : z[i] = u32(0)
    BY DEF Zeros
  <2> HIDE DEF z
  <2> QED
    BY <1>1, <2>1, MakeSeq, OkNumber DEF AllOk
<1> HIDE DEF h, z
<1>6. AllOk(a) /\ IsCat(a, h, x)
  BY <1>3, OkCat, CatIs DEF AllOk
<1> HIDE DEF a
<1>7. AllOk(e) /\ IsCat(e, a, z)
  BY <1>5, <1>6, OkCat, CatIs DEF AllOk
<1> HIDE DEF e
<1>8. Len(a) = 2 + Len(x) /\ Len(e) = 2 + div_ceil2(Len(x)) * 2
  <2>1. Len(a) = Len(h) + Len(x) /\ Len(e) = Len(a) + Len(z)
    BY <1>6, <1>7 DEF IsCat
  <2>2. Len(a) = 2 + Len(x)
    BY <1>3, <2>1
  <2> DEFINE d == div_ceil2(Len(x)) * 2
  <2>3. d \in Nat /\ Len(z) = d - Len(x)
    BY <1>1, <1>5
  <2> HIDE DEF d
  <2>4. Len(e) = 2 + d
    BY <1>0, <2>1, <2>2, <2>3
  <2> QED
    BY <2>2, <2>4 DEF d
<1>9. a[1] = h[1] /\ a[2] = h[2]
  BY <1>3, <1>6 DEF IsCat
<1>10. e[1] = h[1] /\ e[2] = h[2]
  <2>1. 1 \in 1..Len(a) /\ 2 \in 1..Len(a)
    BY <1>0, <1>8
  <2> QED
    BY <1>7, <1>9, <2>1 DEF IsCat
<1>11. ASSUME NEW k \in 1..Len(x) PROVE e[2 + k] = x[k]
  <2>1. 2 + k \in 1..Len(a) /\ Len(h) + k = 2 + k
    BY <1>0, <1>3, <1>8
  <2> QED
    BY <1>6, <1>7, <2>1 DEF IsCat
<1>12. Len(x) <= div_ceil2(Len(x)) * 2
  BY <1>0, <1>1
<1> QED
  BY <1>1, <1>3, <1>4, <1>7, <1>8, <1>10, <1>11, <1>12

-----------------------------------------------------------------------------
(* What the guest can find in its input. *)

LEMMA OkCut ==
    ASSUME NEW s, AllOk(s)
    PROVE  OkWords(words_from_bytes(s))
<1> DEFINE n == Len(s) \div 2
           w == words_from_bytes(s)
<1>0. Len(s) \in Nat
  BY DEF AllOk, IsSeq
<1>1. n \in Nat /\ 2 * n <= Len(s)
  BY <1>0
<1>2. w = [i \in 1..n |-> w[i]] /\ \A i \in 1..n : w[i] = [lo |-> s[2 * i - 1], hi |-> s[2 * i]]
  BY DEF words_from_bytes
<1> HIDE DEF n, w
<1>3. ASSUME NEW i \in 1..n PROVE IsWord(w[i]) /\ OkQuad(w[i].lo) /\ OkQuad(w[i].hi)
  <2>1. 2 * i - 1 \in 1..Len(s) /\ 2 * i \in 1..Len(s)
    BY <1>0, <1>1
  <2> QED
    BY <1>2, <2>1 DEF AllOk, IsWord
<1>4. OkWords(w)
  BY <1>1, <1>2, <1>3, MakeWords
<1> QED
  BY <1>4 DEF w

LEMMA OkWordsSlice ==
    ASSUME NEW w, OkWords(w), NEW a \in Nat, NEW n \in Nat, a + n <= Len(w)
    PROVE  /\ OkWords(Slice(w, a, n)) /\ Len(Slice(w, a, n)) = n
           /\ \A k \in 1..n : Slice(w, a, n)[k] = w[a + k]
<1> DEFINE u == Slice(w, a, n)
<1>0. IsSeq(w) /\ Len(w) \in Nat
  BY DEF OkWords, AreWords, IsSeq
<1>1. IsSeq(u) /\ Len(u) = n /\ \A k \in 1..n : u[k] = w[a + k]
  BY <1>0, SliceFacts
<1> HIDE DEF u
<1>2. ASSUME NEW k \in 1..n PROVE IsWord(u[k]) /\ OkQuad(u[k].lo) /\ OkQuad(u[k].hi)
  <2>1. a + k \in 1..Len(w)
    BY <1>0
  <2> QED
    BY <1>1, <2>1 DEF OkWords, AreWords
<1>3. OkWords(u)
  BY <1>1, <1>2 DEF OkWords, AreWords
<1> QED
  BY <1>1, <1>3 DEF u

\* The commitment of a proof is what its guest committed.
LEMMA CommitLow ==
    ASSUME NEW s, IsSeq(s), Len(s) = COMMITMENT_WORDS
    PROVE  [i \in 1..COMMITMENT_WORDS |-> commit_slice(s)[i].lo] = s
<1>1. ASSUME NEW i \in 1..COMMITMENT_WORDS PROVE commit_slice(s)[i].lo = s[i]
  <2>1. i \in 1..PUBLICS_WORDS /\ i <= Len(s)
    BY Sizes
  <2> QED
    BY <2>1 DEF commit_slice, widen
<1> QED
  BY <1>1 DEF IsSeq

LEMMA IsPublicInput ==
    ASSUME NEW b, NEW c
    PROVE  IsSeq(PublicInput(b, c)) /\ Len(PublicInput(b, c)) = COMMITMENT_WORDS
<1> DEFINE s == PublicInput(b, c)
<1>1. s = [i \in 1..COMMITMENT_WORDS |-> s[i]]
  BY DEF PublicInput
<1> HIDE DEF s
<1>2. IsSeq(s) /\ Len(s) = COMMITMENT_WORDS
  BY <1>1, Sizes, MakeSeq
<1> QED
  BY <1>2 DEF s

\* Words that parse and verify under the pinned keys commit what an execution
\* of the STF guest committed, wherever in the input they were found.
LEMMA VerifiedWords ==
    ASSUME NEW w, OkWords(w), ProofFrame_parse_ok(w)
    PROVE  /\ OkWords(program_vk(w)) /\ Len(program_vk(w)) = PROGRAM_VK_WORDS
           /\ OkWords(vadcop_vk(w)) /\ Len(vadcop_vk(w)) = VADCOP_VK_WORDS
           /\ IsSeq(commitment(w)) /\ Len(commitment(w)) = COMMITMENT_WORDS
           /\ /\ verify_zisk_proof(w, vadcop_vk(w), program_vk(w))
              /\ program_vk(w) = StfVk /\ vadcop_vk(w) = TRUSTED_VADCOP_VK
              => \E b \in 1..MaxBatches : commitment(w) = PublicInput(b, "real")
<1> DEFINE o == 3 + PROGRAM_VK_WORDS + PUBLICS_WORDS
<1>0. /\ Len(w) = o + VADCOP_FINAL_BODY_WORDS + VADCOP_VK_WORDS + 1
      /\ w[3] = IS_VADCOP_FINAL_PROOF
      /\ PROGRAM_VK_WORDS \in Nat /\ VADCOP_VK_WORDS \in Nat /\ o \in Nat /\ o = 3 + PROGRAM_VK_WORDS + PUBLICS_WORDS
      /\ VADCOP_FINAL_BODY_WORDS \in Nat \ {0} /\ PUBLICS_WORDS \in Nat
  BY Sizes DEF ProofFrame_parse_ok, PROOF_STREAM_WORDS, HEADER_WORDS, LEAF_FLAG_WORDS, HASH_TAG_WORDS
<1> HIDE DEF o
<1>1. /\ program_vk(w) = Slice(w, 3, PROGRAM_VK_WORDS)
      /\ vadcop_vk(w) = Slice(w, o + VADCOP_FINAL_BODY_WORDS, VADCOP_VK_WORDS)
      /\ body(w) = Slice(w, o, VADCOP_FINAL_BODY_WORDS)
  <2>1. HEADER_WORDS + LEAF_FLAG_WORDS = 3
    BY DEF HEADER_WORDS, LEAF_FLAG_WORDS
  <2>2. HEADER_WORDS + LEAF_FLAG_WORDS + PROGRAM_VK_WORDS + PUBLICS_WORDS = o
    BY <2>1 DEF o
  <2>3. Len(w) - HASH_TAG_WORDS - VADCOP_VK_WORDS = o + VADCOP_FINAL_BODY_WORDS
    BY <1>0 DEF HASH_TAG_WORDS
  <2> QED
    BY <2>1, <2>2, <2>3 DEF program_vk, vadcop_vk, body
<1>2. /\ OkWords(program_vk(w)) /\ Len(program_vk(w)) = PROGRAM_VK_WORDS
  <2>1. 3 + PROGRAM_VK_WORDS <= Len(w)
    BY <1>0
  <2> QED
    BY <1>0, <1>1, <2>1, OkWordsSlice
<1>3. /\ OkWords(vadcop_vk(w)) /\ Len(vadcop_vk(w)) = VADCOP_VK_WORDS
  <2>1. o + VADCOP_FINAL_BODY_WORDS \in Nat /\ o + VADCOP_FINAL_BODY_WORDS + VADCOP_VK_WORDS <= Len(w)
    BY <1>0
  <2> QED
    BY <1>0, <1>1, <2>1, OkWordsSlice
<1>4. IsSeq(commitment(w)) /\ Len(commitment(w)) = COMMITMENT_WORDS
  <2> DEFINE c == commitment(w)
  <2>1. c = [i \in 1..COMMITMENT_WORDS |-> c[i]]
    BY DEF commitment
  <2> HIDE DEF c
  <2>2. IsSeq(c) /\ Len(c) = COMMITMENT_WORDS
    BY <2>1, Sizes, MakeSeq
  <2> QED
    BY <2>2 DEF c
<1>5. ASSUME verify_zisk_proof(w, vadcop_vk(w), program_vk(w)),
             program_vk(w) = StfVk, vadcop_vk(w) = TRUSTED_VADCOP_VK
      PROVE  \E b \in 1..MaxBatches : commitment(w) = PublicInput(b, "real")
  <2> DEFINE q == <<"stark", StfVk, publics(w), TRUSTED_VADCOP_VK, IS_VADCOP_FINAL_PROOF, 1>>
  <2>1. body(w) = StarkBody(StfVk, publics(w), TRUSTED_VADCOP_VK, IS_VADCOP_FINAL_PROOF)
    <3>1. w[HEADER_WORDS + 1] = IS_VADCOP_FINAL_PROOF
      BY DEF ProofFrame_parse_ok
    <3> QED
      BY <1>5, <3>1 DEF verify_zisk_proof
  <2>2. 1 \in 1..VADCOP_FINAL_BODY_WORDS /\ o + VADCOP_FINAL_BODY_WORDS <= Len(w) /\ o + 1 \in 1..Len(w)
    BY <1>0
  <2>3. body(w)[1] = w[o + 1]
    <3>1. VADCOP_FINAL_BODY_WORDS \in Nat
      BY <1>0
    <3>2. \A k \in 1..VADCOP_FINAL_BODY_WORDS : Slice(w, o, VADCOP_FINAL_BODY_WORDS)[k] = w[o + k]
      BY <1>0, <2>2, <3>1, OkWordsSlice
    <3> QED
      BY <1>1, <2>2, <3>2
  <2>4. body(w)[1].lo = q
    BY <2>1, <2>2 DEF StarkBody, widen
  <2>5. OkQuad(q)
    BY <2>2, <2>3, <2>4 DEF OkWords
  <2>6. Executed(publics(w))
    <3>1. q[1] = "stark" /\ q[2] = StfVk /\ q[3] = publics(w) /\ q[4] = TRUSTED_VADCOP_VK /\ q[5] = IS_VADCOP_FINAL_PROOF
      OBVIOUS
    <3> HIDE DEF q
    <3> QED
      BY <2>5, <3>1 DEF OkQuad, Genuine
  <2>7. PICK b \in 1..MaxBatches : publics(w) = commit_slice(PublicInput(b, "real"))
    BY <2>6 DEF Executed
  <2>8. commitment(w) = PublicInput(b, "real")
    <3> DEFINE s == PublicInput(b, "real")
    <3>1. IsSeq(s) /\ Len(s) = COMMITMENT_WORDS
      BY IsPublicInput
    <3> HIDE DEF s
    <3>2. commitment(w) = [i \in 1..COMMITMENT_WORDS |-> commit_slice(s)[i].lo]
      BY <2>7 DEF commitment, s
    <3>3. commitment(w) = s
      BY <3>1, <3>2, CommitLow
    <3> QED
      BY <3>3 DEF s
  <2> QED
    BY <2>8
<1> QED
  BY <1>2, <1>3, <1>4, <1>5

-----------------------------------------------------------------------------
(***************************************************************************)
(* The inductive invariant of the lane.                                     *)
(***************************************************************************)
Given ==
    /\ IsSeq(given) /\ \A i \in 1..Len(given) : given[i] \in Proofs
    /\ IsSeq(claims) /\ Len(claims) > 0
    /\ \A b \in 1..Len(claims) : claims[b] \in {"real", "bad"}

Framed ==
    /\ IsSeq(streams) /\ \A i \in 1..Len(streams) : AllOk(streams[i])
    /\ AllOk(input)

\* The count frame, as either way to make an input writes it.
CountFrame(bytes) ==
    \E n \in Nat : /\ Len(bytes) >= 4
                   /\ bytes[1] = u32(8) /\ bytes[2] = u32(0)
                   /\ bytes[3] = u32(n) /\ bytes[4] = u32(0)

Reading ==
    /\ phase \in {"load", "count"} => batch_public_inputs = << >> /\ vks = << >>
    /\ phase = "count" => CountFrame(input)
    /\ phase = "proofs" => pos \in Nat /\ left \in Nat /\ left + Len(batch_public_inputs) > 0

PinnedKeys ==
    vks[1].program_vk = StfVk /\ vks[1].vadcop_vk = TRUSTED_VADCOP_VK

Ingested ==
    /\ IsSeq(batch_public_inputs)
    /\ \A k \in 1..Len(batch_public_inputs) :
         IsSeq(batch_public_inputs[k]) /\ Len(batch_public_inputs[k]) = COMMITMENT_WORDS
    /\ Len(batch_public_inputs) > 0 => vks # << >>
    /\ vks # << >> =>
         /\ OkWords(vks[1].program_vk) /\ Len(vks[1].program_vk) = PROGRAM_VK_WORDS
         /\ OkWords(vks[1].vadcop_vk) /\ Len(vks[1].vadcop_vk) = VADCOP_VK_WORDS
    /\ vks # << >> /\ phase # "verify panic" /\ PinnedKeys =>
         \A k \in 1..Len(batch_public_inputs) :
           \E b \in 1..MaxBatches : batch_public_inputs[k] = PublicInput(b, "real")

Submitted == {"check", "bound error", "submit", "accepted", "L1 rejects"}
Wrapped == Submitted \cup {"parse", "file error"}

Proved ==
    /\ phase \in Wrapped \cup {"wrap"} => committed = finalize /\ Len(batch_public_inputs) > 0
    /\ phase \in Wrapped => snark \in WrappedFiles
    /\ phase \in Submitted => parse_proof_file_ok(snark) /\ out = parse_proof_file(snark)
    /\ phase = "accepted" => L1Accepts(out)

LaneInv == Given /\ Framed /\ Reading /\ Ingested /\ Proved

LEMMA UpTo ==
    ASSUME NEW S, NEW lo \in Nat, NEW hi \in Nat, NEW s \in SeqsUpTo(S, lo, hi)
    PROVE  IsSeq(s) /\ Len(s) >= lo /\ Len(s) <= hi /\ \A i \in 1..Len(s) : s[i] \in S
<1>1. PICK k \in lo..hi : s \in [1..k -> S]
  BY DEF SeqsUpTo
<1>2. k \in Nat /\ s = [i \in 1..k |-> s[i]]
  BY <1>1
<1>3. IsSeq(s) /\ Len(s) = k
  BY <1>2, MakeSeq
<1> QED
  BY <1>1, <1>3

LEMMA LaneInit == Init => LaneInv
<1> SUFFICES ASSUME Init PROVE LaneInv
  OBVIOUS
<1>0. MaxBatches \in Nat /\ 0 \in Nat /\ 1 \in Nat
  BY RangeBounds
<1>1. Given
  <2>1. given \in SeqsUpTo(Proofs, 0, MaxBatches) /\ claims \in SeqsUpTo({"real", "bad"}, 1, MaxBatches)
    BY DEF Init
  <2>2. IsSeq(given) /\ \A i \in 1..Len(given) : given[i] \in Proofs
    BY <1>0, <2>1, UpTo
  <2>3. IsSeq(claims) /\ Len(claims) >= 1 /\ \A b \in 1..Len(claims) : claims[b] \in {"real", "bad"}
    BY <1>0, <2>1, UpTo
  <2> QED
    BY <2>2, <2>3 DEF Given, IsSeq
<1>2. Framed
  BY EmptySequence DEF Init, Framed, AllOk
<1>3. Reading /\ Ingested /\ Proved
  BY EmptySequence DEF Init, Reading, Ingested, Proved, Wrapped, Submitted
<1> QED
  BY <1>1, <1>2, <1>3 DEF LaneInv

\* Both ways to frame an input give one in order, with a count in front.
LEMMA FramedInput ==
    ASSUME NEW n \in Nat, NEW s, IsSeq(s), \A i \in 1..Len(s) : AllOk(s[i])
    PROVE  LET b == encode_frame(to_le_bytes(u64(n)))
                      \o FlattenSeq([i \in DOMAIN s |-> encode_frame(s[i])])
           IN  AllOk(b) /\ CountFrame(b)
<1> DEFINE c == to_le_bytes(u64(n))
           h == encode_frame(c)
           f == [i \in DOMAIN s |-> encode_frame(s[i])]
           r == FlattenSeq(f)
           b == h \o r
<1>0. DOMAIN s = 1..Len(s) /\ Len(s) \in Nat
  BY DEF IsSeq
<1>1. c = <<u32(n), u32(0)>>
  BY DEF to_le_bytes, u64
<1>2. AllOk(c) /\ Len(c) = 2 /\ c[1] = u32(n) /\ c[2] = u32(0)
  BY <1>1, OkNumber, OkPair, PairSeq
<1> HIDE DEF c
<1>3. /\ AllOk(h) /\ Len(h) = 2 + div_ceil2(2) * 2
      /\ h[1] = u32(2 * 4) /\ h[2] = u32(0) /\ \A k \in 1..2 : h[2 + k] = c[k]
  BY <1>2, FrameLayout
<1>4. Len(h) = 4 /\ h[1] = u32(8) /\ h[2] = u32(0) /\ h[3] = u32(n) /\ h[4] = u32(0)
  <2>1. div_ceil2(2) * 2 = 2 /\ 2 * 4 = 8 /\ 2 + 1 = 3 /\ 2 + 2 = 4
    BY DEF div_ceil2
  <2>2. h[2 + 1] = c[1] /\ h[2 + 2] = c[2]
    BY <1>3
  <2> QED
    BY <1>2, <1>3, <2>1, <2>2
<1> HIDE DEF h
<1>5. AllOk(r)
  <2>1. f = [i \in 1..Len(s) |-> f[i]] /\ \A i \in 1..Len(s) : f[i] = encode_frame(s[i])
    BY <1>0
  <2> HIDE DEF f
  <2>2. IsSeq(f) /\ Len(f) = Len(s)
    BY <1>0, <2>1, MakeSeq
  <2>3. \A i \in 1..Len(f) : AllOk(f[i])
    BY <2>1, <2>2, FrameLayout
  <2> QED
    BY <2>2, <2>3, OkFlatten
<1> HIDE DEF r
<1>6. AllOk(b) /\ IsCat(b, h, r)
  BY <1>3, <1>5, OkCat, CatIs DEF AllOk
<1> HIDE DEF b
<1>7. CountFrame(b)
  <2>1. Len(r) \in Nat /\ Len(b) = Len(h) + Len(r) /\ \A k \in 1..Len(h) : b[k] = h[k]
    BY <1>5, <1>6 DEF IsCat, AllOk, IsSeq
  <2>2. Len(b) >= 4 /\ b[1] = h[1] /\ b[2] = h[2] /\ b[3] = h[3] /\ b[4] = h[4]
    BY <1>4, <2>1
  <2> QED
    BY <1>4, <2>2 DEF CountFrame
<1> QED
  BY <1>6, <1>7 DEF b, r, h, c, f

LEMMA AppendFacts ==
    ASSUME NEW s, NEW x, IsSeq(s)
    PROVE  /\ IsSeq(Append(s, x)) /\ Len(Append(s, x)) = Len(s) + 1
           /\ \A k \in 1..Len(s) : Append(s, x)[k] = s[k]
           /\ Append(s, x)[Len(s) + 1] = x
<1> DEFINE S == {s[i] : i \in 1..Len(s)} \cup {x}
           u == Append(s, x)
<1>1. Len(s) \in Nat /\ DOMAIN s = 1..Len(s) /\ s \in [1..Len(s) -> S]
  BY DEF IsSeq
<1>x. x \in S
  OBVIOUS
<1> HIDE DEF S
<1>2. s \in Seq(S)
  BY <1>1
<1>3. u \in Seq(S) /\ Len(u) = Len(s) + 1 /\ u[Len(s) + 1] = x /\ \A k \in 1..Len(s) : u[k] = s[k]
  BY <1>1, <1>2, <1>x
<1> HIDE DEF u
<1>4. IsSeq(u)
  BY <1>3 DEF IsSeq
<1> QED
  BY <1>3, <1>4 DEF u

LEMMA LaneLoad == ASSUME LaneInv, LoadProof PROVE LaneInv'
<1> DEFINE file == ProofFile(given[Len(streams) + 1])
<1>0. Len(streams) + 1 \in 1..Len(given) /\ given[Len(streams) + 1] \in Proofs
  <2>1. Len(streams) \in Nat /\ Len(given) \in Nat /\ Len(streams) < Len(given)
    BY DEF LaneInv, Given, Framed, IsSeq, LoadProof
  <2>2. Len(streams) + 1 \in 1..Len(given)
    BY <2>1
  <2> QED
    BY <2>2 DEF LaneInv, Given
<1>1. AllOk(file) /\ AllOk(without_seed_trailer(file))
  BY <1>0, OkFile, OkWithoutTrailer
<1>2. phase = "load" /\ phase' \in {"load", "load error"}
      /\ UNCHANGED <<given, claims, input, pos, left, vks, batch_public_inputs, committed, snark, out>>
      /\ (streams' = streams \/ streams' = Append(streams, without_seed_trailer(file)))
  BY DEF LoadProof, Fail, guestVars, vadcop_stream_from_proof_file
<1> HIDE DEF file
<1>3. Framed'
  <2>1. CASE streams' = streams
    BY <1>2, <2>1 DEF LaneInv, Framed
  <2>2. CASE streams' = Append(streams, without_seed_trailer(file))
    <3> DEFINE x == without_seed_trailer(file)
               t == Append(streams, x)
    <3>1. /\ IsSeq(t) /\ Len(t) = Len(streams) + 1 /\ \A k \in 1..Len(streams) : t[k] = streams[k]
          /\ t[Len(streams) + 1] = x
      BY AppendFacts DEF LaneInv, Framed
    <3>2. AllOk(x) /\ streams' = t /\ Len(streams) \in Nat
      BY <1>1, <2>2 DEF LaneInv, Framed, IsSeq
    <3> HIDE DEF t, x
    <3>3. \A i \in 1..Len(t) : AllOk(t[i])
      <4> TAKE i \in 1..Len(t)
      <4>1. i \in 1..Len(streams) \/ i = Len(streams) + 1
        BY <3>1, <3>2
      <4> QED
        BY <3>1, <3>2, <4>1 DEF LaneInv, Framed
    <3> QED
      BY <1>2, <3>1, <3>2, <3>3 DEF LaneInv, Framed
  <2> QED
    BY <1>2, <2>1, <2>2
<1>4. Given' /\ Reading' /\ Ingested' /\ Proved'
  BY <1>2 DEF LaneInv, Given, Reading, Ingested, Proved, PinnedKeys, Wrapped, Submitted
<1> QED
  BY <1>3, <1>4 DEF LaneInv

LEMMA LaneFramed ==
    ASSUME LaneInv, phase = "load",
           UNCHANGED <<given, claims, streams, pos, left, vks, batch_public_inputs, committed, snark, out>>,
           \/ phase' = "count" /\ AllOk(input') /\ CountFrame(input')
           \/ phase' = "assemble error" /\ input' = input
    PROVE  LaneInv'
<1>1. Given' /\ Framed'
  BY DEF LaneInv, Given, Framed
<1>2. Reading' /\ Ingested' /\ Proved'
  <2>1. CASE phase' = "count" /\ AllOk(input') /\ CountFrame(input')
    BY <2>1 DEF LaneInv, Reading, Ingested, Proved, PinnedKeys, Wrapped, Submitted
  <2>2. CASE phase' = "assemble error"
    BY <2>2 DEF LaneInv, Reading, Ingested, Proved, PinnedKeys, Wrapped, Submitted
  <2> QED
    BY <2>1, <2>2
<1> QED
  BY <1>1, <1>2 DEF LaneInv

LEMMA LaneAssemble == ASSUME LaneInv, Assemble PROVE LaneInv'
<1>1. /\ phase = "load"
      /\ UNCHANGED <<given, claims, streams, pos, left, vks, batch_public_inputs, committed, snark, out>>
  BY DEF Assemble, guestVars
<1>2. CASE streams # << >> /\ DryRunOk
  <2>1. /\ phase' = "count"
        /\ input' = encode_frame(to_le_bytes(u64(Len(streams))))
                      \o FlattenSeq([i \in DOMAIN streams |-> encode_frame(streams[i])])
    BY <1>2 DEF Assemble
  <2>2. /\ Len(streams) \in Nat /\ IsSeq(streams) /\ \A i \in 1..Len(streams) : AllOk(streams[i])
    BY DEF LaneInv, Framed, IsSeq
  <2>3. AllOk(input') /\ CountFrame(input')
    BY <2>1, <2>2, FramedInput
  <2> QED
    BY <1>1, <2>1, <2>3, LaneFramed
<1>3. CASE ~ (streams # << >> /\ DryRunOk)
  <2>1. phase' = "assemble error" /\ input' = input
    BY <1>3 DEF Assemble, Fail
  <2> QED
    BY <1>1, <2>1, LaneFramed
<1> QED
  BY <1>2, <1>3

LEMMA LaneUnchecked == ASSUME LaneInv, FrameUnchecked PROVE LaneInv'
<1>1. /\ phase = "load" /\ phase' = "count"
      /\ UNCHANGED <<given, claims, streams, pos, left, vks, batch_public_inputs, committed, snark, out>>
  BY DEF FrameUnchecked, guestVars
<1>2. PICK n \in 0..MaxBatches :
        input' = encode_frame(to_le_bytes(u64(n)))
                   \o FlattenSeq([i \in DOMAIN given |-> encode_frame(ProofFile(given[i]))])
  BY DEF FrameUnchecked
<1> DEFINE s == [i \in DOMAIN given |-> ProofFile(given[i])]
           f == [i \in DOMAIN s |-> encode_frame(s[i])]
<1>3. n \in Nat /\ Len(given) \in Nat /\ DOMAIN given = 1..Len(given)
  BY RangeBounds DEF LaneInv, Given, IsSeq
<1>4. /\ s = [i \in 1..Len(given) |-> s[i]] /\ \A i \in 1..Len(given) : s[i] = ProofFile(given[i])
      /\ DOMAIN s = DOMAIN given
  BY <1>3
<1>5. [i \in DOMAIN given |-> encode_frame(ProofFile(given[i]))] = f
  OBVIOUS
<1> HIDE DEF s
<1>6. IsSeq(s) /\ Len(s) = Len(given)
  BY <1>3, <1>4, MakeSeq
<1>7. \A i \in 1..Len(s) : AllOk(s[i])
  BY <1>4, <1>6, OkFile DEF LaneInv, Given
<1>8. AllOk(input') /\ CountFrame(input')
  BY <1>2, <1>3, <1>5, <1>6, <1>7, FramedInput
<1> QED
  BY <1>1, <1>8, LaneFramed

\* The frame at any place of an input in order.
LEMMA FrameRead ==
    ASSUME NEW b, AllOk(b), NEW k \in Nat, FrameOk(b, k)
    PROVE  /\ FrameLen(b, k) \in Nat
           /\ AllOk(FramePayload(b, k)) /\ Len(FramePayload(b, k)) = FrameLen(b, k)
           /\ NextFrame(b, k) \in Nat
<1>0. Len(b) \in Nat
  BY DEF AllOk, IsSeq
<1>1. k + 1 \in 1..Len(b) /\ b[k + 1][1] = "u32"
  BY <1>0 DEF FrameOk
<1>2. b[k + 1][2] \in Nat
  BY <1>1 DEF AllOk, OkQuad
<1>3. FrameLen(b, k) \in Nat
  BY <1>2 DEF FrameLen, BytesPerQuad
<1>4. k + 2 \in Nat /\ k + 2 + FrameLen(b, k) <= Len(b)
  BY DEF FrameOk
<1>5. AllOk(FramePayload(b, k)) /\ Len(FramePayload(b, k)) = FrameLen(b, k)
  BY <1>3, <1>4, OkSlice DEF FramePayload
<1>6. NextFrame(b, k) \in Nat
  BY <1>3 DEF NextFrame, div_ceil2
<1> QED
  BY <1>3, <1>5, <1>6

LEMMA LaneCount == ASSUME LaneInv, ReadCount PROVE LaneInv'
<1>1. /\ phase = "count"
      /\ UNCHANGED <<given, claims, streams, input, vks, batch_public_inputs, committed, snark, out>>
  BY DEF ReadCount
<1>2. batch_public_inputs = << >> /\ vks = << >> /\ CountFrame(input) /\ AllOk(input)
  BY <1>1 DEF LaneInv, Reading, Framed
<1>3. CASE FrameOk(input, 0) /\ parse_count_frame_ok(FramePayload(input, 0))
  <2>1. /\ left' = parse_count_frame(FramePayload(input, 0))
        /\ pos' = NextFrame(input, 0) /\ phase' = "proofs"
    BY <1>3 DEF ReadCount
  <2>2. pos' \in Nat
    BY <1>2, <1>3, <2>1, FrameRead
  <2>3. PICK n \in Nat : /\ Len(input) >= 4 /\ input[1] = u32(8) /\ input[2] = u32(0)
                         /\ input[3] = u32(n) /\ input[4] = u32(0)
    BY <1>2 DEF CountFrame
  <2>4. FrameLen(input, 0) = 2
    <3>1. input[0 + 1][2] = 8
      BY <2>3 DEF u32
    <3> QED
      BY <3>1 DEF FrameLen, BytesPerQuad
  <2> DEFINE c == FramePayload(input, 0)
  <2>5. IsSeq(c) /\ Len(c) = 2 /\ c[1] = u32(n) /\ c[2] = u32(0)
    <3>1. c = Slice(input, 2, 2)
      BY <2>4 DEF FramePayload
    <3>2. IsSeq(input) /\ 2 \in Nat /\ 2 + 2 <= Len(input)
      BY <1>2, <2>3 DEF AllOk
    <3>3. IsSeq(Slice(input, 2, 2)) /\ Len(Slice(input, 2, 2)) = 2
          /\ \A k \in 1..2 : Slice(input, 2, 2)[k] = input[2 + k]
      BY <3>2, SliceFacts
    <3>4. Slice(input, 2, 2)[1] = input[3] /\ Slice(input, 2, 2)[2] = input[4]
      BY <3>3
    <3> QED
      BY <2>3, <3>1, <3>3, <3>4
  <2>6. left' = n
    BY <2>1, <2>5 DEF parse_count_frame, u32
  <2>7. n # 0
    <3> SUFFICES ASSUME n = 0 PROVE FALSE
      OBVIOUS
    <3>1. c # to_le_bytes(u64(0))
      BY <1>3 DEF parse_count_frame_ok
    <3>2. to_le_bytes(u64(0)) = <<u32(0), u32(0)>>
      BY DEF to_le_bytes, u64
    <3> DEFINE d == <<u32(0), u32(0)>>
    <3>3. IsSeq(d) /\ Len(d) = 2 /\ d[1] = u32(0) /\ d[2] = u32(0)
      BY PairSeq
    <3> HIDE DEF c, d
    <3>4. \A k \in 1..Len(c) : c[k] = d[k]
      BY <2>5, <3>3
    <3>5. c = d
      BY <2>5, <3>3, <3>4, SeqEq
    <3> QED
      BY <3>1, <3>2, <3>5 DEF d
  <2>8. Reading'
    BY <1>1, <1>2, <2>1, <2>2, <2>6, <2>7, EmptySequence DEF Reading
  <2>9. Given' /\ Framed' /\ Ingested' /\ Proved'
    BY <1>1, <1>2, <2>1, EmptySequence DEF LaneInv, Given, Framed, Ingested, Proved, PinnedKeys, Wrapped, Submitted
  <2> QED
    BY <2>8, <2>9 DEF LaneInv
<1>4. CASE ~ (FrameOk(input, 0) /\ parse_count_frame_ok(FramePayload(input, 0)))
  <2>1. phase' = "count panic"
    BY <1>4 DEF ReadCount, Fail
  <2> QED
    BY <1>1, <1>2, <2>1, EmptySequence
       DEF LaneInv, Given, Framed, Reading, Ingested, Proved, PinnedKeys, Wrapped, Submitted
<1> QED
  BY <1>3, <1>4

LEMMA LaneProof == ASSUME LaneInv, ReadProof PROVE LaneInv'
<1> DEFINE bytes == FramePayload(input, pos)
           words == words_from_bytes(bytes)
           bad == \/ ~ FrameOk(input, pos) \/ ~ words_from_bytes_ok(pos + 2, bytes)
                  \/ ~ ProofFrame_parse_ok(words) \/ ~ ingest_ok(vks, words)
<1>1. /\ phase = "proofs" /\ left > 0
      /\ UNCHANGED <<given, claims, streams, input, snark, out>>
  BY DEF ReadProof
<1>2. pos \in Nat /\ left \in Nat /\ AllOk(input) /\ IsSeq(batch_public_inputs)
      /\ Len(batch_public_inputs) \in Nat
  BY <1>1 DEF LaneInv, Reading, Framed, Ingested, IsSeq
<1>3. Given' /\ Framed'
  BY <1>1 DEF LaneInv, Given, Framed
<1>4. CASE bad
  <2>1. phase' = "parse panic" /\ UNCHANGED <<vks, batch_public_inputs>>
    BY <1>4 DEF ReadProof, Fail, guestVars
  <2> QED
    BY <1>1, <1>3, <2>1 DEF LaneInv, Reading, Ingested, Proved, PinnedKeys, Wrapped, Submitted
<1>5. CASE ~ bad
  <2> DEFINE c == commitment(words)
             t == Append(batch_public_inputs, c)
             good == verify_zisk_proof(words, vadcop_vk(words), program_vk(words))
  <2>1. /\ vks' = ingest_vks(vks, words)
        /\ batch_public_inputs' = t
        /\ pos' = NextFrame(input, pos) /\ left' = left - 1
        /\ phase' = IF good THEN "proofs" ELSE "verify panic"
    BY <1>1, <1>5 DEF ReadProof, Fail
  <2>2. FrameOk(input, pos) /\ ProofFrame_parse_ok(words) /\ ingest_ok(vks, words)
    BY <1>5
  <2>3. AllOk(bytes) /\ pos' \in Nat
    BY <1>2, <2>1, <2>2, FrameRead
  <2>4. OkWords(words)
    BY <2>3, OkCut
  <2> HIDE DEF words
  <2>5. /\ OkWords(program_vk(words)) /\ Len(program_vk(words)) = PROGRAM_VK_WORDS
        /\ OkWords(vadcop_vk(words)) /\ Len(vadcop_vk(words)) = VADCOP_VK_WORDS
        /\ IsSeq(c) /\ Len(c) = COMMITMENT_WORDS
        /\ good /\ program_vk(words) = StfVk /\ vadcop_vk(words) = TRUSTED_VADCOP_VK
              => \E b \in 1..MaxBatches : c = PublicInput(b, "real")
    BY <2>2, <2>4, VerifiedWords
  <2> HIDE DEF c, good
  <2>6. /\ IsSeq(t) /\ Len(t) = Len(batch_public_inputs) + 1
        /\ \A k \in 1..Len(batch_public_inputs) : t[k] = batch_public_inputs[k]
        /\ t[Len(batch_public_inputs) + 1] = c
    BY <1>2, AppendFacts
  <2> HIDE DEF t
  <2>7. \A k \in 1..Len(t) : k \in 1..Len(batch_public_inputs) \/ k = Len(batch_public_inputs) + 1
    BY <1>2, <2>6
  <2>8. /\ vks' # << >>
        /\ vks'[1].program_vk = program_vk(words) /\ vks'[1].vadcop_vk = vadcop_vk(words)
        /\ vks # << >> => vks' = vks
    <3>1. CASE vks # << >>
      BY <2>1, <2>2, <3>1 DEF ingest_vks, ingest_ok
    <3>2. CASE vks = << >>
      <4> DEFINE r == [program_vk |-> program_vk(words), vadcop_vk |-> vadcop_vk(words)]
      <4>1. vks' = <<r>> /\ r.program_vk = program_vk(words) /\ r.vadcop_vk = vadcop_vk(words)
        BY <2>1, <3>2 DEF ingest_vks
      <4> HIDE DEF r
      <4>2. Len(<<r>>) = 1 /\ <<r>>[1] = r
        BY ShortSeqs
      <4>3. <<r>> # << >>
        BY <4>2, EmptySequence
      <4> QED
        BY <3>2, <4>1, <4>2, <4>3
    <3> QED
      BY <3>1, <3>2
  <2>9. \A k \in 1..Len(t) : IsSeq(t[k]) /\ Len(t[k]) = COMMITMENT_WORDS
    <3> TAKE k \in 1..Len(t)
    <3>1. CASE k \in 1..Len(batch_public_inputs)
      BY <2>6, <3>1 DEF LaneInv, Ingested
    <3>2. CASE k = Len(batch_public_inputs) + 1
      BY <2>5, <2>6, <3>2
    <3> QED
      BY <2>7, <3>1, <3>2
  <2>10. ASSUME phase' # "verify panic", PinnedKeys', NEW k \in 1..Len(t)
         PROVE  \E b \in 1..MaxBatches : t[k] = PublicInput(b, "real")
    <3>0. good /\ program_vk(words) = StfVk /\ vadcop_vk(words) = TRUSTED_VADCOP_VK
      BY <2>1, <2>8, <2>10 DEF PinnedKeys
    <3>1. CASE k \in 1..Len(batch_public_inputs)
      <4>0. Len(batch_public_inputs) > 0
        BY <1>2, <3>1
      <4>1. vks # << >>
        BY <4>0 DEF LaneInv, Ingested
      <4>2. vks' = vks /\ PinnedKeys
        BY <2>8, <2>10, <4>1 DEF PinnedKeys
      <4>3. \E b \in 1..MaxBatches : batch_public_inputs[k] = PublicInput(b, "real")
        BY <1>1, <3>1, <4>1, <4>2 DEF LaneInv, Ingested
      <4> QED
        BY <2>6, <3>1, <4>3
    <3>2. CASE k = Len(batch_public_inputs) + 1
      BY <2>5, <2>6, <3>0, <3>2
    <3> QED
      BY <2>7, <3>1, <3>2
  <2>11. Ingested'
    <3> DEFINE B == batch_public_inputs'
    <3>1. IsSeq(B) /\ (\A k \in 1..Len(B) : IsSeq(B[k]) /\ Len(B[k]) = COMMITMENT_WORDS)
      BY <2>1, <2>6, <2>9
    <3>2. /\ OkWords(vks'[1].program_vk) /\ Len(vks'[1].program_vk) = PROGRAM_VK_WORDS
          /\ OkWords(vks'[1].vadcop_vk) /\ Len(vks'[1].vadcop_vk) = VADCOP_VK_WORDS
      BY <2>5, <2>8
    <3>3. phase' # "verify panic" /\ PinnedKeys' =>
            \A k \in 1..Len(B) : \E b \in 1..MaxBatches : B[k] = PublicInput(b, "real")
      BY <2>1, <2>10
    <3> QED
      BY <2>8, <3>1, <3>2, <3>3 DEF Ingested
  <2>12. Reading'
    <3>0. Len(batch_public_inputs') = Len(batch_public_inputs) + 1 /\ left' = left - 1
      BY <2>1, <2>6
    <3>1. left' \in Nat
      BY <1>1, <1>2, <3>0
    <3>2. ASSUME NEW x \in Nat, NEW y \in Nat PROVE x + (y + 1) > 0
      OBVIOUS
    <3>3. left' + Len(batch_public_inputs') > 0
      BY <1>2, <3>0, <3>1, <3>2
    <3>4. phase' \notin {"load", "count"}
      BY <2>1
    <3> QED
      BY <2>3, <3>1, <3>3, <3>4 DEF Reading
  <2>13. Proved'
    BY <2>1 DEF Proved, Wrapped, Submitted
  <2> QED
    BY <1>3, <2>11, <2>12, <2>13 DEF LaneInv
<1> QED
  BY <1>4, <1>5

LEMMA LaneFinalize == ASSUME LaneInv, Finalize PROVE LaneInv'
<1>1. /\ phase = "proofs" /\ left = 0 /\ committed' = finalize /\ phase' = "wrap"
      /\ UNCHANGED <<given, claims, streams, input, pos, left, vks, batch_public_inputs, snark, out>>
  BY DEF Finalize
<1>2. Len(batch_public_inputs) > 0
  <2>1. left + Len(batch_public_inputs) > 0 /\ Len(batch_public_inputs) \in Nat
    BY <1>1 DEF LaneInv, Reading, Ingested, IsSeq
  <2> QED
    BY <1>1, <2>1
<1>3. finalize' = finalize
  BY <1>1 DEF finalize
<1>4. Given' /\ Framed' /\ Reading' /\ Ingested'
  BY <1>1 DEF LaneInv, Given, Framed, Reading, Ingested, PinnedKeys
<1>5. Proved'
  BY <1>1, <1>2, <1>3 DEF Proved, Wrapped, Submitted
<1> QED
  BY <1>4, <1>5 DEF LaneInv

LEMMA LaneTail ==
    ASSUME LaneInv, phase \in Wrapped \cup {"wrap"}, phase' \in Wrapped \cup {"wrap"},
           UNCHANGED <<given, claims, streams, input, guestVars>>,
           phase' \in Wrapped => snark' \in WrappedFiles',
           phase' \in Submitted => parse_proof_file_ok(snark') /\ out' = parse_proof_file(snark'),
           phase' = "accepted" => L1Accepts(out)'
    PROVE  LaneInv'
<1>1. UNCHANGED <<given, claims, streams, input, pos, left, vks, batch_public_inputs, committed>>
  BY DEF guestVars
<1>2. finalize' = finalize
  BY <1>1 DEF finalize
<1>3. Given' /\ Framed'
  BY <1>1 DEF LaneInv, Given, Framed
<1>4. Reading' /\ Ingested'
  BY <1>1 DEF LaneInv, Reading, Ingested, PinnedKeys, Wrapped, Submitted
<1>5. Proved'
  BY <1>1, <1>2 DEF LaneInv, Proved
<1> QED
  BY <1>3, <1>4, <1>5 DEF LaneInv

LEMMA LaneNext == LaneInv /\ [Next]_vars => LaneInv'
<1> SUFFICES ASSUME LaneInv, [Next]_vars PROVE LaneInv'
  OBVIOUS
<1>1. CASE LoadProof
  BY <1>1, LaneLoad
<1>2. CASE Assemble
  BY <1>2, LaneAssemble
<1>3. CASE FrameUnchecked
  BY <1>3, LaneUnchecked
<1>4. CASE ReadCount
  BY <1>4, LaneCount
<1>5. CASE ReadProof
  BY <1>5, LaneProof
<1>6. CASE Finalize
  BY <1>6, LaneFinalize
<1>7. CASE Wrap
  <2>1. /\ phase = "wrap" /\ phase' = "parse" /\ snark' \in WrappedFiles
        /\ UNCHANGED <<given, claims, streams, input, guestVars, out>>
    BY <1>7 DEF Wrap
  <2>2. WrappedFiles' = WrappedFiles
    <3>1. claims' = claims /\ committed' = committed
      BY <2>1 DEF guestVars
    <3>2. L1Digest' = L1Digest
      BY <3>1 DEF L1Digest, L1PublicInputs
    <3> QED
      BY <3>1, <3>2 DEF WrappedFiles
  <2> QED
    BY <2>1, <2>2, LaneTail DEF Wrapped, Submitted
<1>8. CASE ParseProofFile
  <2>1. /\ phase = "parse" /\ phase' \in {"check", "file error"}
        /\ phase' = "check" => parse_proof_file_ok(snark) /\ out' = parse_proof_file(snark)
        /\ UNCHANGED <<given, claims, streams, input, guestVars, snark>>
    BY <1>8 DEF ParseProofFile, Fail
  <2>2. WrappedFiles' = WrappedFiles
    <3>1. claims' = claims /\ committed' = committed
      BY <2>1 DEF guestVars
    <3>2. L1Digest' = L1Digest
      BY <3>1 DEF L1Digest, L1PublicInputs
    <3> QED
      BY <3>1, <3>2 DEF WrappedFiles
  <2>3. snark \in WrappedFiles
    BY <2>1 DEF LaneInv, Proved, Wrapped
  <2> QED
    BY <2>1, <2>2, <2>3, LaneTail DEF Wrapped, Submitted
<1>9. CASE CheckRange \/ Settle
  <2>1. /\ phase \in Submitted /\ phase' \in Submitted
        /\ phase' = "accepted" => L1Accepts(out)
        /\ UNCHANGED <<given, claims, streams, input, guestVars, snark, out>>
    BY <1>9 DEF CheckRange, Settle, Submitted
  <2>2. WrappedFiles' = WrappedFiles /\ L1Accepts(out)' = L1Accepts(out)
    <3>1. claims' = claims /\ committed' = committed /\ out' = out
      BY <2>1 DEF guestVars
    <3>2. L1Digest' = L1Digest
      BY <3>1 DEF L1Digest, L1PublicInputs
    <3> QED
      BY <3>1, <3>2 DEF WrappedFiles, L1Accepts
  <2>3. snark \in WrappedFiles /\ parse_proof_file_ok(snark) /\ out = parse_proof_file(snark)
    BY <2>1 DEF LaneInv, Proved, Wrapped
  <2> QED
    BY <2>1, <2>2, <2>3, LaneTail DEF Wrapped
<1>10. CASE UNCHANGED vars
  <2>1. UNCHANGED <<given, claims, phase, streams, input, pos, left, vks, batch_public_inputs, committed, snark, out>>
    BY <1>10 DEF vars, guestVars
  <2>2. Given' /\ Framed' /\ Reading' /\ Ingested'
    BY <2>1 DEF LaneInv, Given, Framed, Reading, Ingested, PinnedKeys
  <2>3. finalize' = finalize /\ WrappedFiles' = WrappedFiles /\ L1Accepts(out)' = L1Accepts(out)
    BY <2>1 DEF finalize, WrappedFiles, L1Accepts, L1Digest, L1PublicInputs
  <2>4. Proved'
    BY <2>1, <2>3 DEF LaneInv, Proved
  <2> QED
    BY <2>2, <2>4 DEF LaneInv
<1> QED
  BY <1>1, <1>2, <1>3, <1>4, <1>5, <1>6, <1>7, <1>8, <1>9, <1>10 DEF Next

LEMMA LaneAlways == Spec => []LaneInv
BY LaneInit, LaneNext, PTL DEF Spec

-----------------------------------------------------------------------------
(* What L1 can conclude from the proof it accepts. *)

LEMMA SwapInjective ==
    ASSUME NEW q, NEW r, OkQuad(q), OkQuad(r), swap32(q) = swap32(r)
    PROVE  q = r
<1>1. swap32(q) = <<"swapped", q>> /\ swap32(r) = <<"swapped", r>>
  BY DEF swap32, OkQuad
<1>2. <<"swapped", q>>[2] = q /\ <<"swapped", r>>[2] = r
  OBVIOUS
<1> QED
  BY <1>1, <1>2, Zenon

LEMMA BeInjective ==
    ASSUME NEW v, NEW w, OkWords(v), OkWords(w), extend_be(v) = extend_be(w)
    PROVE  v = w
<1>0. IsSeq(v) /\ IsSeq(w) /\ Len(v) \in Nat /\ Len(w) \in Nat
  BY DEF OkWords, AreWords, IsSeq
<1>1. /\ Len(extend_be(v)) = 2 * Len(v)
      /\ \A i \in 1..Len(v) : /\ extend_be(v)[2 * i - 1] = swap32(v[i].hi)
                              /\ extend_be(v)[2 * i] = swap32(v[i].lo)
  BY <1>0, BeFacts
<1>2. /\ Len(extend_be(w)) = 2 * Len(w)
      /\ \A i \in 1..Len(w) : /\ extend_be(w)[2 * i - 1] = swap32(w[i].hi)
                              /\ extend_be(w)[2 * i] = swap32(w[i].lo)
  BY <1>0, BeFacts
<1>3. Len(v) = Len(w)
  BY <1>0, <1>1, <1>2
<1>4. ASSUME NEW i \in 1..Len(v) PROVE v[i] = w[i]
  <2>1. swap32(v[i].hi) = swap32(w[i].hi) /\ swap32(v[i].lo) = swap32(w[i].lo)
    BY <1>1, <1>2, <1>3
  <2>2. OkQuad(v[i].hi) /\ OkQuad(w[i].hi) /\ OkQuad(v[i].lo) /\ OkQuad(w[i].lo)
    BY <1>3 DEF OkWords
  <2>3. v[i].hi = w[i].hi /\ v[i].lo = w[i].lo
    BY <2>1, <2>2, SwapInjective
  <2>4. IsWord(v[i]) /\ IsWord(w[i])
    BY <1>3 DEF OkWords, AreWords
  <2> QED
    BY <2>3, <2>4 DEF IsWord
<1> QED
  BY <1>0, <1>3, <1>4, SeqEq

\* The wire form of the public values.
Wire(vk, pub, setup) == extend_be(vk) \o LeBytes(pub) \o extend_be(setup)

LEMMA WireLayout ==
    ASSUME NEW vk, NEW pub, NEW setup, IsSeq(vk), IsSeq(pub), IsSeq(setup)
    PROVE  /\ IsCat(Wire(vk, pub, setup), extend_be(vk) \o LeBytes(pub), extend_be(setup))
           /\ IsCat(extend_be(vk) \o LeBytes(pub), extend_be(vk), LeBytes(pub))
           /\ IsSeq(extend_be(vk)) /\ Len(extend_be(vk)) = 2 * Len(vk)
           /\ IsSeq(LeBytes(pub)) /\ Len(LeBytes(pub)) = 2 * Len(pub)
           /\ IsSeq(extend_be(setup)) /\ Len(extend_be(setup)) = 2 * Len(setup)
           /\ IsSeq(extend_be(vk) \o LeBytes(pub))
<1> DEFINE a == extend_be(vk)
           b == LeBytes(pub)
           c == extend_be(setup)
           d == a \o b
<1>1. /\ IsSeq(a) /\ Len(a) = 2 * Len(vk) /\ IsSeq(b) /\ Len(b) = 2 * Len(pub)
      /\ IsSeq(c) /\ Len(c) = 2 * Len(setup)
  BY LeFacts, BeFacts
<1>2. Wire(vk, pub, setup) = d \o c
  BY DEF Wire
<1> HIDE DEF a, b, c
<1>3. IsCat(d, a, b) /\ IsSeq(d)
  BY <1>1, CatIs, Cat
<1> HIDE DEF d
<1>4. IsCat(d \o c, d, c)
  BY <1>1, <1>3, CatIs
<1> QED
  BY <1>1, <1>2, <1>3, <1>4 DEF a, b, c, d

LEMMA WireInjective ==
    ASSUME NEW vk, NEW pub, NEW setup, OkWords(vk), OkWords(pub), OkWords(setup),
           NEW vk2, NEW pub2, NEW setup2, OkWords(vk2), OkWords(pub2), OkWords(setup2),
           Len(vk) = Len(vk2), Len(setup) = Len(setup2),
           Wire(vk, pub, setup) = Wire(vk2, pub2, setup2)
    PROVE  vk = vk2 /\ pub = pub2 /\ setup = setup2
<1> DEFINE a == extend_be(vk)
           b == LeBytes(pub)
           c == extend_be(setup)
           d == a \o b
           e == Wire(vk, pub, setup)
           a2 == extend_be(vk2)
           b2 == LeBytes(pub2)
           c2 == extend_be(setup2)
           d2 == a2 \o b2
<1>0. /\ IsSeq(vk) /\ IsSeq(pub) /\ IsSeq(setup) /\ AreWords(pub)
      /\ IsSeq(vk2) /\ IsSeq(pub2) /\ IsSeq(setup2) /\ AreWords(pub2)
  BY DEF OkWords, AreWords
<1>1. /\ IsCat(e, d, c) /\ IsCat(d, a, b) /\ IsSeq(a) /\ IsSeq(b) /\ IsSeq(c) /\ IsSeq(d)
      /\ Len(a) = 2 * Len(vk) /\ Len(c) = 2 * Len(setup)
  BY <1>0, WireLayout
<1>2. /\ IsCat(e, d2, c2) /\ IsCat(d2, a2, b2) /\ IsSeq(a2) /\ IsSeq(b2) /\ IsSeq(c2) /\ IsSeq(d2)
      /\ Len(a2) = 2 * Len(vk2) /\ Len(c2) = 2 * Len(setup2)
  BY <1>0, WireLayout
<1> HIDE DEF a, b, c, d, e, a2, b2, c2, d2
<1>3. d = d2 /\ c = c2
  <2>1. Len(c) = Len(c2)
    BY <1>1, <1>2
  <2> QED
    BY <1>1, <1>2, <2>1, CatParts
<1>4. a = a2 /\ b = b2
  <2>1. Len(a) = Len(a2) /\ IsCat(d, a2, b2)
    BY <1>1, <1>2, <1>3
  <2> QED
    BY <1>1, <1>2, <2>1, CatParts
<1>5. vk = vk2
  BY <1>4, BeInjective DEF a, a2
<1>6. setup = setup2
  BY <1>3, BeInjective DEF c, c2
<1>7. pub = pub2
  BY <1>0, <1>4, LeInjective DEF b, b2
<1> QED
  BY <1>5, <1>6, <1>7

LEMMA OkDigest ==
    ASSUME NEW x
    PROVE  AllOk(keccak256(x)) /\ Len(keccak256(x)) = COMMITMENT_WORDS
<1> DEFINE s == keccak256(x)
<1>1. s = [i \in 1..COMMITMENT_WORDS |-> s[i]]
  BY DEF keccak256
<1>2. \A i \in 1..COMMITMENT_WORDS : OkQuad(s[i])
  BY DEF keccak256, OkQuad
<1> HIDE DEF s
<1>3. AllOk(s) /\ Len(s) = COMMITMENT_WORDS
  BY <1>1, <1>2, Sizes, MakeSeq DEF AllOk
<1> QED
  BY <1>3 DEF s

LEMMA DigestInjective ==
    ASSUME NEW x, NEW y, keccak256(x)[1] = keccak256(y)[1]
    PROVE  x = y
<1>1. 1 \in 1..COMMITMENT_WORDS
  BY Sizes
<1>2. keccak256(x)[1] = <<"keccak256", x, 1>> /\ keccak256(y)[1] = <<"keccak256", y, 1>>
  BY <1>1 DEF keccak256
<1>3. <<"keccak256", x, 1>>[2] = x /\ <<"keccak256", y, 1>>[2] = y
  OBVIOUS
<1> QED
  BY <1>2, <1>3, Zenon

LEMMA CommitInjective ==
    ASSUME NEW s, NEW t, IsSeq(s), IsSeq(t), Len(s) = COMMITMENT_WORDS, Len(t) = COMMITMENT_WORDS,
           commit_slice(s) = commit_slice(t)
    PROVE  s = t
BY CommitLow

\* What cargo-zisk may write, as the daemon's parser leaves it.
LEMMA FileCases ==
    ASSUME NEW f \in WrappedFiles, parse_proof_file_ok(f), AllOk(committed),
           Len(committed) = COMMITMENT_WORDS
    PROVE  LET good == SnarkFile(AggregatorVk, TRUSTED_VADCOP_VK, commit_slice(committed))
           IN  \/ f = good
               \/ f = SnarkFile(OtherVk, TRUSTED_VADCOP_VK, commit_slice(L1Digest))
               \/ f = SnarkFile(AggregatorVk, OtherSetup, commit_slice(L1Digest))
               \/ f = [good EXCEPT !.proof.attests = <<"no proof">>]
<1> DEFINE pub == commit_slice(committed)
           good == SnarkFile(AggregatorVk, TRUSTED_VADCOP_VK, pub)
<1>0. OkWords(pub) /\ Len(pub) = PUBLICS_WORDS /\ IsSeq(pub)
  BY Sizes, OkPublics DEF OkWords, AreWords
<1>1. \/ f = good
      \/ f = SnarkFile(OtherVk, TRUSTED_VADCOP_VK, commit_slice(L1Digest))
      \/ f = SnarkFile(AggregatorVk, OtherSetup, commit_slice(L1Digest))
      \/ f = [good EXCEPT !.magic = FALSE]
      \/ f = [good EXCEPT !.variant = "plonk"]
      \/ f = [good EXCEPT !.trailing = TRUE]
      \/ f = [good EXCEPT !.hash_mode = "Poseidon2"]
      \/ f = [good EXCEPT !.proof.len = 768]
      \/ f = [good EXCEPT !.proof.attests = <<"no proof">>]
      \/ f = [good EXCEPT !.rootc = Tail(@)]
      \/ f = [good EXCEPT !.publics_full = <<u64(1)>> \o @]
      \/ f = [good EXCEPT !.publics_full = OtherVk \o pub]
  BY ZenonT(60) DEF WrappedFiles
<1>g. /\ good.program_vk = AggregatorVk /\ good.rootc = TRUSTED_VADCOP_VK
      /\ good.publics_full = AggregatorVk \o pub /\ good.proof.len = ZISK_SNARK_PROOF_BYTES
      /\ good = [magic |-> good.magic, variant |-> good.variant, trailing |-> good.trailing,
                 hash_mode |-> good.hash_mode, program_vk |-> good.program_vk, rootc |-> good.rootc,
                 publics_full |-> good.publics_full, proof |-> good.proof]
      /\ good.proof = [len |-> good.proof.len, attests |-> good.proof.attests]
  BY DEF SnarkFile
<1>p. /\ f.magic /\ f.variant = "pilfflonk" /\ ~ f.trailing /\ f.hash_mode = "Poseidon1"
      /\ f.proof.len = 69 * 32 /\ Len(f.rootc) = VADCOP_VK_WORDS
      /\ Len(f.publics_full) = PROGRAM_VK_WORDS + PUBLICS_WORDS
      /\ Slice(f.publics_full, 0, PROGRAM_VK_WORDS) = f.program_vk
  BY DEF parse_proof_file_ok, ZISK_PROOF_HASH_MODE, ZISK_SNARK_PROOF_BYTES
<1> HIDE DEF good, pub
<1>2. f # [good EXCEPT !.magic = FALSE] /\ f # [good EXCEPT !.variant = "plonk"]
      /\ f # [good EXCEPT !.trailing = TRUE] /\ f # [good EXCEPT !.hash_mode = "Poseidon2"]
      /\ f # [good EXCEPT !.proof.len = 768]
  BY <1>g, <1>p
<1>3. f # [good EXCEPT !.rootc = Tail(@)]
  <2> SUFFICES ASSUME f.rootc = Tail(TRUSTED_VADCOP_VK) PROVE FALSE
    BY <1>g
  <2>1. Len(Tail(TRUSTED_VADCOP_VK)) = VADCOP_VK_WORDS - 1
    <3> DEFINE k == TRUSTED_VADCOP_VK
               S == {k[i] : i \in 1..Len(k)}
    <3>1. IsSeq(k) /\ Len(k) = VADCOP_VK_WORDS
      BY OkKeys DEF OkWords, AreWords
    <3> HIDE DEF k
    <3>2. k \in Seq(S)
      BY <3>1, Typed
    <3> HIDE DEF S
    <3>3. k # << >>
      BY <3>1, Sizes, EmptySequence
    <3>4. Len(Tail(k)) = Len(k) - 1
      BY <3>2, <3>3
    <3> QED
      BY <3>1, <3>4 DEF k
  <2> QED
    BY <1>p, <2>1, Sizes
<1>4. f # [good EXCEPT !.publics_full = <<u64(1)>> \o @]
  <2> SUFFICES ASSUME f.publics_full = <<u64(1)>> \o (AggregatorVk \o pub) PROVE FALSE
    BY <1>g
  <2> DEFINE x == AggregatorVk \o pub
             o == <<u64(1)>>
  <2>1. IsSeq(x) /\ Len(x) = PROGRAM_VK_WORDS + PUBLICS_WORDS
    BY <1>0, OkKeys, Cat DEF OkWords, AreWords
  <2>2. IsSeq(o) /\ Len(o) = 1
    BY ShortSeqs
  <2> HIDE DEF x, o
  <2>3. Len(o \o x) = 1 + (PROGRAM_VK_WORDS + PUBLICS_WORDS)
    <3>1. IsCat(o \o x, o, x)
      BY <2>1, <2>2, CatIs
    <3> QED
      BY <2>1, <2>2, <3>1 DEF IsCat
  <2> QED
    BY <1>p, <2>3, Sizes DEF x, o
<1>5. f # [good EXCEPT !.publics_full = OtherVk \o pub]
  <2> SUFFICES ASSUME f.publics_full = OtherVk \o pub, f.program_vk = AggregatorVk PROVE FALSE
    BY <1>g
  <2>1. IsSeq(OtherVk) /\ Len(OtherVk) = PROGRAM_VK_WORDS
    BY OkKeys DEF OkWords, AreWords
  <2>2. IsCat(OtherVk \o pub, OtherVk, pub)
    BY <1>0, <2>1, CatIs
  <2> DEFINE v == OtherVk \o pub
  <2>3. IsSeq(v) /\ 0 + Len(OtherVk) <= Len(v) /\ \A k \in 1..Len(OtherVk) : v[0 + k] = OtherVk[k]
    <3>1. Len(pub) \in Nat /\ Len(OtherVk) \in Nat
      BY <1>0, <2>1 DEF IsSeq
    <3> HIDE DEF v
    <3>2. IsCat(v, OtherVk, pub)
      BY <2>2 DEF v
    <3> QED
      BY <3>1, <3>2 DEF IsCat
  <2> HIDE DEF v
  <2>4. Slice(v, 0, Len(OtherVk)) = OtherVk
    BY <2>1, <2>3, SliceIs
  <2> QED
    BY <1>p, <2>1, <2>4, KeysDiffer DEF v
<1> QED
  BY <1>1, <1>2, <1>3, <1>4, <1>5 DEF good, pub

LEMMA CommittedDigest ==
    ASSUME LaneInv, phase \in Submitted
    PROVE  /\ AllOk(committed) /\ Len(committed) = COMMITMENT_WORDS
           /\ AllOk(L1Digest) /\ Len(L1Digest) = COMMITMENT_WORDS
           /\ OkWords(commit_slice(committed)) /\ Len(commit_slice(committed)) = PUBLICS_WORDS
           /\ OkWords(commit_slice(L1Digest)) /\ Len(commit_slice(L1Digest)) = PUBLICS_WORDS
<1>1. committed = finalize
  BY DEF LaneInv, Proved, Wrapped
<1>2. AllOk(committed) /\ Len(committed) = COMMITMENT_WORDS
  BY <1>1, OkDigest DEF finalize
<1>3. AllOk(L1Digest) /\ Len(L1Digest) = COMMITMENT_WORDS
  BY OkDigest DEF L1Digest, binding_digest
<1> QED
  BY <1>2, <1>3, OkPublics, Sizes

\* The SNARK L1 accepts attests the digest the guest committed.
LEMMA AcceptedDigest ==
    ASSUME LaneInv, phase \in Submitted, L1Accepts(out)
    PROVE  committed = L1Digest
<1> DEFINE A == AggregatorVk
           T == TRUSTED_VADCOP_VK
           x == commit_slice(committed)
           y == commit_slice(L1Digest)
<1>0. snark \in WrappedFiles /\ parse_proof_file_ok(snark) /\ out = parse_proof_file(snark)
  BY DEF LaneInv, Proved, Wrapped
<1>1. /\ AllOk(committed) /\ Len(committed) = COMMITMENT_WORDS
      /\ AllOk(L1Digest) /\ Len(L1Digest) = COMMITMENT_WORDS
      /\ OkWords(x) /\ OkWords(y)
  BY CommittedDigest
<1>2. snark.proof.attests = public_signal(Wire(A, y, T))
  BY <1>0 DEF L1Accepts, parse_proof_file, Wire
<1>3. \/ snark.proof.attests = public_signal(Wire(A, x, T))
      \/ snark.proof.attests = public_signal(Wire(OtherVk, y, T))
      \/ snark.proof.attests = public_signal(Wire(A, y, OtherSetup))
      \/ snark.proof.attests = <<"no proof">>
  <2> DEFINE good == SnarkFile(A, T, x)
  <2>1. \/ snark = good
        \/ snark = SnarkFile(OtherVk, T, y)
        \/ snark = SnarkFile(A, OtherSetup, y)
        \/ snark = [good EXCEPT !.proof.attests = <<"no proof">>]
    BY <1>0, <1>1, FileCases
  <2>2. ASSUME NEW v, NEW p, NEW s
        PROVE  SnarkFile(v, s, p).proof.attests = public_signal(Wire(v, p, s))
    BY DEF SnarkFile, Wire
  <2>3. [good EXCEPT !.proof.attests = <<"no proof">>].proof.attests = <<"no proof">>
    BY DEF SnarkFile
  <2> HIDE DEF A, T, x, y
  <2>4. CASE snark = good
    BY <2>2, <2>4
  <2>5. CASE snark = SnarkFile(OtherVk, T, y)
    BY <2>2, <2>5
  <2>6. CASE snark = SnarkFile(A, OtherSetup, y)
    BY <2>2, <2>6
  <2>7. CASE snark = [good EXCEPT !.proof.attests = <<"no proof">>]
    <3> HIDE DEF good
    <3> QED
      BY <2>3, <2>7
  <2> QED
    BY <2>1, <2>4, <2>5, <2>6, <2>7
<1>4. ASSUME NEW a, NEW b, public_signal(a) = public_signal(b) PROVE a = b
  <2>1. <<"sha256 mod r", a>>[2] = a /\ <<"sha256 mod r", b>>[2] = b
    OBVIOUS
  <2> QED
    BY <1>4, <2>1, Zenon DEF public_signal
<1>5. public_signal(Wire(A, y, T)) # <<"no proof">>
  <2>1. ASSUME NEW a PROVE public_signal(a)[1] = "sha256 mod r"
    BY DEF public_signal
  <2>2. <<"no proof">>[1] = "no proof" /\ "no proof" # "sha256 mod r"
    OBVIOUS
  <2> HIDE DEF A, T, y
  <2> QED
    BY <2>1, <2>2, Zenon
<1>k. /\ OkWords(A) /\ OkWords(OtherVk) /\ OkWords(T) /\ OkWords(OtherSetup)
      /\ Len(A) = Len(OtherVk) /\ Len(T) = Len(OtherSetup) /\ A # OtherVk /\ T # OtherSetup
  BY OkKeys, KeysDiffer
<1>c. x = y => committed = L1Digest
  BY <1>1, CommitInjective DEF AllOk
<1> HIDE DEF A, T, x, y
<1>6. Wire(A, y, T) # Wire(OtherVk, y, T)
  BY <1>1, <1>k, WireInjective
<1>7. Wire(A, y, T) # Wire(A, y, OtherSetup)
  BY <1>1, <1>k, WireInjective
<1>8. Wire(A, y, T) = Wire(A, x, T)
  BY <1>2, <1>3, <1>4, <1>5, <1>6, <1>7
<1>9. x = y
  BY <1>1, <1>8, <1>k, WireInjective
<1> QED
  BY <1>9, <1>c

LEMMA ShrFacts ==
    ASSUME NEW w, IsSeq(w), Len(w) = COMMITMENT_WORDS
    PROVE  /\ IsSeq(shr32(w)) /\ Len(shr32(w)) = COMMITMENT_WORDS
           /\ shr32(w) = [i \in 1..COMMITMENT_WORDS |-> IF i = 1 THEN u32(0) ELSE w[i - 1]]
           /\ shr32(w)[2] = w[1]
<1> DEFINE a == <<u32(0)>>
           n == COMMITMENT_WORDS - 1
           b == SubSeq(w, 1, n)
           u == a \o b
           z == [i \in 1..COMMITMENT_WORDS |-> IF i = 1 THEN u32(0) ELSE w[i - 1]]
<1>0. n \in Nat /\ n >= 1 /\ COMMITMENT_WORDS = n + 1 /\ COMMITMENT_WORDS \in Nat
  BY Sizes
<1>1. shr32(w) = u
  BY DEF shr32
<1>2. IsSeq(a) /\ Len(a) = 1 /\ a[1] = u32(0)
  BY ShortSeqs
<1>3. IsSeq(b) /\ Len(b) = n /\ \A k \in 1..n : b[k] = w[k]
  <2> HIDE DEF n
  <2>1. 0 \in Nat /\ 0 + n <= Len(w) /\ 0 + 1 = 1 /\ 0 + n = n
    BY <1>0
  <2>2. IsSeq(SubSeq(w, 0 + 1, 0 + n)) /\ Len(SubSeq(w, 0 + 1, 0 + n)) = n
        /\ \A k \in 1..n : SubSeq(w, 0 + 1, 0 + n)[k] = w[0 + k]
    BY <1>0, <2>1, Sub
  <2>3. b = SubSeq(w, 0 + 1, 0 + n)
    BY <2>1
  <2> HIDE DEF b
  <2>4. ASSUME NEW k \in 1..n PROVE b[k] = w[k]
    <3>1. 0 + k = k
      BY <1>0
    <3> QED
      BY <2>2, <2>3, <3>1
  <2> QED
    BY <2>2, <2>3, <2>4
<1> HIDE DEF a, b, n
<1>4. IsCat(u, a, b)
  BY <1>2, <1>3, CatIs
<1> HIDE DEF u
<1>5. IsSeq(u) /\ Len(u) = COMMITMENT_WORDS
  BY <1>0, <1>2, <1>3, <1>4 DEF IsCat
<1>6. z = [i \in 1..COMMITMENT_WORDS |-> z[i]] /\ \A i \in 1..COMMITMENT_WORDS : z[i] = IF i = 1 THEN u32(0) ELSE w[i - 1]
  OBVIOUS
<1> HIDE DEF z
<1>7. IsSeq(z) /\ Len(z) = COMMITMENT_WORDS
  BY <1>0, <1>6, MakeSeq
<1>8. ASSUME NEW i \in 1..COMMITMENT_WORDS PROVE u[i] = z[i]
  <2>1. CASE i = 1
    <3>1. 1 \in 1..Len(a) /\ 1 \in 1..COMMITMENT_WORDS
      BY <1>0, <1>2
    <3>2. u[1] = a[1]
      BY <1>4, <3>1 DEF IsCat
    <3>3. z[1] = u32(0)
      BY <1>6, <3>1
    <3> QED
      BY <1>2, <2>1, <3>2, <3>3
  <2>2. CASE i # 1
    <3> DEFINE j == i - 1
    <3>1. j \in 1..n /\ i = 1 + j
      BY <1>0, <2>2
    <3>2. z[i] = w[j]
      BY <1>6, <2>2
    <3> HIDE DEF j
    <3>3. u[Len(a) + j] = b[j]
      BY <1>3, <1>4, <3>1 DEF IsCat
    <3> QED
      BY <1>2, <1>3, <3>1, <3>2, <3>3
  <2> QED
    BY <2>1, <2>2
<1>9. u = z
  BY <1>5, <1>7, <1>8, SeqEq
<1>10. z[2] = w[1]
  <2>1. 2 \in 1..COMMITMENT_WORDS /\ 2 # 1 /\ 2 - 1 = 1
    BY <1>0
  <2> QED
    BY <1>6, <2>1
<1> QED
  BY <1>1, <1>5, <1>9, <1>10 DEF z

\* One batch stands for itself, more are hashed together.
Folded(s) == IF Len(s) = 1 THEN s[1] ELSE keccak256(FlattenSeq(s))

PublicInputs(s) ==
    IsSeq(s) /\ \A k \in 1..Len(s) : IsSeq(s[k]) /\ Len(s[k]) = COMMITMENT_WORDS

LEMMA FoldFacts ==
    ASSUME NEW s, PublicInputs(s), Len(s) > 0
    PROVE  /\ IsSeq(Folded(s)) /\ Len(Folded(s)) = COMMITMENT_WORDS
           /\ range_public_input(s) = shr32(Folded(s))
           /\ \A v, c : binding_digest(v, c, s) = keccak256(v \o c \o shr32(Folded(s)))
<1>0. Len(s) \in Nat
  BY DEF PublicInputs, IsSeq
<1>1. IsSeq(Folded(s)) /\ Len(Folded(s)) = COMMITMENT_WORDS
  <2>1. CASE Len(s) = 1
    BY <2>1 DEF Folded, PublicInputs
  <2>2. CASE Len(s) # 1
    BY <2>2, OkDigest DEF Folded, AllOk
  <2> QED
    BY <2>1, <2>2
<1>2. range_public_input(s) = shr32(Folded(s))
  BY DEF Folded, range_public_input
<1>3. shr32(Folded(s)) = [i \in 1..COMMITMENT_WORDS |-> IF i = 1 THEN u32(0) ELSE Folded(s)[i - 1]]
  BY <1>1, ShrFacts
<1>4. ASSUME NEW v, NEW c
      PROVE  binding_digest(v, c, s)
               = keccak256(v \o c \o [i \in 1..COMMITMENT_WORDS |-> IF i = 1 THEN u32(0) ELSE Folded(s)[i - 1]])
  BY DEF binding_digest, Folded
<1>5. ASSUME NEW v, NEW c
      PROVE  binding_digest(v, c, s) = keccak256(v \o c \o shr32(Folded(s)))
  BY <1>3, <1>4
<1> QED
  BY <1>1, <1>2, <1>5

LEMMA L1Inputs ==
    ASSUME Given
    PROVE  /\ PublicInputs(L1PublicInputs) /\ Len(L1PublicInputs) = Len(claims)
           /\ \A b \in 1..Len(claims) : L1PublicInputs[b] = PublicInput(b, claims[b])
<1> DEFINE s == L1PublicInputs
<1>0. DOMAIN claims = 1..Len(claims) /\ Len(claims) \in Nat
  BY DEF Given, IsSeq
<1>1. s = [b \in 1..Len(claims) |-> s[b]] /\ \A b \in 1..Len(claims) : s[b] = PublicInput(b, claims[b])
  BY <1>0 DEF L1PublicInputs
<1> HIDE DEF s
<1>2. IsSeq(s) /\ Len(s) = Len(claims)
  BY <1>0, <1>1, MakeSeq
<1>3. PublicInputs(s)
  BY <1>1, <1>2, IsPublicInput DEF PublicInputs
<1> QED
  BY <1>1, <1>2, <1>3 DEF s

\* L1's digest pins the keys and the public inputs, in order.
LEMMA DigestPins ==
    ASSUME LaneInv, phase \in Submitted, committed = L1Digest
    PROVE  PinnedKeys /\ Folded(batch_public_inputs)[1] = Folded(L1PublicInputs)[1]
<1> DEFINE B == batch_public_inputs
           L == L1PublicInputs
           v == vks[1].program_vk
           t == vks[1].vadcop_vk
           a == extend_be(v)
           c == extend_be(t)
           d == a \o c
           r == shr32(Folded(B))
           a2 == extend_be(StfVk)
           c2 == extend_be(TRUSTED_VADCOP_VK)
           d2 == a2 \o c2
           r2 == shr32(Folded(L))
<1>1. PublicInputs(B) /\ Len(B) > 0 /\ committed = finalize
  BY DEF LaneInv, Ingested, PublicInputs, Proved, Wrapped
<1>2. /\ OkWords(v) /\ Len(v) = PROGRAM_VK_WORDS /\ OkWords(t) /\ Len(t) = VADCOP_VK_WORDS
  BY <1>1 DEF LaneInv, Ingested
<1>3. PublicInputs(L) /\ Len(L) > 0
  BY L1Inputs DEF LaneInv, Given
<1>4. finalize = keccak256(d \o r)
  BY <1>1, FoldFacts DEF finalize
<1>5. L1Digest = keccak256(d2 \o r2)
  BY <1>3, FoldFacts DEF L1Digest
<1>6. /\ IsSeq(a) /\ Len(a) = 2 * PROGRAM_VK_WORDS /\ IsSeq(c) /\ Len(c) = 2 * VADCOP_VK_WORDS
      /\ IsSeq(a2) /\ Len(a2) = 2 * PROGRAM_VK_WORDS /\ IsSeq(c2) /\ Len(c2) = 2 * VADCOP_VK_WORDS
  BY <1>2, OkKeys, BeFacts DEF OkWords, AreWords
<1>7. /\ IsSeq(r) /\ Len(r) = COMMITMENT_WORDS /\ r[2] = Folded(B)[1]
      /\ IsSeq(r2) /\ Len(r2) = COMMITMENT_WORDS /\ r2[2] = Folded(L)[1]
  BY <1>1, <1>3, FoldFacts, ShrFacts
<1>8. a = a2 => v = StfVk
  BY <1>2, OkKeys, BeInjective
<1>9. c = c2 => t = TRUSTED_VADCOP_VK
  BY <1>2, OkKeys, BeInjective
<1> HIDE DEF a, c, r, a2, c2, r2
<1>10. IsSeq(d) /\ IsCat(d, a, c) /\ IsSeq(d2) /\ IsCat(d2, a2, c2)
  BY <1>6, Cat, CatIs
<1>11. d \o r = d2 \o r2
  <2>1. keccak256(d \o r)[1] = keccak256(d2 \o r2)[1]
    BY <1>1, <1>4, <1>5
  <2> QED
    BY <2>1, DigestInjective
<1> DEFINE e == d \o r
<1> HIDE DEF d, d2
<1>12. IsCat(e, d, r) /\ IsCat(d2 \o r2, d2, r2)
  BY <1>7, <1>10, CatIs
<1>e. e = d2 \o r2
  BY <1>11
<1> HIDE DEF e
<1>13. d = d2 /\ r = r2
  BY <1>7, <1>10, <1>12, <1>e, CatParts
<1>14. a = a2 /\ c = c2
  BY <1>6, <1>10, <1>13, CatParts
<1> QED
  BY <1>7, <1>8, <1>9, <1>13, <1>14 DEF PinnedKeys

\* RangeSound.
LEMMA AcceptedIsReal == LaneInv => RangeSound
<1> SUFFICES ASSUME LaneInv, phase = "accepted", NEW b \in DOMAIN claims PROVE claims[b] = "real"
  BY DEF RangeSound
<1> DEFINE B == batch_public_inputs
           L == L1PublicInputs
<1>0. phase \in Submitted /\ L1Accepts(out) /\ Given /\ Len(B) > 0
  BY DEF Submitted, LaneInv, Proved, Wrapped
<1>1. PinnedKeys /\ Folded(B)[1] = Folded(L)[1]
  BY <1>0, AcceptedDigest, DigestPins
<1>2. /\ PublicInputs(B) /\ vks # << >>
      /\ \A k \in 1..Len(B) : \E n \in 1..MaxBatches : B[k] = PublicInput(n, "real")
  BY <1>0, <1>1 DEF LaneInv, Ingested, PublicInputs
<1>3. /\ PublicInputs(L) /\ Len(L) = Len(claims) /\ Len(L) > 0 /\ b \in 1..Len(L)
      /\ \A k \in 1..Len(L) : L[k] = PublicInput(k, claims[k]) /\ claims[k] \in {"real", "bad"}
  BY <1>0, L1Inputs DEF Given, IsSeq
<1>i. 1 \in 1..COMMITMENT_WORDS
  BY Sizes
<1>n. Len(B) \in Nat /\ Len(L) \in Nat
  BY <1>2, <1>3 DEF PublicInputs, IsSeq
<1> HIDE DEF B, L
\* The first quad of what is folded says what it is.
<1>f. ASSUME NEW n, NEW c PROVE PublicInput(n, c)[1] = <<c, n, 1>> /\ PublicInput(n, c)[1][1] = c
  BY <1>i DEF PublicInput
<1>h. ASSUME NEW x PROVE keccak256(x)[1][1] = "keccak256"
  BY <1>i DEF keccak256
<1>4. CASE Len(B) = 1 /\ Len(L) = 1
  <2>1. B[1][1] = L[1][1] /\ 1 \in 1..Len(B) /\ b = 1
    BY <1>1, <1>3, <1>4 DEF Folded
  <2>2. B[1][1][1] = "real"
    BY <1>2, <1>f, <2>1
  <2>3. L[1][1][1] = claims[1]
    BY <1>3, <1>f, <2>1
  <2> QED
    BY <2>1, <2>2, <2>3
<1>5. CASE Len(B) = 1 /\ Len(L) # 1
  <2>1. B[1][1] = keccak256(FlattenSeq(L))[1] /\ 1 \in 1..Len(B)
    BY <1>1, <1>5 DEF Folded
  <2>2. B[1][1][1] = "real"
    BY <1>2, <1>f, <2>1
  <2> QED
    BY <1>h, <2>1, <2>2
<1>6. CASE Len(B) # 1 /\ Len(L) = 1
  <2>1. keccak256(FlattenSeq(B))[1] = L[1][1] /\ 1 \in 1..Len(L)
    BY <1>1, <1>6 DEF Folded
  <2>2. L[1][1][1] \in {"real", "bad"}
    BY <1>3, <1>f, <2>1
  <2> QED
    BY <1>h, <2>1, <2>2
<1>7. CASE Len(B) # 1 /\ Len(L) # 1
  <2>1. keccak256(FlattenSeq(B))[1] = keccak256(FlattenSeq(L))[1]
    BY <1>1, <1>7 DEF Folded
  <2>2. FlattenSeq(B) = FlattenSeq(L)
    BY <2>1, DigestInjective
  <2>3. B = L
    <3>1. COMMITMENT_WORDS \in Nat /\ COMMITMENT_WORDS > 0
      BY Sizes
    <3>2. /\ IsSeq(B) /\ \A i \in 1..Len(B) : IsSeq(B[i]) /\ Len(B[i]) = COMMITMENT_WORDS
          /\ IsSeq(L) /\ \A i \in 1..Len(L) : IsSeq(L[i]) /\ Len(L[i]) = COMMITMENT_WORDS
      BY <1>2, <1>3 DEF PublicInputs
    <3> QED
      BY <2>2, <3>1, <3>2, FlattenInjective
  <2>4. PICK n \in 1..MaxBatches : L[b] = PublicInput(n, "real")
    BY <1>2, <1>3, <2>3
  <2>5. L[b][1][1] = "real" /\ L[b][1][1] = claims[b]
    BY <1>3, <1>f, <2>4
  <2> QED
    BY <2>5
<1> QED
  BY <1>n, <1>4, <1>5, <1>6, <1>7

\* The range verifier on L1 accepts a range only when every public input it
\* holds is the one the execution of that batch committed, in that order:
\* the guest pins no key and may be fed any bytes under any framing, but it
\* folds the keys and the inputs it verified into the digest L1 recomputes
\* (guest-aggregator/src/lib.rs:297-389, main.rs:40-63).
THEOREM RangeAlwaysSound == Spec => []RangeSound
BY LaneAlways, AcceptedIsReal, PTL

-----------------------------------------------------------------------------
(* The checks before L1. *)

LEMMA SignalInjective == ASSUME NEW a, NEW b, public_signal(a) = public_signal(b) PROVE a = b
<1>1. <<"sha256 mod r", a>>[2] = a /\ <<"sha256 mod r", b>>[2] = b
  OBVIOUS
<1> QED
  BY <1>1, Zenon DEF public_signal

LEMMA NoProof == ASSUME NEW a PROVE public_signal(a) # <<"no proof">>
<1>1. public_signal(a)[1] = "sha256 mod r"
  BY DEF public_signal
<1>2. <<"no proof">>[1] = "no proof" /\ "no proof" # "sha256 mod r"
  OBVIOUS
<1> QED
  BY <1>1, <1>2, Zenon

\* What is read from its place in the wire form.
LEMMA WireFields ==
    ASSUME NEW vk, NEW pub, NEW setup, OkWords(vk), OkWords(pub), OkWords(setup),
           Len(vk) = PROGRAM_VK_WORDS, Len(pub) = PUBLICS_WORDS, Len(setup) = VADCOP_VK_WORDS
    PROVE  /\ Len(Wire(vk, pub, setup)) = ZISK_PUBLIC_VALUES_QUADS
           /\ wire_program_vk(Wire(vk, pub, setup)) = extend_be(vk)
           /\ wire_root_c_vadcop_final(Wire(vk, pub, setup)) = extend_be(setup)
           /\ \A i \in 1..PUBLICS_WORDS :
                /\ Wire(vk, pub, setup)[2 * PROGRAM_VK_WORDS + 2 * i - 1] = pub[i].lo
                /\ Wire(vk, pub, setup)[2 * PROGRAM_VK_WORDS + 2 * i] = pub[i].hi
<1> DEFINE a == extend_be(vk)
           b == LeBytes(pub)
           c == extend_be(setup)
           d == a \o b
           e == Wire(vk, pub, setup)
<1>0. /\ IsSeq(vk) /\ IsSeq(pub) /\ IsSeq(setup)
      /\ PROGRAM_VK_WORDS \in Nat /\ PUBLICS_WORDS \in Nat /\ VADCOP_VK_WORDS \in Nat
  BY Sizes DEF OkWords, AreWords
<1>1. /\ IsCat(e, d, c) /\ IsCat(d, a, b) /\ IsSeq(a) /\ IsSeq(b) /\ IsSeq(c) /\ IsSeq(d)
      /\ Len(a) = 2 * PROGRAM_VK_WORDS /\ Len(b) = 2 * PUBLICS_WORDS /\ Len(c) = 2 * VADCOP_VK_WORDS
  BY <1>0, WireLayout
<1>2. \A i \in 1..PUBLICS_WORDS : b[2 * i - 1] = pub[i].lo /\ b[2 * i] = pub[i].hi
  BY <1>0, LeFacts
<1> HIDE DEF a, b, c, d, e
<1>3. Len(d) = 2 * (PROGRAM_VK_WORDS + PUBLICS_WORDS) /\ Len(e) = ZISK_PUBLIC_VALUES_QUADS
  <2>1. Len(d) = Len(a) + Len(b) /\ Len(e) = Len(d) + Len(c)
    BY <1>1 DEF IsCat
  <2> QED
    BY <1>0, <1>1, <2>1 DEF ZISK_PUBLIC_VALUES_QUADS
<1>4. Slice(e, Len(d), Len(c)) = c
  BY <1>1, SliceRight
<1>5. Slice(e, 0, Len(a)) = a
  <2>1. /\ Len(a) \in Nat /\ Len(b) \in Nat /\ Len(c) \in Nat /\ Len(d) = Len(a) + Len(b)
        /\ Len(e) = Len(d) + Len(c) /\ IsSeq(e)
    BY <1>1 DEF IsCat, IsSeq
  <2>2. \A k \in 1..Len(a) : e[0 + k] = a[k]
    <3> TAKE k \in 1..Len(a)
    <3>1. 0 + k = k /\ k \in 1..Len(d)
      BY <2>1
    <3> QED
      BY <1>1, <3>1 DEF IsCat
  <2>3. 0 \in Nat /\ 0 + Len(a) <= Len(e)
    BY <2>1
  <2> QED
    BY <1>1, <2>1, <2>2, <2>3, SliceIs
<1>6. ASSUME NEW k \in 1..Len(b) PROVE e[Len(a) + k] = b[k]
  <2>1. Len(a) + k \in 1..Len(d)
    BY <1>0, <1>1, <1>3
  <2> QED
    BY <1>1, <2>1 DEF IsCat
<1>7. ASSUME NEW i \in 1..PUBLICS_WORDS
      PROVE  /\ e[2 * PROGRAM_VK_WORDS + 2 * i - 1] = pub[i].lo
             /\ e[2 * PROGRAM_VK_WORDS + 2 * i] = pub[i].hi
  <2>1. /\ 2 * i - 1 \in 1..Len(b) /\ 2 * i \in 1..Len(b)
        /\ 2 * PROGRAM_VK_WORDS + 2 * i - 1 = Len(a) + (2 * i - 1)
        /\ 2 * PROGRAM_VK_WORDS + 2 * i = Len(a) + 2 * i
    BY <1>0, <1>1
  <2> QED
    BY <1>2, <1>6, <2>1
<1>8. wire_program_vk(e) = a /\ wire_root_c_vadcop_final(e) = c
  BY <1>1, <1>3, <1>4, <1>5 DEF wire_program_vk, wire_root_c_vadcop_final
<1> QED
  BY <1>3, <1>7, <1>8 DEF a, c, e

\* What inspect_proof reads out of the wire form of a committed digest.
LEMMA Inspected ==
    ASSUME NEW vk, NEW s, NEW setup, OkWords(vk), OkWords(setup), AllOk(s),
           Len(vk) = PROGRAM_VK_WORDS, Len(s) = COMMITMENT_WORDS, Len(setup) = VADCOP_VK_WORDS
    PROVE  /\ inspect_commitment_ok(Wire(vk, commit_slice(s), setup))
           /\ inspect_commitment(Wire(vk, commit_slice(s), setup)) = s
<1> DEFINE pub == commit_slice(s)
           e == Wire(vk, pub, setup)
<1>0. OkWords(pub) /\ Len(pub) = PUBLICS_WORDS /\ IsSeq(s)
  BY OkPublics, Sizes DEF AllOk
<1>1. \A i \in 1..COMMITMENT_WORDS : i \in 1..PUBLICS_WORDS
  BY Sizes
<1>2. \A i \in 1..COMMITMENT_WORDS : pub[i].hi = u32(0) /\ pub[i].lo = s[i]
  <2> TAKE i \in 1..COMMITMENT_WORDS
  <2>1. pub[i] = widen(s[i])
    BY <1>1, Sizes DEF commit_slice
  <2> HIDE DEF pub
  <2> QED
    BY <2>1 DEF widen
<1> HIDE DEF pub
<1>3. \A i \in 1..PUBLICS_WORDS : /\ e[2 * PROGRAM_VK_WORDS + 2 * i - 1] = pub[i].lo
                                  /\ e[2 * PROGRAM_VK_WORDS + 2 * i] = pub[i].hi
  BY <1>0, WireFields
<1> HIDE DEF e
<1>4. \A i \in 1..COMMITMENT_WORDS : /\ e[2 * PROGRAM_VK_WORDS + 2 * i - 1] = s[i]
                                     /\ e[2 * PROGRAM_VK_WORDS + 2 * i] = u32(0)
  BY <1>1, <1>2, <1>3
<1>5. inspect_commitment(e) = [i \in 1..COMMITMENT_WORDS |-> s[i]]
  BY <1>4 DEF inspect_commitment
<1>6. inspect_commitment(e) = s
  BY <1>0, <1>5 DEF IsSeq
<1>7. inspect_commitment_ok(e)
  BY <1>4 DEF inspect_commitment_ok
<1> QED
  BY <1>6, <1>7 DEF e, pub

\* A file the daemon unpacks.
Holds(f, vk, pub, setup) ==
    /\ f.program_vk = vk /\ f.rootc = setup /\ f.publics_full = vk \o pub
    /\ OkWords(vk) /\ Len(vk) = PROGRAM_VK_WORDS /\ OkWords(pub) /\ Len(pub) = PUBLICS_WORDS

LEMMA Unpacked ==
    ASSUME NEW f, NEW vk, NEW pub, NEW setup, Holds(f, vk, pub, setup)
    PROVE  /\ parse_proof_file(f).public_values = Wire(vk, pub, setup)
           /\ parse_proof_file(f).proof = f.proof
<1>1. IsSeq(vk) /\ IsSeq(pub)
  BY DEF Holds, OkWords, AreWords
<1>2. IsCat(vk \o pub, vk, pub)
  BY <1>1, CatIs
<1>3. Slice(vk \o pub, Len(vk), Len(pub)) = pub
  BY <1>1, <1>2, SliceRight
<1>4. Slice(f.publics_full, PROGRAM_VK_WORDS, PUBLICS_WORDS) = pub
  BY <1>3 DEF Holds
<1>5. /\ parse_proof_file(f).public_values =
           extend_be(f.program_vk) \o LeBytes(Slice(f.publics_full, PROGRAM_VK_WORDS, PUBLICS_WORDS))
             \o extend_be(f.rootc)
      /\ parse_proof_file(f).proof = f.proof
  BY DEF parse_proof_file
<1> QED
  BY <1>4, <1>5 DEF Wire, Holds

LEMMA SnarkFields ==
    ASSUME NEW v, NEW t, NEW p
    PROVE  /\ SnarkFile(v, t, p).program_vk = v /\ SnarkFile(v, t, p).rootc = t
           /\ SnarkFile(v, t, p).publics_full = v \o p
           /\ SnarkFile(v, t, p).proof.len = ZISK_SNARK_PROOF_BYTES
           /\ SnarkFile(v, t, p).proof.attests = public_signal(Wire(v, p, t))
BY DEF SnarkFile, Wire

LEMMA SnarkHolds ==
    ASSUME NEW v, NEW t, NEW p, OkWords(v), Len(v) = PROGRAM_VK_WORDS, OkWords(p), Len(p) = PUBLICS_WORDS
    PROVE  Holds(SnarkFile(v, t, p), v, p, t)
<1> DEFINE f == SnarkFile(v, t, p)
<1>1. f.program_vk = v /\ f.rootc = t /\ f.publics_full = v \o p
  BY SnarkFields
<1> HIDE DEF f
<1>2. Holds(f, v, p, t)
  BY <1>1 DEF Holds
<1> QED
  BY <1>2 DEF f

\* What is submitted: some keys and a digest, attested or not.
LEMMA Outputs ==
    ASSUME LaneInv, phase \in Submitted
    PROVE  \E vk \in {AggregatorVk, OtherVk}, setup \in {TRUSTED_VADCOP_VK, OtherSetup},
              s \in {committed, L1Digest} :
             /\ out.public_values = Wire(vk, commit_slice(s), setup)
             /\ out.proof.len = ZISK_SNARK_PROOF_BYTES
             /\ \/ out.proof.attests = public_signal(Wire(vk, commit_slice(s), setup))
                \/ out.proof.attests = <<"no proof">>
<1> DEFINE A == AggregatorVk
           T == TRUSTED_VADCOP_VK
           x == commit_slice(committed)
           y == commit_slice(L1Digest)
           good == SnarkFile(A, T, x)
<1>0. snark \in WrappedFiles /\ parse_proof_file_ok(snark) /\ out = parse_proof_file(snark)
  BY DEF LaneInv, Proved, Wrapped
<1>1. /\ AllOk(committed) /\ Len(committed) = COMMITMENT_WORDS
      /\ OkWords(x) /\ Len(x) = PUBLICS_WORDS /\ OkWords(y) /\ Len(y) = PUBLICS_WORDS
  BY CommittedDigest
<1>2. \/ snark = good
      \/ snark = SnarkFile(OtherVk, T, y)
      \/ snark = SnarkFile(A, OtherSetup, y)
      \/ snark = [good EXCEPT !.proof.attests = <<"no proof">>]
  BY <1>0, <1>1, FileCases
<1>k. OkWords(A) /\ Len(A) = PROGRAM_VK_WORDS /\ OkWords(OtherVk) /\ Len(OtherVk) = PROGRAM_VK_WORDS
  BY OkKeys
<1> HIDE DEF A, T, x, y
<1>3. \/ /\ Holds(snark, A, x, T) /\ snark.proof.len = ZISK_SNARK_PROOF_BYTES
         /\ snark.proof.attests \in {public_signal(Wire(A, x, T)), <<"no proof">>}
      \/ /\ Holds(snark, OtherVk, y, T) /\ snark.proof.len = ZISK_SNARK_PROOF_BYTES
         /\ snark.proof.attests = public_signal(Wire(OtherVk, y, T))
      \/ /\ Holds(snark, A, y, OtherSetup) /\ snark.proof.len = ZISK_SNARK_PROOF_BYTES
         /\ snark.proof.attests = public_signal(Wire(A, y, OtherSetup))
  <2>1. CASE snark = good
    <3>1. Holds(SnarkFile(A, T, x), A, x, T)
      BY <1>1, <1>k, SnarkHolds
    <3>2. /\ SnarkFile(A, T, x).proof.len = ZISK_SNARK_PROOF_BYTES
          /\ SnarkFile(A, T, x).proof.attests = public_signal(Wire(A, x, T))
      BY SnarkFields
    <3> QED
      BY <2>1, <3>1, <3>2
  <2>2. CASE snark = SnarkFile(OtherVk, T, y)
    <3>1. Holds(SnarkFile(OtherVk, T, y), OtherVk, y, T)
      BY <1>1, <1>k, SnarkHolds
    <3>2. /\ SnarkFile(OtherVk, T, y).proof.len = ZISK_SNARK_PROOF_BYTES
          /\ SnarkFile(OtherVk, T, y).proof.attests = public_signal(Wire(OtherVk, y, T))
      BY SnarkFields
    <3> QED
      BY <2>2, <3>1, <3>2
  <2>3. CASE snark = SnarkFile(A, OtherSetup, y)
    <3>1. Holds(SnarkFile(A, OtherSetup, y), A, y, OtherSetup)
      BY <1>1, <1>k, SnarkHolds
    <3>2. /\ SnarkFile(A, OtherSetup, y).proof.len = ZISK_SNARK_PROOF_BYTES
          /\ SnarkFile(A, OtherSetup, y).proof.attests = public_signal(Wire(A, y, OtherSetup))
      BY SnarkFields
    <3> QED
      BY <2>3, <3>1, <3>2
  <2>4. CASE snark = [good EXCEPT !.proof.attests = <<"no proof">>]
    <3>1. /\ snark.program_vk = good.program_vk /\ snark.rootc = good.rootc
          /\ snark.publics_full = good.publics_full /\ snark.proof.len = good.proof.len
          /\ snark.proof.attests = <<"no proof">>
      BY <2>4 DEF SnarkFile
    <3>2. /\ good.program_vk = A /\ good.rootc = T /\ good.publics_full = A \o x
          /\ good.proof.len = ZISK_SNARK_PROOF_BYTES
      BY SnarkFields
    <3> HIDE DEF good
    <3> QED
      BY <1>1, <1>k, <3>1, <3>2 DEF Holds
  <2> QED
    BY <1>2, <2>1, <2>2, <2>3, <2>4
<1>4. ASSUME NEW vk, NEW pub, NEW setup, Holds(snark, vk, pub, setup)
      PROVE  out.public_values = Wire(vk, pub, setup) /\ out.proof = snark.proof
  BY <1>0, <1>4, Unpacked
<1>5. CASE /\ Holds(snark, A, x, T) /\ snark.proof.len = ZISK_SNARK_PROOF_BYTES
           /\ snark.proof.attests \in {public_signal(Wire(A, x, T)), <<"no proof">>}
  BY <1>4, <1>5 DEF A, T, x
<1>6. CASE /\ Holds(snark, OtherVk, y, T) /\ snark.proof.len = ZISK_SNARK_PROOF_BYTES
           /\ snark.proof.attests = public_signal(Wire(OtherVk, y, T))
  BY <1>4, <1>6 DEF T, y
<1>7. CASE /\ Holds(snark, A, y, OtherSetup) /\ snark.proof.len = ZISK_SNARK_PROOF_BYTES
           /\ snark.proof.attests = public_signal(Wire(A, y, OtherSetup))
  BY <1>4, <1>7 DEF A, y
<1> QED
  BY <1>3, <1>5, <1>6, <1>7

LEMMA ChecksMatch == LaneInv => WireChecksMatchL1
<1> SUFFICES ASSUME LaneInv, phase \in Submitted
             PROVE  L1Accepts(out) <=> /\ verify_snark_bound(out, ExpectedProgram)
                                       /\ out.proof.attests = public_signal(out.public_values)
                                       /\ inspect_commitment_ok(out.public_values)
                                       /\ inspect_commitment(out.public_values) = L1Digest
  BY DEF WireChecksMatchL1, Submitted
<1> DEFINE A == AggregatorVk
           T == TRUSTED_VADCOP_VK
           y == commit_slice(L1Digest)
<1>1. PICK vk \in {A, OtherVk}, setup \in {T, OtherSetup}, s \in {committed, L1Digest} :
        /\ out.public_values = Wire(vk, commit_slice(s), setup)
        /\ out.proof.len = ZISK_SNARK_PROOF_BYTES
        /\ \/ out.proof.attests = public_signal(Wire(vk, commit_slice(s), setup))
           \/ out.proof.attests = <<"no proof">>
  BY Outputs
<1> DEFINE x == commit_slice(s)
           pv == Wire(vk, x, setup)
<1>2. /\ OkWords(vk) /\ Len(vk) = PROGRAM_VK_WORDS /\ OkWords(setup) /\ Len(setup) = VADCOP_VK_WORDS
      /\ OkWords(A) /\ Len(A) = PROGRAM_VK_WORDS /\ OkWords(T) /\ Len(T) = VADCOP_VK_WORDS
  BY <1>1, OkKeys
<1>3. /\ AllOk(s) /\ Len(s) = COMMITMENT_WORDS /\ OkWords(x) /\ Len(x) = PUBLICS_WORDS
      /\ AllOk(L1Digest) /\ Len(L1Digest) = COMMITMENT_WORDS /\ OkWords(y)
  BY <1>1, CommittedDigest
<1>4. x = y => s = L1Digest
  BY <1>3, CommitInjective DEF AllOk
<1>5. inspect_commitment_ok(pv) /\ inspect_commitment(pv) = s
  BY <1>2, <1>3, Inspected
<1>6. L1Accepts(out) <=> check_wire_form(out) /\ out.proof.attests = public_signal(Wire(A, y, T))
  BY DEF L1Accepts, Wire
<1>7. verify_snark_bound(out, ExpectedProgram) <=>
        /\ check_wire_form(out)
        /\ wire_program_vk(out.public_values) = extend_be(A)
        /\ wire_root_c_vadcop_final(out.public_values) = extend_be(T)
  BY DEF verify_snark_bound, ExpectedProgram
<1> HIDE DEF A, T, x, y
<1>8. wire_program_vk(pv) = extend_be(vk) /\ wire_root_c_vadcop_final(pv) = extend_be(setup)
      /\ Len(pv) = ZISK_PUBLIC_VALUES_QUADS
  BY <1>2, <1>3, WireFields
<1>a. /\ out.public_values = pv
      /\ out.proof.attests = public_signal(pv) \/ out.proof.attests = <<"no proof">>
  BY <1>1 DEF x
<1> HIDE DEF pv
<1>9. ASSUME L1Accepts(out)
      PROVE  /\ verify_snark_bound(out, ExpectedProgram)
             /\ out.proof.attests = public_signal(pv)
             /\ s = L1Digest
  <2>1. out.proof.attests = public_signal(Wire(A, y, T)) /\ check_wire_form(out)
    BY <1>6, <1>9
  <2>2. out.proof.attests = public_signal(pv)
    BY <1>a, <2>1, NoProof
  <2>3. Wire(vk, x, setup) = Wire(A, y, T)
    BY <2>1, <2>2, SignalInjective DEF pv
  <2>4. vk = A /\ x = y /\ setup = T
    BY <1>2, <1>3, <2>3, WireInjective
  <2> QED
    BY <1>4, <1>7, <1>8, <1>a, <2>1, <2>2, <2>4
<1>10. ASSUME verify_snark_bound(out, ExpectedProgram), out.proof.attests = public_signal(pv), s = L1Digest
       PROVE  L1Accepts(out)
  <2>1. extend_be(vk) = extend_be(A) /\ extend_be(setup) = extend_be(T) /\ check_wire_form(out)
    BY <1>7, <1>8, <1>10, <1>a
  <2>2. vk = A /\ setup = T
    BY <1>2, <2>1, BeInjective
  <2>3. pv = Wire(A, y, T)
    BY <1>10, <2>2 DEF pv, x, y
  <2> QED
    BY <1>6, <1>10, <2>1, <2>3
<1> QED
  BY <1>5, <1>9, <1>10, <1>a

\* A submitted proof settles exactly when the server's check passed, the SNARK
\* attests the submitted values and inspect_proof reads L1's digest out of
\* them (zisk-verifier/src/lib.rs:208-228, prover/src/prover.rs:671-747).
THEOREM WireChecksAlwaysMatchL1 == Spec => []WireChecksMatchL1
BY LaneAlways, ChecksMatch, PTL

-----------------------------------------------------------------------------
(* Which files parse, and which verify. *)

Stream(p) == LeBytes(StreamWords(p))

\* The files load_proof_stream accepts.
Loads(p) == p.shape \in {"plain", "trailer"} /\ p.maker # "fold"

LEMMA StreamFacts ==
    ASSUME NEW p \in Proofs
    PROVE  /\ AllOk(Stream(p)) /\ IsSeq(Stream(p)) /\ Len(Stream(p)) = 2 * PROOF_STREAM_WORDS
           /\ words_from_bytes(Stream(p)) = StreamWords(p)
           /\ Stream(p)[1] = u32(0) \/ Stream(p)[1] = u32(1)
           /\ Stream(p)[2 * PROOF_STREAM_WORDS - 1] = TagOf(p)[1].lo
<1> DEFINE w == StreamWords(p)
<1>1. /\ OkWords(w) /\ AreWords(w) /\ IsSeq(w) /\ Len(w) = PROOF_STREAM_WORDS /\ w[PROOF_STREAM_WORDS] = TagOf(p)[1]
      /\ \A k \in 1..3 : w[k] = HeadOf(p)[k]
  BY StreamLayout DEF OkWords, AreWords
<1>2. HeadOf(p)[1] = u64(0) \/ HeadOf(p)[1] = u64(1)
  BY DEF HeadOf
<1> HIDE DEF w
<1>3. /\ AllOk(LeBytes(w)) /\ Len(LeBytes(w)) = 2 * PROOF_STREAM_WORDS
      /\ \A i \in 1..PROOF_STREAM_WORDS : LeBytes(w)[2 * i - 1] = w[i].lo
  BY <1>1, OkLe, LeFacts
<1>4. words_from_bytes(LeBytes(w)) = w
  BY <1>1, WordsOfLe
<1>5. LeBytes(w)[1] = w[1].lo /\ LeBytes(w)[2 * PROOF_STREAM_WORDS - 1] = w[PROOF_STREAM_WORDS].lo
  <2>1. 1 \in 1..PROOF_STREAM_WORDS /\ PROOF_STREAM_WORDS \in 1..PROOF_STREAM_WORDS /\ 2 * 1 - 1 = 1
    BY StreamSize
  <2> QED
    BY <1>3, <2>1
<1>6. w[1].lo = u32(0) \/ w[1].lo = u32(1)
  <2>1. w[1] = HeadOf(p)[1]
    BY <1>1
  <2> QED
    BY <1>2, <2>1 DEF u64
<1> QED
  BY <1>1, <1>3, <1>4, <1>5, <1>6 DEF Stream, w, AllOk

\* What ends in another word than the tag keeps its bytes.
LEMMA KeepsBytes ==
    ASSUME NEW s, IsSeq(s), Len(s) >= 2, s[Len(s) - 1] # <<"ZISK">>
    PROVE  without_seed_trailer(s) = s
<1>0. Len(s) \in Nat /\ Len(s) - 2 \in Nat /\ (Len(s) - 2) + 2 <= Len(s) /\ (Len(s) - 2) + 1 = Len(s) - 1
  BY DEF IsSeq
<1>1. ~ EndsWithTag(s)
  <2> SUFFICES ASSUME Slice(s, Len(s) - 2, 2) = to_le_bytes(SEED_TRAILER_TAG) PROVE FALSE
    BY DEF EndsWithTag
  <2>1. \A k \in 1..2 : Slice(s, Len(s) - 2, 2)[k] = s[(Len(s) - 2) + k]
    BY <1>0, SliceFacts, SMTT(30)
  <2>2. Slice(s, Len(s) - 2, 2)[1] = s[Len(s) - 1]
    BY <1>0, <2>1
  <2>3. to_le_bytes(SEED_TRAILER_TAG)[1] = <<"ZISK">>
    BY DEF to_le_bytes, SEED_TRAILER_TAG
  <2> QED
    BY <2>2, <2>3
<1> QED
  BY <1>1 DEF without_seed_trailer

LEMMA CutsTrailer ==
    ASSUME NEW s, IsSeq(s)
    PROVE  without_seed_trailer(s \o Trailer) = s
<1> DEFINE t == Trailer
           u == s \o t
<1>0. Len(s) \in Nat
  BY DEF IsSeq
<1>1. IsSeq(t) /\ Len(t) = 10
  BY OkTrailer DEF AllOk
<1>t. t[9] = <<"ZISK">> /\ t[10] = <<"SEED">>
  <2> DEFINE a == [i \in 1..4 |-> widen(<<"seed", i>>)]
             b == <<SEED_TRAILER_TAG>>
             w == a \o b
  <2>1. IsSeq(a) /\ Len(a) = 4
    <3>1. a = [i \in 1..4 |-> a[i]] /\ 4 \in Nat
      OBVIOUS
    <3> HIDE DEF a
    <3> QED
      BY <3>1, MakeSeq
  <2>2. IsSeq(b) /\ Len(b) = 1 /\ b[1] = SEED_TRAILER_TAG
    BY ShortSeqs
  <2>3. t = LeBytes(w)
    BY DEF Trailer
  <2> HIDE DEF a, b
  <2>4. IsCat(w, a, b)
    BY <2>1, <2>2, CatIs
  <2> HIDE DEF w
  <2>5. IsSeq(w) /\ Len(w) = 5 /\ w[5] = SEED_TRAILER_TAG
    <3>1. 1 \in 1..Len(b) /\ Len(a) + 1 = 5 /\ Len(a) + Len(b) = 5
      BY <2>1, <2>2
    <3> QED
      BY <2>2, <2>4, <3>1 DEF IsCat
  <2>6. \A i \in 1..5 : LeBytes(w)[2 * i - 1] = w[i].lo /\ LeBytes(w)[2 * i] = w[i].hi
    BY <2>5, LeFacts
  <2>7. LeBytes(w)[9] = w[5].lo /\ LeBytes(w)[10] = w[5].hi
    BY <2>6
  <2> QED
    BY <2>3, <2>5, <2>7 DEF SEED_TRAILER_TAG
<1> HIDE DEF t
<1>2. IsCat(u, s, t)
  BY <1>1, CatIs
<1> HIDE DEF u
<1>3. IsSeq(u) /\ Len(u) = Len(s) + 10 /\ u[Len(s) + 9] = <<"ZISK">> /\ u[Len(s) + 10] = <<"SEED">>
  <2>1. 9 \in 1..Len(t) /\ 10 \in 1..Len(t)
    BY <1>1
  <2> QED
    BY <1>1, <1>2, <1>t, <2>1 DEF IsCat
<1>4. EndsWithTag(u)
  <2> DEFINE d == <<(<<"ZISK">>), (<<"SEED">>)>>
             n == Len(s) + 8
  <2>1. to_le_bytes(SEED_TRAILER_TAG) = d
    BY DEF to_le_bytes, SEED_TRAILER_TAG
  <2>2. IsSeq(d) /\ Len(d) = 2 /\ d[1] = <<"ZISK">> /\ d[2] = <<"SEED">>
    BY PairSeq
  <2> HIDE DEF d
  <2>3. n \in Nat /\ n + Len(d) <= Len(u) /\ Len(u) - 2 = n /\ n + 1 = Len(s) + 9 /\ n + 2 = Len(s) + 10
    BY <1>0, <1>3, <2>2
  <2> HIDE DEF n
  <2>4. ASSUME NEW k \in 1..Len(d) PROVE u[n + k] = d[k]
    <3>1. k = 1 \/ k = 2
      BY <2>2
    <3> QED
      BY <1>3, <2>2, <2>3, <3>1
  <2>5. Slice(u, n, Len(d)) = d
    BY <1>3, <2>2, <2>3, <2>4, SliceIs
  <2>6. Len(u) >= 2
    BY <1>0, <1>3
  <2> QED
    BY <2>1, <2>2, <2>3, <2>5, <2>6 DEF EndsWithTag
<1>5. Len(u) >= 2 * SEED_TRAILER_WORDS /\ Len(u) - 2 * SEED_TRAILER_WORDS = Len(s)
  BY <1>0, <1>3 DEF SEED_TRAILER_WORDS
<1>6. without_seed_trailer(u) = SubSeq(u, 1, Len(s))
  BY <1>4, <1>5 DEF without_seed_trailer
<1>7. Slice(u, 0, Len(s)) = s
  <2>1. 0 \in Nat /\ 0 + Len(s) <= Len(u) /\ \A k \in 1..Len(s) : u[0 + k] = s[k]
    <3>1. \A k \in 1..Len(s) : 0 + k = k
      BY <1>0
    <3> QED
      BY <1>0, <1>2, <1>3, <3>1 DEF IsCat
  <2> QED
    BY <1>3, <2>1, SliceIs
<1>8. Slice(u, 0, Len(s)) = SubSeq(u, 1, Len(s))
  BY <1>0 DEF Slice
<1> QED
  BY <1>6, <1>7, <1>8 DEF u, t

LEMMA ParseExact ==
    ASSUME NEW p \in Proofs
    PROVE  ProofFrame_parse_ok(StreamWords(p)) <=>
             p.shape \notin {"minimal", "publics", "family"} /\ p.maker # "fold"
<1> DEFINE w == StreamWords(p)
<1>1. /\ Len(w) = PROOF_STREAM_WORDS /\ w[PROOF_STREAM_WORDS] = TagOf(p)[1]
      /\ w[1] = HeadOf(p)[1] /\ w[2] = HeadOf(p)[2] /\ w[3] = HeadOf(p)[3]
  BY StreamLayout
<1>2. PROOF_STREAM_WORDS - HASH_TAG_WORDS + 1 = PROOF_STREAM_WORDS /\ HEADER_WORDS + 1 = 3
  BY StreamSize DEF HASH_TAG_WORDS, HEADER_WORDS
<1> HIDE DEF w
<1>3. ProofFrame_parse_ok(w) <=>
        /\ HeadOf(p)[1] = u64(0) /\ HeadOf(p)[2] = EXPECTED_N_PUBLICS
        /\ TagOf(p)[1] = EXPECTED_HASH_TAG /\ HeadOf(p)[3] = IS_VADCOP_FINAL_PROOF
  BY <1>1, <1>2 DEF ProofFrame_parse_ok
<1>u. ASSUME NEW m, NEW n, u64(m) = u64(n) PROVE m = n
  <2>1. u64(m).lo[2] = m /\ u64(n).lo[2] = n
    BY DEF u64, u32
  <2> QED
    BY <1>u, <2>1
<1>4. HeadOf(p)[1] = u64(0) <=> p.shape # "minimal"
  <2>1. u64(0) # u64(1)
    BY <1>u
  <2> QED
    BY <2>1 DEF HeadOf
<1>5. HeadOf(p)[2] = EXPECTED_N_PUBLICS <=> p.shape # "publics"
  <2>1. PROGRAM_VK_WORDS + PUBLICS_WORDS # LEAF_FLAG_WORDS + PROGRAM_VK_WORDS + PUBLICS_WORDS
    BY Sizes DEF LEAF_FLAG_WORDS
  <2>2. u64(PROGRAM_VK_WORDS + PUBLICS_WORDS) # EXPECTED_N_PUBLICS
    BY <1>u, <2>1 DEF EXPECTED_N_PUBLICS
  <2> QED
    BY <2>2 DEF HeadOf
<1>6. TagOf(p)[1] = EXPECTED_HASH_TAG <=> p.shape # "family"
  <2>1. u64(0) # u64(1)
    BY <1>u
  <2> QED
    BY <2>1 DEF TagOf, EXPECTED_HASH_TAG
<1>7. HeadOf(p)[3] = IS_VADCOP_FINAL_PROOF <=> p.maker # "fold"
  <2>1. u64(0) # u64(1)
    BY <1>u
  <2> QED
    BY <2>1 DEF HeadOf, FlagOf, IS_VADCOP_FINAL_PROOF
<1> QED
  BY <1>3, <1>4, <1>5, <1>6, <1>7 DEF w

LEMMA FileByShape ==
    ASSUME NEW p \in Proofs
    PROVE  /\ p.shape = "trailer" => ProofFile(p) = Stream(p) \o Trailer
           /\ p.shape = "short" => ProofFile(p) = SubSeq(Stream(p), 1, Len(Stream(p)) - 2)
           /\ p.shape = "ragged" => ProofFile(p) = SubSeq(Stream(p), 1, Len(Stream(p)) - 1)
           /\ p.shape = "snark" => ProofFile(p) = SNARK_FILE_MAGIC \o Stream(p)
           /\ p.shape \notin {"trailer", "short", "ragged", "snark"} => ProofFile(p) = Stream(p)
<1> DEFINE s == Stream(p)
<1>1. ProofFile(p) = CASE p.shape = "trailer" -> s \o Trailer
                       [] p.shape = "short"   -> SubSeq(s, 1, Len(s) - 2)
                       [] p.shape = "ragged"  -> SubSeq(s, 1, Len(s) - 1)
                       [] p.shape = "snark"   -> SNARK_FILE_MAGIC \o s
                       [] OTHER               -> s
  BY DEF ProofFile, Stream
<1> HIDE DEF s
<1>2. CASE p.shape = "trailer"
  BY <1>1, <1>2 DEF s
<1>3. CASE p.shape = "short"
  BY <1>1, <1>3 DEF s
<1>4. CASE p.shape = "ragged"
  BY <1>1, <1>4 DEF s
<1>5. CASE p.shape = "snark"
  BY <1>1, <1>5 DEF s
<1>6. CASE p.shape \notin {"trailer", "short", "ragged", "snark"}
  BY <1>1, <1>6 DEF s
<1> QED
  BY <1>2, <1>3, <1>4, <1>5, <1>6

\* The tag of a stream is not the seed trailer's.
LEMMA TagIsNumber == ASSUME NEW p PROVE TagOf(p)[1].lo # <<"ZISK">>
<1>1. TagOf(p)[1] = u64(0) \/ TagOf(p)[1] = u64(1)
  BY DEF TagOf, EXPECTED_HASH_TAG
<1>2. TagOf(p)[1].lo[1] = "u32"
  BY <1>1 DEF u64, u32
<1>3. <<"ZISK">>[1] = "ZISK" /\ "ZISK" # "u32"
  OBVIOUS
<1> QED
  BY <1>2, <1>3, Zenon

\* A file parses, less its trailer, exactly when its shape and its flag are a
\* per-batch proof's, and then it parses to the stream.
LEMMA FileExact ==
    ASSUME NEW p \in Proofs
    PROVE  LET d == without_seed_trailer(ProofFile(p))
           IN  /\ words_from_bytes_ok(0, d) /\ ProofFrame_parse_ok(words_from_bytes(d)) <=> Loads(p)
               /\ Loads(p) => d = Stream(p) /\ Len(ProofFile(p)) % 2 = 0
<1> DEFINE s == Stream(p)
           f == ProofFile(p)
           d == without_seed_trailer(f)
           N == PROOF_STREAM_WORDS
<1>0. /\ AllOk(s) /\ IsSeq(s) /\ Len(s) = 2 * N /\ words_from_bytes(s) = StreamWords(p)
      /\ s[2 * N - 1] = TagOf(p)[1].lo
  BY StreamFacts
<1>1. N \in Nat /\ N >= 8 /\ p.shape \in Shapes
  BY StreamSize, ProofCases
<1>2. words_from_bytes_ok(0, s)
  BY <1>0, <1>1 DEF words_from_bytes_ok
<1>3. without_seed_trailer(s) = s
  <2>1. Len(s) >= 2 /\ Len(s) - 1 = 2 * N - 1
    BY <1>0, <1>1
  <2> QED
    BY <1>0, <2>1, TagIsNumber, KeepsBytes
\* A parsed stream has one length.
<1>4. ASSUME NEW x, Len(x) \in Nat, words_from_bytes_ok(0, x), ProofFrame_parse_ok(words_from_bytes(x))
      PROVE  Len(x) = 2 * N
  <2> DEFINE w == words_from_bytes(x)
             n == Len(x) \div 2
  <2>1. w = [i \in 1..n |-> w[i]]
    BY DEF words_from_bytes
  <2>2. n \in Nat /\ Len(x) = 2 * n
    BY <1>4 DEF words_from_bytes_ok
  <2>3. Len(w) = N
    BY <1>4 DEF ProofFrame_parse_ok
  <2> HIDE DEF w, n
  <2>4. Len(w) = n
    BY <2>1, <2>2, MakeSeq
  <2> QED
    BY <2>2, <2>3, <2>4
\* Cutting a trailer takes ten quads or none.
<1>5. ASSUME NEW x, AllOk(x)
      PROVE  /\ Len(x) \in Nat /\ Len(without_seed_trailer(x)) \in Nat
             /\ Len(without_seed_trailer(x)) = Len(x) \/ Len(without_seed_trailer(x)) = Len(x) - 10
  <2>1. Len(x) \in Nat
    BY <1>5 DEF AllOk, IsSeq
  <2>2. CASE Len(x) >= 2 * SEED_TRAILER_WORDS /\ EndsWithTag(x)
    <3>1. Len(x) - 2 * SEED_TRAILER_WORDS \in Nat /\ Len(x) - 2 * SEED_TRAILER_WORDS <= Len(x)
          /\ Len(x) - 2 * SEED_TRAILER_WORDS = Len(x) - 10
      BY <2>1, <2>2 DEF SEED_TRAILER_WORDS
    <3>2. Len(SubSeq(x, 1, Len(x) - 2 * SEED_TRAILER_WORDS)) = Len(x) - 2 * SEED_TRAILER_WORDS
      BY <1>5, <3>1, OkFront
    <3> QED
      BY <2>1, <2>2, <3>1, <3>2 DEF without_seed_trailer
  <2>3. CASE ~ (Len(x) >= 2 * SEED_TRAILER_WORDS /\ EndsWithTag(x))
    BY <2>1, <2>3 DEF without_seed_trailer
  <2> QED
    BY <2>2, <2>3
<1> DEFINE Parses == words_from_bytes_ok(0, d) /\ ProofFrame_parse_ok(words_from_bytes(d))
<1>6. CASE p.shape \in {"plain", "minimal", "publics", "family"}
  <2>1. f = s /\ d = s
    BY <1>3, <1>6, FileByShape
  <2>2. Parses <=> p.shape \notin {"minimal", "publics", "family"} /\ p.maker # "fold"
    BY <1>0, <1>2, <2>1, ParseExact
  <2>3. Len(f) % 2 = 0
    BY <1>0, <1>1, <2>1
  <2> QED
    BY <1>6, <2>1, <2>2, <2>3 DEF Loads
<1>7. CASE p.shape = "trailer"
  <2>1. f = s \o Trailer
    BY <1>7, FileByShape
  <2>2. d = s
    BY <1>0, <2>1, CutsTrailer
  <2>3. Parses <=> p.maker # "fold"
    BY <1>0, <1>2, <1>7, <2>2, ParseExact
  <2>4. Len(f) = 2 * N + 10
    <3>1. IsCat(s \o Trailer, s, Trailer)
      BY <1>0, OkTrailer, CatIs DEF AllOk
    <3> QED
      BY <1>0, <2>1, <3>1, OkTrailer DEF IsCat
  <2>5. Len(f) % 2 = 0
    BY <1>1, <2>4
  <2> QED
    BY <1>7, <2>2, <2>3, <2>5 DEF Loads
<1>8. CASE p.shape \in {"short", "ragged", "snark"}
  <2>1. AllOk(f)
    BY OkFile
  <2>2. Len(f) \in {2 * N - 2, 2 * N - 1, 2 * N + 2}
    <3>1. CASE p.shape = "short"
      <4>1. Len(s) - 2 \in Nat /\ Len(s) - 2 <= Len(s) /\ f = SubSeq(s, 1, Len(s) - 2)
        BY <1>0, <1>1, <3>1, FileByShape
      <4> QED
        BY <1>0, <4>1, OkFront
    <3>2. CASE p.shape = "ragged"
      <4>1. Len(s) - 1 \in Nat /\ Len(s) - 1 <= Len(s) /\ f = SubSeq(s, 1, Len(s) - 1)
        BY <1>0, <1>1, <3>2, FileByShape
      <4> QED
        BY <1>0, <4>1, OkFront
    <3>3. CASE p.shape = "snark"
      <4>1. f = SNARK_FILE_MAGIC \o s
        BY <3>3, FileByShape
      <4>2. IsCat(SNARK_FILE_MAGIC \o s, SNARK_FILE_MAGIC, s)
        BY <1>0, OkMagic, CatIs DEF AllOk
      <4> QED
        BY <1>0, <1>1, <4>1, <4>2, OkMagic DEF IsCat
    <3> QED
      BY <1>8, <3>1, <3>2, <3>3
  <2>3. Len(d) \in Nat /\ (Len(d) = Len(f) \/ Len(d) = Len(f) - 10)
    BY <1>5, <2>1
  <2>4. Len(d) # 2 * N
    BY <1>1, <2>2, <2>3
  <2>5. ~ Parses
    BY <1>4, <2>3, <2>4
  <2> QED
    BY <1>8, <2>5 DEF Loads
<1> QED
  BY <1>1, <1>6, <1>7, <1>8 DEF Shapes

LEMMA VerifierExact ==
    ASSUME NEW p \in Proofs
    PROVE  verify_vadcop_final_proof_file(ProofFile(p), TRUSTED_VADCOP_VK) <=>
             p.maker \in {"stf", "other guest"} /\ p.shape \in {"plain", "trailer"}
<1> DEFINE f == ProofFile(p)
           d == without_seed_trailer(f)
           w == StreamWords(p)
           T == TRUSTED_VADCOP_VK
<1>1. /\ words_from_bytes_ok(0, d) /\ ProofFrame_parse_ok(words_from_bytes(d)) <=> Loads(p)
      /\ Loads(p) => d = Stream(p) /\ Len(f) % 2 = 0
  BY FileExact
<1>2. verify_vadcop_final_proof_file(f, T) <=>
        /\ Len(f) % 2 = 0 /\ words_from_bytes_ok(0, d) /\ ProofFrame_parse_ok(words_from_bytes(d))
        /\ vadcop_vk(words_from_bytes(d)) = T /\ verify_saved_words(words_from_bytes(d), T)
  BY DEF verify_vadcop_final_proof_file, verify_vadcop_final_stream, stream_from_proof_file_ok
<1>3. words_from_bytes(Stream(p)) = w
  BY StreamFacts
<1> HIDE DEF d, f
<1>4. verify_vadcop_final_proof_file(f, T) <=> Loads(p) /\ vadcop_vk(w) = T /\ verify_saved_words(w, T)
  BY <1>1, <1>2, <1>3
<1>5. vadcop_vk(w) = T <=> p.maker # "other setup"
  BY StreamLayout, KeysDiffer DEF SetupOf
<1>6. /\ body(w) = BodyOf(p) /\ program_vk(w) = VkOf(p) /\ publics(w) = PubOf(p)
      /\ w[HEADER_WORDS + 1] = FlagOf(p)
  <2>1. HEADER_WORDS + 1 = 3 /\ HeadOf(p)[3] = FlagOf(p)
    BY DEF HEADER_WORDS, HeadOf
  <2> QED
    BY <2>1, StreamLayout
<1> HIDE DEF w
<1>7. ASSUME p.maker # "other setup"
      PROVE  verify_saved_words(w, T) <=> p.maker # "synthetic"
  <2>0. SetupOf(p) = T
    BY <1>7 DEF SetupOf
  <2>1. verify_saved_words(w, T) <=> BodyOf(p) = StarkBody(VkOf(p), PubOf(p), T, FlagOf(p))
    BY <1>6 DEF verify_saved_words
  <2>2. CASE p.maker # "synthetic"
    BY <2>0, <2>1, <2>2 DEF BodyOf
  <2>3. CASE p.maker = "synthetic"
    <3> DEFINE a == StarkBody(<< >>, << >>, << >>, FlagOf(p))
               b == StarkBody(VkOf(p), PubOf(p), T, FlagOf(p))
    <3>1. 1 \in 1..VADCOP_FINAL_BODY_WORDS
      BY Sizes
    <3>2. a[1].lo[2] = << >> /\ b[1].lo[2] = VkOf(p)
      BY <3>1 DEF StarkBody, widen
    <3>3. VkOf(p) # << >>
      BY OkParts, Sizes, EmptySequence
    <3>4. BodyOf(p) = a
      BY <2>3 DEF BodyOf
    <3> HIDE DEF a, b
    <3>5. a # b
      BY <3>2, <3>3
    <3> QED
      BY <2>1, <2>3, <3>4, <3>5 DEF b
  <2> QED
    BY <2>2, <2>3
<1>8. p.maker \in {"stf", "other guest", "other setup", "synthetic", "fold"}
  BY ProofCases
<1> QED
  BY <1>4, <1>5, <1>7, <1>8 DEF Loads, f

\* zisk-verifier accepts a file exactly when the STF guest or another guest
\* proved it under the release setup and it is in one of the two layouts
\* cargo-zisk writes, for sections of every size (stark.rs:46-66).
THEOREM NativeVerifierAlwaysExact == Spec => []NativeVerifierExact
<1>1. LaneInv => NativeVerifierExact
  <2> SUFFICES ASSUME LaneInv, NEW i \in DOMAIN given
               PROVE  verify_vadcop_final_proof_file(ProofFile(given[i]), TRUSTED_VADCOP_VK) <=>
                        given[i].maker \in {"stf", "other guest"} /\ given[i].shape \in {"plain", "trailer"}
    BY DEF NativeVerifierExact
  <2>1. given[i] \in Proofs
    BY DEF LaneInv, Given, IsSeq
  <2> QED
    BY <2>1, VerifierExact
<1> QED
  BY <1>1, LaneAlways, PTL

-----------------------------------------------------------------------------
(***************************************************************************)
(* Frames: what the guest reads at each place of an input.                  *)
(***************************************************************************)
HasAt(b, k, e) ==
    /\ IsSeq(b) /\ k + Len(e) <= Len(b)
    /\ \A j \in 1..Len(e) : b[k + j] = e[j]

LEMMA FrameAt ==
    ASSUME NEW b, NEW k \in Nat, NEW x, AllOk(x), HasAt(b, k, encode_frame(x))
    PROVE  /\ FrameOk(b, k) /\ FrameLen(b, k) = Len(x) /\ FramePayload(b, k) = x
           /\ NextFrame(b, k) = k + Len(encode_frame(x))
           /\ Len(encode_frame(x)) \in Nat /\ Len(encode_frame(x)) >= 2
           /\ k % 2 = 0 => NextFrame(b, k) % 2 = 0
<1> DEFINE e == encode_frame(x)
           n == div_ceil2(Len(x))
<1>0. Len(x) \in Nat /\ IsSeq(x) /\ Len(b) \in Nat /\ IsSeq(b)
  BY DEF AllOk, IsSeq, HasAt
<1>1. /\ Len(e) = 2 + n * 2 /\ Len(x) <= n * 2 /\ n \in Nat
      /\ e[1] = u32(Len(x) * 4) /\ e[2] = u32(0) /\ \A j \in 1..Len(x) : e[2 + j] = x[j]
  BY FrameLayout
<1>2. k + Len(e) <= Len(b) /\ \A j \in 1..Len(e) : b[k + j] = e[j]
  BY DEF HasAt
<1> HIDE DEF e
<1>3. 1 \in 1..Len(e) /\ 2 \in 1..Len(e)
  BY <1>1
<1>4. b[k + 1] = u32(Len(x) * 4) /\ b[k + 2] = u32(0)
  BY <1>1, <1>2, <1>3
<1>5. b[k + 1][1] = "u32" /\ b[k + 1][2] = Len(x) * 4
  BY <1>4 DEF u32
<1>6. FrameLen(b, k) = Len(x)
  <2>1. (Len(x) * 4) \div 4 = Len(x)
    BY <1>0
  <2> QED
    BY <1>5, <2>1 DEF FrameLen, BytesPerQuad
<1>n. n * 2 \in Nat /\ n * 2 = 2 * n
  BY <1>1
<1>7. k + 2 <= Len(b) /\ k + 2 + Len(x) <= Len(b) /\ k + 2 \in Nat
  BY <1>0, <1>1, <1>2, <1>n, SMTT(30)
<1>8. FrameOk(b, k)
  BY <1>4, <1>5, <1>6, <1>7 DEF FrameOk
<1>9. FramePayload(b, k) = x
  <2>1. ASSUME NEW j \in 1..Len(x) PROVE b[(k + 2) + j] = x[j]
    <3>1. 2 + j \in 1..Len(e) /\ k + (2 + j) = (k + 2) + j
      BY <1>0, <1>1, <1>n, SMTT(30)
    <3> QED
      BY <1>1, <1>2, <3>1
  <2>2. Slice(b, k + 2, Len(x)) = x
    BY <1>0, <1>7, <2>1, SliceIs
  <2> QED
    BY <1>6, <2>2 DEF FramePayload
<1>10. NextFrame(b, k) = k + 2 + n * 2
  BY <1>6 DEF NextFrame
<1>11. k + 2 + n * 2 = k + Len(e) /\ Len(e) \in Nat /\ Len(e) >= 2
  BY <1>1, <1>n
<1>12. k % 2 = 0 => (k + 2 + n * 2) % 2 = 0
  <2> HIDE DEF n
  <2> QED
    BY <1>1, <1>n
<1> QED
  BY <1>6, <1>8, <1>9, <1>10, <1>11, <1>12 DEF e

\* The frame an input begins with.
LEMMA FrameInFront ==
    ASSUME NEW b, NEW x, AllOk(x), HasAt(b, 0, encode_frame(x))
    PROVE  /\ FrameOk(b, 0) /\ FramePayload(b, 0) = x
           /\ NextFrame(b, 0) = Len(encode_frame(x))
<1>1. PICK k \in Nat : k = 0
  OBVIOUS
<1>2. HasAt(b, k, encode_frame(x))
  BY <1>1
<1>3. /\ FrameOk(b, k) /\ FramePayload(b, k) = x
      /\ NextFrame(b, k) = k + Len(encode_frame(x)) /\ Len(encode_frame(x)) \in Nat
  BY <1>2, FrameAt
<1>4. k + Len(encode_frame(x)) = Len(encode_frame(x))
  BY <1>1, <1>3
<1>5. FrameOk(b, 0) /\ FramePayload(b, 0) = x /\ NextFrame(b, 0) = k + Len(encode_frame(x))
  BY <1>1, <1>3
<1> QED
  BY <1>4, <1>5

Frames(s) == [i \in DOMAIN s |-> encode_frame(s[i])]

FramedBytes(n, s) == encode_frame(to_le_bytes(u64(n))) \o FlattenSeq(Frames(s))

\* Where the frames after the first i proofs begin.
Offset(s, i) == 4 + Len(FlattenSeq(Prefix(Frames(s), i)))

Payloads(s) == IsSeq(s) /\ \A i \in 1..Len(s) : AllOk(s[i])

LEMMA FramesFacts ==
    ASSUME NEW s, Payloads(s)
    PROVE  /\ Pieces(Frames(s)) /\ Len(Frames(s)) = Len(s)
           /\ \A i \in 1..Len(s) : Frames(s)[i] = encode_frame(s[i]) /\ AllOk(Frames(s)[i])
<1> DEFINE f == Frames(s)
<1>0. DOMAIN s = 1..Len(s) /\ Len(s) \in Nat
  BY DEF Payloads, IsSeq
<1>1. f = [i \in 1..Len(s) |-> f[i]] /\ \A i \in 1..Len(s) : f[i] = encode_frame(s[i])
  BY <1>0 DEF Frames
<1> HIDE DEF f
<1>2. IsSeq(f) /\ Len(f) = Len(s)
  BY <1>0, <1>1, MakeSeq
<1>3. \A i \in 1..Len(s) : AllOk(f[i])
  BY <1>1, FrameLayout DEF Payloads
<1>4. Pieces(f)
  BY <1>2, <1>3 DEF Pieces, AllOk
<1> QED
  BY <1>1, <1>2, <1>3, <1>4 DEF f

LEMMA CountBytes ==
    ASSUME NEW n \in Nat
    PROVE  /\ AllOk(to_le_bytes(u64(n))) /\ Len(to_le_bytes(u64(n))) = 2
           /\ to_le_bytes(u64(n))[1] = u32(n) /\ to_le_bytes(u64(n))[2] = u32(0)
           /\ AllOk(encode_frame(to_le_bytes(u64(n)))) /\ Len(encode_frame(to_le_bytes(u64(n)))) = 4
<1> DEFINE c == to_le_bytes(u64(n))
<1>1. c = <<u32(n), u32(0)>>
  BY DEF to_le_bytes, u64
<1>2. AllOk(c) /\ Len(c) = 2 /\ c[1] = u32(n) /\ c[2] = u32(0)
  BY <1>1, OkNumber, OkPair, PairSeq
<1> HIDE DEF c
<1>3. AllOk(encode_frame(c)) /\ Len(encode_frame(c)) = 2 + div_ceil2(2) * 2
  BY <1>2, FrameLayout
<1>4. 2 + div_ceil2(2) * 2 = 4
  BY DEF div_ceil2
<1> QED
  BY <1>2, <1>3, <1>4 DEF c

LEMMA Offsets ==
    ASSUME NEW n \in Nat, NEW s, Payloads(s)
    PROVE  /\ AllOk(FramedBytes(n, s)) /\ Len(s) \in Nat
           /\ HasAt(FramedBytes(n, s), 0, encode_frame(to_le_bytes(u64(n))))
           /\ Offset(s, 0) = 4 /\ Offset(s, Len(s)) = Len(FramedBytes(n, s))
           /\ \A i \in Nat : i <= Len(s) => Offset(s, i) \in Nat
           /\ \A i \in Nat : i < Len(s) =>
                /\ HasAt(FramedBytes(n, s), Offset(s, i), encode_frame(s[i + 1]))
                /\ Offset(s, i + 1) = Offset(s, i) + Len(encode_frame(s[i + 1]))
<1> DEFINE f == Frames(s)
           h == encode_frame(to_le_bytes(u64(n)))
           r == FlattenSeq(f)
           b == h \o r
           F(i) == FlattenSeq(Prefix(f, i))
<1>1. /\ Pieces(f) /\ Len(f) = Len(s)
      /\ \A i \in 1..Len(s) : f[i] = encode_frame(s[i]) /\ AllOk(f[i])
  BY FramesFacts
<1>2. Len(s) \in Nat /\ Pieces(f)
  BY <1>1 DEF Payloads, IsSeq
<1>h. AllOk(h) /\ IsSeq(h) /\ Len(h) = 4
  BY CountBytes DEF AllOk
<1> HIDE DEF f, h
<1>3. AllOk(r) /\ IsSeq(r)
  BY <1>1, OkFlatten DEF AllOk, Pieces
<1>4. \A i \in Nat : i <= Len(s) => IsSeq(F(i)) /\ Len(F(i)) \in Nat
  BY <1>1, PrefixPieces DEF IsSeq
<1>5. \A i \in Nat : i + 1 <= Len(s) => F(i + 1) = F(i) \o f[i + 1]
  BY <1>1, PrefixStep
<1>6. \A i \in Nat : i <= Len(s) => \E q : IsSeq(q) /\ r = F(i) \o q
  BY <1>1, FlattenSplit
<1>z. F(0) = << >>
  <2>1. IsSeq(Prefix(f, 0)) /\ Len(Prefix(f, 0)) = 0
    BY <1>1, <1>2, PrefixPieces DEF Pieces
  <2> QED
    BY <2>1, EmptyIffZero, FlattenNone
<1>l. F(Len(s)) = r
  BY <1>1, PrefixAll DEF Pieces
<1>o. \A i : Offset(s, i) = 4 + Len(F(i))
  BY DEF Offset, f
<1> HIDE DEF r, F
<1>7. AllOk(b) /\ IsCat(b, h, r)
  BY <1>3, <1>h, OkCat, CatIs
<1> HIDE DEF b
<1>8. b = FramedBytes(n, s)
  BY DEF b, h, r, f, FramedBytes
<1>9. HasAt(b, 0, h)
  <2>1. Len(r) \in Nat
    BY <1>3 DEF IsSeq
  <2>2. IsSeq(b) /\ 0 + Len(h) <= Len(b)
    BY <1>7, <1>h, <2>1 DEF IsCat
  <2>3. ASSUME NEW j \in 1..Len(h) PROVE b[0 + j] = h[j]
    <3>1. 0 + j = j
      BY <1>h
    <3> QED
      BY <1>7, <3>1 DEF IsCat
  <2> QED
    BY <2>2, <2>3 DEF HasAt
<1>10. Offset(s, 0) = 4 /\ Offset(s, Len(s)) = Len(b)
  BY <1>7, <1>h, <1>l, <1>o, <1>z, EmptySequence DEF IsCat
<1>11. ASSUME NEW i \in Nat, i < Len(s)
       PROVE  /\ HasAt(b, Offset(s, i), f[i + 1])
              /\ Offset(s, i + 1) = Offset(s, i) + Len(f[i + 1])
  <2> DEFINE a == F(i)
             e == f[i + 1]
             ae == F(i + 1)
  <2>0. i + 1 \in Nat /\ i + 1 <= Len(s) /\ i <= Len(s) /\ i + 1 \in 1..Len(s)
    BY <1>2, <1>11
  <2>1. IsSeq(a) /\ IsSeq(e) /\ IsSeq(ae) /\ ae = a \o e
    BY <1>1, <1>4, <1>5, <2>0 DEF AllOk
  <2>2. PICK q : IsSeq(q) /\ r = ae \o q
    BY <1>6, <2>0
  <2>o. Offset(s, i) = 4 + Len(a) /\ Offset(s, i + 1) = 4 + Len(ae)
    BY <1>o
  <2> HIDE DEF a, e, ae
  <2>3. IsCat(ae, a, e) /\ IsCat(r, ae, q)
    BY <2>1, <2>2, CatIs
  <2>4. Len(a) \in Nat /\ Len(e) \in Nat /\ Len(q) \in Nat /\ Len(ae) = Len(a) + Len(e)
        /\ Len(r) = Len(ae) + Len(q) /\ Len(b) = 4 + Len(r) /\ IsSeq(b)
    BY <1>7, <1>h, <2>1, <2>2, <2>3 DEF IsCat, IsSeq
  <2>5. ASSUME NEW j \in 1..Len(e) PROVE b[(4 + Len(a)) + j] = e[j]
    <3>1. /\ Len(a) + j \in 1..Len(ae) /\ Len(a) + j \in 1..Len(r)
          /\ (4 + Len(a)) + j = 4 + (Len(a) + j)
      BY <2>4
    <3>2. b[Len(h) + (Len(a) + j)] = r[Len(a) + j]
      BY <1>7, <3>1 DEF IsCat
    <3>3. r[Len(a) + j] = ae[Len(a) + j]
      BY <2>3, <3>1 DEF IsCat
    <3>4. ae[Len(a) + j] = e[j]
      BY <2>3 DEF IsCat
    <3> QED
      BY <1>h, <3>1, <3>2, <3>3, <3>4
  <2>6. HasAt(b, 4 + Len(a), e)
    <3>1. (4 + Len(a)) + Len(e) <= Len(b)
      BY <2>4
    <3> QED
      BY <2>4, <2>5, <3>1 DEF HasAt
  <2>7. 4 + Len(ae) = (4 + Len(a)) + Len(e)
    BY <2>4
  <2> QED
    BY <2>6, <2>7, <2>o DEF e
<1>12. \A i \in Nat : i <= Len(s) => Offset(s, i) \in Nat
  BY <1>4, <1>o
<1>13. \A i \in Nat : i < Len(s) => f[i + 1] = encode_frame(s[i + 1])
  <2> SUFFICES ASSUME NEW i \in Nat, i < Len(s) PROVE f[i + 1] = encode_frame(s[i + 1])
    OBVIOUS
  <2>1. i + 1 \in 1..Len(s)
    BY <1>2
  <2> QED
    BY <1>1, <2>1
<1> QED
  BY <1>2, <1>7, <1>8, <1>9, <1>10, <1>11, <1>12, <1>13 DEF h

\* One step of decode_frames, k quads before the end.
RestOf(b, f, k) ==
    IF NextFrame(b, Len(b) - k) >= Len(b) THEN Decoded(<< >>)
    ELSE f[Len(b) - NextFrame(b, Len(b) - k)]

DecodeStep(b, f, k) ==
    IF k = 0 THEN Decoded(<< >>)
    ELSE IF FrameOk(b, Len(b) - k) /\ RestOf(b, f, k).ok
    THEN Decoded(<<FramePayload(b, Len(b) - k)>> \o RestOf(b, f, k).frames)
    ELSE Undecodable

Decodes(b, n, f) == f = [k \in 0..n |-> DecodeStep(b, f, k)]

\* A step looks only at what lies further on.
LEMMA StepAgrees ==
    ASSUME NEW b, AllOk(b), NEW k \in 0..Len(b), NEW f, NEW g, \A i \in 0..(k - 1) : f[i] = g[i]
    PROVE  DecodeStep(b, f, k) = DecodeStep(b, g, k)
<1> DEFINE p == Len(b) - k
<1>0. Len(b) \in Nat /\ p \in Nat
  BY DEF AllOk, IsSeq
<1>1. CASE k = 0
  BY <1>1 DEF DecodeStep
<1>2. CASE ~ FrameOk(b, p)
  BY <1>2 DEF DecodeStep
<1>3. CASE k # 0 /\ FrameOk(b, p)
  <2>1. NextFrame(b, p) \in Nat /\ NextFrame(b, p) > p
    <3>1. FrameLen(b, p) \in Nat
      BY <1>0, <1>3, FrameRead
    <3>2. div_ceil2(FrameLen(b, p)) \in Nat
      BY <3>1 DEF div_ceil2
    <3> QED
      BY <1>0, <3>2 DEF NextFrame
  <2>2. NextFrame(b, p) >= Len(b) \/ Len(b) - NextFrame(b, p) \in 0..(k - 1)
    BY <1>0, <2>1
  <2>3. RestOf(b, f, k) = RestOf(b, g, k)
    BY <2>2 DEF RestOf
  <2> QED
    BY <2>3 DEF DecodeStep
<1> QED
  BY <1>1, <1>2, <1>3

LEMMA DecodeExists ==
    ASSUME NEW b, AllOk(b)
    PROVE  \E f : Decodes(b, Len(b), f)
<1> DEFINE S == {n \in Nat : n <= Len(b) => \E f : Decodes(b, n, f)}
<1>0. Len(b) \in Nat
  BY DEF AllOk, IsSeq
<1>1. 0 \in S
  <2> DEFINE f == [k \in 0..0 |-> Decoded(<< >>)]
  <2>1. \A k \in 0..0 : DecodeStep(b, f, k) = Decoded(<< >>)
    BY DEF DecodeStep
  <2>2. Decodes(b, 0, f)
    BY <2>1 DEF Decodes
  <2> HIDE DEF f
  <2> QED
    BY <2>2
<1>2. ASSUME NEW n \in Nat, n \in S PROVE n + 1 \in S
  <2> SUFFICES ASSUME n + 1 <= Len(b) PROVE \E f : Decodes(b, n + 1, f)
    OBVIOUS
  <2>1. PICK f : Decodes(b, n, f)
    BY <1>0, <1>2
  <2> DEFINE g == [k \in 0..(n + 1) |-> IF k = n + 1 THEN DecodeStep(b, f, n + 1) ELSE f[k]]
  <2>2. \A k \in 0..n : g[k] = f[k]
    OBVIOUS
  <2>3. g[n + 1] = DecodeStep(b, f, n + 1)
    OBVIOUS
  <2>4. g = [k \in 0..(n + 1) |-> g[k]]
    OBVIOUS
  <2> HIDE DEF g
  <2>5. ASSUME NEW k \in 0..(n + 1) PROVE g[k] = DecodeStep(b, g, k)
    <3>1. k \in 0..Len(b) /\ \A i \in 0..(k - 1) : i \in 0..n
      BY <1>0
    <3>2. \A i \in 0..(k - 1) : f[i] = g[i]
      BY <2>2, <3>1
    <3>3. DecodeStep(b, f, k) = DecodeStep(b, g, k)
      BY <3>1, <3>2, StepAgrees
    <3>4. CASE k = n + 1
      BY <2>3, <3>3, <3>4
    <3>5. CASE k # n + 1
      <4>1. k \in 0..n
        BY <3>5
      <4>2. f[k] = DecodeStep(b, f, k)
        BY <2>1, <4>1 DEF Decodes
      <4> QED
        BY <2>2, <3>3, <4>1, <4>2
    <3> QED
      BY <3>4, <3>5
  <2>6. Decodes(b, n + 1, g)
    BY <2>4, <2>5 DEF Decodes
  <2> QED
    BY <2>6
<1>3. Len(b) \in S
  <2> HIDE DEF S
  <2> QED
    BY <1>0, <1>1, <1>2, Induct
<1> QED
  BY <1>0, <1>3

LEMMA DecodeDef ==
    ASSUME NEW b, AllOk(b)
    PROVE  \E f : Decodes(b, Len(b), f) /\ decode_frames(b) = f[Len(b)]
<1> DEFINE c == CHOOSE f : f = [k \in 0..Len(b) |-> DecodeStep(b, f, k)]
<1>1. decode_frames(b) = c[Len(b)]
  BY DEF decode_frames, DecodeStep, RestOf
<1>2. \E f : f = [k \in 0..Len(b) |-> DecodeStep(b, f, k)]
  BY DecodeExists DEF Decodes
<1>3. Decodes(b, Len(b), c)
  BY <1>2, Zenon DEF Decodes
<1> HIDE DEF c
<1> QED
  BY <1>1, <1>3

\* The payloads after the first i.
After(s, i) == [j \in 1..(Len(s) - i) |-> s[i + j]]

LEMMA AfterFacts ==
    ASSUME NEW s, IsSeq(s), NEW i \in Nat, i <= Len(s)
    PROVE  IsSeq(After(s, i)) /\ Len(After(s, i)) = Len(s) - i
           /\ \A j \in 1..(Len(s) - i) : After(s, i)[j] = s[i + j]
<1> DEFINE t == After(s, i)
           n == Len(s) - i
<1>0. n \in Nat
  BY DEF IsSeq
<1>1. t = [j \in 1..n |-> t[j]] /\ \A j \in 1..n : t[j] = s[i + j]
  BY DEF After
<1> HIDE DEF t, n
<1>2. IsSeq(t) /\ Len(t) = n
  BY <1>0, <1>1, MakeSeq
<1> QED
  BY <1>1, <1>2 DEF t, n

LEMMA AfterStep ==
    ASSUME NEW s, IsSeq(s), NEW i \in Nat, i < Len(s)
    PROVE  <<s[i + 1]>> \o After(s, i + 1) = After(s, i)
<1> DEFINE a == <<s[i + 1]>>
           t == After(s, i + 1)
           u == a \o t
           w == After(s, i)
           n == Len(s) - (i + 1)
<1>0. Len(s) \in Nat /\ n \in Nat /\ Len(s) - i = n + 1 /\ i + 1 \in Nat /\ i + 1 <= Len(s) /\ i <= Len(s)
  BY SMTT(30) DEF IsSeq
<1>1. IsSeq(t) /\ Len(t) = n /\ \A j \in 1..n : t[j] = s[(i + 1) + j]
  BY <1>0, AfterFacts, ZenonT(60)
<1>2. IsSeq(w) /\ Len(w) = n + 1 /\ \A j \in 1..(n + 1) : w[j] = s[i + j]
  BY <1>0, AfterFacts, ZenonT(60)
<1>3. IsSeq(a) /\ Len(a) = 1 /\ a[1] = s[i + 1]
  BY ShortSeqs
<1> HIDE DEF a, t, w, n
<1>4. IsCat(u, a, t)
  BY <1>1, <1>3, CatIs
<1> HIDE DEF u
<1>5. IsSeq(u) /\ Len(u) = n + 1
  BY <1>0, <1>1, <1>3, <1>4 DEF IsCat
<1>6. ASSUME NEW j \in 1..(n + 1) PROVE u[j] = w[j]
  <2>1. CASE j = 1
    <3>1. 1 \in 1..Len(a) /\ 1 \in 1..(n + 1)
      BY <1>0, <1>3
    <3> QED
      BY <1>2, <1>3, <1>4, <2>1, <3>1 DEF IsCat
  <2>2. CASE j # 1
    <3> DEFINE m == j - 1
    <3>1. m \in 1..n /\ j = 1 + m /\ (i + 1) + m = i + j
      BY <1>0, <2>2
    <3> HIDE DEF m
    <3>2. u[Len(a) + m] = t[m]
      BY <1>1, <1>4, <3>1 DEF IsCat
    <3>3. w[j] = s[i + j] /\ t[m] = s[(i + 1) + m]
      BY <1>1, <1>2, <3>1
    <3> QED
      BY <1>3, <3>1, <3>2, <3>3
  <2> QED
    BY <2>1, <2>2
<1>7. u = w
  BY <1>2, <1>5, <1>6, SeqEq
<1> QED
  BY <1>7 DEF u, a, t, w

\* The assembler's input decodes to the count and the streams.
LEMMA DecodeFramed ==
    ASSUME NEW n \in Nat, NEW s, Payloads(s)
    PROVE  decode_frames(FramedBytes(n, s)) = Decoded(<<to_le_bytes(u64(n))>> \o s)
<1> DEFINE b == FramedBytes(n, s)
           L == Len(b)
           c == to_le_bytes(u64(n))
           N == Len(s)
           O(i) == Offset(s, i)
<1>1. /\ AllOk(b) /\ N \in Nat /\ HasAt(b, 0, encode_frame(c)) /\ O(0) = 4 /\ O(N) = L
      /\ \A i \in Nat : i <= N => O(i) \in Nat
      /\ \A i \in Nat : i < N => /\ HasAt(b, O(i), encode_frame(s[i + 1]))
                                 /\ O(i + 1) = O(i) + Len(encode_frame(s[i + 1]))
  BY Offsets
<1>c. AllOk(c) /\ Len(encode_frame(c)) = 4
  BY CountBytes
<1>s. IsSeq(s) /\ \A i \in 1..N : AllOk(s[i])
  BY DEF Payloads
<1>l. L \in Nat
  BY <1>1 DEF AllOk, IsSeq
<1>2. PICK f : Decodes(b, L, f) /\ decode_frames(b) = f[L]
  BY <1>1, DecodeDef
<1> HIDE DEF b, L, c, O
\* A good frame followed by what decodes.
<1>3. ASSUME NEW p \in Nat, NEW x, AllOk(x), HasAt(b, p, encode_frame(x)), NEW q \in Nat,
             q = p + Len(encode_frame(x)), q <= L, NEW t, f[L - q] = Decoded(t)
      PROVE  f[L - p] = Decoded(<<x>> \o t)
  <2>1. /\ FrameOk(b, p) /\ FramePayload(b, p) = x /\ NextFrame(b, p) = q
        /\ Len(encode_frame(x)) \in Nat /\ Len(encode_frame(x)) >= 2
    BY <1>3, FrameAt
  <2> DEFINE k == L - p
  <2>2. k \in 0..L /\ k # 0 /\ L - k = p /\ L - q \in 0..L
    BY <1>3, <1>l, <2>1
  <2>z. f[0] = Decoded(<< >>)
    <3>1. 0 \in 0..L
      BY <1>l
    <3>2. f[0] = DecodeStep(b, f, 0)
      BY <1>2, <3>1 DEF Decodes
    <3> QED
      BY <3>2 DEF DecodeStep
  <2> HIDE DEF k
  <2>3. RestOf(b, f, k) = Decoded(t)
    <3>1. RestOf(b, f, k) = IF q >= L THEN Decoded(<< >>) ELSE f[L - q]
      BY <2>1, <2>2 DEF RestOf, L
    <3>2. CASE q >= L
      <4>1. L - q = 0
        BY <1>3, <1>l, <3>2
      <4> QED
        BY <1>3, <2>z, <3>1, <3>2, <4>1
    <3>3. CASE ~ (q >= L)
      BY <1>3, <3>1, <3>3
    <3> QED
      BY <3>2, <3>3
  <2>4. f[k] = DecodeStep(b, f, k)
    BY <1>2, <2>2 DEF Decodes
  <2>5. Decoded(t).ok /\ Decoded(t).frames = t
    BY DEF Decoded
  <2>6. FrameOk(b, Len(b) - k) /\ FramePayload(b, Len(b) - k) = x
    BY <2>1, <2>2 DEF L
  <2>7. DecodeStep(b, f, k) = Decoded(<<x>> \o t)
    BY <2>2, <2>3, <2>5, <2>6 DEF DecodeStep
  <2> QED
    BY <2>4, <2>7 DEF k
<1> DEFINE S == {m \in Nat : m <= N => f[L - O(N - m)] = Decoded(After(s, N - m)) /\ O(N - m) <= L}
<1>4. 0 \in S
  <2>1. N - 0 = N /\ L - L = 0 /\ 0 \in 0..L /\ L <= L
    BY <1>1, <1>l
  <2>2. f[0] = Decoded(<< >>)
    <3>1. f[0] = DecodeStep(b, f, 0)
      BY <1>2, <2>1 DEF Decodes
    <3> QED
      BY <3>1 DEF DecodeStep
  <2>3. After(s, N) = << >>
    <3>1. IsSeq(After(s, N)) /\ Len(After(s, N)) = N - N
      BY <1>1, <1>s, AfterFacts
    <3>2. N - N = 0
      BY <1>1
    <3> QED
      BY <3>1, <3>2, EmptyIffZero
  <2>4. f[L - O(N - 0)] = Decoded(After(s, N - 0)) /\ O(N - 0) <= L
    BY <1>1, <2>1, <2>2, <2>3
  <2> QED
    BY <2>4
<1>5. ASSUME NEW m \in Nat, m \in S PROVE m + 1 \in S
  <2> SUFFICES ASSUME m + 1 <= N
               PROVE  f[L - O(N - (m + 1))] = Decoded(After(s, N - (m + 1))) /\ O(N - (m + 1)) <= L
    OBVIOUS
  <2> DEFINE i == N - (m + 1)
  <2>0. i \in Nat /\ i < N /\ N - m = i + 1 /\ i + 1 \in Nat /\ i + 1 <= N /\ i <= N /\ i + 1 \in 1..N
    BY <1>1
  <2>1. f[L - O(i + 1)] = Decoded(After(s, i + 1)) /\ O(i + 1) <= L
    BY <1>1, <1>5, <2>0
  <2> HIDE DEF i
  <2>2. /\ O(i) \in Nat /\ O(i + 1) \in Nat /\ HasAt(b, O(i), encode_frame(s[i + 1]))
        /\ O(i + 1) = O(i) + Len(encode_frame(s[i + 1])) /\ AllOk(s[i + 1])
    BY <1>1, <1>s, <2>0
  <2>3. f[L - O(i)] = Decoded(<<s[i + 1]>> \o After(s, i + 1))
    BY <1>3, <2>1, <2>2, SMTT(30)
  <2>4. <<s[i + 1]>> \o After(s, i + 1) = After(s, i)
    BY <1>s, <2>0, AfterStep
  <2>5. O(i) <= L
    <3>1. Len(encode_frame(s[i + 1])) \in Nat
      BY <2>2, FrameAt
    <3> QED
      BY <1>l, <2>1, <2>2, <3>1
  <2> QED
    BY <2>3, <2>4, <2>5 DEF i
<1>6. f[L - 4] = Decoded(s) /\ 4 <= L
  <2>1. N \in S
    <3> HIDE DEF S
    <3> QED
      BY <1>1, <1>4, <1>5, Induct
  <2>2. N - N = 0 /\ N <= N
    BY <1>1
  <2>3. After(s, 0) = s
    <3>1. IsSeq(After(s, 0)) /\ Len(After(s, 0)) = N - 0 /\ \A j \in 1..(N - 0) : After(s, 0)[j] = s[0 + j]
      BY <1>1, <1>s, AfterFacts
    <3>2. N - 0 = N /\ \A j \in 1..N : 0 + j = j
      BY <1>1
    <3> QED
      BY <1>s, <3>1, <3>2, SeqEq
  <2> QED
    BY <1>1, <2>1, <2>2, <2>3
<1>7. f[L - 0] = Decoded(<<c>> \o s)
  <2>1. HasAt(b, 0, encode_frame(c)) /\ AllOk(c) /\ 4 <= L /\ f[L - 4] = Decoded(s)
    BY <1>1, <1>6, <1>c
  <2>2. FrameOk(b, 0) /\ FramePayload(b, 0) = c /\ NextFrame(b, 0) = 4
    BY <1>c, <2>1, FrameInFront
  <2>3. f[L] = DecodeStep(b, f, L)
    BY <1>2, <1>l DEF Decodes
  <2>4. RestOf(b, f, L) = Decoded(s)
    <3>1. L - L = 0 /\ L # 0 /\ L - 0 = L
      BY <1>l, <2>1
    <3>2. RestOf(b, f, L) = IF 4 >= L THEN Decoded(<< >>) ELSE f[L - 4]
      BY <2>2, <3>1 DEF RestOf, L
    <3>3. CASE 4 >= L
      <4>1. L - 4 = 0
        BY <1>l, <2>1, <3>3
      <4>2. f[0] = DecodeStep(b, f, 0)
        BY <1>2, <1>l DEF Decodes
      <4>3. DecodeStep(b, f, 0) = Decoded(<< >>)
        BY DEF DecodeStep
      <4> QED
        BY <2>1, <3>2, <3>3, <4>1, <4>2, <4>3
    <3>4. CASE ~ (4 >= L)
      BY <2>1, <3>2, <3>4
    <3> QED
      BY <3>3, <3>4
  <2>5. Decoded(s).ok /\ Decoded(s).frames = s
    BY DEF Decoded
  <2>6. L # 0 /\ Len(b) - L = 0 /\ L - 0 = L
    BY <1>l, <2>1 DEF L
  <2>7. DecodeStep(b, f, L) = Decoded(<<c>> \o s)
    BY <2>2, <2>4, <2>5, <2>6 DEF DecodeStep
  <2> QED
    BY <2>3, <2>6, <2>7
<1>8. L - 0 = L
  BY <1>l
<1> QED
  BY <1>2, <1>7, <1>8 DEF b, c

-----------------------------------------------------------------------------
(***************************************************************************)
(* What the assembler loads and writes, and what the guest makes of it.     *)
(***************************************************************************)
SameKeys ==
    \A i \in 1..Len(given) :
      VkOf(given[i]) = VkOf(given[1]) /\ SetupOf(given[i]) = SetupOf(given[1])

Phases ==
    {"load", "load error", "assemble error", "count", "count panic", "proofs",
     "parse panic", "verify panic", "wrap"} \cup Wrapped

Loaded ==
    /\ phase \in Phases
    /\ Len(streams) <= Len(given)
    /\ \A i \in 1..Len(streams) : Loads(given[i]) /\ streams[i] = Stream(given[i])
    /\ phase = "load error" => \E i \in 1..Len(given) : ~ Loads(given[i])
    /\ phase = "assemble error" => Len(given) = 0 \/ ~ SameKeys

\* The guest runs on what the assembler wrote.
Assembled == streams # << >> /\ phase \notin {"load", "load error", "assemble error"}

InStep ==
    /\ Len(streams) = Len(given) /\ SameKeys
    /\ input = FramedBytes(Len(streams), streams)
    /\ phase \notin {"count panic", "parse panic"}
    /\ phase = "verify panic" => \E i \in 1..Len(given) : given[i].maker = "synthetic"
    /\ Len(batch_public_inputs) <= Len(given)
    /\ \A k \in 1..Len(batch_public_inputs) :
         batch_public_inputs[k] = PublicInput(given[k].batch, given[k].claim)
    /\ vks # << >> => /\ vks[1].program_vk = VkOf(given[1])
                      /\ vks[1].vadcop_vk = SetupOf(given[1])
    /\ phase = "proofs" => /\ pos = Offset(streams, Len(batch_public_inputs)) /\ pos % 2 = 0
                           /\ left + Len(batch_public_inputs) = Len(streams)
    /\ phase \in Wrapped \cup {"wrap"} => Len(batch_public_inputs) = Len(streams)

Refused ==
    /\ phase = "file error" => ~ parse_proof_file_ok(snark)
    /\ phase = "bound error" => ~ verify_snark_bound(out, ExpectedProgram)
    /\ phase = "L1 rejects" => ~ L1Accepts(out)

HostInv == Loaded /\ (Assembled => InStep) /\ Refused

\* load_proof_stream accepts exactly these files, and takes the stream out.
LEMMA LoadsExactly ==
    ASSUME NEW p \in Proofs
    PROVE  /\ vadcop_stream_ok(ProofFile(p)) <=> Loads(p)
           /\ Loads(p) => vadcop_stream_from_proof_file(ProofFile(p)) = Stream(p)
<1> DEFINE f == ProofFile(p)
           d == without_seed_trailer(f)
           s == Stream(p)
           m == SNARK_FILE_MAGIC
<1>1. /\ words_from_bytes_ok(0, d) /\ ProofFrame_parse_ok(words_from_bytes(d)) <=> Loads(p)
      /\ Loads(p) => d = s
  BY FileExact
<1>2. ASSUME Loads(p) PROVE ~ IsPrefix(m, f)
  <2>1. IsSeq(s) /\ Len(s) \in Nat /\ Len(s) >= 2 /\ s[1][1] = "u32"
    <3>1. IsSeq(s) /\ Len(s) = 2 * PROOF_STREAM_WORDS /\ (s[1] = u32(0) \/ s[1] = u32(1))
      BY StreamFacts
    <3>2. s[1][1] = "u32"
      <4>1. u32(0)[1] = "u32" /\ u32(1)[1] = "u32"
        BY DEF u32
      <4> QED
        BY <3>1, <4>1
    <3> QED
      BY <3>1, <3>2, StreamSize
  <2>2. f = s \/ f = s \o Trailer
    BY <1>2, FileByShape DEF Loads
  <2>t. IsSeq(Trailer) /\ Len(Trailer) = 10
    BY OkTrailer DEF AllOk
  <2> HIDE DEF s
  <2>3. IsCat(s \o Trailer, s, Trailer)
    BY <2>1, <2>t, CatIs
  <2>4. IsSeq(f) /\ Len(f) \in Nat /\ Len(f) >= 2 /\ f[1][1] = "u32"
    <3>1. CASE f = s
      BY <2>1, <3>1
    <3>2. CASE f = s \o Trailer
      <4>1. IsCat(f, s, Trailer)
        BY <2>3, <3>2
      <4>2. IsSeq(f) /\ Len(f) = Len(s) + 10 /\ 1 \in 1..Len(s) /\ \A k \in 1..Len(s) : f[k] = s[k]
        BY <2>1, <2>t, <4>1 DEF IsCat
      <4> QED
        BY <2>1, <4>2
    <3> QED
      BY <2>2, <3>1, <3>2
  <2>5. IsSeq(m) /\ Len(m) = 2 /\ m[1] = <<"ZISK">>
    <3>1. m[1] = <<"ZISK">>
      BY DEF SNARK_FILE_MAGIC
    <3> QED
      BY <3>1, OkMagic DEF AllOk
  <2> HIDE DEF f, m
  <2>6. Slice(f, 0, 2)[1] = f[1] /\ Slice(m, 0, 2)[1] = m[1]
    <3>1. 0 \in Nat /\ 2 \in Nat /\ 0 + 2 <= Len(f) /\ 0 + 2 <= Len(m) /\ 1 \in 1..2 /\ 0 + 1 = 1
      BY <2>4, <2>5
    <3>2. \A k \in 1..2 : Slice(f, 0, 2)[k] = f[0 + k]
      BY <2>4, <3>1, SliceFacts
    <3>3. \A k \in 1..2 : Slice(m, 0, 2)[k] = m[0 + k]
      BY <2>5, <3>1, SliceFacts
    <3> QED
      BY <3>1, <3>2, <3>3
  <2>7. Slice(f, 0, 2) # Slice(m, 0, 2)
    <3>1. <<"ZISK">>[1] = "ZISK" /\ "ZISK" # "u32"
      OBVIOUS
    <3> QED
      BY <2>4, <2>5, <2>6, <3>1, Zenon
  <2>8. Slice(f, 0, 2) = SubSeq(f, 1, 2) /\ Slice(m, 0, 2) = SubSeq(m, 1, 2)
    BY DEF Slice
  <2> QED
    BY <2>5, <2>7, <2>8 DEF IsPrefix
<1>3. vadcop_stream_ok(f) <=> /\ ~ IsPrefix(m, f)
                              /\ words_from_bytes_ok(0, d) /\ ProofFrame_parse_ok(words_from_bytes(d))
  BY DEF vadcop_stream_ok
<1>4. vadcop_stream_from_proof_file(f) = d
  BY DEF vadcop_stream_from_proof_file
<1> QED
  BY <1>1, <1>2, <1>3, <1>4

\* A stream the assembler loaded, as the guest reads it.
LEMMA LoadedWords ==
    ASSUME NEW p \in Proofs, Loads(p)
    PROVE  LET w == words_from_bytes(Stream(p))
           IN  /\ words_from_bytes_ok(0, Stream(p)) /\ ProofFrame_parse_ok(w)
               /\ program_vk(w) = VkOf(p) /\ vadcop_vk(w) = SetupOf(p)
               /\ commitment(w) = PublicInput(p.batch, p.claim)
               /\ ~ verify_zisk_proof(w, vadcop_vk(w), program_vk(w)) => p.maker = "synthetic"
<1> DEFINE w == StreamWords(p)
           s == PublicInput(p.batch, p.claim)
<1>1. words_from_bytes(Stream(p)) = w /\ Len(Stream(p)) = 2 * PROOF_STREAM_WORDS
  BY StreamFacts
<1>2. words_from_bytes_ok(0, Stream(p))
  BY <1>1, StreamSize DEF words_from_bytes_ok
<1>3. ProofFrame_parse_ok(w)
  BY ParseExact DEF Loads
<1>4. /\ program_vk(w) = VkOf(p) /\ vadcop_vk(w) = SetupOf(p) /\ publics(w) = commit_slice(s)
      /\ body(w) = BodyOf(p) /\ w[3] = FlagOf(p)
  <2>1. HeadOf(p)[3] = FlagOf(p)
    BY DEF HeadOf
  <2> QED
    BY <2>1, StreamLayout DEF PubOf
<1>5. IsSeq(s) /\ Len(s) = COMMITMENT_WORDS
  BY IsPublicInput
<1> HIDE DEF w, s
<1>6. commitment(w) = [i \in 1..COMMITMENT_WORDS |-> commit_slice(s)[i].lo]
  BY <1>4 DEF commitment
<1>7. commitment(w) = s
  BY <1>5, <1>6, CommitLow
<1>8. ASSUME p.maker # "synthetic" PROVE verify_zisk_proof(w, vadcop_vk(w), program_vk(w))
  <2>1. BodyOf(p) = StarkBody(VkOf(p), PubOf(p), SetupOf(p), FlagOf(p))
    BY <1>8 DEF BodyOf
  <2>2. HEADER_WORDS + 1 = 3 /\ PubOf(p) = commit_slice(s)
    BY DEF HEADER_WORDS, PubOf, s
  <2> QED
    BY <1>4, <2>1, <2>2 DEF verify_zisk_proof
<1> QED
  BY <1>1, <1>2, <1>3, <1>4, <1>7, <1>8 DEF s

LEMMA HostInit == Init => HostInv
<1> SUFFICES ASSUME Init PROVE HostInv
  OBVIOUS
<1>1. LaneInv
  BY LaneInit
<1>2. Len(given) \in Nat
  BY <1>1 DEF LaneInv, Given, IsSeq
<1>3. phase = "load" /\ Len(streams) = 0
  BY EmptySequence DEF Init
<1>4. Loaded
  BY <1>2, <1>3 DEF Loaded, Phases
<1>5. ~ Assembled /\ Refused
  BY <1>3 DEF Assembled, Refused
<1> QED
  BY <1>4, <1>5 DEF HostInv

LEMMA HostLoad == ASSUME LaneInv, HostInv, LoadProof PROVE HostInv'
<1> DEFINE n == Len(streams)
           p == given[n + 1]
           file == ProofFile(p)
<1>0. phase = "load" /\ n < Len(given) /\ UNCHANGED given
  BY DEF LoadProof
<1>1. n \in Nat /\ n + 1 \in 1..Len(given) /\ p \in Proofs /\ IsSeq(streams)
  <2>1. n \in Nat /\ Len(given) \in Nat /\ IsSeq(streams)
    BY DEF LaneInv, Given, Framed, IsSeq
  <2>2. n + 1 \in 1..Len(given)
    BY <1>0, <2>1
  <2> QED
    BY <2>1, <2>2 DEF LaneInv, Given
<1>2. \A i \in 1..n : Loads(given[i]) /\ streams[i] = Stream(given[i])
  BY DEF HostInv, Loaded
<1>3. CASE vadcop_stream_ok(file)
  <2> DEFINE t == Append(streams, Stream(p))
  <2>1. Loads(p) /\ streams' = t /\ phase' = "load"
    BY <1>0, <1>1, <1>3, LoadsExactly DEF LoadProof
  <2>2. /\ Len(t) = n + 1 /\ t[n + 1] = Stream(p)
        /\ \A k \in 1..n : t[k] = streams[k]
    BY <1>1, AppendFacts
  <2> HIDE DEF t
  <2>3. \A i \in 1..Len(t) : Loads(given[i]) /\ t[i] = Stream(given[i])
    <3> TAKE i \in 1..Len(t)
    <3>1. i \in 1..n \/ i = n + 1
      BY <1>1, <2>2
    <3> QED
      BY <1>2, <2>1, <2>2, <3>1
  <2>4. Len(t) <= Len(given)
    BY <1>1, <2>2
  <2>5. Loaded'
    BY <1>0, <2>1, <2>3, <2>4 DEF Loaded, Phases
  <2> QED
    BY <2>1, <2>5 DEF HostInv, Assembled, Refused
<1>4. CASE ~ vadcop_stream_ok(file)
  <2>1. ~ Loads(p) /\ UNCHANGED streams /\ phase' = "load error"
    BY <1>1, <1>4, LoadsExactly DEF LoadProof, Fail
  <2>2. Loaded'
    BY <1>0, <1>1, <2>1 DEF HostInv, Loaded, Phases
  <2> QED
    BY <2>1, <2>2 DEF HostInv, Assembled, Refused
<1> QED
  BY <1>3, <1>4

\* The dry run of the guest's parser passes exactly when the keys are shared.
LEMMA DryRunExact ==
    ASSUME LaneInv, Loaded, Len(streams) = Len(given), streams # << >>
    PROVE  DryRunOk <=> SameKeys
<1> DEFINE w(i) == words_from_bytes(streams[i])
<1>0. DOMAIN streams = 1..Len(given) /\ Len(given) \in Nat /\ 1 \in 1..Len(given)
  <2>1. IsSeq(streams) /\ Len(streams) \in Nat /\ DOMAIN streams = 1..Len(streams)
    BY DEF LaneInv, Framed, IsSeq
  <2>2. Len(streams) # 0
    BY <2>1, EmptyIffZero
  <2> QED
    BY <2>1, <2>2
<1>1. ASSUME NEW i \in 1..Len(given)
      PROVE  /\ words_from_bytes_ok(0, streams[i]) /\ ProofFrame_parse_ok(w(i))
             /\ program_vk(w(i)) = VkOf(given[i]) /\ vadcop_vk(w(i)) = SetupOf(given[i])
  <2>1. given[i] \in Proofs /\ Loads(given[i]) /\ streams[i] = Stream(given[i])
    BY DEF LaneInv, Given, Loaded
  <2> QED
    BY <2>1, LoadedWords
<1> DEFINE r == [program_vk |-> program_vk(w(1)), vadcop_vk |-> vadcop_vk(w(1))]
<1>2. /\ ingest_vks(<< >>, w(1)) = <<r>> /\ <<r>> # << >> /\ <<r>>[1] = r
      /\ r.program_vk = VkOf(given[1]) /\ r.vadcop_vk = SetupOf(given[1])
  <2>1. ingest_vks(<< >>, w(1)) = <<r>>
    BY DEF ingest_vks
  <2>2. r.program_vk = VkOf(given[1]) /\ r.vadcop_vk = SetupOf(given[1])
    BY <1>0, <1>1
  <2> HIDE DEF r
  <2>3. <<r>>[1] = r /\ Len(<<r>>) = 1
    BY ShortSeqs
  <2>4. <<r>> # << >>
    BY <2>3, EmptySequence
  <2> QED
    BY <2>1, <2>2, <2>3, <2>4
<1> HIDE DEF r
<1>3. ASSUME NEW i \in 1..Len(given)
      PROVE  ingest_ok(ingest_vks(<< >>, w(1)), w(i)) <=>
               VkOf(given[i]) = VkOf(given[1]) /\ SetupOf(given[i]) = SetupOf(given[1])
  <2>1. ingest_ok(<<r>>, w(i)) <=> r.program_vk = program_vk(w(i)) /\ r.vadcop_vk = vadcop_vk(w(i))
    BY <1>2 DEF ingest_ok
  <2> QED
    BY <1>1, <1>2, <2>1
<1>4. DryRunOk <=> \A i \in 1..Len(given) :
                     /\ words_from_bytes_ok(0, streams[i]) /\ ProofFrame_parse_ok(w(i))
                     /\ i > 1 => ingest_ok(ingest_vks(<< >>, w(1)), w(i))
  BY <1>0 DEF DryRunOk
<1> HIDE DEF w
<1>5. \A i \in 1..Len(given) : i > 1 \/ i = 1
  BY <1>0
<1> QED
  BY <1>1, <1>3, <1>4, <1>5 DEF SameKeys

LEMMA HostAssemble == ASSUME LaneInv, HostInv, Assemble PROVE HostInv'
<1>0. /\ phase = "load" /\ Len(streams) = Len(given)
      /\ UNCHANGED <<given, claims, streams, guestVars, snark, out>>
  BY DEF Assemble
<1>1. UNCHANGED <<given, streams, pos, left, vks, batch_public_inputs>>
  BY <1>0 DEF guestVars
<1>2. Loaded /\ batch_public_inputs = << >> /\ vks = << >>
  BY <1>0 DEF HostInv, LaneInv, Reading
<1>3. SameKeys' = SameKeys
  BY <1>1 DEF SameKeys
<1>4. CASE streams # << >> /\ DryRunOk
  <2>1. phase' = "count" /\ input' = FramedBytes(Len(streams), streams)
    BY <1>4 DEF Assemble, FramedBytes, Frames
  <2>2. SameKeys
    BY <1>0, <1>2, <1>4, DryRunExact
  <2>3. Loaded'
    BY <1>1, <1>2, <2>1 DEF Loaded, Phases
  <2>4. Len(batch_public_inputs') = 0 /\ Len(given) \in Nat
    BY <1>1, <1>2, EmptySequence DEF LaneInv, Given, IsSeq
  <2>5. InStep'
    BY <1>0, <1>1, <1>2, <1>3, <2>1, <2>2, <2>4 DEF InStep, Wrapped, Submitted
  <2> QED
    BY <2>1, <2>3, <2>5 DEF HostInv, Refused
<1>5. CASE ~ (streams # << >> /\ DryRunOk)
  <2>1. phase' = "assemble error"
    BY <1>5 DEF Assemble, Fail
  <2>2. Len(given) = 0 \/ ~ SameKeys
    <3>1. CASE streams = << >>
      BY <1>0, <3>1, EmptySequence
    <3>2. CASE streams # << >>
      BY <1>0, <1>2, <1>5, <3>2, DryRunExact
    <3> QED
      BY <3>1, <3>2
  <2>3. Loaded'
    BY <1>1, <1>2, <1>3, <2>1, <2>2 DEF Loaded, Phases
  <2> QED
    BY <2>1, <2>3 DEF HostInv, Assembled, Refused
<1> QED
  BY <1>4, <1>5

LEMMA HostUnchecked == ASSUME LaneInv, HostInv, FrameUnchecked PROVE HostInv'
<1>0. /\ streams = << >> /\ phase' = "count" /\ UNCHANGED <<given, streams>>
  BY DEF FrameUnchecked
<1>1. Loaded'
  BY <1>0 DEF HostInv, Loaded, Phases
<1> QED
  BY <1>0, <1>1 DEF HostInv, Assembled, Refused

LEMMA HostCount == ASSUME LaneInv, HostInv, ReadCount PROVE HostInv'
<1>0. /\ phase = "count" /\ phase' \in {"proofs", "count panic"}
      /\ UNCHANGED <<given, claims, streams, input, vks, batch_public_inputs, committed, snark, out>>
  BY DEF ReadCount, Fail
<1>1. Loaded' /\ Refused'
  BY <1>0 DEF HostInv, Loaded, Phases, Refused
<1>2. ASSUME streams # << >> PROVE InStep'
  <2> DEFINE n == Len(streams)
             c == to_le_bytes(u64(n))
  <2>1. InStep /\ batch_public_inputs = << >> /\ vks = << >>
    BY <1>0, <1>2 DEF HostInv, Assembled, LaneInv, Reading
  <2>2. n \in Nat /\ n # 0 /\ Payloads(streams) /\ Len(given) \in Nat
    <3>1. IsSeq(streams) /\ n \in Nat /\ Payloads(streams)
      BY DEF LaneInv, Framed, Payloads, IsSeq
    <3> QED
      BY <1>2, <3>1, EmptyIffZero DEF LaneInv, Given, IsSeq
  <2>3. AllOk(c) /\ Len(c) = 2 /\ c[1] = u32(n) /\ Len(encode_frame(c)) = 4
    BY <2>2, CountBytes
  <2>4. HasAt(input, 0, encode_frame(c)) /\ Offset(streams, 0) = 4
    BY <2>1, <2>2, Offsets DEF InStep
  <2>5. c # to_le_bytes(u64(0))
    <3>1. to_le_bytes(u64(0))[1] = u32(0)
      BY CountBytes
    <3>2. u32(0)[2] = 0 /\ u32(n)[2] = n
      BY DEF u32
    <3> HIDE DEF c
    <3> QED
      BY <2>2, <2>3, <3>1, <3>2
  <2> HIDE DEF c
  <2>6. FrameOk(input, 0) /\ FramePayload(input, 0) = c /\ NextFrame(input, 0) = 4
    BY <2>3, <2>4, FrameInFront
  <2>7. parse_count_frame_ok(c) /\ parse_count_frame(c) = n
    BY <2>3, <2>5 DEF parse_count_frame_ok, parse_count_frame, u32
  <2>8. phase' = "proofs" /\ left' = n /\ pos' = 4
    BY <2>6, <2>7 DEF ReadCount
  <2>9. Len(batch_public_inputs') = 0 /\ vks' = << >>
    BY <1>0, <2>1, EmptySequence
  <2>10. SameKeys' = SameKeys
    BY <1>0 DEF SameKeys
  <2>11. /\ pos' = Offset(streams, 0) /\ pos' % 2 = 0 /\ left' + 0 = n
    BY <2>2, <2>4, <2>8
  <2> QED
    BY <1>0, <2>1, <2>2, <2>8, <2>9, <2>10, <2>11 DEF InStep, Wrapped, Submitted
<1> QED
  BY <1>0, <1>1, <1>2 DEF HostInv, Assembled

LEMMA HostProof == ASSUME LaneInv, HostInv, ReadProof PROVE HostInv'
<1> DEFINE bytes == FramePayload(input, pos)
           words == words_from_bytes(bytes)
           bad == \/ ~ FrameOk(input, pos) \/ ~ words_from_bytes_ok(pos + 2, bytes)
                  \/ ~ ProofFrame_parse_ok(words) \/ ~ ingest_ok(vks, words)
           B == batch_public_inputs
           k == Len(B)
           p == given[k + 1]
<1>0. /\ phase = "proofs" /\ left > 0
      /\ UNCHANGED <<given, claims, streams, input, snark, out>>
      /\ phase' \in {"proofs", "parse panic", "verify panic"}
  BY DEF ReadProof, Fail
<1>1. Loaded' /\ Refused'
  BY <1>0 DEF HostInv, Loaded, Phases, Refused
<1>2. ASSUME streams # << >> PROVE InStep'
  <2>1. InStep /\ Loaded
    BY <1>0, <1>2 DEF HostInv, Assembled
  <2>2. /\ Payloads(streams) /\ Len(streams) \in Nat /\ left \in Nat /\ IsSeq(B) /\ k \in Nat
        /\ k + 1 \in 1..Len(given) /\ k < Len(streams) /\ Len(given) = Len(streams)
    <3>1. /\ Payloads(streams) /\ Len(streams) \in Nat /\ left \in Nat /\ IsSeq(B) /\ k \in Nat
      BY <1>0 DEF LaneInv, Framed, Payloads, IsSeq, Reading, Ingested
    <3>2. left + k = Len(streams) /\ Len(given) = Len(streams)
      BY <1>0, <2>1 DEF InStep
    <3>3. ASSUME NEW a \in Nat, NEW b \in Nat, NEW c \in Nat, a > 0, a + b = c
          PROVE  b + 1 \in 1..c /\ b < c
      BY <3>3
    <3>4. k + 1 \in 1..Len(streams) /\ k < Len(streams)
      BY <1>0, <3>1, <3>2, <3>3
    <3> QED
      BY <3>1, <3>2, <3>4
  <2>3. p \in Proofs /\ Loads(p) /\ streams[k + 1] = Stream(p)
    BY <2>1, <2>2 DEF LaneInv, Given, Loaded
  <2>4. /\ pos = Offset(streams, k) /\ pos % 2 = 0 /\ input = FramedBytes(Len(streams), streams)
        /\ left + k = Len(streams) /\ SameKeys
        /\ vks # << >> => vks[1].program_vk = VkOf(given[1]) /\ vks[1].vadcop_vk = SetupOf(given[1])
    BY <1>0, <2>1 DEF InStep
  <2>5. /\ pos \in Nat /\ HasAt(input, pos, encode_frame(Stream(p)))
        /\ Offset(streams, k + 1) = pos + Len(encode_frame(Stream(p)))
    <3>1. Offset(streams, k) \in Nat
      BY <2>2, Offsets
    <3>2. /\ HasAt(FramedBytes(Len(streams), streams), Offset(streams, k), encode_frame(streams[k + 1]))
          /\ Offset(streams, k + 1) = Offset(streams, k) + Len(encode_frame(streams[k + 1]))
      BY <2>2, Offsets, ZenonT(60)
    <3> QED
      BY <2>3, <2>4, <3>1, <3>2
  <2>6. AllOk(Stream(p)) /\ Len(Stream(p)) % 2 = 0
    <3>1. AllOk(Stream(p)) /\ Len(Stream(p)) = 2 * PROOF_STREAM_WORDS
      BY <2>3, StreamFacts
    <3> QED
      BY <3>1, StreamSize
  <2>7. /\ FrameOk(input, pos) /\ bytes = Stream(p)
        /\ NextFrame(input, pos) = Offset(streams, k + 1) /\ NextFrame(input, pos) % 2 = 0
    BY <2>4, <2>5, <2>6, FrameAt
  <2>8. words_from_bytes_ok(pos + 2, bytes)
    <3>1. (pos + 2) % 2 = 0
      BY <2>4, <2>5
    <3> QED
      BY <2>6, <2>7, <3>1 DEF words_from_bytes_ok
  <2>9. /\ ProofFrame_parse_ok(words) /\ program_vk(words) = VkOf(p) /\ vadcop_vk(words) = SetupOf(p)
        /\ commitment(words) = PublicInput(p.batch, p.claim)
        /\ ~ verify_zisk_proof(words, vadcop_vk(words), program_vk(words)) => p.maker = "synthetic"
    BY <2>3, <2>7, LoadedWords
  <2> HIDE DEF bytes, words
  <2>10. VkOf(p) = VkOf(given[1]) /\ SetupOf(p) = SetupOf(given[1])
    BY <2>2, <2>4 DEF SameKeys
  <2>11. ingest_ok(vks, words)
    BY <2>4, <2>9, <2>10 DEF ingest_ok
  <2> DEFINE t == Append(B, PublicInput(p.batch, p.claim))
  <2>12. /\ vks' = ingest_vks(vks, words) /\ batch_public_inputs' = t
         /\ pos' = NextFrame(input, pos) /\ left' = left - 1
         /\ phase' = IF verify_zisk_proof(words, vadcop_vk(words), program_vk(words))
                     THEN "proofs" ELSE "verify panic"
    BY <1>0, <2>7, <2>8, <2>9, <2>11 DEF ReadProof, Fail, bytes, words
  <2>13. /\ Len(t) = k + 1 /\ t[k + 1] = PublicInput(p.batch, p.claim)
         /\ \A j \in 1..k : t[j] = B[j]
    BY <2>2, AppendFacts
  <2> HIDE DEF t
  <2>14. \A j \in 1..Len(t) : t[j] = PublicInput(given[j].batch, given[j].claim)
    <3> TAKE j \in 1..Len(t)
    <3>1. j \in 1..k \/ j = k + 1
      BY <2>2, <2>13
    <3>2. CASE j \in 1..k
      BY <2>1, <2>13, <3>2 DEF InStep
    <3>3. CASE j = k + 1
      BY <2>13, <3>3
    <3> QED
      BY <3>1, <3>2, <3>3
  <2>15. vks'[1].program_vk = VkOf(given[1]) /\ vks'[1].vadcop_vk = SetupOf(given[1])
    <3>1. CASE vks # << >>
      BY <2>4, <2>12, <3>1 DEF ingest_vks
    <3>2. CASE vks = << >>
      <4> DEFINE r == [program_vk |-> program_vk(words), vadcop_vk |-> vadcop_vk(words)]
      <4>1. vks' = <<r>> /\ r.program_vk = program_vk(words) /\ r.vadcop_vk = vadcop_vk(words)
        BY <2>12, <3>2 DEF ingest_vks
      <4> HIDE DEF r
      <4>2. <<r>>[1] = r
        BY ShortSeqs
      <4> QED
        BY <2>9, <2>10, <4>1, <4>2
    <3> QED
      BY <3>1, <3>2
  <2>16. phase' = "verify panic" => \E i \in 1..Len(given) : given[i].maker = "synthetic"
    BY <2>2, <2>9, <2>12
  <2>17. Len(t) <= Len(given) /\ left' + Len(t) = Len(streams)
    <3>1. ASSUME NEW a \in Nat, NEW b \in Nat, NEW c \in Nat, a + b = c
          PROVE  (a - 1) + (b + 1) = c
      BY <3>1
    <3>2. (left - 1) + (k + 1) = Len(streams)
      BY <2>2, <2>4, <3>1
    <3>3. k + 1 <= Len(given)
      BY <2>2
    <3> QED
      BY <2>12, <2>13, <3>2, <3>3
  <2>18. pos' = Offset(streams, Len(t)) /\ pos' % 2 = 0
    BY <2>7, <2>12, <2>13
  <2>19. phase' \in {"proofs", "verify panic"}
    BY <2>12
  <2>20. SameKeys' = SameKeys
    BY <1>0 DEF SameKeys
  <2>21. /\ Len(streams') = Len(given') /\ SameKeys' /\ input' = FramedBytes(Len(streams'), streams')
         /\ phase' \notin {"count panic", "parse panic"} \cup Wrapped \cup {"wrap"}
    BY <1>0, <2>2, <2>4, <2>19, <2>20 DEF Wrapped, Submitted
  <2> QED
    BY <1>0, <2>12, <2>14, <2>15, <2>16, <2>17, <2>18, <2>21 DEF InStep
<1> QED
  BY <1>0, <1>1, <1>2 DEF HostInv, Assembled

LEMMA HostFinalize == ASSUME LaneInv, HostInv, Finalize PROVE HostInv'
<1>0. /\ phase = "proofs" /\ left = 0 /\ phase' = "wrap"
      /\ UNCHANGED <<given, claims, streams, input, pos, left, vks, batch_public_inputs, snark, out>>
  BY DEF Finalize
<1>1. Loaded' /\ Refused'
  BY <1>0 DEF HostInv, Loaded, Phases, Refused
<1>2. ASSUME InStep PROVE InStep'
  <2>1. SameKeys' = SameKeys
    BY <1>0 DEF SameKeys
  <2>2. Len(batch_public_inputs) = Len(streams)
    <3>1. Len(batch_public_inputs) \in Nat
      BY DEF LaneInv, Ingested, IsSeq
    <3> QED
      BY <1>0, <1>2, <3>1 DEF InStep
  <2> QED
    BY <1>0, <1>2, <2>1, <2>2 DEF InStep
<1> QED
  BY <1>0, <1>1, <1>2 DEF HostInv, Assembled

\* From the wrap on, nothing the guest read or wrote changes.
LEMMA HostTail ==
    ASSUME HostInv, phase \in Wrapped \cup {"wrap"}, phase' \in Wrapped,
           UNCHANGED <<given, claims, streams, input, guestVars>>, Refused'
    PROVE  HostInv'
<1>1. UNCHANGED <<given, claims, streams, input, pos, left, vks, batch_public_inputs, committed>>
  BY DEF guestVars
<1>2. phase' \notin {"load", "load error", "assemble error", "count", "count panic", "proofs", "parse panic",
                     "verify panic", "wrap"}
  BY DEF Wrapped, Submitted
<1>3. phase \notin {"load", "load error", "assemble error"}
  BY DEF Wrapped, Submitted
<1>4. Loaded'
  BY <1>1, <1>2 DEF HostInv, Loaded, Phases
<1>5. SameKeys' = SameKeys
  BY <1>1 DEF SameKeys
<1>6. InStep => InStep'
  BY <1>1, <1>2, <1>5 DEF InStep
<1> QED
  BY <1>1, <1>3, <1>4, <1>6 DEF HostInv, Assembled

LEMMA HostNext == LaneInv /\ HostInv /\ [Next]_vars => HostInv'
<1> SUFFICES ASSUME LaneInv, HostInv, [Next]_vars PROVE HostInv'
  OBVIOUS
<1>1. CASE LoadProof
  BY <1>1, HostLoad
<1>2. CASE Assemble
  BY <1>2, HostAssemble
<1>3. CASE FrameUnchecked
  BY <1>3, HostUnchecked
<1>4. CASE ReadCount
  BY <1>4, HostCount
<1>5. CASE ReadProof
  BY <1>5, HostProof
<1>6. CASE Finalize
  BY <1>6, HostFinalize
<1>7. CASE Wrap
  <2>1. /\ phase = "wrap" /\ phase' = "parse"
        /\ UNCHANGED <<given, claims, streams, input, guestVars>>
    BY <1>7 DEF Wrap
  <2>2. Refused'
    BY <2>1 DEF Refused
  <2> QED
    BY <2>1, <2>2, HostTail DEF Wrapped
<1>8. CASE ParseProofFile
  <2>1. /\ phase = "parse" /\ phase' \in {"check", "file error"}
        /\ phase' = "file error" => ~ parse_proof_file_ok(snark)
        /\ UNCHANGED <<given, claims, streams, input, guestVars, snark>>
    BY <1>8 DEF ParseProofFile, Fail
  <2>2. Refused'
    BY <2>1 DEF Refused
  <2> QED
    BY <2>1, <2>2, HostTail DEF Wrapped, Submitted
<1>9. CASE CheckRange \/ Settle
  <2>1. /\ phase \in Submitted /\ phase' \in {"submit", "bound error", "accepted", "L1 rejects"}
        /\ phase' = "bound error" => ~ verify_snark_bound(out, ExpectedProgram)
        /\ phase' = "L1 rejects" => ~ L1Accepts(out)
        /\ UNCHANGED <<given, claims, streams, input, guestVars, snark, out>>
    BY <1>9 DEF CheckRange, Settle, Submitted
  <2>2. L1Accepts(out)' = L1Accepts(out)
    <3>1. claims' = claims /\ out' = out
      BY <2>1
    <3>2. L1Digest' = L1Digest
      BY <3>1 DEF L1Digest, L1PublicInputs
    <3> QED
      BY <3>1, <3>2 DEF L1Accepts
  <2>3. Refused'
    BY <2>1, <2>2 DEF Refused
  <2>4. phase \in Wrapped /\ phase' \in Wrapped
    BY <2>1 DEF Wrapped, Submitted
  <2> QED
    BY <2>1, <2>3, <2>4, HostTail
<1>10. CASE UNCHANGED vars
  <2>1. UNCHANGED <<given, claims, phase, streams, input, pos, left, vks, batch_public_inputs, committed, snark, out>>
    BY <1>10 DEF vars, guestVars
  <2>2. L1Accepts(out)' = L1Accepts(out) /\ SameKeys' = SameKeys
    BY <2>1 DEF L1Accepts, L1Digest, L1PublicInputs, SameKeys
  <2>3. Loaded' /\ Refused'
    BY <2>1, <2>2 DEF HostInv, Loaded, Refused
  <2>4. (Assembled => InStep)'
    BY <2>1, <2>2 DEF HostInv, Assembled, InStep
  <2> QED
    BY <2>3, <2>4 DEF HostInv
<1> QED
  BY <1>1, <1>2, <1>3, <1>4, <1>5, <1>6, <1>7, <1>8, <1>9, <1>10 DEF Next

LEMMA HostAlways == Spec => []HostInv
BY LaneAlways, HostInit, HostNext, PTL DEF Spec

LEMMA Agree == LaneInv /\ HostInv => HostGuestAgree
<1> SUFFICES ASSUME LaneInv, HostInv, streams # << >>
             PROVE  /\ phase \notin {"count panic", "parse panic"}
                    /\ phase = "count" =>
                         decode_frames(input) = Decoded(<<to_le_bytes(u64(Len(streams)))>> \o streams)
                    /\ phase = "proofs" => left + Len(batch_public_inputs) = Len(streams)
  BY DEF HostGuestAgree
<1>1. CASE phase \in {"load", "load error", "assemble error"}
  BY <1>1
<1>2. CASE phase \notin {"load", "load error", "assemble error"}
  <2>1. InStep
    BY <1>2 DEF HostInv, Assembled
  <2>2. Payloads(streams) /\ Len(streams) \in Nat
    BY DEF LaneInv, Framed, Payloads, IsSeq
  <2>3. decode_frames(FramedBytes(Len(streams), streams))
          = Decoded(<<to_le_bytes(u64(Len(streams)))>> \o streams)
    BY <2>2, DecodeFramed
  <2> QED
    BY <2>1, <2>3 DEF InStep
<1> QED
  BY <1>1, <1>2

\* On an input the assembler wrote the guest never panics on the framing or
\* the layout: decode_frames takes the very streams out of it, the guest's
\* loop consumes one of them per turn, and only the proof verification can
\* still stop it (aggregator_input.rs:54-73, guest-aggregator/src/main.rs:40-63).
THEOREM HostGuestAlwaysAgree == Spec => []HostGuestAgree
BY LaneAlways, HostAlways, Agree, PTL

-----------------------------------------------------------------------------
(* What honest proofs lead to. *)

LEMMA FilesNotEmpty == ASSUME NEW f \in WrappedFiles PROVE f # << >>
<1> DEFINE good == SnarkFile(AggregatorVk, TRUSTED_VADCOP_VK, commit_slice(committed))
<1>1. DOMAIN << >> = {}
  OBVIOUS
<1>2. ASSUME NEW v, NEW t, NEW x PROVE "magic" \in DOMAIN SnarkFile(v, t, x)
  BY DEF SnarkFile
<1>3. "magic" \in DOMAIN good
  BY <1>2
<1> HIDE DEF good
<1>4. "magic" \in DOMAIN f
  BY <1>2, <1>3, ZenonT(60) DEF WrappedFiles, good
<1> QED
  BY <1>1, <1>4

\* The file of an honest run parses and passes the server's check, and L1
\* accepts it when the digest is the one it expects.
LEMMA GoodFile ==
    ASSUME AllOk(committed), Len(committed) = COMMITMENT_WORDS
    PROVE  LET good == SnarkFile(AggregatorVk, TRUSTED_VADCOP_VK, commit_slice(committed))
               o == parse_proof_file(good)
           IN  /\ parse_proof_file_ok(good)
               /\ verify_snark_bound(o, ExpectedProgram)
               /\ committed = L1Digest => L1Accepts(o)
<1> DEFINE A == AggregatorVk
           T == TRUSTED_VADCOP_VK
           x == commit_slice(committed)
           good == SnarkFile(A, T, x)
           o == parse_proof_file(good)
<1>1. /\ OkWords(A) /\ Len(A) = PROGRAM_VK_WORDS /\ OkWords(T) /\ Len(T) = VADCOP_VK_WORDS
      /\ OkWords(x) /\ Len(x) = PUBLICS_WORDS
  BY OkKeys, OkPublics, Sizes
<1>d. committed = L1Digest => x = commit_slice(L1Digest)
  OBVIOUS
<1>e. ExpectedProgram.program_vk = extend_be(A) /\ ExpectedProgram.root_c_vadcop_final = extend_be(T)
  BY DEF ExpectedProgram
<1> DEFINE L == Wire(A, commit_slice(L1Digest), T)
<1>f. L1Accepts(o) <=> check_wire_form(o) /\ o.proof.attests = public_signal(L)
  BY DEF L1Accepts, Wire
<1> HIDE DEF A, T, x
<1>2. Holds(good, A, x, T)
  BY <1>1, SnarkHolds
<1>3. good.proof.len = ZISK_SNARK_PROOF_BYTES /\ good.proof.attests = public_signal(Wire(A, x, T))
  BY SnarkFields
<1>4. o.public_values = Wire(A, x, T) /\ o.proof = good.proof
  BY <1>2, Unpacked
<1>5. parse_proof_file_ok(good)
  <2>1. /\ good.magic = TRUE /\ good.variant = "pilfflonk" /\ good.trailing = FALSE
        /\ good.hash_mode = "Poseidon1"
    BY DEF SnarkFile
  <2>2. good.program_vk = A /\ good.rootc = T /\ good.publics_full = A \o x
    BY <1>2 DEF Holds
  <2>3. IsSeq(A) /\ IsSeq(x) /\ PROGRAM_VK_WORDS \in Nat
    BY <1>1, Sizes DEF OkWords, AreWords
  <2>4. IsCat(A \o x, A, x)
    BY <2>3, CatIs
  <2>5. Len(A \o x) = PROGRAM_VK_WORDS + PUBLICS_WORDS
    BY <1>1, <2>4 DEF IsCat
  <2>6. Slice(A \o x, 0, PROGRAM_VK_WORDS) = A
    <3> DEFINE c == A \o x
    <3>1. IsSeq(c) /\ Len(c) \in Nat /\ 0 + Len(A) <= Len(c) /\ \A j \in 1..Len(A) : c[j] = A[j]
      BY <1>1, <2>3, <2>4, <2>5, Sizes DEF IsCat, IsSeq
    <3> HIDE DEF c
    <3>2. 0 \in Nat /\ \A j \in 1..Len(A) : 0 + j = j
      BY <1>1, <2>3
    <3>3. \A j \in 1..Len(A) : c[0 + j] = A[j]
      BY <3>1, <3>2
    <3>4. Slice(c, 0, Len(A)) = A
      BY <2>3, <3>1, <3>2, <3>3, SliceIs
    <3> QED
      BY <1>1, <3>4 DEF c
  <2> HIDE DEF good
  <2> QED
    BY <1>1, <1>3, <2>1, <2>2, <2>5, <2>6 DEF parse_proof_file_ok, ZISK_PROOF_HASH_MODE
<1> HIDE DEF good, o, L
<1>6. /\ Len(Wire(A, x, T)) = ZISK_PUBLIC_VALUES_QUADS
      /\ wire_program_vk(Wire(A, x, T)) = extend_be(A)
      /\ wire_root_c_vadcop_final(Wire(A, x, T)) = extend_be(T)
  BY <1>1, WireFields
<1>7. check_wire_form(o)
  BY <1>3, <1>4, <1>6 DEF check_wire_form
<1>8. verify_snark_bound(o, ExpectedProgram)
  BY <1>4, <1>6, <1>7, <1>e DEF verify_snark_bound
<1>9. committed = L1Digest => o.proof.attests = public_signal(L)
  BY <1>3, <1>4, <1>d DEF L
<1> QED
  BY <1>5, <1>7, <1>8, <1>9, <1>f DEF o, good, A, T, x

\* The guest's digest of an honest range is L1's.
LEMMA HonestDigest ==
    ASSUME LaneInv, HostInv, Honest, phase \in Wrapped
    PROVE  committed = L1Digest
<1> DEFINE B == batch_public_inputs
           L == L1PublicInputs
<1>0. streams # << >> /\ phase \notin {"load", "load error", "assemble error"}
  BY DEF Honest, Wrapped, Submitted
<1>1. InStep
  BY <1>0 DEF HostInv, Assembled
<1>2. committed = finalize /\ Len(B) > 0 /\ PublicInputs(B) /\ vks # << >>
  BY DEF LaneInv, Proved, Ingested, PublicInputs
<1>3. Len(B) = Len(given) /\ Len(given) = Len(claims) /\ DOMAIN given = 1..Len(given)
  BY <1>1 DEF InStep, Honest, LaneInv, Given, IsSeq
<1>4. PublicInputs(L) /\ Len(L) = Len(claims) /\ \A b \in 1..Len(claims) : L[b] = PublicInput(b, claims[b])
  BY L1Inputs DEF LaneInv
<1>5. ASSUME NEW b \in 1..Len(given)
      PROVE  given[b].batch = b /\ given[b].maker = "stf" /\ given[b].claim = "real" /\ claims[b] = "real"
  <2>1. given[b] \in Proofs
    BY DEF LaneInv, Given
  <2>2. given[b].batch = b /\ given[b].maker = "stf" /\ claims[b] = "real"
    BY <1>3 DEF Honest
  <2> QED
    BY <2>1, <2>2, ProofCases
<1>6. B = L
  <2>1. \A k \in 1..Len(B) : B[k] = L[k]
    <3> TAKE k \in 1..Len(B)
    <3>1. k \in 1..Len(given) /\ k \in 1..Len(claims)
      BY <1>3
    <3>2. B[k] = PublicInput(given[k].batch, given[k].claim)
      BY <1>1 DEF InStep
    <3>3. given[k].batch = k /\ given[k].claim = "real" /\ claims[k] = "real"
      BY <1>5, <3>1
    <3>4. L[k] = PublicInput(k, claims[k])
      BY <1>4, <3>1
    <3> QED
      BY <3>2, <3>3, <3>4, Zenon
  <2> HIDE DEF B, L
  <2> QED
    BY <1>2, <1>3, <1>4, <2>1, SeqEq DEF PublicInputs
<1>7. 1 \in 1..Len(given)
  <2>1. Len(B) \in Nat
    BY <1>2 DEF PublicInputs, IsSeq
  <2> QED
    BY <1>2, <1>3, <2>1
<1>8. vks[1].program_vk = StfVk /\ vks[1].vadcop_vk = TRUSTED_VADCOP_VK
  BY <1>1, <1>2, <1>5, <1>7 DEF InStep, VkOf, SetupOf
<1>9. finalize = keccak256(extend_be(StfVk) \o extend_be(TRUSTED_VADCOP_VK) \o shr32(Folded(B)))
  BY <1>2, <1>8, FoldFacts DEF finalize
<1>10. L1Digest = keccak256(extend_be(StfVk) \o extend_be(TRUSTED_VADCOP_VK) \o shr32(Folded(L)))
  <2>1. Len(L) > 0
    BY <1>2, <1>3, <1>4
  <2> QED
    BY <1>4, <2>1, FoldFacts DEF L1Digest
<1> QED
  BY <1>2, <1>6, <1>9, <1>10

LEMMA HonestPasses == LaneInv /\ HostInv => HonestRangeAccepted
<1> SUFFICES ASSUME LaneInv, HostInv, Honest
             PROVE  phase \in {"load", "count", "proofs", "wrap", "parse", "check", "submit", "accepted"}
  BY DEF HonestRangeAccepted
<1> DEFINE good == SnarkFile(AggregatorVk, TRUSTED_VADCOP_VK, commit_slice(committed))
<1>1. ASSUME NEW i \in 1..Len(given)
      PROVE  given[i].maker = "stf" /\ Loads(given[i]) /\ VkOf(given[i]) = StfVk
             /\ SetupOf(given[i]) = TRUSTED_VADCOP_VK
  <2>1. given[i].maker = "stf" /\ given[i].shape \in {"plain", "trailer"}
    BY DEF Honest, LaneInv, Given, IsSeq
  <2> QED
    BY <2>1 DEF Loads, VkOf, SetupOf
<1>2. Len(given) \in Nat /\ Len(given) > 0 /\ 1 \in 1..Len(given)
  <2>1. Len(given) \in Nat /\ Len(given) > 0
    BY DEF Honest, LaneInv, Given, IsSeq
  <2> QED
    BY <2>1
<1>3. SameKeys
  BY <1>1, <1>2 DEF SameKeys
<1>4. phase \notin {"load error", "assemble error"}
  <2>1. phase = "load error" => \E i \in 1..Len(given) : ~ Loads(given[i])
    BY DEF HostInv, Loaded
  <2>2. phase = "assemble error" => Len(given) = 0 \/ ~ SameKeys
    BY DEF HostInv, Loaded
  <2>3. Len(given) # 0
    BY <1>2
  <2>4. \A i \in 1..Len(given) : Loads(given[i])
    BY <1>1
  <2> QED
    BY <1>3, <2>1, <2>2, <2>3, <2>4, Zenon
<1>5. phase \notin {"count panic", "parse panic", "verify panic"}
  <2> SUFFICES ASSUME phase \in {"count panic", "parse panic", "verify panic"} PROVE FALSE
    OBVIOUS
  <2>1. InStep
    BY DEF Honest, HostInv, Assembled
  <2> QED
    BY <1>1, <2>1 DEF InStep
<1>6. phase \notin {"file error", "bound error", "L1 rejects"}
  <2> SUFFICES ASSUME phase \in {"file error", "bound error", "L1 rejects"} PROVE FALSE
    OBVIOUS
  <2>1. phase \in Wrapped
    BY DEF Wrapped, Submitted
  <2>2. snark \in WrappedFiles /\ committed = finalize
    BY <2>1 DEF LaneInv, Proved
  <2>3. AllOk(committed) /\ Len(committed) = COMMITMENT_WORDS
    BY <2>2, OkDigest DEF finalize
  <2>4. snark # << >>
    BY <2>2, FilesNotEmpty
  <2>5. snark = good
    BY <2>4 DEF Honest
  <2>6. /\ parse_proof_file_ok(good) /\ verify_snark_bound(parse_proof_file(good), ExpectedProgram)
        /\ committed = L1Digest => L1Accepts(parse_proof_file(good))
    BY <2>3, GoodFile
  <2>7. committed = L1Digest
    BY <2>1, HonestDigest
  <2>8. phase \in Submitted => out = parse_proof_file(snark)
    BY DEF LaneInv, Proved
  <2> HIDE DEF good
  <2> QED
    BY <2>5, <2>6, <2>7, <2>8 DEF HostInv, Refused, Submitted
<1> QED
  BY <1>4, <1>5, <1>6 DEF HostInv, Loaded, Phases, Wrapped, Submitted

\* Honest proofs of a range, of any length and with or without a seed trailer,
\* are refused at no step from the assembler to L1 (aggregator_input.rs:54-73,
\* guest-aggregator/src/lib.rs:297-389, prover/src/prover.rs:671-747).
THEOREM HonestRangeAlwaysAccepted == Spec => []HonestRangeAccepted
BY LaneAlways, HostAlways, HonestPasses, PTL
=============================================================================

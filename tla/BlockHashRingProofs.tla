------------------------ MODULE BlockHashRingProofs ------------------------
(***************************************************************************)
(* The block-hash history is exact for every ring length, history window,   *)
(* number of blocks and size of a batch.                                    *)
(***************************************************************************)
EXTENDS BlockHashRing, FiniteSetTheorems, TLAPS

\* Blocks executed in this batch, the last block there is, and all hashes.
Executed == Cardinality(DOMAIN computed)
Top == number + Executed
Hashes == [n \in 0..Top |-> Truth(n)]

\* The committed blocks are 0..number, those of the batch follow them.
Numbering ==
    /\ number \in Nat
    /\ chain = [n \in 0..number |-> chain[n]]
    /\ Executed \in Nat
    /\ DOMAIN computed = (number + 1)..Top
    /\ phase \in {"idle", "exec"}
    /\ phase = "idle" => computed = << >>

\* Every hash of the chain is a header's, names its predecessor and is not
\* older; the two timestamps kept are those of the last headers.
IsHeader(h) == h = <<h[1], h[2]>> /\ h[1] \in Nat
Headers ==
    /\ \A n \in 0..Top : IsHeader(Hashes[n])
    /\ \A n \in 1..Top : Hashes[n][2] = Hashes[n - 1] /\ Hashes[n][1] >= Hashes[n - 1][1]
    /\ lastTs = Hashes[Top][1]
    /\ timestamp = chain[number][1]

\* Slot i of the ring holds block number - (Window - 1) + i, if there is one.
RingBlock(i) == number - (Window - 1) + i
RingExact ==
    /\ ring = [i \in Slots |-> IF RingBlock(i) >= 0 THEN chain[RingBlock(i)] ELSE ZERO]
    /\ before = ring

\* The BLOCKHASH map holds the window before the batch and the batch's blocks.
InMap == {n \in 0..Top : n >= number + 1 - Window}
MapExact == phase = "exec" => map = [n \in InMap |-> Hashes[n]]

\* The history contract h serves the window below block top.
Serves(h, hashes, top) ==
    \A n \in liveSince..(top - 1) :
        n >= top - HistoryWindow => h[n % HistoryWindow] = hashes[n]
HistoryInv ==
    /\ liveSince \in -1..number
    /\ history = [i \in 0..(HistoryWindow - 1) |-> history[i]]
    /\ hist = [i \in 0..(HistoryWindow - 1) |-> hist[i]]
    /\ liveSince >= 0 => Serves(history, chain, number) /\ Serves(hist, Hashes, Top)

RingInv == Numbering /\ Headers /\ RingExact /\ MapExact /\ HistoryInv

-----------------------------------------------------------------------------
(* Arithmetic and counting. *)

\* The blocks of a batch are counted by the length of their interval.
LEMMA CountBlocks ==
    ASSUME NEW f, NEW a \in Nat, NEW k \in Nat, DOMAIN f = (a + 1)..(a + k)
    PROVE  Cardinality(DOMAIN f) = k
BY FS_Interval

LEMMA NoBlocks == DOMAIN << >> = {} /\ Cardinality(DOMAIN << >>) = 0
<1>1. DOMAIN << >> = {}
  OBVIOUS
<1> QED
  BY <1>1, FS_EmptySet

\* Two numbers less than a window apart have different slots.
LEMMA SlotsDiffer ==
    ASSUME NEW w \in Nat, w > 0, NEW m \in Nat, NEW n \in Nat, n < m, m - n < w
    PROVE  n % w # m % w
<1> DEFINE a == m \div w
           b == n \div w
           c == m % w
           d == n % w
<1>1. m = w * a + c /\ n = w * b + d /\ a \in Int /\ b \in Int /\ c \in 0..(w - 1) /\ d \in 0..(w - 1)
  OBVIOUS
<1> HIDE DEF a, b, c, d
<1>2. ASSUME c = d PROVE FALSE
  <2>1. m - n = w * (a - b)
    BY <1>1, <1>2
  <2>2. a - b >= 1 => w * (a - b) >= w
    BY <1>1
  <2>3. a - b <= 0 => w * (a - b) <= 0
    BY <1>1
  <2> QED
    BY <1>1, <2>1, <2>2, <2>3
<1> QED
  BY <1>2 DEF c, d

LEMMA Types ==
    ASSUME RingInv
    PROVE  /\ number \in Nat /\ Executed \in Nat /\ Top \in Nat /\ Top = number + Executed
           /\ First = number + 1 /\ Current = Top + 1 /\ liveSince \in Int
           /\ Window \in Nat /\ Window > 1 /\ HistoryWindow \in Nat /\ HistoryWindow > 0
           /\ DOMAIN Hashes = 0..Top
<1>1. number \in Nat /\ Executed \in Nat /\ liveSince \in -1..number
  BY DEF RingInv, Numbering, HistoryInv
<1>2. Top \in Nat /\ Top = number + Executed
  BY <1>1 DEF Top
<1>3. First = number + 1 /\ Current = First + Executed
  BY DEF First, Current, Executed
<1>4. Current = Top + 1
  BY <1>1, <1>2, <1>3
<1>5. DOMAIN Hashes = 0..Top
  BY DEF Hashes
<1>6. liveSince \in Int
  BY <1>1
<1> QED
  BY <1>1, <1>2, <1>3, <1>4, <1>5, <1>6, WindowAssumption, HistoryAssumption

\* Before a batch has executed anything its hashes are the committed ones.
LEMMA NothingExecuted ==
    ASSUME computed = << >>, number \in Nat, chain = [n \in 0..number |-> chain[n]]
    PROVE  Executed = 0 /\ Top = number /\ Hashes = chain
<1>1. Executed = 0 /\ Top = number
  BY NoBlocks DEF Executed, Top
<1>2. \A n : Truth(n) = chain[n]
  BY NoBlocks DEF Truth
<1> QED
  BY <1>1, <1>2 DEF Hashes

-----------------------------------------------------------------------------
(* The actions. *)

LEMMA InitInv == Init => RingInv
<1> SUFFICES ASSUME Init PROVE RingInv
  OBVIOUS
<1>1. computed = << >> /\ number = 0 /\ DOMAIN computed = {}
  BY NoBlocks DEF Init
<1>2. chain = [n \in {0} |-> Genesis] /\ 0..0 = {0} /\ Genesis = <<0, ZERO>>
  BY DEF Init, Genesis, HeaderHash
<1>3. Executed = 0 /\ Top = 0 /\ Hashes = chain
  BY <1>1, <1>2, NothingExecuted
<1>4. Numbering
  BY <1>1, <1>2, <1>3 DEF Init, Numbering
<1>5. Headers
  BY <1>1, <1>2, <1>3 DEF Init, Headers, IsHeader
<1>6. RingExact
  BY <1>1, <1>2, WindowAssumption DEF Init, RingExact, RingBlock, Slots
<1>7. MapExact
  BY DEF Init, MapExact
<1>8. HistoryInv
  BY <1>1, <1>3 DEF Init, HistoryInv, Serves
<1> QED
  BY <1>4, <1>5, <1>6, <1>7, <1>8 DEF RingInv

\* A batch that starts on an authenticated ring knows exactly the window before
\* its first block.
LEMMA StartBatchKeeps == RingInv /\ StartBatch => RingInv'
<1> SUFFICES ASSUME RingInv, StartBatch PROVE RingInv'
  OBVIOUS
<1>t. /\ number \in Nat /\ Window \in Nat /\ Window > 1 /\ First = number + 1
  BY Types
<1>1. /\ phase = "idle" /\ phase' = "exec" /\ computed' = << >> /\ computed = << >>
      /\ number' = number /\ chain' = chain /\ ring' = ring /\ timestamp' = timestamp
      /\ liveSince' = liveSince /\ history' = history
      /\ before' = ring /\ map' = pre_batch_block_hashes(ring, First)
      /\ lastTs' = timestamp /\ hist' = history
  BY DEF StartBatch, RingAuthenticated, committed, RingInv, Numbering
<1>2. chain = [n \in 0..number |-> chain[n]]
  BY DEF RingInv, Numbering
<1>3. Executed = 0 /\ Top = number /\ Hashes = chain
  BY <1>1, <1>2, <1>t, NothingExecuted
<1>4. Executed' = 0 /\ Top' = number /\ Hashes' = chain
  BY <1>1, <1>3 DEF Executed, Top, Hashes, Truth
<1>5. Numbering'
  BY <1>1, <1>2, <1>4, <1>t, NoBlocks DEF Numbering
<1>6. Headers'
  BY <1>1, <1>3, <1>4 DEF RingInv, Headers
<1>7. RingExact'
  BY <1>1 DEF RingInv, RingExact, RingBlock
<1>8. MapExact'
  <2> DEFINE at == {i \in Slots : First - Window + i >= 0 /\ ring[i] # ZERO}
             num == {First - Window + i : i \in at}
             inside == {n \in 0..number : n >= number + 1 - Window}
  <2>1. map' = [n \in num |-> ring[n - First + Window]]
    BY <1>1 DEF pre_batch_block_hashes
  <2>2. \A n \in inside : n - First + Window \in Slots /\ ring[n - First + Window] = chain[n]
    BY <1>t DEF RingInv, RingExact, RingBlock, Slots
  <2>3. \A n \in 0..number : chain[n] # ZERO
    <3>1. \A n \in 0..number : IsHeader(chain[n])
      BY <1>3 DEF RingInv, Headers
    <3>2. \A x, y : <<x, y>> # << >>
      OBVIOUS
    <3> QED
      BY <3>1, <3>2 DEF IsHeader, ZERO
  <2>4. num \subseteq inside
    BY <1>t DEF Slots
  <2>5. ASSUME NEW n \in inside PROVE n \in num
    <3>1. n \in 0..number /\ n - First + Window \in Slots /\ ring[n - First + Window] = chain[n]
      BY <2>2
    <3>2. n \in Int /\ First \in Int
      BY <1>t
    <3>3. First - Window + (n - First + Window) = n
      BY <1>t, <3>2
    <3>4. n - First + Window \in at
      BY <2>3, <3>1, <3>2, <3>3
    <3> QED
      BY <3>3, <3>4
  <2>6. num = inside
    BY <2>4, <2>5
  <2>7. map' = [n \in inside |-> chain[n]]
    <3> HIDE DEF num, inside
    <3> QED
      BY <2>1, <2>2, <2>6
  <2> QED
    BY <1>1, <1>4, <2>7 DEF MapExact, InMap
<1>9. HistoryInv'
  BY <1>1, <1>3, <1>4 DEF RingInv, HistoryInv, Serves
<1> QED
  BY <1>5, <1>6, <1>7, <1>8, <1>9 DEF RingInv

\* A block takes its parent from the map, whatever its own list says, and its
\* hash extends the chain, the map and the history contract.
LEMMA ExecuteBlockKeeps == RingInv /\ ExecuteBlock => RingInv'
<1> SUFFICES ASSUME RingInv, ExecuteBlock PROVE RingInv'
  OBVIOUS
<1>t. /\ number \in Nat /\ Executed \in Nat /\ Top \in Nat /\ Top = number + Executed
      /\ First = number + 1 /\ Current = Top + 1 /\ liveSince \in Int
      /\ Window \in Nat /\ Window > 1 /\ HistoryWindow \in Nat /\ HistoryWindow > 0
      /\ DOMAIN Hashes = 0..Top
  BY Types
<1>u. phase = "exec" /\ phase' = "exec"
      /\ number' = number /\ chain' = chain /\ ring' = ring /\ timestamp' = timestamp
      /\ liveSince' = liveSince /\ history' = history /\ before' = before
  BY DEF ExecuteBlock, committed
<1>p. \A wl : ParentHash(Current, wl) = Hashes[Top]
  <2>1. Top \in InMap /\ Current - 1 = Top /\ Current >= 1
    BY <1>t DEF InMap
  <2>2. map = [n \in InMap |-> Hashes[n]]
    BY <1>u DEF RingInv, MapExact
  <2> QED
    BY <2>1, <2>2 DEF ParentHash, Lookup
<1> DEFINE hash(ts) == <<ts, Hashes[Top]>>
<1>1. PICK ts \in Timestamps :
        /\ ts >= lastTs
        /\ computed' = [n \in DOMAIN computed \cup {Top + 1} |->
                           IF n = Top + 1 THEN hash(ts) ELSE computed[n]]
        /\ map' = [n \in DOMAIN map \cup {Top + 1} |->
                           IF n = Top + 1 THEN hash(ts) ELSE map[n]]
        /\ hist' = IF liveSince >= 0 THEN [hist EXCEPT ![history_slot(Current)] = Hashes[Top]]
                   ELSE hist
        /\ lastTs' = ts
  <2>1. PICK ts \in Timestamps, wl \in Witnesses(Current) :
          LET parent == ParentHash(Current, wl)
              new == HeaderHash(ts, parent)
          IN  /\ TimestampOk(ts)
              /\ computed' = [n \in DOMAIN computed \cup {Current} |->
                                 IF n = Current THEN new ELSE computed[n]]
              /\ map' = [n \in DOMAIN map \cup {Current} |->
                                 IF n = Current THEN new ELSE map[n]]
              /\ hist' = IF liveSince >= 0 THEN [hist EXCEPT ![history_slot(Current)] = parent]
                         ELSE hist
              /\ lastTs' = ts
    BY DEF ExecuteBlock
  <2>2. ParentHash(Current, wl) = Hashes[Top] /\ HeaderHash(ts, Hashes[Top]) = hash(ts)
    BY <1>p DEF HeaderHash
  <2> QED
    BY <2>1, <2>2, <1>t DEF TimestampOk
<1> DEFINE h == hash(ts)
<1> HIDE DEF h
<1>2. DOMAIN computed = (number + 1)..Top
  BY DEF RingInv, Numbering
<1>3. DOMAIN computed' = (number + 1)..(Top + 1)
  BY <1>1, <1>2, <1>t
<1>4. Executed' = Executed + 1
  <2>1. DOMAIN computed' = (number + 1)..(number + (Executed + 1)) /\ Executed + 1 \in Nat
    BY <1>3, <1>t
  <2>2. Cardinality(DOMAIN computed') = Executed + 1
    BY <2>1, <1>t, CountBlocks
  <2> QED
    BY <2>2 DEF Executed
<1>5. Top' = Top + 1
  BY <1>4, <1>u, <1>t DEF Top
<1>6. Hashes' = [n \in 0..(Top + 1) |-> IF n = Top + 1 THEN h ELSE Hashes[n]]
  <2>1. Hashes' = [n \in 0..(Top + 1) |-> IF n \in DOMAIN computed' THEN computed'[n] ELSE chain[n]]
    BY <1>5, <1>u DEF Hashes, Truth
  <2>2. ASSUME NEW n \in 0..(Top + 1)
        PROVE  (IF n \in DOMAIN computed' THEN computed'[n] ELSE chain[n])
                 = (IF n = Top + 1 THEN h ELSE Hashes[n])
    <3>1. CASE n = Top + 1
      BY <3>1, <1>1, <1>3, <1>t DEF h
    <3>2. CASE n # Top + 1
      <4>1. n \in 0..Top
        BY <3>2, <1>t
      <4>2. Hashes[n] = IF n \in DOMAIN computed THEN computed[n] ELSE chain[n]
        BY <4>1 DEF Hashes, Truth
      <4>3. n \in DOMAIN computed' <=> n \in DOMAIN computed
        BY <1>2, <1>3, <3>2, <4>1, <1>t
      <4>4. n \in DOMAIN computed => computed'[n] = computed[n]
        BY <1>1, <3>2
      <4> QED
        BY <3>2, <4>2, <4>3, <4>4
    <3> QED
      BY <3>1, <3>2
  <2> QED
    BY <2>1, <2>2
<1>7. Hashes'[Top + 1] = h /\ \A n \in 0..Top : Hashes'[n] = Hashes[n]
  <2>1. Top + 1 \in 0..(Top + 1) /\ \A n \in 0..Top : n \in 0..(Top + 1) /\ n # Top + 1
    BY <1>t
  <2> QED
    BY <1>6, <2>1
<1>8. h = <<ts, Hashes[Top]>> /\ ts \in Nat /\ ts >= Hashes[Top][1] /\ h[1] = ts /\ h[2] = Hashes[Top]
  <2>1. h = <<ts, Hashes[Top]>>
    BY DEF h
  <2>2. lastTs = Hashes[Top][1]
    BY DEF RingInv, Headers
  <2> QED
    BY <2>1, <2>2, <1>1, TimestampAssumption
<1>9. Numbering'
  BY <1>u, <1>t, <1>3, <1>4, <1>5 DEF RingInv, Numbering
<1>10. Headers'
  <2>1. ASSUME NEW n \in 0..Top' PROVE IsHeader(Hashes'[n])
    <3>1. CASE n = Top + 1
      BY <3>1, <1>7, <1>8 DEF IsHeader
    <3>2. CASE n # Top + 1
      <4>1. n \in 0..Top
        BY <3>2, <1>5, <1>t
      <4>2. IsHeader(Hashes[n])
        BY <4>1 DEF RingInv, Headers
      <4> QED
        BY <4>1, <4>2, <1>7
    <3> QED
      BY <3>1, <3>2
  <2>2. ASSUME NEW n \in 1..Top'
        PROVE  Hashes'[n][2] = Hashes'[n - 1] /\ Hashes'[n][1] >= Hashes'[n - 1][1]
    <3>1. CASE n = Top + 1
      <4>1. n - 1 = Top /\ Top \in 0..Top
        BY <3>1, <1>t
      <4> QED
        BY <3>1, <4>1, <1>7, <1>8
    <3>2. CASE n # Top + 1
      <4>1. n \in 1..Top /\ n \in 0..Top /\ n - 1 \in 0..Top
        BY <3>2, <1>5, <1>t
      <4>2. Hashes[n][2] = Hashes[n - 1] /\ Hashes[n][1] >= Hashes[n - 1][1]
        BY <4>1 DEF RingInv, Headers
      <4> QED
        BY <4>1, <4>2, <1>7
    <3> QED
      BY <3>1, <3>2
  <2>3. lastTs' = Hashes'[Top'][1]
    BY <1>1, <1>5, <1>7, <1>8
  <2>4. timestamp' = chain'[number'][1]
    BY <1>u DEF RingInv, Headers
  <2> QED
    BY <2>1, <2>2, <2>3, <2>4 DEF Headers
<1>11. RingExact'
  BY <1>u DEF RingInv, RingExact, RingBlock
<1>12. MapExact'
  <2> DEFINE now == {n \in 0..(Top + 1) : n >= number + 1 - Window}
  <2>1. InMap' = now
    BY <1>5, <1>u DEF InMap
  <2>2. map = [n \in InMap |-> Hashes[n]]
    BY <1>u DEF RingInv, MapExact
  <2>3. now = InMap \cup {Top + 1} /\ \A n \in InMap : n \in 0..Top /\ n # Top + 1
    BY <1>t DEF InMap
  <2>4. map' = [n \in InMap \cup {Top + 1} |-> IF n = Top + 1 THEN h ELSE map[n]]
    BY <1>1, <2>2 DEF h
  <2> HIDE DEF now
  <2>5. \A n \in InMap \cup {Top + 1} : (IF n = Top + 1 THEN h ELSE map[n]) = Hashes'[n]
    BY <2>2, <2>3, <1>7
  <2> QED
    BY <2>1, <2>3, <2>4, <2>5 DEF MapExact
<1>13. HistoryInv'
  <2> DEFINE slot == Top % HistoryWindow
  <2>1. history_slot(Current) = slot /\ slot \in 0..(HistoryWindow - 1)
    BY <1>t DEF history_slot
  <2>2. hist = [i \in 0..(HistoryWindow - 1) |-> hist[i]]
    BY DEF RingInv, HistoryInv
  <2>3. hist' = IF liveSince >= 0 THEN [hist EXCEPT ![slot] = Hashes[Top]] ELSE hist
    BY <1>1, <2>1
  <2>4. hist' = [i \in 0..(HistoryWindow - 1) |-> hist'[i]]
    BY <2>2, <2>3
  <2>5. ASSUME liveSince >= 0, NEW n \in liveSince..Top, n >= Top + 1 - HistoryWindow
        PROVE  hist'[n % HistoryWindow] = Hashes'[n]
    <3>1. n \in Nat /\ n \in 0..Top
      BY <2>5, <1>t
    <3>2. CASE n = Top
      BY <3>1, <3>2, <2>1, <2>2, <2>3, <2>5, <1>7
    <3>3. CASE n # Top
      <4>1. n < Top /\ Top - n < HistoryWindow /\ n \in liveSince..(Top - 1) /\ n >= Top - HistoryWindow
        BY <2>5, <3>1, <3>3, <1>t
      <4>2. n % HistoryWindow # slot
        BY <4>1, <3>1, <1>t, SlotsDiffer
      <4>3. hist[n % HistoryWindow] = Hashes[n]
        BY <4>1, <2>5 DEF RingInv, HistoryInv, Serves
      <4>4. n % HistoryWindow \in 0..(HistoryWindow - 1)
        BY <3>1, <1>t
      <4> HIDE DEF slot
      <4>5. hist'[n % HistoryWindow] = hist[n % HistoryWindow]
        BY <2>2, <2>3, <2>5, <4>2, <4>4
      <4> QED
        BY <4>3, <4>5, <3>1, <1>7
    <3> QED
      BY <3>2, <3>3
  <2>6. liveSince >= 0 => \A n \in liveSince..(Top' - 1) :
           n >= Top' - HistoryWindow => hist'[n % HistoryWindow] = Hashes'[n]
    <3> SUFFICES ASSUME liveSince >= 0, NEW n \in liveSince..(Top' - 1), n >= Top' - HistoryWindow
                 PROVE  hist'[n % HistoryWindow] = Hashes'[n]
      OBVIOUS
    <3>1. Top' - 1 = Top /\ Top' - HistoryWindow = Top + 1 - HistoryWindow
      BY <1>5, <1>t
    <3>2. n \in liveSince..Top /\ n >= Top + 1 - HistoryWindow
      BY <3>1
    <3> QED
      BY <3>2, <2>5
  <2> QED
    BY <2>4, <2>6, <1>u DEF RingInv, HistoryInv, Serves
<1> QED
  BY <1>9, <1>10, <1>11, <1>12, <1>13 DEF RingInv

\* The blocks up to number keep their committed hashes while a batch runs.
LEMMA CommittedHashes ==
    ASSUME RingInv
    PROVE  \A n \in 0..number : n \in 0..Top /\ Hashes[n] = chain[n]
<1>1. DOMAIN computed = (number + 1)..Top
  BY DEF RingInv, Numbering
<1>2. \A n \in 0..number : n \in 0..Top /\ n \notin DOMAIN computed
  BY <1>1, Types
<1> QED
  BY <1>2 DEF Hashes, Truth

\* The ring a batch leaves, of hashes it computed and of the ring it found, is
\* the ring of the longer chain.
LEMMA CommitKeeps == RingInv /\ Commit => RingInv'
<1> SUFFICES ASSUME RingInv, Commit PROVE RingInv'
  OBVIOUS
<1>t. /\ number \in Nat /\ Executed \in Nat /\ Top \in Nat /\ Top = number + Executed
      /\ First = number + 1 /\ Current = Top + 1 /\ liveSince \in Int
      /\ Window \in Nat /\ Window > 1 /\ HistoryWindow \in Nat /\ HistoryWindow > 0
      /\ DOMAIN Hashes = 0..Top /\ Current - 1 = Top
  BY Types
<1>1. /\ phase' = "idle" /\ computed' = << >> /\ number' = Top /\ timestamp' = lastTs
      /\ ring' = reconstruct_block_hashes_blake_after(First, Top, before, computed)
      /\ chain' = Hashes /\ history' = hist /\ before' = ring' /\ lastTs' = lastTs
      /\ hist' = hist /\ liveSince' = liveSince
  <2>1. Current - 1 = Top
    BY <1>t
  <2> QED
    BY <2>1 DEF Commit, Hashes
<1>2. Executed' = 0 /\ Top' = Top
  BY <1>1, <1>t, NoBlocks DEF Executed, Top
<1>3. Hashes' = Hashes
  <2>1. Hashes' = [n \in 0..Top |-> IF n \in DOMAIN computed' THEN computed'[n] ELSE chain'[n]]
    BY <1>2 DEF Hashes, Truth
  <2>2. DOMAIN computed' = {}
    BY <1>1, NoBlocks
  <2> QED
    BY <2>1, <2>2, <1>1 DEF Hashes
<1>4. Numbering'
  <2>1. chain' = [n \in 0..Top |-> chain'[n]]
    BY <1>1 DEF Hashes
  <2>2. DOMAIN computed' = (number' + 1)..Top'
    BY <1>1, <1>2, <1>t, NoBlocks
  <2> QED
    BY <1>1, <1>2, <1>t, <2>1, <2>2 DEF Numbering
<1>5. Headers'
  BY <1>1, <1>2, <1>3 DEF RingInv, Headers
<1>6. RingExact'
  <2> DEFINE block(p) == Top - (Window - 1) + p
  <2>1. before = [i \in Slots |-> IF RingBlock(i) >= 0 THEN chain[RingBlock(i)] ELSE ZERO]
    BY DEF RingInv, RingExact
  <2>2. ASSUME NEW p \in Slots
        PROVE  AfterSlot(First, Top, before, computed, p)
                 = IF block(p) >= 0 THEN Hashes[block(p)] ELSE ZERO
    <3>0. block(p) \in Int /\ p \in Int /\ p >= 0 /\ p <= Window - 1 /\ block(p) <= Top
      BY <1>t DEF Slots
    <3>1. CASE block(p) < 0
      BY <3>0, <3>1 DEF AfterSlot
    <3>2. CASE block(p) >= First
      <4>1. block(p) \in (number + 1)..Top /\ block(p) \in 0..Top /\ ~ (block(p) < 0)
        BY <3>0, <3>2, <1>t
      <4>2. block(p) \in DOMAIN computed
        BY <4>1 DEF RingInv, Numbering
      <4>3. Hashes[block(p)] = computed[block(p)]
        BY <4>1, <4>2 DEF Hashes, Truth
      <4>4. AfterSlot(First, Top, before, computed, p) = computed[block(p)]
        BY <3>2, <4>1 DEF AfterSlot
      <4>5. block(p) >= 0
        BY <4>1, <1>t
      <4> QED
        BY <4>3, <4>4, <4>5
    <3>3. CASE block(p) >= 0 /\ ~ (block(p) >= First)
      <4> DEFINE i == block(p) + Window - First
      <4>1. i \in Slots /\ RingBlock(i) = block(p) /\ block(p) \in 0..number /\ ~ (block(p) < 0)
        BY <3>0, <3>3, <1>t DEF Slots, RingBlock
      <4>2. AfterSlot(First, Top, before, computed, p) = before[i]
        BY <3>3, <4>1 DEF AfterSlot
      <4>3. before[i] = chain[block(p)]
        BY <2>1, <3>3, <4>1
      <4> QED
        BY <3>3, <4>1, <4>2, <4>3, CommittedHashes
    <3> QED
      BY <3>0, <3>1, <3>2, <3>3, <1>t
  <2>3. \A p : RingBlock(p)' = block(p)
    BY <1>1 DEF RingBlock
  <2>4. ring' = [p \in Slots |-> IF block(p) >= 0 THEN chain'[block(p)] ELSE ZERO]
    BY <1>1, <2>2 DEF reconstruct_block_hashes_blake_after
  <2> QED
    BY <1>1, <2>3, <2>4 DEF RingExact
<1>7. MapExact'
  BY <1>1 DEF MapExact
<1>8. HistoryInv'
  <2>1. liveSince' \in -1..number'
    BY <1>1, <1>t DEF RingInv, HistoryInv
  <2> QED
    BY <2>1, <1>1, <1>2, <1>3 DEF RingInv, HistoryInv, Serves
<1> QED
  BY <1>4, <1>5, <1>6, <1>7, <1>8 DEF RingInv

\* A batch that is given up leaves the committed history as it was.
LEMMA AbandonKeeps == RingInv /\ Abandon => RingInv'
<1> SUFFICES ASSUME RingInv, Abandon PROVE RingInv'
  OBVIOUS
<1>t. number \in Nat
  BY Types
<1>1. /\ phase' = "idle" /\ computed' = << >> /\ number' = number /\ timestamp' = timestamp
      /\ ring' = ring /\ chain' = chain /\ history' = history /\ before' = ring
      /\ lastTs' = timestamp /\ hist' = history /\ liveSince' = liveSince
  BY DEF Abandon, committed
<1>2. chain = [n \in 0..number |-> chain[n]]
  BY DEF RingInv, Numbering
<1>3. Executed' = 0 /\ Top' = number /\ Hashes' = chain
  <2>1. Executed' = 0 /\ Top' = number
    BY <1>1, <1>t, NoBlocks DEF Executed, Top
  <2>2. Hashes' = [n \in 0..number |-> IF n \in DOMAIN computed' THEN computed'[n] ELSE chain[n]]
    BY <2>1, <1>1 DEF Hashes, Truth
  <2> QED
    BY <2>1, <2>2, <1>1, <1>2, NoBlocks
<1>4. Numbering'
  BY <1>1, <1>2, <1>3, <1>t, NoBlocks DEF Numbering
<1>5. Headers'
  <2>1. \A n \in 0..number : IsHeader(chain[n])
    BY CommittedHashes DEF RingInv, Headers
  <2>2. ASSUME NEW n \in 1..number
        PROVE  chain[n][2] = chain[n - 1] /\ chain[n][1] >= chain[n - 1][1]
    <3>1. n \in 0..number /\ n - 1 \in 0..number /\ n \in 1..Top
      BY <1>t, Types
    <3> QED
      BY <3>1, CommittedHashes DEF RingInv, Headers
  <2>3. timestamp = chain[number][1]
    BY DEF RingInv, Headers
  <2> QED
    BY <1>1, <1>3, <2>1, <2>2, <2>3 DEF Headers
<1>6. RingExact'
  BY <1>1 DEF RingInv, RingExact, RingBlock
<1>7. MapExact'
  BY <1>1 DEF MapExact
<1>8. HistoryInv'
  BY <1>1, <1>3 DEF RingInv, HistoryInv, Serves
<1> QED
  BY <1>4, <1>5, <1>6, <1>7, <1>8 DEF RingInv

\* A contract deployed after block `number` owes nothing yet.
LEMMA DeployHistoryKeeps == RingInv /\ DeployHistory => RingInv'
<1> SUFFICES ASSUME RingInv, DeployHistory PROVE RingInv'
  OBVIOUS
<1>t. number \in Nat
  BY Types
<1>1. /\ phase = "idle" /\ phase' = phase /\ computed' = computed /\ number' = number
      /\ timestamp' = timestamp /\ ring' = ring /\ chain' = chain /\ history' = history
      /\ before' = before /\ lastTs' = lastTs /\ hist' = hist /\ map' = map
      /\ liveSince' = number
  BY DEF DeployHistory, batch
<1>2. Executed' = Executed /\ Top' = Top /\ Hashes' = Hashes
  BY <1>1 DEF Executed, Top, Hashes, Truth
<1>3. Top = number
  BY <1>1, <1>t, NothingExecuted DEF RingInv, Numbering
<1>4. Numbering' /\ Headers' /\ RingExact' /\ MapExact'
  BY <1>1, <1>2 DEF RingInv, Numbering, Headers, RingExact, RingBlock, MapExact
<1>5. HistoryInv'
  <2>1. number..(number - 1) = {} /\ number \in -1..number
    BY <1>t
  <2> QED
    BY <1>1, <1>2, <1>3, <2>1 DEF RingInv, HistoryInv, Serves
<1> QED
  BY <1>4, <1>5 DEF RingInv

LEMMA StutterKeeps == RingInv /\ UNCHANGED vars => RingInv'
<1> SUFFICES ASSUME RingInv, UNCHANGED vars PROVE RingInv'
  OBVIOUS
<1>1. /\ phase' = phase /\ computed' = computed /\ number' = number
      /\ timestamp' = timestamp /\ ring' = ring /\ chain' = chain /\ history' = history
      /\ before' = before /\ lastTs' = lastTs /\ hist' = hist /\ map' = map
      /\ liveSince' = liveSince
  BY DEF vars, committed, batch
<1>2. Executed' = Executed /\ Top' = Top /\ Hashes' = Hashes /\ InMap' = InMap
  BY <1>1 DEF Executed, Top, Hashes, Truth, InMap
<1> QED
  BY <1>1, <1>2 DEF RingInv, Numbering, Headers, RingExact, RingBlock, MapExact, HistoryInv, Serves

\* RingInv is inductive.
THEOREM RingAlwaysExact == Spec => []RingInv
<1>1. RingInv /\ [Next]_vars => RingInv'
  BY StartBatchKeeps, ExecuteBlockKeeps, CommitKeeps, AbandonKeeps, DeployHistoryKeeps,
     StutterKeeps DEF Next
<1> QED
  BY InitInv, <1>1, PTL DEF Spec

-----------------------------------------------------------------------------
(* What the invariant says of the code. *)

\* A hash of the chain is the Hashes entry of its block.
LEMMA TruthIsHash == ASSUME NEW n \in 0..Top PROVE Truth(n) = Hashes[n]
BY DEF Hashes

\* BLOCKHASH and every parent lookup (block_hash_ref, execute_block_proven)
\* see the header hash of each block of the window and nothing else, for every
\* ring length, batch size and witness that authenticates.
THEOREM BlockhashAlwaysExact == Spec => []BlockhashExact
<1>1. RingInv => BlockhashExact
  <2> SUFFICES ASSUME RingInv, phase = "exec"
               PROVE  /\ \A n \in 0..(Current - 1) :
                           n >= Current - Window => Lookup(map, n) = Truth(n)
                      /\ \A n \in DOMAIN map : n < Current /\ map[n] = Truth(n)
    BY DEF BlockhashExact
  <2>t. number \in Nat /\ Top \in Nat /\ Executed \in Nat /\ Top = number + Executed
        /\ Current = Top + 1 /\ Window \in Nat
    BY Types
  <2>1. map = [n \in InMap |-> Hashes[n]]
    BY DEF RingInv, MapExact
  <2>2. ASSUME NEW n \in 0..(Current - 1), n >= Current - Window
        PROVE  Lookup(map, n) = Truth(n)
    <3>1. n \in 0..Top /\ n \in InMap
      BY <2>2, <2>t DEF InMap
    <3> QED
      BY <3>1, <2>1, TruthIsHash DEF Lookup
  <2>3. ASSUME NEW n \in DOMAIN map PROVE n < Current /\ map[n] = Truth(n)
    <3>1. n \in InMap /\ n \in 0..Top
      BY <2>1, <2>3 DEF InMap
    <3>2. n < Current
      BY <3>1, <2>t
    <3> QED
      BY <3>1, <3>2, <2>1, TruthIsHash
  <2> QED
    BY <2>2, <2>3
<1> QED
  BY <1>1, RingAlwaysExact, PTL

\* Headers form one chain over all batches, in parent hash and in time, however
\* the batches are cut and whatever block_hashes lists they come with.
THEOREM HeadersAlwaysChained == Spec => []HeadersChained
<1>1. RingInv => HeadersChained
  <2> SUFFICES ASSUME RingInv, NEW n \in 1..(Current - 1)
               PROVE  Truth(n)[2] = Truth(n - 1) /\ Truth(n)[1] >= Truth(n - 1)[1]
    BY DEF HeadersChained
  <2>1. n \in 1..Top /\ n \in 0..Top /\ n - 1 \in 0..Top
    BY Types
  <2>2. Hashes[n][2] = Hashes[n - 1] /\ Hashes[n][1] >= Hashes[n - 1][1]
    BY <2>1 DEF RingInv, Headers
  <2> QED
    BY <2>1, <2>2, TruthIsHash
<1> QED
  BY <1>1, RingAlwaysExact, PTL

\* The EIP-2935 contract serves each of the last HistoryWindow blocks since its
\* deployment from the slot (number % HistoryWindow), over any number of
\* wrap-arounds, abandoned batches and a deployment at any batch boundary.
THEOREM HistoryAlwaysExact == Spec => []HistoryExact
<1>1. RingInv => HistoryExact
  <2> SUFFICES ASSUME RingInv, liveSince >= 0, NEW n \in liveSince..(Current - 2),
                      n >= Current - 1 - HistoryWindow
               PROVE  hist[n % HistoryWindow] = Truth(n)
    BY DEF HistoryExact
  <2>1. n \in liveSince..(Top - 1) /\ n >= Top - HistoryWindow /\ n \in 0..Top
    BY Types
  <2>2. hist[n % HistoryWindow] = Hashes[n]
    BY <2>1 DEF RingInv, HistoryInv, Serves
  <2> QED
    BY <2>1, <2>2, TruthIsHash
<1> QED
  BY <1>1, RingAlwaysExact, PTL

\* The entries of the true list, its length and their order.
LEMMA HonestList ==
    ASSUME NEW m \in Nat, Window \in Nat
    PROVE  \E low \in Nat :
             /\ low = IF m > Window THEN m - Window ELSE 0
             /\ Len(Honest(m)) = m - low /\ m - low \in Nat
             /\ \A j \in 1..(m - low) : Honest(m)[j] = <<low + j - 1, Truth(low + j - 1)>>
<1> DEFINE low == IF m > Window THEN m - Window ELSE 0
<1>1. low \in Nat /\ m - low \in Nat
  OBVIOUS
<1> HIDE DEF low
<1>2. Honest(m) = [i \in 1..(m - low) |-> <<low + i - 1, Truth(low + i - 1)>>]
  BY DEF Honest, low
<1> DEFINE e(i) == <<low + i - 1, Truth(low + i - 1)>>
<1>3. Len([i \in 1..(m - low) |-> e(i)]) = m - low
  <2> HIDE DEF e
  <2> QED
    BY <1>1
<1>4. \A j \in 1..(m - low) : Honest(m)[j] = e(j)
  BY <1>2
<1> QED
  BY <1>1, <1>2, <1>3, <1>4 DEF low

\* No check of the block-hash witness refuses the true lists: the ring the server
\* sends is the committed one (verify_block_hashes_blake_before), and the lists of
\* the batch's blocks agree with its hashes and with previous_block_hashes.
THEOREM HonestHashesAlwaysAccepted == Spec => []HonestAccepted
<1>1. ASSUME RingInv, phase = "idle"
      PROVE  RingAuthenticated(reconstruct_ring(First, Honest(First)))
  <2>t. number \in Nat /\ Window \in Nat /\ Window > 1 /\ First = number + 1 /\ First \in Nat
    BY <1>1, Types
  <2>0. Hashes = chain /\ Top = number
    BY <1>1, NothingExecuted DEF RingInv, Numbering
  <2> DEFINE list == Honest(First)
  <2>1. PICK low \in Nat :
             /\ low = IF First > Window THEN First - Window ELSE 0
             /\ Len(list) = First - low /\ First - low \in Nat
             /\ \A j \in 1..(First - low) : list[j] = <<low + j - 1, Truth(low + j - 1)>>
    BY <2>t, HonestList
  <2> HIDE DEF list
  <2>2. ASSUME NEW i \in Slots
        PROVE  LastEntry(list, First, i) = IF RingBlock(i) >= 0 THEN chain[RingBlock(i)] ELSE ZERO
    <3> DEFINE at == {j \in 1..Len(list) : InWindow(list[j][1], First)
                                            /\ list[j][1] + Window - First = i}
               n == RingBlock(i)
               k == n - low + 1
    <3>0. i \in Int /\ i >= 0 /\ i <= Window - 1 /\ n = number - (Window - 1) + i /\ n \in Int
      BY <2>t DEF Slots, RingBlock
    <3>1. \A j \in 1..Len(list) : list[j][1] = low + j - 1 /\ list[j][2] = Truth(low + j - 1)
      BY <2>1
    <3>2. at = {j \in 1..Len(list) : InWindow(low + j - 1, First) /\ low + j - 1 + Window - First = i}
      BY <3>1
    <3>3. LastEntry(list, First, i) = IF at = {} THEN ZERO
                                      ELSE list[CHOOSE j \in at : \A m \in at : j >= m][2]
      BY DEF LastEntry
    <3>4. CASE n < 0
      <4>1. at = {}
        BY <3>0, <3>2, <3>4, <2>1, <2>t
      <4> QED
        BY <4>1, <3>3, <3>4, <3>0
    <3>5. CASE n >= 0
      <4>1. n >= low /\ k \in 1..Len(list) /\ k \in Int /\ low + k - 1 = n
        BY <3>0, <3>5, <2>1, <2>t
      <4>2. InWindow(n, First)
        BY <3>0, <3>5, <2>t DEF InWindow
      <4>3. n + Window - First = i
        BY <3>0, <2>t
      <4>4. k \in at
        BY <4>1, <4>2, <4>3, <3>2
      <4>5. \A j \in at : j = k
        BY <3>0, <3>2, <2>1, <2>t
      <4> HIDE DEF at, k
      <4>6. k >= k
        BY <4>1
      <4>7. (CHOOSE j \in at : \A m \in at : j >= m) = k
        BY <4>4, <4>5, <4>6
      <4>8. LastEntry(list, First, i) = list[k][2]
        BY <3>3, <4>4, <4>7
      <4>9. list[k][2] = Truth(n)
        BY <3>1, <4>1
      <4>10. Truth(n) = chain[n]
        <5>1. n \in 0..Top
          BY <2>0, <2>t, <3>0, <3>5
        <5> QED
          BY <5>1, <2>0, TruthIsHash
      <4> QED
        BY <4>8, <4>9, <4>10, <3>5
    <3> QED
      BY <3>0, <3>4, <3>5
  <2>3. reconstruct_ring(First, list)
          = [i \in Slots |-> IF RingBlock(i) >= 0 THEN chain[RingBlock(i)] ELSE ZERO]
    BY <2>2 DEF reconstruct_ring
  <2> QED
    BY <1>1, <2>3 DEF RingAuthenticated, RingInv, RingExact, list
<1>2. ASSUME RingInv, NEW m \in First..(Current - 1)
      PROVE  /\ IntraBatchOk(Honest(m), computed)
             /\ WitnessRingOk(Honest(m), HonestPrev(Current - 1), Current - 1)
  <2>t. number \in Nat /\ Window \in Nat /\ Window > 1 /\ Top \in Nat /\ Current - 1 = Top /\ m \in Nat
    BY <1>2, Types
  <2>1. PICK low \in Nat :
             /\ low = IF m > Window THEN m - Window ELSE 0
             /\ Len(Honest(m)) = m - low /\ m - low \in Nat
             /\ \A j \in 1..(m - low) : Honest(m)[j] = <<low + j - 1, Truth(low + j - 1)>>
    BY <2>t, HonestList
  <2>2. \A j \in 1..Len(Honest(m)) :
           Honest(m)[j][1] \in Nat /\ Honest(m)[j][2] = Truth(Honest(m)[j][1])
    BY <2>1
  <2>3. IntraBatchOk(Honest(m), computed)
    BY <2>2 DEF IntraBatchOk, Truth
  <2>4. ASSUME NEW j \in 1..Len(Honest(m)),
               Honest(m)[j][1] - (Top - (Window - 1)) \in 0..(Window - 2)
        PROVE  Honest(m)[j][2] = HonestPrev(Top)[Honest(m)[j][1] - (Top - (Window - 1))]
    <3> DEFINE n == Honest(m)[j][1]
               i == n - (Top - (Window - 1))
    <3>1. n \in Nat /\ Honest(m)[j][2] = Truth(n)
      BY <2>2
    <3> HIDE DEF n
    <3>2. Top - (Window - 1) + i = n
      BY <3>1, <2>t
    <3>3. HonestPrev(Top)[i] = IF n >= 0 THEN Truth(n) ELSE ZERO
      BY <3>2, <2>4 DEF HonestPrev, n
    <3> QED
      BY <3>1, <3>3 DEF n
  <2>5. WitnessRingOk(Honest(m), HonestPrev(Top), Top)
    BY <2>4 DEF WitnessRingOk
  <2> QED
    BY <2>3, <2>5, <2>t
<1>3. RingInv => HonestAccepted
  BY <1>1, <1>2 DEF HonestAccepted
<1> QED
  BY <1>3, RingAlwaysExact, PTL
=============================================================================

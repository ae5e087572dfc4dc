--------------------------- MODULE BlockHashRing ---------------------------
(***************************************************************************)
(* The block-hash history of lib/src/executor: the ring of the last Window  *)
(* header hashes that every batch commits in state_before and state_after,  *)
(* the BLOCKHASH map and the parent hashes that are served from it, and the *)
(* EIP-2935 history contract that each block writes.                        *)
(*                                                                         *)
(* L1 pins (number, timestamp, ring) of the last committed batch: a batch   *)
(* is proven against exactly those values.  The per-block lists             *)
(* block_hashes and meta.previous_block_hashes are the untrusted witness.   *)
(* verify_witness_block_hashes, which can only refuse a batch, is checked   *)
(* for refusing no honest one (HonestAccepted).                             *)
(* A hash is injective: a header hash is <<timestamp, parent hash>>, and    *)
(* the ring's Blake2s commitment is the ring.                               *)
(***************************************************************************)
EXTENDS Integers, Sequences, FiniteSets

CONSTANTS Window,         \* ring length, 256 in the code
          HistoryWindow,  \* HISTORY_SERVE_WINDOW, 8191 in the code
          Timestamps,     \* block timestamps
          MaxBlock,       \* bound: the last block number
          MaxBatch        \* bound: blocks in one batch

ASSUME WindowAssumption == Window \in Nat /\ Window > 1
ASSUME HistoryAssumption == HistoryWindow \in Nat /\ HistoryWindow > 0
ASSUME TimestampAssumption == Timestamps \subseteq Nat /\ 0 \in Timestamps
ASSUME RingBoundAssumption == MaxBlock \in Nat /\ MaxBatch \in Nat

ZERO == << >>                          \* B256::ZERO
HeaderHash(ts, parent) == <<ts, parent>>
Genesis == HeaderHash(0, ZERO)
Forged == HeaderHash(7, << >>)         \* a hash of no block of the chain

VARIABLES
    number,      \* committed: number of the last block
    timestamp,   \* committed: its timestamp
    ring,        \* committed: block_hashes_blake_after
    chain,       \* the header hashes of all committed blocks (history)
    liveSince,   \* block after which the history contract is deployed, -1: never
    history,     \* its storage: slot -> value
    phase,       \* "idle" or "exec"
    before,      \* before_ring, authenticated
    map,         \* ProvenDB.block_hashes, a partial function
    computed,    \* computed_block_hashes of the batch, a partial function
    lastTs,      \* timestamp of the last block executed
    hist         \* the history storage as the batch's CacheDB sees it

committed == <<number, timestamp, ring, chain, liveSince, history>>
batch == <<phase, before, map, computed, lastTs, hist>>
vars == <<committed, batch>>

Slots == 0..(Window - 1)
First == number + 1                    \* number of the batch's first block
Current == First + Cardinality(DOMAIN computed)   \* the block to execute next

Lookup(f, n) == IF n \in DOMAIN f THEN f[n] ELSE ZERO

Init ==
    /\ number = 0 /\ timestamp = 0
    /\ ring = [i \in Slots |-> IF i = Window - 1 THEN Genesis ELSE ZERO]
    /\ chain = [n \in {0} |-> Genesis]
    /\ liveSince \in {-1, 0}
    /\ history = [s \in 0..(HistoryWindow - 1) |-> ZERO]
    /\ phase = "idle"
    /\ before = ring /\ map = << >> /\ computed = << >> /\ lastTs = 0
    /\ hist = history

-----------------------------------------------------------------------------
(* The witness: the true history of a block with at most one edit.         *)

\* The header hash of a block that is committed or executed in this batch.
Truth(n) == IF n \in DOMAIN computed THEN computed[n] ELSE chain[n]

\* The list the server sends for block m: the last Window blocks, oldest first.
Honest(m) ==
    LET low == IF m > Window THEN m - Window ELSE 0
    IN  [i \in 1..(m - low) |-> <<low + i - 1, Truth(low + i - 1)>>]

Entries(m) == (0..m) \X ({Truth(n) : n \in 0..(m - 1)} \cup {Forged, ZERO})

InsertedAt(s, p, e) == SubSeq(s, 1, p) \o <<e>> \o SubSeq(s, p + 1, Len(s))
DroppedAt(s, p) == SubSeq(s, 1, p - 1) \o SubSeq(s, p + 1, Len(s))

\* The true list, or one entry inserted anywhere, dropped or replaced.
Witnesses(m) ==
    LET h == Honest(m) IN
    {h} \cup {InsertedAt(h, p, e) : p \in 0..Len(h), e \in Entries(m)}
        \cup {DroppedAt(h, p) : p \in 1..Len(h)}
        \cup {[h EXCEPT ![p] = e] : p \in 1..Len(h), e \in Entries(m)}

-----------------------------------------------------------------------------
(* The rings.                                                              *)

\* mutant: the entry of the oldest block of the window is ignored
InShortWindow(num, owner) == num < owner /\ owner - num < Window

InWindow(num, owner) == num < owner /\ owner - num <= Window

\* The last entry of the list that falls on slot i of the owner's ring.
LastEntry(hashes, owner, i) ==
    LET at == {j \in 1..Len(hashes) : InWindow(hashes[j][1], owner)
                                       /\ hashes[j][1] + Window - owner = i}
    IN  IF at = {} THEN ZERO
        ELSE hashes[CHOOSE j \in at : \A m \in at : j >= m][2]

reconstruct_ring(owner, hashes) == [i \in Slots |-> LastEntry(hashes, owner, i)]

\* verify_block_hashes_blake_before: assert_eq!(reconstructed, pinned)
RingAuthenticated(r) == r = ring

\* The slots of an authenticated ring, by block number; padding is left out.
pre_batch_block_hashes(r, first) ==
    LET num(i) == first - Window + i
        at == {i \in Slots : num(i) >= 0 /\ r[i] # ZERO}
    IN  [n \in {num(i) : i \in at} |-> r[n - first + Window]]

\* mutant: a pre-batch slot is read one position off
AfterSlotShifted(f, l, r, comp, p) ==
    LET n == l - (Window - 1) + p IN
    IF n < 0 THEN ZERO
    ELSE IF n >= f THEN comp[n]
    ELSE IF n + Window - f + 1 \in Slots THEN r[n + Window - f + 1] ELSE ZERO

\* Slot p of the ring after the batch of blocks f..l: computed hashes inside the
\* batch, the authenticated ring before it, zero before genesis.
AfterSlot(f, l, r, comp, p) ==
    LET n == l - (Window - 1) + p IN
    IF n < 0 THEN ZERO
    ELSE IF n >= f THEN comp[n]
    ELSE IF n + Window - f \in Slots THEN r[n + Window - f] ELSE ZERO

reconstruct_block_hashes_blake_after(f, l, r, comp) ==
    [p \in Slots |-> AfterSlot(f, l, r, comp, p)]

-----------------------------------------------------------------------------
(* The batch.                                                              *)

\* The batch starts: the ring is rebuilt from the first block's list, compared
\* with the pinned one, and seeds the BLOCKHASH map.
StartBatch ==
    /\ phase = "idle" /\ number < MaxBlock
    /\ \E wl \in Witnesses(First) :
         LET r == reconstruct_ring(First, wl) IN
         /\ RingAuthenticated(r)
         /\ before' = r
         /\ map' = pre_batch_block_hashes(r, First)
    /\ phase' = "exec"
    /\ computed' = << >>
    /\ lastTs' = timestamp
    /\ hist' = history
    /\ UNCHANGED committed

\* verify_intra_batch_hashes: a listed block of this batch has its computed hash.
IntraBatchOk(hashes, comp) ==
    \A j \in 1..Len(hashes) :
        hashes[j][1] \in DOMAIN comp => hashes[j][2] = comp[hashes[j][1]]

\* mutant: the slot is taken from the block's own number
HistorySlotOff(n) == n % HistoryWindow

\* The slot block n writes.
history_slot(n) == (n - 1) % HistoryWindow

\* mutant: the parent hash is the first match in the block's own list
ParentFromWitness(n, hashes) ==
    LET at == {j \in 1..Len(hashes) : hashes[j][1] = n - 1}
    IN  IF at = {} THEN ZERO ELSE hashes[CHOOSE j \in at : \A m \in at : j <= m][2]

\* The parent hash comes from the authenticated map, never from the list.
ParentHash(n, hashes) == IF n >= 1 THEN Lookup(map, n - 1) ELSE ZERO

\* Timestamps never decrease, over the batch boundary too.
TimestampOk(ts) == ts >= lastTs

\* One block: consecutive number, its parent from the map, its hash into the map.
ExecuteBlock ==
    /\ phase = "exec"
    /\ Current <= MaxBlock /\ Current - First < MaxBatch
    /\ \E ts \in Timestamps, wl \in Witnesses(Current) :
         LET parent == ParentHash(Current, wl)
             hash == HeaderHash(ts, parent)
         IN  /\ TimestampOk(ts)
             /\ IntraBatchOk(wl, computed)
             /\ computed' = [n \in DOMAIN computed \cup {Current} |->
                               IF n = Current THEN hash ELSE computed[n]]
             /\ map' = [n \in DOMAIN map \cup {Current} |->
                               IF n = Current THEN hash ELSE map[n]]
             /\ hist' = IF liveSince >= 0 THEN [hist EXCEPT ![history_slot(Current)] = parent]
                    ELSE hist
             /\ lastTs' = ts
    /\ UNCHANGED <<committed, phase, before>>

\* The batch is proven and L1 stores its state_after.
Commit ==
    /\ phase = "exec" /\ computed # << >>
    /\ number' = Current - 1
    /\ timestamp' = lastTs
    /\ ring' = reconstruct_block_hashes_blake_after(First, Current - 1, before, computed)
    /\ chain' = [n \in 0..(Current - 1) |-> Truth(n)]
    /\ history' = hist
    /\ phase' = "idle"
    /\ map' = << >> /\ computed' = << >>
    /\ before' = ring' /\ lastTs' = lastTs /\ hist' = hist
    /\ UNCHANGED liveSince

\* The guest panics or the batch is never proven.
Abandon ==
    /\ phase = "exec"
    /\ phase' = "idle"
    /\ before' = ring /\ map' = << >> /\ computed' = << >>
    /\ lastTs' = timestamp /\ hist' = history
    /\ UNCHANGED committed

\* The history contract appears between two batches (a protocol upgrade).
DeployHistory ==
    /\ phase = "idle" /\ liveSince = -1
    /\ liveSince' = number
    /\ UNCHANGED <<number, timestamp, ring, chain, history, batch>>

Next == StartBatch \/ ExecuteBlock \/ Commit \/ Abandon \/ DeployHistory

Spec == Init /\ [][Next]_vars

-----------------------------------------------------------------------------
(* Properties.                                                             *)

\* BLOCKHASH and the parent lookup see, for every block of the window of the
\* block about to run, that block's header hash; the map holds nothing else.
\* A batch's window reaches into the ring the earlier batches left, so the ring
\* after a batch of any size is that of the chain (mod.rs:718-749).
BlockhashExact ==
    phase = "exec" =>
      /\ \A n \in 0..(Current - 1) : n >= Current - Window => Lookup(map, n) = Truth(n)
      /\ \A n \in DOMAIN map : n < Current /\ map[n] = Truth(n)

\* Every header names its predecessor's hash and never goes back in time, over
\* batch boundaries too, whatever block_hashes lists came with the blocks.
HeadersChained ==
    \A n \in 1..(Current - 1) : /\ Truth(n)[2] = Truth(n - 1)
                                /\ Truth(n)[1] >= Truth(n - 1)[1]

\* The history contract serves the hash of each of the last HistoryWindow blocks
\* since it was deployed, in the slot its number names.
HistoryExact ==
    liveSince >= 0 =>
      \A n \in liveSince..(Current - 2) :
        n >= Current - 1 - HistoryWindow => hist[n % HistoryWindow] = Truth(n)

\* verify_witness_block_hashes: one block's list against previous_block_hashes,
\* the Window-1 hashes before the last block.
WitnessRingOk(hashes, prev, last) ==
    last >= Window - 1 =>
      \A j \in 1..Len(hashes) :
        LET i == hashes[j][1] - (last - (Window - 1)) IN
        (hashes[j][1] < last /\ i \in 0..(Window - 2) /\ prev[i] # ZERO)
           => hashes[j][2] = prev[i]

\* What the server sends as previous_block_hashes for a batch ending at `last`.
HonestPrev(last) ==
    [i \in 0..(Window - 2) |->
        IF last - (Window - 1) + i >= 0 THEN Truth(last - (Window - 1) + i) ELSE ZERO]

\* No check refuses an honest witness: the true list of the next batch's first
\* block authenticates, and the true lists of every block of a batch agree with
\* the computed hashes and with previous_block_hashes.
HonestAccepted ==
    /\ phase = "idle" => RingAuthenticated(reconstruct_ring(First, Honest(First)))
    /\ \A m \in First..(Current - 1) :
         /\ IntraBatchOk(Honest(m), computed)
         /\ WitnessRingOk(Honest(m), HonestPrev(Current - 1), Current - 1)
=============================================================================

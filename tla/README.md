# TLA+ models of zksync-os-zisk

A verification project kept beside the code: modules that model the state
transition proof of ZKsync OS on the ZiSK zkVM and the daemon that produces
those proofs, TLC runs over small instances, and theorems checked by TLAPS for
every instance. Paths below are relative to the repository (`src/` here).

## 1. The system

A *guest program* re-executes a batch of blocks inside the zkVM. Its input is
assembled by an operator and is not trusted: every value it uses must be
authenticated against a 32-byte state root that L1 pins, and the guest commits
to the state after the batch. A failed assertion means that there is no proof.
A *prover daemon* takes batches from sequencers, runs the zkVM prover in a
subprocess and submits the proof; an *aggregator guest* folds the proofs of
consecutive batches into one.

| component | code | state | operations | depends on |
|---|---|---|---|---|
| flat storage tree | `lib/src/merkle.rs`, `executor/verify.rs` | sorted linked list of leaves, leaf count, root | verify a storage proof; check and apply a batch update; walk old and new root together | hashes |
| proven database | `executor/proven_db.rs`, `executor/stream.rs` | verified storage values, accounts, bytecodes; per-block recovered roots while streaming | build (collecting or streaming), `basic_ref`, `code_by_hash_ref`, `storage_ref` | storage proofs, pinned root |
| execution overlay and account leaves | `executor/evm.rs`, `executor/verify.rs`, `account_props.rs` | CacheDB, destroyed and deployed sets, per-block slot diffs, batch write set | one transaction, seal a block, check the after-preimages | proven database, revm |
| block-hash ring, header chain, EIP-2935 | `executor/mod.rs`, `evm.rs`, `eip2935.rs`, `block_header.rs` | ring of 256 hashes, timestamps, history contract's slots | authenticate the ring, execute a block, compute the ring after | committed state |
| wire formats | `lib/src/wire*`, `types.rs` | a batch input of version 3, 5 or 6 | dispatch on the version, convert to the current schema and back | none |
| admission and commitment | `executor/mod.rs`, `executor/tx.rs`, `commitment.rs`, `interop.rs`, `block_header.rs`, `block_roots.rs` | batch metadata, counters, rolling hashes, header list | resolve the spec, validate, execute transactions, seal blocks, commit | all of the above |
| crypto providers | `lib/src/crypto`, `guest/src/hooks.rs`, `guest/src/main.rs` | streaming hasher, pausing of hints | precompiles and signer recovery on the guest, natively, and in the build that emits hints | zisklib, revm |
| prover daemon | `prover/src/*.rs` | set-ups, work directories, idle streak, cancel token | set up, poll, prove, retry, submit, clean up | sequencers, coordinator, subprocess |
| aggregated lane | `guest-aggregator/src`, `prover/src/aggregator_input.rs`, `prover/src/bin`, `zisk-verifier/src` | proof files, frames read, verification keys, public inputs | load, frame, verify, fold, wrap, parse, check off chain | proofs of the guest, L1 |

How they interact. The streaming reader feeds the proven database; execution
reads only through it and collects writes; `build_revm_write_map` turns the
overlay and the untrusted after-preimages into the write set; the tree update
must apply exactly that set; the commitment binds the roots, the ring and the
timestamps to what L1 holds. The daemon is concurrent with sequencers
(leases), a coordinator (may restart and forget) and the signal handler.

What is hard. In the guest: *everything the prover supplies may be wrong*, and
checks are spread over the order in which fields become known (a root read
after the proofs that need it, an old root recomputed together with the new
one, a count that decides which siblings are empty). In the daemon:
cancellation at any await, lost answers after the server already acted, shared
work directories, a coordinator that loses its set-ups. `PROJECT.json` lists
these hazards at their lines, with the properties that cover them.

## 2. Modules

| module | models | kind |
|---|---|---|
| `KVStore` | what the tree promises: a map that a batch overrides by exactly its writes | abstract specification |
| `LinkedTree`, `MCLinkedTree` | the list of leaves and the untrusted batch update | component; refines `KVStore` |
| `LinkedTreeProofs` | theorems about `LinkedTree`, its refinement of `KVStore` | proofs |
| `TreeWalk` | the bottom-up walk over hashes, the two-pass reference beside it, and `recover_root` | component |
| `TreeWalkProofs` | theorems about `TreeWalk` and `Blake2s` | proofs |
| `ProvenDb` | what an input must satisfy, the database it yields, the reads | operators |
| `CollectingPath` | a reader that sees the whole input at once | abstract specification |
| `WitnessStream` | the streaming reader, field by field | component; refines `CollectingPath` |
| `WitnessStreamProofs` | theorems about `WitnessStream` | proofs |
| `AccountWrites` | transactions, overlay, after-preimages of account leaves | component |
| `AccountWritesProofs` | theorems about `AccountWrites` | proofs |
| `BlockHashRing` | ring, BLOCKHASH, parents, timestamps, EIP-2935 | component |
| `BlockHashRingProofs` | theorems about `BlockHashRing` | proofs |
| `WireFormat` | the schemas of the three wire versions and their conversions | operators |
| `Commitment` | Merkle roots, headers, state commitment, batch output and public input of each spec | operators |
| `Transactions` | authentication and decoding of a transaction | operators |
| `Interop` | interop roots read from storage proofs | operators |
| `BatchCommit`, `MCBatchCommit` | a batch from its wire input to its public input, and L1's acceptance | component; composes the four above |
| `BatchCommitProofs` | theorems about `BatchCommit` | proofs |
| `ProofStream` | the byte layouts a proof travels in | operators |
| `Aggregation` | the range lane from proof files to L1 | component; composes `ProofStream` |
| `AggregationProofs` | theorems about `Aggregation` | proofs |
| `Precompiles`, `Blake2s` | precompiles on both builds; the hasher | operators |
| `CryptoProvider` | the backend as the executor calls it | component; composes the two above |
| `ProverDaemon` | the daemon with its environment | component |
| `ProverDaemonProofs` | theorems about `ProverDaemon` | proofs |

Definitions carry the code's names where they can; the `map` of `PROJECT.json`
gives the lines of each. An operator under a comment that starts with
"mutant:" is a deliberately wrong variant of the definition below it; no
specification uses it. It documents which mistake the property of the same
entry in `PROJECT.json` detects.

### LinkedTree
`tree`/`leafCount` are the committed leaves and `meta.leaf_count_before`.
`Execute` produces a write set; `VerifyUpdate` is `verify_tree_update` on any
list of entries, any number of operations and any leaf count; `StartApply`
takes any set of witness leaves, up to `MaxForged` of them forged;
`ApplyUpdate`/`ApplyInsert` are the two operations of `apply_writes`, which the
witness chooses freely; `Commit` compares the old root and installs the new
tree; `Reject` is the panic. A guard that fails in the code leaves only
`Reject` enabled. Hashing is collision resistant, so `OldRootMatches` compares
leaf by leaf; `TreeWalk` checks that step on the walk itself, with hashes as
free terms and every supplied hash possibly wrong.

### TreeWalk
`Start` checks the witness leaves and lays out level 0; `StepRight`, `StepPair`
and `StepLeft` combine the node under the cursor with a sibling that is
supplied, touched too, or provably empty; `LevelDone` moves up and `Finish`
ends. `hashes` are the intermediate hashes the walk has consumed, each of them
right or wrong.
`apply_reference` is the two-pass code kept in `merkle.rs`
for comparison: `zip_and_record` authenticates the old side and records the
siblings, `zip_from_authenticated` builds the new side from them.
`TwoPassAgrees` says that whatever the reference accepts the walk accepts with
the same root. The converse does not hold, and need not: the walk also takes a
witness that gives the hash of a leaf in place of the leaf the reference asks
for, and still ends in the right new root (`WalkSound`).

### WitnessStream
`pc` is the field to be read next. Proofs are verified when read
(`ReadProof`), roots recorded at the end of each block (`EndBlock`), and
compared with the pinned root after the last byte (`CheckRoots`); `BuildDb` is
the rest of `stream_deserialize_and_build_db` and the validation that follows
it. An input is arbitrary up to a number of faults. A proof is what
`StorageProof::verify` returns for it: an error, or a root and a value; one
that recovers the pinned root has the true value, which is `ProofsSound` of
`LinkedTree`. The account blob is reduced to its code; nonce and balance
travel inside it. The other assertions of `resolve_spec_and_validate` read the
same fields on both paths and are in `BatchCommit`.
Truncation is modelled as an input that ends before `batch_meta`; where in the
stream it ends does not matter to what is observed, a refusal.

### AccountWrites
Each transaction action is what revm's journal reports for one kind of
transaction (read, touch, transfer, credit, storage write, deployment,
deployment with destruction, delegation) followed by the whole commit of
`run_evm_block`; `SealBlock` drops no-op slots and folds the block's diff into
the batch. `Acceptable` is the after-preimage part of `build_revm_write_map`.
`native` is the reference: the leaf the native system keeps. Limits: an extra
zeroed leaf for a touched absent account is treated like its absence
(`Contents`); a force-deployed account is not also changed by a transaction of
the same batch, since what the leaf should be then is nowhere stated; the
history contract's write belongs to `BlockHashRing`.

### BlockHashRing
`StartBatch` authenticates the witnessed previous hashes against the committed
ring, one action executes a block (parent hash, timestamp checks, history
write) and the last one computes the ring after. The witness is the true
history with one edit: a wrong, doubled or missing entry. The history contract
is deployed between batches only: the code's comment says that a deployment
inside a batch disagrees with native and fails the tree update. The comparison
of a sealed block's header hash (`evm.rs`) can only refuse a batch and is left
out.

### BatchCommit
`DecodeInput` is the version dispatch, the conversion of an older schema and
`resolve_spec_and_validate`; `AdmitBlocks` the checks of the block sequence;
`ExecuteTx` one transaction with its authentication, gas rules, counters and
logs; `SealBlock` the block's roots and header; `Commit` the interop reads, the
upgrade gates, the DA commitment and the public input. The operator chooses
each part of the input when the guest first reads it, without restriction to
what is consistent. Hashes are the tagged sequence of the words they are taken
of, so two layouts can collide in the model exactly when their words are equal.

What a commitment means is decided by who accepts it. `L1Accepts(s, c, u, o)`
is a settlement layer at spec `s`, with chain configuration `c` and pending
upgrade `u`, recomputing the public input from what it stores; the properties
are of the form "if *any* such layer accepts, then what ran is ..."
(`WhenAccepted`). This layer is external: it is modelled from the fields the
commitment carries. `honest` records that every choice so far is one a server
makes and `meta` what the commitment used; both are history variables.

Observations the model records and the code intends. AtlasV1 and AtlasV2
commit alike, so they are told apart by the wire input only. The label of a
transaction (`TxAuth`) is not compared with the type inside its ABI encoding;
a mislabelled transaction gives a commitment that L1 does not accept
(`UpgradeFromL1`, `CommitsWhatRan`). The protocol minor version is
cross-checked against the spec and not committed. The conversion to version 3
drops two configuration flags without a check; no spec that can be sent in
version 3 admits them.

### Aggregation
`given` are the proof files, `claims` whether each public input that L1 holds
is one a batch really committed. `LoadProof`, `Assemble` and `FrameUnchecked`
are the host (the last is an input nobody checked); `ReadCount`, `ReadProof`
and `Finalize` the guest, reading frames from the stream; `Wrap` the SNARK;
`ParseProofFile`, `CheckRange` and `Settle` daemon, off-chain verifier and L1.
A proof is the statement it attests. The guest pins no key: all proofs must
carry the same keys, and the keys are committed, so that a range of foreign
proofs yields a digest L1 does not reproduce (`RangeSound`). Bytes are grouped
by four: little-endian words, big-endian keys and the widening of a 32-bit
public value to a u64 are conversions of the model, not identities.

### CryptoProvider
Every call is answered as the zkVM guest answers it (`impls.rs` over the C
symbols and hooks of the guest over zisklib) and as native execution does
(revm's defaults); `last` holds both answers, the hints emitted by the hint
build and the hooks reached. Curve groups are integers modulo a small prime
with classes of malformed encodings; modexp runs over base-2 digits and
two-digit limbs; kzg and the pairing checks follow from the exponents. SHA-256
and BLAKE2b compression are opaque on both builds, so only their hints are
modelled. zisklib is external, and `hooks.rs` describes it in two ways: the
comments on the hooks say that it follows the EIPs, those on three tests that it
departs from them in three cases. The variable `zisklib`, chosen in `Init`, says
which holds, and a call on which they differ is marked `disputed` (section 6).
BLAKE2s's permutation is uninterpreted and the buffering around it is
complete. `verify_and_address_recover` of the guest is a stub that panics and
that nothing reaches.

### ProverDaemon
A step runs from one await of the daemon's task to the next. `args` is the
command line, chosen in `Init`. The environment may send a signal, expire a
lease, finish a job elsewhere, restart the coordinator, let the subprocess
exit with success, failure, or success without a proof. A proof is represented
by the job it proves. `last` and `faults` are history variables, read by
properties only. Which verification keys a sequencer's jobs carry is reduced
to "supported or not" per sequencer; a directory that cannot be created is a
failed run.

## 3. Runs

| run | properties | bounds | size |
|---|---|---|---|
| `linked_tree` | `ListSound`, `ProofsSound`, `ProofsComplete`, `LeafCountExact`, `PositionsStable`, `RefinesKVStore` | keys 0..4, two values, two batches of at most two writes, one forged leaf | 520 thousand states, 70 s |
| `tree_walk` | `WalkSound`, `WalkAuthenticates`, `HonestAccepted`, `TwoPassAgrees`, `RecoverSound` | depth 3, two touched leaves, two inserts, one wrong hash | 890 thousand, 80 s |
| `witness_stream` | `ReadsAuthentic`, `HonestServed`, `RefinesCollecting` | one account, one slot, two blocks, three proofs, two faults | 1.6 million, 40 s |
| `account_writes` | `AccountsExact`, `OneLegalLeaf`, `HonestAccepted`, `StorageExact` | two accounts, three transactions, two blocks | 156 thousand, 25 s |
| `block_hash_ring` | `BlockhashExact`, `HeadersChained`, `HistoryExact`, `HonestAccepted` | window 3, history window 2, seven blocks, batches of up to four | 3.7 thousand, 15 s |
| `batch_commit` | `SpecPinned`, `UpgradeFromL1`, `CommitsWhatRan`, `InteropBoundaries`, `HonestAccepted` | two blocks, two transactions of every kind, a priority queue of two, all specs and wire versions, minors 30 to 34, two gas caps, trees of height 1 to 3 | 213 thousand, 2 min |
| `aggregation` | `RangeSound`, `HonestRangeAccepted`, `HostGuestAgree`, `WireChecksMatchL1`, `NativeVerifierExact` | up to three proofs and three batches, one odd kind of file, one bad claim, sections of two or three words | 964 thousand, 1 min |
| `aggregation_doc` | `CommitmentIsWireBytes32To64` (violated) | two batches | see section 6 |
| `crypto` | `GuestMatchesNative`, `DigestExact`, `HintsOncePerCall` | groups of order 5 and 11, two pairs, blocks of four bytes, messages of up to 13, both descriptions of zisklib | 1060, 14 s |
| `prover_daemon` | `SubmitsOwnProof`, `SurvivesOneFault`, `ProofKeptUntilRecorded` | two sequencers, one batch and one range each, both backends | 1.2 million, 30 s |
| `prover_live` | `CancelStops`, `EverySequencerPolled` | the same, coordinator only, no `--iterations` | 518 thousand, 2 to 3 min |
| `prover_idle` | `SleepsOnlyWhenNoneHadWork` (violated) | local backend | see section 6 |

Why the bounds are enough to be interesting. *Tree*: three slot keys and two
batches let an insert land before, between and after existing keys and follow
an insert of its own batch; five positions leave one past the count. *Walk*:
depth 3 has every combination of touched siblings, empty subtrees and a count
that is not a power of two. *Stream*: two blocks are the least for which roots
can be misaligned; three proofs allow a block with two, and a duplicate of a
key in a later block; two faults allow one to mask another. *Ring*: a window
of three is passed by the chain and by a single batch of four, and the history
ring of two wraps. *Accounts*: three transactions allow create, destroy and
recreate over a block boundary, two accounts a transfer. *Daemon*: two
sequencers with the same batch numbers share work directories, and a streak of
two distinguishes a full cycle from a repeated poll. *Commitment*: two blocks
put a boundary between transactions, a count of two tells a duplicate upgrade
from a single one, the gas caps lie on both sides of a transaction's limit, and
the minors reach one below and one above the supported ones; padded trees have
both empty and full sides. *Range*: one batch is not folded, two are, and three
distinguish the order of the fold; one odd kind of file may occur at any number
of positions. *Crypto*: groups small enough to enumerate every operand with
every malformed class; messages of 13 bytes cover three block boundaries. Each
call is independent of the others, hence the few states.

Deadlock checking is off in every run: a batch sequence, an input and a daemon
all end.

## 4. Fairness

Only `ProverDaemon` states liveness. `Spec` has `WF_vars(DaemonStep)`: the
task is scheduled by tokio whenever it can run, its sleeps end and its HTTP
requests have timeouts, so each of these steps happens. The exit of a
subprocess is *not* fair: a prover may run forever, and `CancelStops` holds
all the same because the code selects on the token and interrupts the child.
`EverySequencerPolled` assumes `WF_vars(ChildExits)` in its own statement,
since a prover that never exits does hold the loop. Servers, coordinator and
signals are never fair.

## 5. Theorems

Assumptions: the named `ASSUME`s of the modules, which are the shape of the
constants (a MAX key above 0, a zero value among the values, natural bounds, a
largest balance of at least 1, windows of at least 1, proof sections of at
least one word, a commitment of at least two). `EncodingsAssumption` of
`BatchCommit` says what the decoders guarantee of a transaction's encoding: the
bytes determine its fields, gas is a u64, an EIP-2718 envelope has none of the
protocol's three types (the decoder knows none of them), and only the calldata of an
import call holds roots. No bound on the number
of leaves, keys, writes, levels, accounts, blocks, jobs, batches or faults is used:
where a constant bounds a variable, the theorem holds for every value of it.
Each invariant below was checked by TLC on the run's instance before it was
proved.

`LinkedTreeProofs`. `TypeCorrect`, `ListAlwaysSound`, `ProofsAlwaysSound`,
`PositionsAlwaysStable`. `ListSound` is not inductive: an insert is checked
against leaves that earlier operations of the batch relinked, so the invariant
must also speak of the tree under construction. `ListInv` adds
`WorkingListSound`: while a batch is applied over an *authentic* witness, the
working copy merged with the committed leaves is one sorted list. The
hypothesis is needed because nothing is known of a forged witness until the
old root is compared, and `Commit` supplies it: a matching old root makes the
witness authentic. That non-existence proofs are sound then follows from the
list alone, including indices past the count where the leaf is empty.
`PositionsAlwaysStable` also needs that witness keys are never altered in the
working copy (`WitnessKeysKept`). `ProofsAlwaysComplete` is the converse of
soundness: an absent key has a nearest smaller and a nearest larger leaf, and
the sorted list makes them neighbours.

`LinkedTreeProofs`, second part. `Implements`: `LinkedTree` implements `KVStore` under
`kv <- Map`. The invariant `RefInv` adds that entries are exactly the pending
writes and that the working copy holds the new values of the operations done
so far and the committed values elsewhere, so that at `Commit` the new map is
the old one overridden. `LeafCountAlwaysExact`: distinct keys and the list
give as many keys as positions.

`WitnessStreamProofs`. `StreamImplementsCollecting` and
`ReadsAlwaysAuthentic`. The invariant `StreamInv` says where the cursor is,
that each recorded root is the common root of its block's proofs or none
(`Roots`), and that the values kept so far are those of the *first* proof of
each key in wire order (`Values`). When the deferred comparison passes, all
proofs read are proofs of the pinned root, so the refusals and the database
coincide with those of the collecting path. `HonestAlwaysServed` adds that a
faultless input leaves no reason to refuse and that the first proof of each
proven key exists and holds the committed value.

`TreeWalkProofs`. `WalkAlwaysSound`, `WalkAlwaysAuthenticates`,
`HonestWalkAlwaysAccepted`, `TwoPassAlwaysAgrees` and `RecoverAlwaysSound`, for
every depth. The
properties speak of the last state only, so `WalkInv` relates the half-built
level to both trees at every step: the cursor has passed exactly the nodes
whose parents are in the upper level (`ShapeInv`); a node whose old hash is the
old tree's has the new tree's new hash, and nodes that are not on a touched
path are equal in both trees (`NewInv`); the nodes not yet folded are all
authentic exactly when everything the walk was given so far was (`AllMatch <=>
Authentic`). The last is an equivalence because hashing is injective: one
wrong leaf or hash can never be repaired further up, and it gives soundness and
completeness at once. That `Empty` is the hash of every subtree past the leaf
count, and that the hash of a tree determines its leaves, are inductions over
the height.

`TwoPassAlwaysAgrees` compares the walk with `apply_reference`, a recursion over
whole levels that stops asking for siblings at the last node of a level where
the walk asks whether the sibling starts past the leaf count. A second
invariant, `ReadInv` (`ReadsAlways`), says what the walk consumes: the level is
the paths of the touched and inserted positions, and the list holds one hash
for each of `AllReads`, the populated siblings beside those paths, in the order
of height and position; it misses no hash that is not the old tree's. The
reference may read fewer siblings, since its first pass does not know the
inserted leaves, but then its second pass fails. If it does not fail
(`FitsResolves`), the two rules read the same nodes (`ReadsAlike`): were a
sibling of a touched path above the inserted leaves, then at the lowest level
where the node above the leaf count starts before it the reference would miss
the node to its left (`OffTouched`). So both take the same hash from the same
place (`ZipCounts`); the committed root pins all of them from the top down
(`ZipAuthenticates`), which makes the walk's input authentic, and both new roots
are then that of the tree after the writes (`ZipsNewRoot`).

The walk takes the hash of a leaf or of a node for an injective function of what
is hashed. The last part of the module proves that of the hasher, for every
block and slot size: `StreamingDigest`, that the digest is the reference's
however the input is split, by the invariant `Holds` (k whole blocks compressed,
the rest of the message in a buffer whose tail may be stale, and an empty buffer
only before the first byte, since a full one waits for more input);
`NodeDigest`, that the one-compression `node_hash` is the digest of its two
children; `DigestInjective`, that padding never makes two messages alike. They
read the operators of `Blake2s` only; a collision of `compress` is left out.

`AccountWritesProofs`. `AccountsAlwaysExact`, `AlwaysOneLegalLeaf`,
`NativeAlwaysAccepted` and `StorageAlwaysExact`. The guest derives the legal
leaf from the state the *last* transaction left in the cache, while native's
leaf is the result of all of them. `WritesInv` says per account what ties the
two: the code fields the guest expects are native's (`WrittenInv`), an account
that execution did not write is as before or was force-deployed
(`UnwrittenInv`), and the facts that make the guest's shortcuts right, e.g. an
unchanged nonce means unchanged code, a destroyed account had nonce zero, a
deployed one never delegates (`LifeInv`). A block's diff starts from what the
sealed blocks left (`SlotInv`).

`BlockHashRingProofs`. `BlockhashAlwaysExact`, `HeadersAlwaysChained`,
`HistoryAlwaysExact` and `HonestHashesAlwaysAccepted`, for every window and
every length of the chain. `RingInv` states which block each slot of the ring
holds (`RingExact`), what the BLOCKHASH map holds in the middle of a batch
(`MapExact`), and that the committed and the running history contract each
serve the window below their own last block (`HistoryInv`); a block number and
its slot are related by `n % HistoryWindow`, so two blocks of one window must
be shown never to share a slot. A witness that authenticates is the true
history because a slot and its hash are compared one by one.

`ProverDaemonProofs`. `AlwaysSubmitsOwnProof`, `ProofsAlwaysKept` and
`AlwaysSurvivesOneFault`, for any number of sequencers and jobs. `DirsInv`: a
running prover's directory holds no proof, and a directory only ever holds a
proof of a job that uses it. `ProgramsInv`: the daemon asks only for jobs of
programs it set up. `FaultsInv` counts the faults a run must have met by the
time it reaches each stage; a coordinator that forgot a set-up before the run
began is the case that needs the count to start at the run's beginning.

`AggregationProofs`. All five properties of the lane, for every range length
and every section size: `RangeAlwaysSound`, `HonestRangeAlwaysAccepted`,
`HostGuestAlwaysAgree`, `WireChecksAlwaysMatchL1`, `NativeVerifierAlwaysExact`.
They rest on the layouts. Flattening sequences of equal pieces is injective,
and so are `LeBytes` and `extend_be`; `StreamLayout` and `WireFields` say what
each accessor finds in a stream and in the wire values, and `FileExact` which
files parse. The guest may be fed any framing, so soundness cannot follow
frames: the invariant `LaneInv` speaks of single quads instead. A quad of a
STARK body that names the STF key, the release setup and the leaf flag names
publics some execution committed (`OkQuad`), every slice and every
concatenation keeps this (`AllOk`), and hence whatever the guest cuts out of
its input and verifies under the pinned keys is real (`VerifiedWords`). From
L1's side the digest of the accepted SNARK determines keys and public inputs
one by one (`DigestPins`). One public input and a hash of several cannot be
taken for each other since a digest is a constructor of the model: collision
resistance of keccak and sha256 is the model's assumption, not a result.
`HostInv` is the second invariant, for the inputs the assembler wrote: `pos` is
the offset of the next stream's frame, always on a word boundary, the public
inputs read so far are those of the files in the order given, and every refusal
has its reason. That `decode_frames` inverts the framing (`DecodeFramed`) is an
induction over the frames from the end.

`BatchCommitProofs`. All five properties of a batch: `SpecPinnedHolds`,
`UpgradeFromL1Holds`, `CommitsWhatRanHolds`, `InteropBoundariesHold` and
`HonestAcceptedHolds`, for any set of encodings, any number of blocks and
transactions, any gas caps, tree heights and priority queue. The properties
speak of the public input only, long after the checks it depends on, so
`BatchInv` (`BatchSound`) carries those checks to the end: the input's values
are the ones its wire version and spec admit (`InputSound`), the blocks follow
each other (`BlocksSound`), each executed transaction's label fits the shape of
its encoding and its hash is the encoding's (`TxsSound`), each header is the one
of its block's transactions and of the header before (`HeadersSound`), an honest
batch has at most one upgrade (`HonestSound`), the settlement layer's id stays
one the contract can hold (`TreeSound`), and a finished batch passed every check
of `Commit` (`Committed`). From L1's side, `Accepted` says what a layer of any
spec that accepts the public input has found at the positions of *its* layout
(`Opens`); since a hash is a constructor, the layouts that can be taken for each
other are those of `Alike`, and each word can be read back. `TxsSound` does not
say that a label is the *type* inside the encoding, which the code does not
check: `LabelsAreTypes` derives it for accepted batches. A hash in the priority
queue or the pending upgrade's hash determines the encoding, hence its type; the
committed number of priority operations and the rolling hash determine the list.
What is computed in one way and specified in another is shown equal for every
size: `FoldedIsPadded`, that the in-place fold over a table of empty subtrees is
the root of the padded tree for every height and leaf count, and the folds over
transactions and imported roots. That a digest determines the words it is taken
of is, here too, the model's assumption.

Induction. The library's induction theorems take an operator as a parameter
and cannot be used, but the well-foundedness of `<` on the naturals is a
first-order fact: every non-empty set of naturals has a least element
(`LeastElement`). The inductions over positions, levels and steps of a
sequence above are arguments about the least counterexample. Recursive
functions and folds are `CHOOSE`n in TLA+; that one satisfying the equation
exists is itself proved that way. In `BatchCommitProofs` a step of a fold or of
a recursive function is named by a tag (`FoldStep`, `RecStep`), so that one
existence lemma serves all of them.

Model-checked only. Liveness (`CancelStops`, `EverySequencerPolled`), which is
out of the prover's reach. The properties of `CryptoProvider`, which compares
two computations of one value case by case; TLC enumerates the cases. Of its
`DigestExact`, what it says of every buffering is `StreamingDigest` and
`NodeDigest`; the property itself is about that module's `last`.

## 6. Findings

`prover_idle`: `prover/README.md` and a comment in `main.rs` say that the
daemon sleeps only after a full cycle in which no sequencer had work. The code
leaves the idle streak unchanged by a failed job, so it may sleep after a
cycle in which one sequencer handed out a job that failed. The unit test agrees
with the code. The effect is one poll interval of delay before the failed job
is tried again; every sequencer is still polled (`EverySequencerPolled`).

`aggregation_doc`: comments of `guest-aggregator/src/lib.rs` (lines 63 and 283)
place the commitment of a proof in bytes 32 to 64 of the wire's public values,
and rootC (lines 52 and 374) at 288 to 320. `parse_proof_file` writes every
public value as a u64, so the commitment is in bytes 32 to 96, four zero bytes
after each four, and rootC at 544 to 576. `inspect_proof.rs`, `E2E_SETUP.md`,
`BINDING_VECTOR.md` and `zisk-verifier` agree with the code, and
`WireChecksMatchL1` shows that all readers do; only the comments are stale.

Comments about zisklib, without a run of their own since its source is not in
the repository. The comments of `hooks.rs` disagree. On the hooks they say that
zisklib validates every MSM point before it drops a pair with a zero scalar
(lines 251-252), that a map that meets the identity gives the identity (346-348)
and that P-256 keys are checked as the reference checks them (175-181). On three
tests they say that it drops such pairs unchecked (1491-1495), aborts on such
maps (1703-1705) and corrupts the hint for keys with x = 0 (1003-1008), and, in the
first and last case, that the hook therefore routes the call to a software
reference. No hook does: each hands its operands to zisklib and nothing else
(264, 309, 351, 188). The tests themselves assert that guest and native agree.
`GuestMatchesNative` is checked under both descriptions. Under that of the hooks
guest and native agree on every call. Under that of the tests' comments they
differ on the disputed calls, and only there: an MSM of an invalid point with a
zero scalar succeeds in the guest and halts natively, a map to the identity
aborts the guest, and a valid signature under a P-256 key with x = 0 is rejected
by it (TLC finds each of these when the exception for disputed calls is taken out
of the property). Either the test comments date from before an upgrade of zisklib
(`CHANGELOG.md` has several) and should go, or the hooks need the software path
back; running the three tests tells which.

## 7. Plan

Done, in this order: storage tree and its refinement, walk, ring, daemon,
account leaves, witness stream; wire formats, admission and commitment with
interop and transactions; the aggregated lane; the crypto backends; the
two-pass reference of the walk; proofs for the tree, the stream, the walk,
the ring, the account leaves, the daemon, the aggregated lane and the batch
commitment.

Left: `Batch`, that is `WitnessStream`, `AccountWrites`, `BlockHashRing`, `LinkedTree` and
`BatchCommit` composed at the level of their abstract specifications: the
state after a batch is a function of the state before and the transactions.
At present each of them takes the others' guarantees as its assumptions, as
the headers of the modules say.

## 8. Not modelled

- Numeric kernels: the arithmetic of zisklib, curves and hash permutations, and
  the polynomial checks of the STARK verifier. Model checking cannot reach
  them; what surrounds them (validation order, conversions, return codes,
  which key is trusted) is modelled.
- revm: modelled from how `evm.rs` and `tx.rs` use it and marked external. Fee
  arithmetic and the RLP and ABI bytes of a transaction are abstracted to the
  fields their decoders yield.
- A deployment of the history contract inside a batch (`eip2935.rs` says that
  such a batch fails the tree update).
- The points of return inside signer recovery: the guard that resumes hints is
  dropped on every one of them, and is modelled as one step.
- Force deployments of an account that transactions of the same upgrade batch
  also change: the leaf it should have is nowhere stated. `UpgradeFromL1` says
  that force deployments need an authentic upgrade.
- Metrics, argument parsing and printing: no state the program reads back.
- Test and benchmark tools (`tools/`), build, release and rotation scripts,
  vendored crates: around the program, not part of it.

---------------------------- MODULE AccountWrites ----------------------------
(***************************************************************************)
(* How the guest turns what a batch executed into the batch's tree writes  *)
(* (executor/evm.rs run_evm_block, executor/verify.rs                      *)
(* build_revm_write_map, account_props.rs).                                *)
(*                                                                         *)
(* The operator supplies the account leaves of the post-state; the guest   *)
(* may accept a leaf only if execution produced it, must insist on one for *)
(* every account execution changed, and must accept the leaves native      *)
(* ZKsync OS writes, or a legitimate batch cannot be proved.  What         *)
(* execution did is read from three places that forget different things:   *)
(* the CacheDB overlay (which does not tell a destroyed account from one   *)
(* that a read found absent), the set of destroyed accounts and the set of *)
(* completed deployments, both taken from the execution journal.           *)
(*                                                                         *)
(* `native` follows, step by step, the leaf native ZKsync OS keeps for the *)
(* account: the reference the accepted leaves are compared with.  Each     *)
(* account has one storage slot.                                           *)
(***************************************************************************)
EXTENDS Naturals, FiniteSets

CONSTANTS
    Accounts,    \* the addresses of the batch
    MaxBalance,  \* bound on a balance
    MaxNonce,    \* bound on a nonce
    MaxTxs,      \* bound on the transactions of a batch
    MaxBlocks    \* bound on the blocks of a batch

ASSUME WritesAssumption ==
    /\ IsFiniteSet(Accounts)
    /\ MaxBalance \in Nat \ {0} /\ MaxNonce \in Nat \ {0}
    /\ MaxTxs \in Nat /\ MaxBlocks \in Nat \ {0}

(* CodeFields: the six code-derived fields of a leaf, by what they encode. *)
(* "other" stands for any value no code derives.                           *)
Codes  == {"none", "contract", "delegation"}
Fields == {"zero", "deployed_empty", "contract", "delegation", "other"}

evm_code_fields(code) == IF code = "none" THEN "deployed_empty" ELSE code

(* The code REVM sees behind the fields of an authenticated leaf. *)
Observable(fields) == IF fields \in {"contract", "delegation"} THEN fields ELSE "none"

Nonces   == 0..MaxNonce
Balances == 0..MaxBalance
Infos    == [nonce : Nonces, balance : Balances, code : Codes]
Leaves   == [nonce : Nonces, balance : Balances, fields : Fields]
NoLeaf   == [nonce |-> 0, balance |-> 0, fields |-> "absent"]
ZeroLeaf == [nonce |-> 0, balance |-> 0, fields |-> "zero"]
DefaultInfo == [nonce |-> 0, balance |-> 0, code |-> "none"]

VARIABLES
    pre,        \* the authenticated pre-state leaf of each account, or NoLeaf
    preSlot,    \* the authenticated pre-state value of each account's slot
    upgrade,    \* meta.upgrade_tx_hash is nonzero
    cache,      \* the CacheDB entry of each account
    slot,       \* the value of each account's slot, overlay included
    destroyed,  \* destroyed_accounts
    deployed,   \* deployed_accounts
    blockDiff,  \* run_evm_block's slot_writes: account -> <<first, last>>
    writes,     \* storage_writes of the batch: account -> value
    txs,        \* transactions executed so far
    blocks,     \* blocks sealed so far
    native,     \* the leaf native keeps for each account, or NoLeaf
    changed     \* the accounts native recorded a change for in this batch

batch  == <<pre, preSlot, upgrade>>
vars == <<batch, cache, slot, destroyed, deployed, blockDiff, writes, txs,
          blocks, native, changed>>

(* The leaves a chain can hold at the start of a batch. *)
PreLeaves ==
    {NoLeaf, ZeroLeaf}
        \cup [nonce : {0, 1}, balance : {1}, fields : {"zero"}]
        \cup [nonce : {1}, balance : {0}, fields : {"deployed_empty", "contract", "delegation"}]

Unloaded == [state |-> "Unloaded", info |-> DefaultInfo]

Init ==
    /\ pre \in [Accounts -> PreLeaves]
    /\ preSlot \in [Accounts -> {0, 1}]
    /\ \A a \in Accounts : preSlot[a] = 1 => pre[a].fields = "contract"
    /\ upgrade \in BOOLEAN
    /\ cache = [a \in Accounts |-> Unloaded]
    /\ slot = preSlot
    /\ destroyed = {}
    /\ deployed = {}
    /\ blockDiff = << >>
    /\ writes = << >>
    /\ txs = 0
    /\ blocks = 0
    /\ native = pre
    /\ changed = {}

-----------------------------------------------------------------------------
(* ProvenDB and the CacheDB overlay *)

(* basic_ref *)
PreInfo(a) == [nonce |-> pre[a].nonce, balance |-> pre[a].balance,
               code |-> Observable(pre[a].fields)]

Info(a) == IF cache[a].state = "Unloaded" THEN PreInfo(a) ELSE cache[a].info

(* A read loads the account; an absent one is cached as NotExisting. *)
Loaded(a) ==
    IF cache[a].state # "Unloaded" THEN cache[a]
    ELSE IF pre[a] = NoLeaf THEN [state |-> "NotExisting", info |-> DefaultInfo]
    ELSE [state |-> "None", info |-> PreInfo(a)]

(* CacheDB::commit for one account of a transaction's journal. *)
Committed(a, j) ==
    IF j.destroyed THEN [state |-> "NotExisting", info |-> DefaultInfo]
    ELSE [state |-> IF j.created \/ cache[a].state = "StorageCleared"
                    THEN "StorageCleared" ELSE "Touched",
          info |-> j.info]

-----------------------------------------------------------------------------
(* run_evm_block: the state effects of one transaction *)

Touched(a)     == [info |-> Info(a), slot |-> slot[a], created |-> FALSE, destroyed |-> FALSE]
Updated(a, i)  == [Touched(a) EXCEPT !.info = i]
Stored(a, v)   == [Touched(a) EXCEPT !.slot = v]

(* mutant: a block compares with the batch pre-state *)
SlotChangeFromPreState(a, v) == <<preSlot[a], v>>

(* slot_writes: the first value seen and the last one written in the block. *)
SlotChange(a, v) ==
    <<IF a \in DOMAIN blockDiff THEN blockDiff[a][1] ELSE slot[a], v>>

(* An account whose code a force-deploy wrote behind REVM's back. *)
ForceDeployed(a) == Observable(native[a].fields) # Info(a).code

(* The transaction's journal J: account -> what the transaction left of it.*)
(* No transaction reaches a force-deployed account in the same batch: the  *)
(* guest derives the fields of an account execution wrote from REVM alone. *)
Transact(J) ==
    LET changes == {a \in DOMAIN J : ~J[a].destroyed /\ J[a].slot # slot[a]}
    IN  /\ txs < MaxTxs
        /\ blocks < MaxBlocks
        /\ \A a \in DOMAIN J : ~ForceDeployed(a)
        /\ cache' = [a \in Accounts |-> IF a \in DOMAIN J THEN Committed(a, J[a]) ELSE cache[a]]
        /\ slot' = [a \in Accounts |->
                      IF a \notin DOMAIN J THEN slot[a]
                      ELSE IF J[a].destroyed THEN 0 ELSE J[a].slot]
        /\ destroyed' = destroyed \cup {a \in DOMAIN J : J[a].destroyed}
        /\ deployed' = deployed \cup {a \in DOMAIN J : J[a].created /\ ~J[a].destroyed}
        /\ blockDiff' = [a \in DOMAIN blockDiff \cup changes |->
                           IF a \in changes THEN SlotChange(a, J[a].slot) ELSE blockDiff[a]]
        /\ txs' = txs + 1
        /\ UNCHANGED <<batch, writes, blocks>>

(* Native rewrites a leaf's nonce and balance and keeps its code fields    *)
(* unless the change writes code.                                          *)
Fieldsof(a) == IF native[a] = NoLeaf THEN "zero" ELSE native[a].fields
NativeLeaf(i, fields) == [nonce |-> i.nonce, balance |-> i.balance, fields |-> fields]
NativeKeeps(N) ==
    /\ native' = [a \in Accounts |-> IF a \in DOMAIN N THEN N[a] ELSE native[a]]
    /\ changed' = changed \cup DOMAIN N

(* A transaction that only loads or only touches an account. *)
Read(a) ==
    /\ cache[a].state = "Unloaded"
    /\ cache' = [cache EXCEPT ![a] = Loaded(a)]
    /\ UNCHANGED <<batch, slot, destroyed, deployed, blockDiff, writes, txs,
                   blocks, native, changed>>

Touch(a) == Transact([x \in {a} |-> Touched(x)]) /\ UNCHANGED <<native, changed>>

Transfer(a, b) ==
    /\ a # b /\ Info(a).balance > 0 /\ Info(b).balance < MaxBalance
    /\ LET debit  == [Info(a) EXCEPT !.balance = @ - 1]
           credit == [Info(b) EXCEPT !.balance = @ + 1]
           J      == [x \in {a, b} |-> Updated(x, IF x = a THEN debit ELSE credit)]
       IN  /\ Transact(J)
           /\ NativeKeeps([x \in {a, b} |-> NativeLeaf(J[x].info, Fieldsof(x))])

(* An L1 deposit. *)
Credit(a) ==
    /\ Info(a).balance < MaxBalance
    /\ LET i == [Info(a) EXCEPT !.balance = @ + 1]
       IN  /\ Transact([x \in {a} |-> Updated(x, i)])
           /\ NativeKeeps([x \in {a} |-> NativeLeaf(i, Fieldsof(x))])

Store(a, v) ==
    /\ Info(a).code = "contract"
    /\ Transact([x \in {a} |-> Stored(x, v)])
    /\ UNCHANGED <<native, changed>>

(* A create frame may run where no account with a nonce or code lives. *)
Creatable(a) == Info(a).nonce = 0 /\ Info(a).code = "none"

Deploy(a, code, v) ==
    /\ Creatable(a)
    /\ code = "none" => v = 0
    /\ LET i == [Info(a) EXCEPT !.nonce = 1, !.code = code]
       IN  /\ Transact([x \in {a} |-> [info |-> i, slot |-> v, created |-> TRUE,
                                       destroyed |-> FALSE]])
           /\ NativeKeeps([x \in {a} |-> NativeLeaf(i, evm_code_fields(code))])

(* EIP-6780: created and destroyed in one transaction; the balance goes to *)
(* the beneficiary b, or is burnt.  Native zeroes a leaf of the pre-state  *)
(* and records none for an account the batch itself brought up.            *)
DeployAndDestroy(a, b) ==
    /\ Creatable(a)
    /\ a # b => Info(b).balance + Info(a).balance <= MaxBalance
    /\ LET gone == [info |-> DefaultInfo, slot |-> 0, created |-> TRUE, destroyed |-> TRUE]
           paid == [Info(b) EXCEPT !.balance = @ + Info(a).balance]
       IN  /\ Transact([x \in {a, b} |-> IF x = a THEN gone ELSE Updated(x, paid)])
           /\ NativeKeeps([x \in {a} \cup (IF Info(a).balance > 0 THEN {b} ELSE {}) |->
                  IF x = a THEN (IF pre[x] = NoLeaf THEN NoLeaf ELSE ZeroLeaf)
                  ELSE NativeLeaf(paid, Fieldsof(x))])

(* EIP-7702: an account without deployed code sets or clears a delegation. *)
Delegate(a, code) ==
    /\ code \in {"none", "delegation"}
    /\ Fieldsof(a) \in {"zero", "delegation"}
    /\ Info(a).nonce < MaxNonce
    /\ LET i == [Info(a) EXCEPT !.nonce = @ + 1, !.code = code]
       IN  /\ Transact([x \in {a} |-> Updated(x, i)])
           /\ NativeKeeps([x \in {a} |->
                  NativeLeaf(i, IF code = "none" THEN "zero" ELSE "delegation")])

(* A system force-deploy of an upgrade batch: REVM never sees it. *)
ForceDeploy(a) ==
    /\ upgrade
    /\ cache[a].state \in {"Unloaded", "None", "NotExisting"} /\ a \notin destroyed
    /\ native[a].fields \in {"absent", "zero"}
    /\ NativeKeeps([x \in {a} |-> [nonce |-> native[x].nonce, balance |-> native[x].balance,
                                   fields |-> "contract"]])
    /\ UNCHANGED <<batch, cache, slot, destroyed, deployed, blockDiff, writes, txs, blocks>>

-----------------------------------------------------------------------------
(* The end of a block: its net changes join the batch's storage writes. *)
NetChanges == {a \in DOMAIN blockDiff : blockDiff[a][1] # blockDiff[a][2]}

SealBlock ==
    /\ blocks < MaxBlocks
    /\ writes' = [a \in DOMAIN writes \cup NetChanges |->
                    IF a \in NetChanges THEN blockDiff[a][2] ELSE writes[a]]
    /\ blockDiff' = << >>
    /\ blocks' = blocks + 1
    /\ UNCHANGED <<batch, cache, slot, destroyed, deployed, txs, native, changed>>

Executed == blocks > 0 /\ blockDiff = << >>

Next ==
    \/ \E a \in Accounts : Read(a) \/ Touch(a) \/ Credit(a) \/ ForceDeploy(a)
    \/ \E a \in Accounts, b \in Accounts : Transfer(a, b) \/ DeployAndDestroy(a, b)
    \/ \E a \in Accounts, v \in {0, 1} : Store(a, v)
    \/ \E a \in Accounts, code \in {"none", "contract"}, v \in {0, 1} : Deploy(a, code, v)
    \/ \E a \in Accounts, code \in Codes : Delegate(a, code)
    \/ SealBlock

Spec == Init /\ [][Next]_vars

-----------------------------------------------------------------------------
(* build_revm_write_map: which after-preimages are accepted *)

(* mutant: destructions are read from the cache alone *)
PostStateFromCache(a) ==
    IF cache[a].state \in {"Touched", "StorageCleared"} THEN "Written" ELSE "Unwritten"

post_state(a) ==
    IF cache[a].state \in {"Touched", "StorageCleared"} THEN "Written"
    ELSE IF cache[a].state \in {"NotExisting", "Unloaded"} /\ a \in destroyed THEN "Destroyed"
    ELSE "Unwritten"

expected_code_fields(a) ==
    IF Info(a).code # "none" THEN evm_code_fields(Info(a).code)
    ELSE IF a \in deployed THEN evm_code_fields("none")
    ELSE IF pre[a] # NoLeaf /\ Observable(pre[a].fields) = "none" THEN pre[a].fields
    ELSE "zero"

(* mutant: either encoding of no code is accepted *)
EitherEmptyEncoding(a, fields) ==
    IF Info(a).code # "none" THEN fields = Info(a).code
    ELSE fields \in {"zero", "deployed_empty"}

CodeFieldsMatch(a, fields) == fields = expected_code_fields(a)

(* A leaf no code derives is refused: no_code_fields_valid and the         *)
(* recomputation from the code, for an account execution never wrote.      *)
SelfConsistent(p) == p.fields \in {"zero", "deployed_empty", "contract", "delegation"}

MayBeUnwritten(a) == upgrade

PreimageAccepted(a, p) ==
    CASE post_state(a) = "Written" ->
            /\ p.nonce = Info(a).nonce
            /\ p.balance = Info(a).balance
            /\ CodeFieldsMatch(a, p.fields)
      [] post_state(a) = "Destroyed" -> pre[a] # NoLeaf /\ p = ZeroLeaf
      [] post_state(a) = "Unwritten" -> MayBeUnwritten(a) /\ SelfConsistent(p)

(* mutant: a destroyed account needs no preimage *)
ChangedIfWritten(a) ==
    post_state(a) = "Written"
        /\ <<Info(a).nonce, Info(a).balance>> # <<pre[a].nonce, pre[a].balance>>

(* Completeness: an account whose nonce or balance moved needs a preimage. *)
NeedsPreimage(a) ==
    /\ cache[a].state # "Unloaded"
    /\ post_state(a) # "Unwritten"
    /\ LET post == IF post_state(a) = "Destroyed" THEN DefaultInfo ELSE cache[a].info
       IN  <<post.nonce, post.balance>> # <<pre[a].nonce, pre[a].balance>>

(* What the operator may supply for one account: NoLeaf is no preimage.    *)
(* The checks of two accounts are independent, so a batch is accepted      *)
(* exactly when each account's choice is among these.                      *)
Acceptable(a) ==
    {p \in Leaves : PreimageAccepted(a, p)} \cup (IF NeedsPreimage(a) THEN {} ELSE {NoLeaf})

LeafAfter(a, p) == IF p = NoLeaf THEN pre[a] ELSE p

-----------------------------------------------------------------------------
(* Properties *)

(* An account absent from the tree reads as the zeroed one. *)
Contents(leaf) == IF leaf = NoLeaf THEN ZeroLeaf ELSE leaf

(* An account a force-deploy may have rewritten behind REVM's back. *)
TrustedHole(a) == upgrade /\ post_state(a) = "Unwritten"

(* Whatever preimage the guest accepts for an account, or its absence,     *)
(* leaves the tree with the contents native has for it: no balance, nonce  *)
(* or code can be injected, kept alive or dropped.  The accounts an upgrade*)
(* batch force-deploys are the documented exception.                       *)
AccountsExact ==
    Executed => \A a \in Accounts :
        TrustedHole(a) \/
        \A p \in Acceptable(a) : Contents(LeafAfter(a, p)) = Contents(native[a])

(* verify.rs 167: "the account has one legal leaf and the preimage carries *)
(* no operator choice": two accepted preimages of one account are equal.   *)
OneLegalLeaf ==
    Executed => \A a \in Accounts :
        TrustedHole(a) \/ Cardinality(Acceptable(a) \ {NoLeaf}) <= 1

(* The preimages native itself produces (one for every account it recorded *)
(* a change for and still keeps a leaf of) are accepted, whatever mix of   *)
(* creations, destructions, delegations and transfers the batch holds.     *)
NativePreimage(a) == IF a \in changed THEN native[a] ELSE NoLeaf
HonestAccepted ==
    Executed => \A a \in Accounts : NativePreimage(a) \in Acceptable(a)

(* The batch's storage writes, applied to the pre-state, give the values   *)
(* execution left, also for a slot that one block changes and a later one  *)
(* changes back.                                                           *)
StorageExact ==
    Executed => \A a \in Accounts :
        slot[a] = IF a \in DOMAIN writes THEN writes[a] ELSE preSlot[a]
=============================================================================

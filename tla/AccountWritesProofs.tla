------------------------ MODULE AccountWritesProofs ------------------------
(***************************************************************************)
(* The leaves the guest accepts after a batch are native's, and its storage *)
(* writes are execution's, for any set of accounts, number of transactions  *)
(* and number of blocks.                                                    *)
(***************************************************************************)
EXTENDS AccountWrites, FiniteSetTheorems, TLAPS

States == {"Unloaded", "None", "NotExisting", "Touched", "StorageCleared"}

TypeInv ==
    /\ pre \in [Accounts -> PreLeaves]
    /\ cache \in [Accounts -> [state : States, info : Infos]]
    /\ native \in [Accounts -> Leaves \cup {NoLeaf}]
    /\ destroyed \subseteq Accounts /\ deployed \subseteq Accounts /\ changed \subseteq Accounts

\* An account the batch has at most read.
Unwritten(a) ==
    \/ cache[a].state \in {"Unloaded", "None"}
    \/ cache[a].state = "NotExisting" /\ a \notin destroyed

\* What the CacheDB entry alone remembers, and what it forgets.
CacheInv(a) ==
    /\ Unwritten(a) => Info(a) = PreInfo(a)
    /\ cache[a].state \in {"Unloaded", "None"} => a \notin destroyed
    /\ cache[a].state \in {"Unloaded", "None", "NotExisting"} => a \notin deployed
    /\ cache[a].state = "NotExisting" /\ a \in destroyed => Info(a) = DefaultInfo

\* Native's leaf of an account execution has not written: the pre-state's, or
\* one whose code a force-deploy wrote.
UnwrittenInv(a) ==
    Unwritten(a) =>
        /\ a \in changed <=> native[a] # pre[a]
        /\ native[a] # pre[a] =>
             /\ upgrade
             /\ pre[a].fields \in {"absent", "zero"}
             /\ native[a] = [nonce |-> pre[a].nonce, balance |-> pre[a].balance,
                             fields |-> "contract"]

\* Native's leaf of one that execution wrote or destroyed.
WrittenInv(a) ==
    ~Unwritten(a) =>
        /\ native[a].nonce = Info(a).nonce /\ native[a].balance = Info(a).balance
        /\ Fieldsof(a) = expected_code_fields(a)
        /\ Info(a).nonce = pre[a].nonce => Fieldsof(a) = Contents(pre[a]).fields
        /\ cache[a].state = "NotExisting" =>
             native[a] = IF pre[a] = NoLeaf THEN NoLeaf ELSE ZeroLeaf
        /\ a \notin changed => native[a] = pre[a]

\* Nonces only grow, a destroyed account had none, a deployed one has and
\* neither it nor one deployed without code before ever delegates.
LifeInv(a) ==
    /\ native[a] = NoLeaf => pre[a] = NoLeaf
    /\ Info(a).nonce >= pre[a].nonce
    /\ a \in destroyed => pre[a].nonce = 0
    /\ a \in deployed => Info(a).nonce >= 1 /\ Info(a).code \in {"none", "contract"}
    /\ pre[a].fields = "deployed_empty" => Info(a).code # "delegation"

AccountInv(a) == CacheInv(a) /\ UnwrittenInv(a) /\ WrittenInv(a) /\ LifeInv(a)

\* Only contracts have storage; a block's diff starts from the values the
\* sealed blocks left and ends in the present ones.
Sealed(a) == IF a \in DOMAIN writes THEN writes[a] ELSE preSlot[a]
SlotInv(a) ==
    /\ slot[a] # 0 => Info(a).code = "contract"
    /\ IF a \in DOMAIN blockDiff
       THEN blockDiff[a][1] = Sealed(a) /\ blockDiff[a][2] = slot[a]
       ELSE slot[a] = Sealed(a)

WritesInv ==
    /\ TypeInv
    /\ DOMAIN slot = Accounts
    /\ \A a \in Accounts : AccountInv(a) /\ SlotInv(a)

-----------------------------------------------------------------------------
(* Records. *)

LEMMA InfoFields ==
    ASSUME NEW i \in Infos
    PROVE  /\ i.nonce \in Nonces /\ i.balance \in Balances /\ i.code \in Codes
           /\ i = [nonce |-> i.nonce, balance |-> i.balance, code |-> i.code]
BY DEF Infos

\* The leaves a batch starts from.
LEMMA PreFacts ==
    ASSUME TypeInv, NEW a \in Accounts
    PROVE  /\ pre[a].nonce \in {0, 1} /\ pre[a].balance \in {0, 1}
           /\ pre[a] = NoLeaf \/ (pre[a] \in Leaves /\ pre[a].fields \in Fields)
           /\ pre[a].fields = "absent" <=> pre[a] = NoLeaf
           /\ pre[a] = [nonce |-> pre[a].nonce, balance |-> pre[a].balance,
                        fields |-> pre[a].fields]
           /\ pre[a].fields \in {"absent", "zero", "deployed_empty", "contract", "delegation"}
           /\ pre[a].nonce = 0 => pre[a].fields \in {"absent", "zero"}
           /\ PreInfo(a) \in Infos
<1>0. pre[a] \in PreLeaves
  BY DEF TypeInv
<1>1. 0 \in Nonces /\ 1 \in Nonces /\ 0 \in Balances /\ 1 \in Balances
  BY WritesAssumption DEF Nonces, Balances
<1>2. CASE pre[a] = NoLeaf
  BY <1>1, <1>2 DEF NoLeaf, PreInfo, Infos, Observable, Codes
<1>3. CASE pre[a] = ZeroLeaf
  BY <1>1, <1>3 DEF NoLeaf, ZeroLeaf, PreInfo, Infos, Observable, Codes, Leaves, Fields
<1>4. CASE pre[a] \in [nonce : {0, 1}, balance : {1}, fields : {"zero"}]
  BY <1>1, <1>4 DEF NoLeaf, PreInfo, Infos, Observable, Codes, Leaves, Fields
<1>5. CASE pre[a] \in [nonce : {1}, balance : {0},
                        fields : {"deployed_empty", "contract", "delegation"}]
  BY <1>1, <1>5 DEF NoLeaf, PreInfo, Infos, Observable, Codes, Leaves, Fields
<1> QED
  BY <1>0, <1>2, <1>3, <1>4, <1>5 DEF PreLeaves

\* Native's leaves.
LEMMA NativeFacts ==
    ASSUME TypeInv, NEW a \in Accounts
    PROVE  /\ native[a].nonce \in Nonces /\ native[a].balance \in Balances
           /\ native[a].fields \in Fields \cup {"absent"}
           /\ native[a].fields = "absent" <=> native[a] = NoLeaf
           /\ native[a] = [nonce |-> native[a].nonce, balance |-> native[a].balance,
                           fields |-> native[a].fields]
           /\ Fieldsof(a) \in Fields
           /\ Fieldsof(a) = Contents(native[a]).fields
           /\ Observable(native[a].fields) = Observable(Fieldsof(a))
<1>0. native[a] \in Leaves \cup {NoLeaf}
  BY DEF TypeInv
<1>1. 0 \in Nonces /\ 0 \in Balances
  BY WritesAssumption DEF Nonces, Balances
<1>2. CASE native[a] = NoLeaf
  BY <1>1, <1>2 DEF NoLeaf, Fieldsof, Contents, ZeroLeaf, Fields, Observable
<1>3. CASE native[a] \in Leaves
  BY <1>1, <1>3 DEF NoLeaf, Fieldsof, Contents, Fields, Observable, Leaves
<1> QED
  BY <1>0, <1>2, <1>3

LEMMA InfoType ==
    ASSUME TypeInv, NEW a \in Accounts
    PROVE  Info(a) \in Infos
<1>1. cache[a].info \in Infos
  BY DEF TypeInv
<1> QED
  BY <1>1, PreFacts DEF Info

LEMMA Numbers == Nonces \subseteq Nat /\ Balances \subseteq Nat
BY WritesAssumption DEF Nonces, Balances

\* What a transaction may rely on at an account it reaches: native's leaf is the
\* account's, whether or not execution has written it before.
Synced(a) ==
    /\ native[a].nonce = Info(a).nonce /\ native[a].balance = Info(a).balance
    /\ Fieldsof(a) = expected_code_fields(a)
    /\ Info(a).nonce = pre[a].nonce => Fieldsof(a) = Contents(pre[a]).fields
    /\ a \notin changed => native[a] = pre[a]

LEMMA Reached ==
    ASSUME TypeInv, NEW a \in Accounts, AccountInv(a), ~ForceDeployed(a)
    PROVE  Synced(a) /\ Observable(Fieldsof(a)) = Info(a).code
<1>0. Observable(Fieldsof(a)) = Info(a).code
  BY NativeFacts DEF ForceDeployed
<1>1. CASE ~Unwritten(a)
  BY <1>0, <1>1 DEF AccountInv, WrittenInv, Synced
<1>2. CASE Unwritten(a)
  <2>1. Info(a) = PreInfo(a) /\ a \notin deployed
    BY <1>2 DEF AccountInv, CacheInv, Unwritten
  <2>2. native[a] = pre[a]
    <3>1. native[a] # pre[a] => native[a].fields = "contract" /\ pre[a].fields \in {"absent", "zero"}
      BY <1>2 DEF AccountInv, UnwrittenInv
    <3>2. Observable(native[a].fields) = Observable(pre[a].fields)
      BY <2>1 DEF ForceDeployed, PreInfo
    <3> QED
      BY <3>1, <3>2 DEF Observable
  <2>3. Fieldsof(a) = Contents(pre[a]).fields
    BY <2>2, NativeFacts
  <2>4. Info(a).nonce = pre[a].nonce /\ Info(a).balance = pre[a].balance
        /\ Info(a).code = Observable(pre[a].fields)
    BY <2>1 DEF PreInfo
  <2>5. Fieldsof(a) = expected_code_fields(a)
    BY <2>1, <2>2, <2>4, PreFacts
       DEF Fieldsof, expected_code_fields, Observable, evm_code_fields, NoLeaf
  <2> QED
    BY <1>0, <2>2, <2>3, <2>4, <2>5 DEF Synced
<1> QED
  BY <1>1, <1>2

-----------------------------------------------------------------------------
(* One account over one step. *)

\* Nothing of account x changes.
SameAt(x) ==
    /\ pre' = pre /\ upgrade' = upgrade
    /\ cache'[x] = cache[x] /\ native'[x] = native[x]
    /\ (x \in destroyed') = (x \in destroyed)
    /\ (x \in deployed') = (x \in deployed)
    /\ (x \in changed') = (x \in changed)

LEMMA SameKeeps ==
    ASSUME NEW x, AccountInv(x), SameAt(x)
    PROVE  AccountInv(x)' /\ Info(x)' = Info(x)
<1>1. Info(x)' = Info(x) /\ PreInfo(x)' = PreInfo(x) /\ Fieldsof(x)' = Fieldsof(x)
  BY DEF SameAt, Info, PreInfo, Fieldsof
<1>2. expected_code_fields(x)' = expected_code_fields(x)
  BY <1>1 DEF SameAt, expected_code_fields
<1>3. Unwritten(x)' = Unwritten(x)
  BY DEF SameAt, Unwritten
<1> QED
  BY <1>1, <1>2, <1>3 DEF SameAt, AccountInv, CacheInv, UnwrittenInv, WrittenInv, LifeInv

\* The transaction leaves account x with info i.
WritesAt(x, i) ==
    /\ pre' = pre /\ upgrade' = upgrade
    /\ cache'[x].state \in {"Touched", "StorageCleared"} /\ cache'[x].info = i
    /\ (x \in destroyed') = (x \in destroyed)

LEMMA WrittenKeeps ==
    ASSUME NEW x, NEW i, WritesAt(x, i), AccountInv(x),
           native'[x].nonce = i.nonce, native'[x].balance = i.balance,
           Fieldsof(x)' = expected_code_fields(x)',
           i.nonce >= pre[x].nonce,
           i.nonce = pre[x].nonce => Fieldsof(x)' = Contents(pre[x]).fields,
           x \notin changed' => native'[x] = pre[x],
           native'[x] = NoLeaf => pre[x] = NoLeaf,
           x \in deployed' => i.nonce >= 1 /\ i.code \in {"none", "contract"},
           pre[x].fields = "deployed_empty" => i.code # "delegation"
    PROVE  AccountInv(x)' /\ Info(x)' = i
<1>1. Info(x)' = i
  BY DEF WritesAt, Info
<1>2. ~Unwritten(x)' /\ cache'[x].state \notin {"Unloaded", "None", "NotExisting"}
  BY DEF WritesAt, Unwritten
<1>3. CacheInv(x)' /\ UnwrittenInv(x)'
  BY <1>2 DEF CacheInv, UnwrittenInv
<1>4. WrittenInv(x)'
  BY <1>1, <1>2 DEF WrittenInv, WritesAt
<1>5. LifeInv(x)'
  BY <1>1 DEF LifeInv, WritesAt, AccountInv
<1> QED
  BY <1>1, <1>3, <1>4, <1>5 DEF AccountInv

\* A transaction that writes no code and no nonce: native either rewrites the
\* leaf with the code fields it had, or has nothing to rewrite.
LEMMA CodeKept ==
    ASSUME TypeInv, NEW x \in Accounts, AccountInv(x), ~ForceDeployed(x),
           NEW i \in Infos, WritesAt(x, i),
           (x \in deployed') = (x \in deployed),
           i.nonce = Info(x).nonce, i.code = Info(x).code,
           \/ native'[x] = NativeLeaf(i, Fieldsof(x)) /\ x \in changed'
           \/ /\ native'[x] = native[x] /\ i.balance = Info(x).balance
              /\ (x \in changed') = (x \in changed)
    PROVE  AccountInv(x)' /\ Info(x)' = i
<1>1. Synced(x) /\ Observable(Fieldsof(x)) = Info(x).code
  BY Reached
<1>2. native'[x].nonce = i.nonce /\ native'[x].balance = i.balance
  BY <1>1 DEF Synced, NativeLeaf
<1>0. NativeLeaf(i, Fieldsof(x)).fields = Fieldsof(x) /\ NativeLeaf(i, Fieldsof(x)) # NoLeaf
  <2>1. Fieldsof(x) # "absent"
    BY NativeFacts DEF Fields
  <2> QED
    BY <2>1 DEF NativeLeaf, NoLeaf
<1>3. Fieldsof(x)' = Fieldsof(x)
  BY <1>0 DEF Fieldsof
<1>4. expected_code_fields(x)' = expected_code_fields(x)
  <2>1. Info(x)'.code = Info(x).code
    BY DEF WritesAt, Info
  <2> QED
    BY <2>1 DEF expected_code_fields, WritesAt
<1>5. i.nonce >= pre[x].nonce
  BY DEF AccountInv, LifeInv
<1>6. native'[x] = NoLeaf => pre[x] = NoLeaf
  BY <1>0 DEF AccountInv, LifeInv
<1>7. x \notin changed' => native'[x] = pre[x]
  BY <1>1 DEF Synced
<1>8. /\ x \in deployed' => i.nonce >= 1 /\ i.code \in {"none", "contract"}
      /\ pre[x].fields = "deployed_empty" => i.code # "delegation"
  BY DEF AccountInv, LifeInv
<1>9. Fieldsof(x)' = expected_code_fields(x)'
      /\ (i.nonce = pre[x].nonce => Fieldsof(x)' = Contents(pre[x]).fields)
  BY <1>1, <1>3, <1>4 DEF Synced
<1> QED
  BY <1>2, <1>5, <1>6, <1>7, <1>8, <1>9, WrittenKeeps

\* A completed deployment.
LEMMA CodeDeployed ==
    ASSUME TypeInv, NEW x \in Accounts, AccountInv(x), ~ForceDeployed(x), Creatable(x),
           NEW i \in Infos, WritesAt(x, i), x \in deployed', x \in changed',
           i.nonce = 1, i.code \in {"none", "contract"},
           native'[x] = NativeLeaf(i, evm_code_fields(i.code))
    PROVE  AccountInv(x)' /\ Info(x)' = i
<1>1. Info(x)' = i
  BY DEF WritesAt, Info
<1>2. native'[x].nonce = i.nonce /\ native'[x].balance = i.balance /\ native'[x] # NoLeaf
  BY DEF NativeLeaf, NoLeaf, evm_code_fields
<1>3. Fieldsof(x)' = evm_code_fields(i.code)
  BY <1>2 DEF Fieldsof, NativeLeaf
<1>4. Fieldsof(x)' = expected_code_fields(x)'
  BY <1>1, <1>3 DEF expected_code_fields
<1>5. pre[x].nonce = 0
  <2>1. Info(x).nonce = 0 /\ Info(x).nonce >= pre[x].nonce
    BY DEF Creatable, AccountInv, LifeInv
  <2>2. pre[x].nonce \in {0, 1}
    BY PreFacts
  <2> QED
    BY <2>1, <2>2
<1> QED
  BY <1>2, <1>4, <1>5, WrittenKeeps

\* An EIP-7702 delegation is set or cleared.
LEMMA CodeDelegated ==
    ASSUME TypeInv, NEW x \in Accounts, AccountInv(x), ~ForceDeployed(x),
           Fieldsof(x) \in {"zero", "delegation"},
           NEW i \in Infos, WritesAt(x, i), x \in changed',
           (x \in deployed') = (x \in deployed),
           i.nonce = Info(x).nonce + 1, i.code \in {"none", "delegation"},
           native'[x] = NativeLeaf(i, IF i.code = "none" THEN "zero" ELSE "delegation")
    PROVE  AccountInv(x)' /\ Info(x)' = i
<1>1. Info(x)' = i
  BY DEF WritesAt, Info
<1>2. native'[x].nonce = i.nonce /\ native'[x].balance = i.balance /\ native'[x] # NoLeaf
  BY DEF NativeLeaf, NoLeaf
<1>3. Fieldsof(x)' = IF i.code = "none" THEN "zero" ELSE "delegation"
  BY <1>2 DEF Fieldsof, NativeLeaf
<1>4. Synced(x) /\ Observable(Fieldsof(x)) = Info(x).code
  BY Reached
<1>5. x \notin deployed
  <2>1. ASSUME x \in deployed PROVE Fieldsof(x) \in {"deployed_empty", "contract"}
    BY <1>4, <2>1 DEF Synced, AccountInv, LifeInv, expected_code_fields, evm_code_fields
  <2> QED
    BY <2>1
<1>6. pre[x].fields # "deployed_empty"
  <2>1. ASSUME pre[x].fields = "deployed_empty" PROVE FALSE
    <3>1. pre[x] # NoLeaf /\ Observable(pre[x].fields) = "none"
      BY <2>1 DEF NoLeaf, Observable
    <3>2. Info(x).code = "none" => Fieldsof(x) = "deployed_empty"
      BY <1>4, <1>5, <3>1, <2>1 DEF Synced, expected_code_fields
    <3>3. Info(x).code = "delegation"
      BY <1>4, <3>2 DEF Observable
    <3> QED
      BY <3>3, <2>1 DEF AccountInv, LifeInv
  <2> QED
    BY <2>1
<1>7. Fieldsof(x)' = expected_code_fields(x)'
  BY <1>1, <1>3, <1>5, <1>6, PreFacts
     DEF expected_code_fields, evm_code_fields, WritesAt, Observable, NoLeaf
<1>8. i.nonce >= pre[x].nonce /\ i.nonce # pre[x].nonce
  <2>1. Info(x).nonce >= pre[x].nonce
    BY DEF AccountInv, LifeInv
  <2>2. Info(x).nonce \in Nat
    BY InfoType, InfoFields, Numbers
  <2>3. pre[x].nonce \in {0, 1}
    BY PreFacts
  <2> QED
    BY <2>1, <2>2, <2>3
<1> QED
  BY <1>2, <1>5, <1>6, <1>7, <1>8, WrittenKeeps

\* Created and destroyed in one transaction (EIP-6780).
LEMMA AccountDestroyed ==
    ASSUME TypeInv, NEW x \in Accounts, AccountInv(x), Creatable(x),
           pre' = pre, x \in destroyed', x \in changed',
           (x \in deployed') = (x \in deployed),
           cache'[x] = [state |-> "NotExisting", info |-> DefaultInfo],
           native'[x] = IF pre[x] = NoLeaf THEN NoLeaf ELSE ZeroLeaf
    PROVE  AccountInv(x)' /\ Info(x)' = DefaultInfo
<1>1. Info(x)' = DefaultInfo /\ Info(x)'.nonce = 0 /\ Info(x)'.balance = 0 /\ Info(x)'.code = "none"
  BY DEF Info, DefaultInfo
<1>2. ~Unwritten(x)'
  BY DEF Unwritten
<1>3. pre[x].nonce = 0
  <2>1. Info(x).nonce = 0 /\ Info(x).nonce >= pre[x].nonce
    BY DEF Creatable, AccountInv, LifeInv
  <2>2. pre[x].nonce \in {0, 1}
    BY PreFacts
  <2> QED
    BY <2>1, <2>2
<1>4. pre[x].fields \in {"absent", "zero"} /\ (pre[x].fields = "absent" <=> pre[x] = NoLeaf)
  BY <1>3, PreFacts
<1>5. x \notin deployed
  BY DEF Creatable, AccountInv, LifeInv
<1>6. Fieldsof(x)' = "zero" /\ native'[x].nonce = 0 /\ native'[x].balance = 0
  BY DEF Fieldsof, NoLeaf, ZeroLeaf
<1>7. expected_code_fields(x)' = "zero"
  BY <1>1, <1>4, <1>5 DEF expected_code_fields
<1>8. Contents(pre[x]).fields = "zero"
  BY <1>4 DEF Contents, ZeroLeaf
<1>9. CacheInv(x)' /\ UnwrittenInv(x)'
  BY <1>1, <1>2, <1>5 DEF CacheInv, UnwrittenInv
<1>10. WrittenInv(x)'
  BY <1>1, <1>2, <1>6, <1>7, <1>8 DEF WrittenInv
<1>11. LifeInv(x)'
  <2>1. native'[x] = NoLeaf => pre[x] = NoLeaf
    BY DEF NoLeaf, ZeroLeaf
  <2> QED
    BY <2>1, <1>1, <1>3, <1>4, <1>5 DEF LifeInv
<1> QED
  BY <1>1, <1>9, <1>10, <1>11 DEF AccountInv

\* A read fills the cache and changes nothing else.
LEMMA ReadKeeps ==
    ASSUME TypeInv, NEW x \in Accounts, AccountInv(x), cache[x].state = "Unloaded",
           pre' = pre, upgrade' = upgrade, native' = native, destroyed' = destroyed,
           deployed' = deployed, changed' = changed, cache'[x] = Loaded(x)
    PROVE  AccountInv(x)' /\ Info(x)' = Info(x)
<1>1. /\ cache'[x].state \in {"None", "NotExisting"}
      /\ cache'[x].state = "NotExisting" => pre[x] = NoLeaf /\ cache'[x].info = DefaultInfo
      /\ cache'[x].state = "None" => cache'[x].info = PreInfo(x)
  BY DEF Loaded
<1>2. Info(x) = PreInfo(x) /\ PreInfo(x)' = PreInfo(x)
  BY DEF Info, PreInfo
<1>3. Info(x)' = PreInfo(x)
  <2>1. pre[x] = NoLeaf => PreInfo(x) = DefaultInfo
    BY DEF PreInfo, NoLeaf, DefaultInfo, Observable
  <2> QED
    BY <1>1, <2>1 DEF Info
<1>4. Unwritten(x) /\ x \notin destroyed /\ x \notin deployed
  BY DEF Unwritten, AccountInv, CacheInv
<1>5. Unwritten(x)'
  BY <1>1, <1>4 DEF Unwritten
<1>6. CacheInv(x)'
  BY <1>2, <1>3, <1>4 DEF CacheInv
<1>7. UnwrittenInv(x)' /\ WrittenInv(x)'
  BY <1>4, <1>5 DEF AccountInv, UnwrittenInv, WrittenInv
<1>8. LifeInv(x)'
  BY <1>2, <1>3 DEF AccountInv, LifeInv
<1> QED
  BY <1>2, <1>3, <1>6, <1>7, <1>8 DEF AccountInv

\* A force-deploy writes code only native knows of.
LEMMA ForceDeployKeeps ==
    ASSUME TypeInv, NEW x \in Accounts, AccountInv(x), ForceDeploy(x)
    PROVE  AccountInv(x)' /\ Info(x)' = Info(x)
<1>1. /\ pre' = pre /\ upgrade' = upgrade /\ upgrade /\ cache' = cache /\ destroyed' = destroyed
      /\ deployed' = deployed /\ x \in changed'
      /\ native[x].fields \in {"absent", "zero"}
      /\ native'[x] = [nonce |-> native[x].nonce, balance |-> native[x].balance,
                       fields |-> "contract"]
  BY DEF ForceDeploy, NativeKeeps, batch
<1>2. Unwritten(x)
  BY DEF ForceDeploy, Unwritten
<1>3. native[x] = pre[x]
  <2>1. native[x] # pre[x] => native[x].fields = "contract"
    BY <1>2 DEF AccountInv, UnwrittenInv
  <2> QED
    BY <1>1, <2>1
<1>4. native'[x].fields = "contract" /\ native'[x] # pre[x] /\ native'[x] # NoLeaf
  BY <1>1, <1>3 DEF NoLeaf
<1>5. Info(x)' = Info(x) /\ PreInfo(x)' = PreInfo(x) /\ Unwritten(x)'
  BY <1>1, <1>2 DEF Info, PreInfo, Unwritten
<1>6. CacheInv(x)'
  BY <1>1, <1>5 DEF AccountInv, CacheInv, Unwritten
<1>7. UnwrittenInv(x)' /\ WrittenInv(x)'
  BY <1>1, <1>3, <1>4, <1>5 DEF UnwrittenInv, WrittenInv
<1>8. LifeInv(x)'
  BY <1>1, <1>4, <1>5 DEF AccountInv, LifeInv
<1> QED
  BY <1>5, <1>6, <1>7, <1>8 DEF AccountInv

-----------------------------------------------------------------------------
(* The effect of a transaction. *)

\* An account outside the journal keeps everything the transaction writes.
LEMMA OutsideJournal ==
    ASSUME NEW J, Transact(J), NEW x \in Accounts, x \notin DOMAIN J
    PROVE  /\ pre' = pre /\ preSlot' = preSlot /\ upgrade' = upgrade
           /\ cache'[x] = cache[x] /\ slot'[x] = slot[x]
           /\ (x \in destroyed') = (x \in destroyed) /\ (x \in deployed') = (x \in deployed)
BY DEF Transact, batch

\* One in it that survives.
LEMMA InJournal ==
    ASSUME NEW J, Transact(J), NEW x \in Accounts, x \in DOMAIN J, ~J[x].destroyed
    PROVE  /\ ~ForceDeployed(x)
           /\ WritesAt(x, J[x].info) /\ slot'[x] = J[x].slot /\ preSlot' = preSlot
           /\ J[x].created => x \in deployed'
           /\ ~J[x].created => (x \in deployed') = (x \in deployed)
<1>1. cache'[x] = Committed(x, J[x]) /\ pre' = pre /\ upgrade' = upgrade /\ preSlot' = preSlot
      /\ ~ForceDeployed(x) /\ slot'[x] = J[x].slot
  BY DEF Transact, batch
<1>2. cache'[x].state \in {"Touched", "StorageCleared"} /\ cache'[x].info = J[x].info
  BY <1>1 DEF Committed
<1>3. (x \in destroyed') = (x \in destroyed)
  BY DEF Transact
<1>4. deployed' = deployed \cup {a \in DOMAIN J : J[a].created /\ ~J[a].destroyed}
  BY DEF Transact
<1>5. /\ J[x].created => x \in deployed'
      /\ ~J[x].created => (x \in deployed') = (x \in deployed)
  BY <1>4
<1> QED
  BY <1>1, <1>2, <1>3, <1>5 DEF WritesAt

\* One in it that does not.
LEMMA DestroyedInJournal ==
    ASSUME NEW J, Transact(J), NEW x \in Accounts, x \in DOMAIN J, J[x].destroyed
    PROVE  /\ pre' = pre /\ preSlot' = preSlot /\ x \in destroyed'
           /\ (x \in deployed') = (x \in deployed)
           /\ cache'[x] = [state |-> "NotExisting", info |-> DefaultInfo] /\ slot'[x] = 0
BY DEF Transact, Committed, batch

\* The block's diff follows the slots, whatever the journal holds.
LEMMA SlotStep ==
    ASSUME NEW J, Transact(J), NEW x \in Accounts, SlotInv(x),
           x \in DOMAIN J /\ J[x].destroyed => slot[x] = 0,
           slot'[x] # 0 => Info(x)'.code = "contract"
    PROVE  SlotInv(x)'
<1> DEFINE changes == {a \in DOMAIN J : ~J[a].destroyed /\ J[a].slot # slot[a]}
<1>1. /\ blockDiff' = [a \in DOMAIN blockDiff \cup changes |->
                          IF a \in changes THEN SlotChange(a, J[a].slot) ELSE blockDiff[a]]
      /\ slot'[x] = IF x \notin DOMAIN J THEN slot[x]
                    ELSE IF J[x].destroyed THEN 0 ELSE J[x].slot
      /\ preSlot' = preSlot /\ writes' = writes
  BY DEF Transact, batch
<1>2. Sealed(x)' = Sealed(x)
  BY <1>1 DEF Sealed
<1>3. CASE x \in changes
  <2>1. slot'[x] = J[x].slot
    BY <1>1, <1>3
  <2>2. x \in DOMAIN blockDiff' /\ blockDiff'[x] = SlotChange(x, J[x].slot)
    BY <1>1, <1>3
  <2>3. blockDiff'[x][1] = Sealed(x) /\ blockDiff'[x][2] = slot'[x]
    BY <2>1, <2>2 DEF SlotChange, SlotInv
  <2> QED
    BY <1>2, <2>2, <2>3 DEF SlotInv
<1>4. CASE x \notin changes
  <2>1. slot'[x] = slot[x]
    BY <1>1, <1>4
  <2>2. x \in DOMAIN blockDiff' <=> x \in DOMAIN blockDiff
    BY <1>1, <1>4
  <2>3. x \in DOMAIN blockDiff => blockDiff'[x] = blockDiff[x]
    BY <1>1, <1>4
  <2> QED
    BY <1>2, <2>1, <2>2, <2>3 DEF SlotInv
<1> QED
  BY <1>3, <1>4

\* An account that neither the transaction nor native touches.
LEMMA Bystander ==
    ASSUME NEW J, Transact(J), NEW x \in Accounts, x \notin DOMAIN J,
           AccountInv(x), SlotInv(x),
           native'[x] = native[x], (x \in changed') = (x \in changed)
    PROVE  AccountInv(x)' /\ SlotInv(x)'
<1>1. SameAt(x) /\ slot'[x] = slot[x]
  BY OutsideJournal DEF SameAt
<1>2. AccountInv(x)' /\ Info(x)' = Info(x)
  BY <1>1, SameKeeps
<1>3. slot'[x] # 0 => Info(x)'.code = "contract"
  BY <1>1, <1>2 DEF SlotInv
<1> QED
  BY <1>2, <1>3, SlotStep

\* One that keeps its nonce and code.
LEMMA Payer ==
    ASSUME TypeInv, NEW J, Transact(J), NEW x \in Accounts, x \in DOMAIN J,
           AccountInv(x), SlotInv(x), NEW i \in Infos, NEW v,
           J[x] = [info |-> i, slot |-> v, created |-> FALSE, destroyed |-> FALSE],
           i.nonce = Info(x).nonce, i.code = Info(x).code,
           v # 0 => Info(x).code = "contract",
           \/ native'[x] = NativeLeaf(i, Fieldsof(x)) /\ x \in changed'
           \/ /\ native'[x] = native[x] /\ i.balance = Info(x).balance
              /\ (x \in changed') = (x \in changed)
    PROVE  AccountInv(x)' /\ SlotInv(x)'
<1>1. J[x].info = i /\ J[x].slot = v /\ ~J[x].created /\ ~J[x].destroyed
  OBVIOUS
<1>2. /\ ~ForceDeployed(x) /\ WritesAt(x, i) /\ slot'[x] = v
      /\ (x \in deployed') = (x \in deployed)
  BY <1>1, InJournal
<1>3. AccountInv(x)' /\ Info(x)' = i
  BY <1>2, CodeKept
<1>4. SlotInv(x)'
  BY <1>1, <1>2, <1>3, SlotStep
<1> QED
  BY <1>3, <1>4

LEMMA LeafType ==
    ASSUME NEW i \in Infos, NEW f \in Fields
    PROVE  NativeLeaf(i, f) \in Leaves
BY InfoFields DEF NativeLeaf, Leaves

LEMMA TransactTypes ==
    ASSUME TypeInv, NEW J, Transact(J), DOMAIN J \subseteq Accounts,
           \A x \in DOMAIN J : J[x].info \in Infos,
           native' \in [Accounts -> Leaves \cup {NoLeaf}], changed' \subseteq Accounts
    PROVE  TypeInv' /\ DOMAIN slot' = Accounts
<1>1. pre' = pre /\ DOMAIN slot' = Accounts
      /\ destroyed' \subseteq Accounts /\ deployed' \subseteq Accounts
  BY DEF Transact, batch, TypeInv
<1>2. ASSUME NEW x \in DOMAIN J PROVE Committed(x, J[x]) \in [state : States, info : Infos]
  <2>1. DefaultInfo \in Infos
    BY WritesAssumption DEF DefaultInfo, Infos, Nonces, Balances, Codes
  <2>2. J[x].info \in Infos
    OBVIOUS
  <2> QED
    BY <2>1, <2>2 DEF Committed, States
<1>3. cache' \in [Accounts -> [state : States, info : Infos]]
  BY <1>2 DEF Transact, TypeInv
<1> QED
  BY <1>1, <1>3 DEF TypeInv

LEMMA NativeTypes ==
    ASSUME TypeInv, NEW N, NativeKeeps(N), DOMAIN N \subseteq Accounts,
           \A x \in DOMAIN N : N[x] \in Leaves \cup {NoLeaf}
    PROVE  /\ native' \in [Accounts -> Leaves \cup {NoLeaf}] /\ changed' \subseteq Accounts
           /\ \A x \in Accounts : x \in DOMAIN N => native'[x] = N[x] /\ x \in changed'
           /\ \A x \in Accounts : x \notin DOMAIN N =>
                 native'[x] = native[x] /\ (x \in changed') = (x \in changed)
<1>1. native' = [a \in Accounts |-> IF a \in DOMAIN N THEN N[a] ELSE native[a]]
      /\ changed' = changed \cup DOMAIN N
  BY DEF NativeKeeps
<1>2. \A x \in Accounts : native[x] \in Leaves \cup {NoLeaf}
  BY DEF TypeInv
<1> QED
  BY <1>1, <1>2 DEF TypeInv

-----------------------------------------------------------------------------
(* The actions. *)

LEMMA InitInv == Init => WritesInv
<1> SUFFICES ASSUME Init PROVE WritesInv
  OBVIOUS
<1>0. Unloaded.state = "Unloaded" /\ Unloaded.info = DefaultInfo /\ DefaultInfo \in Infos
  BY WritesAssumption DEF Unloaded, DefaultInfo, Infos, Nonces, Balances, Codes
<1>1. TypeInv
  <2>1. PreLeaves \subseteq Leaves \cup {NoLeaf}
    <3>1. 0 \in Nonces /\ 1 \in Nonces /\ 0 \in Balances /\ 1 \in Balances
      BY WritesAssumption DEF Nonces, Balances
    <3>2. ZeroLeaf \in Leaves
      BY <3>1 DEF ZeroLeaf, Leaves, Fields
    <3> QED
      BY <3>1, <3>2 DEF PreLeaves, Leaves, Fields
  <2>2. Unloaded \in [state : States, info : Infos]
    BY <1>0 DEF Unloaded, States
  <2> QED
    BY <2>1, <2>2 DEF Init, TypeInv
<1>2. ASSUME NEW a \in Accounts PROVE AccountInv(a) /\ SlotInv(a)
  <2>1. cache[a].state = "Unloaded" /\ a \notin destroyed /\ a \notin deployed /\ a \notin changed
        /\ native[a] = pre[a] /\ slot[a] = preSlot[a] /\ preSlot[a] \in {0, 1}
        /\ DOMAIN blockDiff = {} /\ DOMAIN writes = {}
        /\ (preSlot[a] = 1 => pre[a].fields = "contract")
    BY <1>0 DEF Init
  <2>2. Unwritten(a) /\ Info(a) = PreInfo(a)
    BY <2>1 DEF Unwritten, Info
  <2>3. Info(a).nonce = pre[a].nonce /\ Info(a).code = Observable(pre[a].fields)
    BY <2>2 DEF PreInfo
  <2>4. pre[a].nonce \in {0, 1}
    BY <1>1, PreFacts
  <2>5. pre[a].nonce >= pre[a].nonce
    BY <2>4
  <2>6. AccountInv(a)
    BY <2>1, <2>2, <2>3, <2>5 DEF AccountInv, CacheInv, UnwrittenInv, WrittenInv, LifeInv, Observable
  <2>7. SlotInv(a)
    BY <2>1, <2>3 DEF SlotInv, Sealed, Observable
  <2> QED
    BY <2>6, <2>7
<1>3. DOMAIN slot = Accounts
  BY DEF Init
<1> QED
  BY <1>1, <1>2, <1>3 DEF WritesInv

\* A step that leaves account x's slot and its record of writes alone.
LEMMA SlotUnmoved ==
    ASSUME NEW x, SlotInv(x), Info(x)' = Info(x), slot' = slot, blockDiff' = blockDiff,
           writes' = writes, preSlot' = preSlot
    PROVE  SlotInv(x)'
<1>1. Sealed(x)' = Sealed(x)
  BY DEF Sealed
<1> QED
  BY <1>1 DEF SlotInv

LEMMA ReadInv == ASSUME WritesInv, NEW a \in Accounts, Read(a) PROVE WritesInv'
<1>1. /\ cache[a].state = "Unloaded" /\ cache' = [cache EXCEPT ![a] = Loaded(a)]
      /\ pre' = pre /\ preSlot' = preSlot /\ upgrade' = upgrade /\ slot' = slot
      /\ destroyed' = destroyed /\ deployed' = deployed /\ blockDiff' = blockDiff
      /\ writes' = writes /\ native' = native /\ changed' = changed
  BY DEF Read, batch
<1>2. TypeInv /\ DOMAIN slot = Accounts
  BY DEF WritesInv
<1>3. TypeInv'
  <2>1. Loaded(a) \in [state : States, info : Infos]
    <3>1. DefaultInfo \in Infos
      BY WritesAssumption DEF DefaultInfo, Infos, Nonces, Balances, Codes
    <3>2. PreInfo(a) \in Infos
      BY <1>2, PreFacts
    <3>3. cache[a] \in [state : States, info : Infos]
      BY <1>2 DEF TypeInv
    <3> QED
      BY <3>1, <3>2, <3>3 DEF Loaded, States
  <2> QED
    BY <1>1, <1>2, <2>1 DEF TypeInv
<1>4. ASSUME NEW x \in Accounts PROVE AccountInv(x)' /\ SlotInv(x)'
  <2>0. AccountInv(x) /\ SlotInv(x)
    BY DEF WritesInv
  <2>1. AccountInv(x)' /\ Info(x)' = Info(x)
    <3>1. CASE x = a
      <4>1. cache'[x] = Loaded(x)
        BY <1>1, <1>2, <3>1 DEF TypeInv
      <4> QED
        BY <4>1, <1>1, <1>2, <2>0, <3>1, ReadKeeps
    <3>2. CASE x # a
      <4>1. SameAt(x)
        BY <1>1, <1>2, <3>2 DEF SameAt, TypeInv
      <4> QED
        BY <4>1, <2>0, SameKeeps
    <3> QED
      BY <3>1, <3>2
  <2>2. SlotInv(x)'
    BY <2>0, <2>1, <1>1, SlotUnmoved
  <2> QED
    BY <2>1, <2>2
<1> QED
  BY <1>1, <1>2, <1>3, <1>4 DEF WritesInv

LEMMA ForceDeployInv == ASSUME WritesInv, NEW a \in Accounts, ForceDeploy(a) PROVE WritesInv'
<1> DEFINE N == [x \in {a} |-> [nonce |-> native[x].nonce, balance |-> native[x].balance,
                                fields |-> "contract"]]
<1>1. /\ cache' = cache /\ NativeKeeps(N)
      /\ pre' = pre /\ preSlot' = preSlot /\ upgrade' = upgrade /\ slot' = slot
      /\ destroyed' = destroyed /\ deployed' = deployed /\ blockDiff' = blockDiff
      /\ writes' = writes
  BY DEF ForceDeploy, batch
<1>2. TypeInv /\ DOMAIN slot = Accounts
  BY DEF WritesInv
<1>3. \A x \in DOMAIN N : N[x] \in Leaves \cup {NoLeaf}
  <2>1. native[a].nonce \in Nonces /\ native[a].balance \in Balances
    BY <1>2, NativeFacts
  <2> QED
    BY <2>1 DEF Leaves, Fields
<1>4. DOMAIN N = {a}
  OBVIOUS
<1> HIDE DEF N
<1>5. /\ native' \in [Accounts -> Leaves \cup {NoLeaf}] /\ changed' \subseteq Accounts
      /\ \A x \in Accounts : x \notin DOMAIN N =>
                 native'[x] = native[x] /\ (x \in changed') = (x \in changed)
  BY <1>1, <1>2, <1>3, <1>4, NativeTypes
<1>6. TypeInv'
  BY <1>1, <1>2, <1>5 DEF TypeInv
<1>7. ASSUME NEW x \in Accounts PROVE AccountInv(x)' /\ SlotInv(x)'
  <2>0. AccountInv(x) /\ SlotInv(x)
    BY DEF WritesInv
  <2>1. AccountInv(x)' /\ Info(x)' = Info(x)
    <3>1. CASE x = a
      BY <1>2, <2>0, <3>1, ForceDeployKeeps
    <3>2. CASE x # a
      <4>1. SameAt(x)
        BY <1>1, <1>4, <1>5, <3>2 DEF SameAt
      <4> QED
        BY <4>1, <2>0, SameKeeps
    <3> QED
      BY <3>1, <3>2
  <2>2. SlotInv(x)'
    BY <2>0, <2>1, <1>1, SlotUnmoved
  <2> QED
    BY <2>1, <2>2
<1> QED
  BY <1>1, <1>2, <1>6, <1>7 DEF WritesInv

\* The net changes of a block join the writes of the batch.
LEMMA SealBlockInv == ASSUME WritesInv, SealBlock PROVE WritesInv'
<1>1. /\ writes' = [a \in DOMAIN writes \cup NetChanges |->
                       IF a \in NetChanges THEN blockDiff[a][2] ELSE writes[a]]
      /\ DOMAIN blockDiff' = {} /\ cache' = cache /\ native' = native /\ changed' = changed
      /\ pre' = pre /\ preSlot' = preSlot /\ upgrade' = upgrade /\ slot' = slot
      /\ destroyed' = destroyed /\ deployed' = deployed
  BY DEF SealBlock, batch
<1>2. TypeInv' /\ DOMAIN slot' = Accounts
  BY <1>1 DEF WritesInv, TypeInv
<1>3. ASSUME NEW x \in Accounts PROVE AccountInv(x)' /\ SlotInv(x)'
  <2>0. AccountInv(x) /\ SlotInv(x)
    BY DEF WritesInv
  <2>1. AccountInv(x)' /\ Info(x)' = Info(x)
    BY <1>1, <2>0, SameKeeps DEF SameAt
  <2>2. slot[x] = Sealed(x)'
    <3>1. CASE x \in NetChanges
      BY <1>1, <2>0, <3>1 DEF NetChanges, SlotInv, Sealed
    <3>2. CASE x \notin NetChanges
      <4>1. Sealed(x)' = Sealed(x)
        BY <1>1, <3>2 DEF Sealed
      <4>2. slot[x] = Sealed(x)
        BY <2>0, <3>2 DEF NetChanges, SlotInv
      <4> QED
        BY <4>1, <4>2
    <3> QED
      BY <3>1, <3>2
  <2>3. SlotInv(x)'
    BY <1>1, <2>0, <2>1, <2>2 DEF SlotInv
  <2> QED
    BY <2>1, <2>3
<1> QED
  BY <1>2, <1>3 DEF WritesInv

LEMMA StutterInv == ASSUME WritesInv, UNCHANGED vars PROVE WritesInv'
<1>1. /\ writes' = writes /\ blockDiff' = blockDiff /\ cache' = cache /\ native' = native
      /\ changed' = changed /\ pre' = pre /\ preSlot' = preSlot /\ upgrade' = upgrade
      /\ slot' = slot /\ destroyed' = destroyed /\ deployed' = deployed
  BY DEF vars, batch
<1>2. TypeInv' /\ DOMAIN slot' = Accounts
  BY <1>1 DEF WritesInv, TypeInv
<1>3. ASSUME NEW x \in Accounts PROVE AccountInv(x)' /\ SlotInv(x)'
  <2>0. AccountInv(x) /\ SlotInv(x)
    BY DEF WritesInv
  <2>1. AccountInv(x)' /\ Info(x)' = Info(x)
    BY <1>1, <2>0, SameKeeps DEF SameAt
  <2>2. SlotInv(x)'
    BY <1>1, <2>0, <2>1, SlotUnmoved
  <2> QED
    BY <2>1, <2>2
<1> QED
  BY <1>2, <1>3 DEF WritesInv

\* The journal entries of a touched account.
LEMMA Entries ==
    ASSUME NEW x, NEW v
    PROVE  /\ Updated(x, v) = [info |-> v, slot |-> slot[x], created |-> FALSE, destroyed |-> FALSE]
           /\ Stored(x, v) = [info |-> Info(x), slot |-> v, created |-> FALSE, destroyed |-> FALSE]
<1>1. ASSUME NEW c, NEW d
      PROVE  /\ [[info |-> Info(x), slot |-> slot[x], created |-> c, destroyed |-> d] EXCEPT !.info = v]
                  = [info |-> v, slot |-> slot[x], created |-> c, destroyed |-> d]
             /\ [[info |-> Info(x), slot |-> slot[x], created |-> c, destroyed |-> d] EXCEPT !.slot = v]
                  = [info |-> Info(x), slot |-> v, created |-> c, destroyed |-> d]
  OBVIOUS
<1> QED
  BY <1>1, Zenon DEF Updated, Stored, Touched

\* A transaction over one account that native's leaf ignores.
LEMMA TouchStoreInv ==
    ASSUME WritesInv, NEW a \in Accounts, NEW v,
           v = slot[a] \/ Info(a).code = "contract",
           Transact([x \in {a} |-> [info |-> Info(x), slot |-> v, created |-> FALSE,
                                   destroyed |-> FALSE]]),
           UNCHANGED <<native, changed>>
    PROVE  WritesInv'
<1> DEFINE J == [x \in {a} |-> [info |-> Info(x), slot |-> v, created |-> FALSE,
                                destroyed |-> FALSE]]
<1>1. Transact(J) /\ DOMAIN J = {a} /\ native' = native /\ changed' = changed
      /\ J[a] = [info |-> Info(a), slot |-> v, created |-> FALSE, destroyed |-> FALSE]
  OBVIOUS
<1>2. TypeInv /\ Info(a) \in Infos
  BY InfoType DEF WritesInv
<1>3. J[a].info \in Infos
  BY <1>1, <1>2
<1> HIDE DEF J
<1>4. TypeInv' /\ DOMAIN slot' = Accounts
  <2>1. \A x \in DOMAIN J : J[x].info \in Infos
    BY <1>1, <1>3
  <2>2. native' \in [Accounts -> Leaves \cup {NoLeaf}] /\ changed' \subseteq Accounts
    BY <1>1, <1>2 DEF TypeInv
  <2> QED
    BY <2>1, <2>2, <1>1, <1>2, TransactTypes
<1>5. ASSUME NEW x \in Accounts PROVE AccountInv(x)' /\ SlotInv(x)'
  <2>0. AccountInv(x) /\ SlotInv(x)
    BY DEF WritesInv
  <2>1. CASE x = a
    <3>1. v # 0 => Info(a).code = "contract"
      BY <2>0, <2>1 DEF SlotInv
    <3> QED
      BY <1>1, <1>2, <2>0, <2>1, <3>1, Payer
  <2>2. CASE x # a
    BY <1>1, <2>0, <2>2, Bystander
  <2> QED
    BY <2>1, <2>2
<1> QED
  BY <1>4, <1>5 DEF WritesInv

LEMMA TouchInv == ASSUME WritesInv, NEW a \in Accounts, Touch(a) PROVE WritesInv'
<1>1. Transact([x \in {a} |-> Touched(x)]) /\ UNCHANGED <<native, changed>>
  BY DEF Touch
<1>2. [x \in {a} |-> Touched(x)]
        = [x \in {a} |-> [info |-> Info(x), slot |-> slot[a], created |-> FALSE, destroyed |-> FALSE]]
  BY DEF Touched
<1> QED
  BY <1>1, <1>2, TouchStoreInv

LEMMA StoreInv == ASSUME WritesInv, NEW a \in Accounts, NEW v, Store(a, v) PROVE WritesInv'
<1>1. /\ Info(a).code = "contract"
      /\ Transact([x \in {a} |-> Stored(x, v)]) /\ UNCHANGED <<native, changed>>
  BY DEF Store
<1>2. [x \in {a} |-> Stored(x, v)]
        = [x \in {a} |-> [info |-> Info(x), slot |-> v, created |-> FALSE, destroyed |-> FALSE]]
  <2>1. Stored(a, v) = [info |-> Info(a), slot |-> v, created |-> FALSE, destroyed |-> FALSE]
    BY Entries
  <2> QED
    BY <2>1
<1> QED
  BY <1>1, <1>2, TouchStoreInv

\* Accounts that are credited or debited, with native's leaf rewritten.
LEMMA PaymentInv ==
    ASSUME WritesInv, NEW S \in SUBSET Accounts, NEW I \in [S -> Infos],
           \A x \in S : I[x].nonce = Info(x).nonce /\ I[x].code = Info(x).code,
           Transact([x \in S |-> Updated(x, I[x])]),
           NativeKeeps([x \in S |-> NativeLeaf(I[x], Fieldsof(x))])
    PROVE  WritesInv'
<1> DEFINE J == [x \in S |-> Updated(x, I[x])]
           N == [x \in S |-> NativeLeaf(I[x], Fieldsof(x))]
<1>1. Transact(J) /\ DOMAIN J = S /\ NativeKeeps(N) /\ DOMAIN N = S
  OBVIOUS
<1>2. \A x \in S : J[x] = [info |-> I[x], slot |-> slot[x], created |-> FALSE, destroyed |-> FALSE]
  BY DEF Updated, Touched
<1>3. TypeInv
  BY DEF WritesInv
<1>4. \A x \in S : N[x] = NativeLeaf(I[x], Fieldsof(x)) /\ N[x] \in Leaves
  BY <1>3, NativeFacts, LeafType
<1> HIDE DEF J, N
<1>5. /\ native' \in [Accounts -> Leaves \cup {NoLeaf}] /\ changed' \subseteq Accounts
      /\ \A x \in Accounts : x \in S => native'[x] = N[x] /\ x \in changed'
      /\ \A x \in Accounts : x \notin S =>
                 native'[x] = native[x] /\ (x \in changed') = (x \in changed)
  BY <1>1, <1>3, <1>4, NativeTypes
<1>6. TypeInv' /\ DOMAIN slot' = Accounts
  <2>1. \A x \in DOMAIN J : J[x].info \in Infos
    BY <1>1, <1>2
  <2> QED
    BY <2>1, <1>1, <1>3, <1>5, TransactTypes
<1>7. ASSUME NEW x \in Accounts PROVE AccountInv(x)' /\ SlotInv(x)'
  <2>0. AccountInv(x) /\ SlotInv(x)
    BY DEF WritesInv
  <2>1. CASE x \in S
    <3>1. slot[x] # 0 => Info(x).code = "contract"
      BY <2>0 DEF SlotInv
    <3>2. native'[x] = NativeLeaf(I[x], Fieldsof(x)) /\ x \in changed'
      BY <1>4, <1>5, <2>1
    <3>3. I[x] \in Infos /\ I[x].nonce = Info(x).nonce /\ I[x].code = Info(x).code
      BY <2>1
    <3> QED
      BY <1>1, <1>2, <1>3, <2>0, <2>1, <3>1, <3>2, <3>3, Payer
  <2>2. CASE x \notin S
    BY <1>1, <1>5, <2>0, <2>2, Bystander
  <2> QED
    BY <2>1, <2>2
<1> QED
  BY <1>6, <1>7 DEF WritesInv

\* An info whose balance is moved is an info.
LEMMA BalanceMoved ==
    ASSUME NEW i \in Infos, NEW b \in Balances
    PROVE  /\ [i EXCEPT !.balance = b] \in Infos
           /\ [i EXCEPT !.balance = b].nonce = i.nonce /\ [i EXCEPT !.balance = b].code = i.code
BY DEF Infos

LEMMA CreditInv == ASSUME WritesInv, NEW a \in Accounts, Credit(a) PROVE WritesInv'
<1> DEFINE i == [Info(a) EXCEPT !.balance = @ + 1]
           I == [x \in {a} |-> i]
<1>1. /\ Info(a).balance < MaxBalance
      /\ Transact([x \in {a} |-> Updated(x, i)])
      /\ NativeKeeps([x \in {a} |-> NativeLeaf(i, Fieldsof(x))])
  BY DEF Credit
<1>2. Info(a) \in Infos
  BY InfoType DEF WritesInv
<1>3. Info(a).balance + 1 \in Balances
  BY <1>1, <1>2, InfoFields, WritesAssumption DEF Balances
<1>4. i \in Infos /\ i.nonce = Info(a).nonce /\ i.code = Info(a).code
  BY <1>2, <1>3, BalanceMoved
<1> HIDE DEF i
<1>5. [x \in {a} |-> Updated(x, i)] = [x \in {a} |-> Updated(x, I[x])]
      /\ [x \in {a} |-> NativeLeaf(i, Fieldsof(x))] = [x \in {a} |-> NativeLeaf(I[x], Fieldsof(x))]
  OBVIOUS
<1>6. I \in [{a} -> Infos] /\ {a} \in SUBSET Accounts
      /\ \A x \in {a} : I[x].nonce = Info(x).nonce /\ I[x].code = Info(x).code
  BY <1>4
<1> HIDE DEF I
<1> QED
  BY <1>1, <1>5, <1>6, PaymentInv

LEMMA TransferInv ==
    ASSUME WritesInv, NEW a \in Accounts, NEW b \in Accounts, Transfer(a, b) PROVE WritesInv'
<1> DEFINE debit  == [Info(a) EXCEPT !.balance = @ - 1]
           credit == [Info(b) EXCEPT !.balance = @ + 1]
           I == [x \in {a, b} |-> IF x = a THEN debit ELSE credit]
           J == [x \in {a, b} |-> Updated(x, IF x = a THEN debit ELSE credit)]
<1>1. /\ a # b /\ Info(a).balance > 0 /\ Info(b).balance < MaxBalance
      /\ Transact(J)
      /\ NativeKeeps([x \in {a, b} |-> NativeLeaf(J[x].info, Fieldsof(x))])
  BY DEF Transfer
<1>2. Info(a) \in Infos /\ Info(b) \in Infos
  BY InfoType DEF WritesInv
<1>3. Info(a).balance - 1 \in Balances /\ Info(b).balance + 1 \in Balances
  <2>1. Info(a).balance \in 0..MaxBalance /\ Info(b).balance \in 0..MaxBalance /\ MaxBalance \in Nat
    BY <1>2, InfoFields, WritesAssumption DEF Balances
  <2> QED
    BY <1>1, <2>1 DEF Balances
<1>4. /\ debit \in Infos /\ debit.nonce = Info(a).nonce /\ debit.code = Info(a).code
      /\ credit \in Infos /\ credit.nonce = Info(b).nonce /\ credit.code = Info(b).code
  BY <1>2, <1>3, BalanceMoved
<1> HIDE DEF debit, credit
<1>5. J = [x \in {a, b} |-> Updated(x, I[x])] /\ \A x \in {a, b} : J[x].info = I[x]
  BY DEF Updated, Touched
<1>6. I \in [{a, b} -> Infos] /\ {a, b} \in SUBSET Accounts
      /\ \A x \in {a, b} : I[x].nonce = Info(x).nonce /\ I[x].code = Info(x).code
  BY <1>4
<1> HIDE DEF I, J
<1>7. [x \in {a, b} |-> NativeLeaf(J[x].info, Fieldsof(x))]
        = [x \in {a, b} |-> NativeLeaf(I[x], Fieldsof(x))]
  BY <1>5
<1> QED
  BY <1>1, <1>5, <1>6, <1>7, PaymentInv

LEMMA DeployInv ==
    ASSUME WritesInv, NEW a \in Accounts, NEW code \in {"none", "contract"}, NEW v,
           Deploy(a, code, v)
    PROVE  WritesInv'
<1> DEFINE i == [Info(a) EXCEPT !.nonce = 1, !.code = code]
           J == [x \in {a} |-> [info |-> i, slot |-> v, created |-> TRUE, destroyed |-> FALSE]]
           N == [x \in {a} |-> NativeLeaf(i, evm_code_fields(code))]
<1>1. Creatable(a) /\ (code = "none" => v = 0) /\ Transact(J) /\ NativeKeeps(N)
  BY DEF Deploy
<1>2. TypeInv /\ Info(a) \in Infos
  BY InfoType DEF WritesInv
<1>3. i \in Infos /\ i.nonce = 1 /\ i.code = code
  <2>1. 1 \in Nonces
    BY WritesAssumption DEF Nonces
  <2> QED
    BY <1>2, <2>1 DEF Infos, Codes
<1> HIDE DEF i
<1>4. /\ DOMAIN J = {a} /\ DOMAIN N = {a} /\ N[a] = NativeLeaf(i, evm_code_fields(code))
      /\ J[a].info = i /\ J[a].slot = v /\ J[a].created /\ ~J[a].destroyed
  OBVIOUS
<1>5. N[a] \in Leaves
  BY <1>3, <1>4, LeafType DEF evm_code_fields, Fields
<1> HIDE DEF J, N
<1>6. /\ native' \in [Accounts -> Leaves \cup {NoLeaf}] /\ changed' \subseteq Accounts
      /\ native'[a] = N[a] /\ a \in changed'
      /\ \A x \in Accounts : x # a =>
                 native'[x] = native[x] /\ (x \in changed') = (x \in changed)
  BY <1>1, <1>2, <1>4, <1>5, NativeTypes
<1>7. TypeInv' /\ DOMAIN slot' = Accounts
  <2>1. \A x \in DOMAIN J : J[x].info \in Infos
    BY <1>3, <1>4
  <2> QED
    BY <2>1, <1>1, <1>2, <1>4, <1>6, TransactTypes
<1>8. ASSUME NEW x \in Accounts PROVE AccountInv(x)' /\ SlotInv(x)'
  <2>0. AccountInv(x) /\ SlotInv(x)
    BY DEF WritesInv
  <2>1. CASE x = a
    <3>1. /\ ~ForceDeployed(a) /\ WritesAt(a, i) /\ slot'[a] = v /\ a \in deployed'
      BY <1>1, <1>4, InJournal
    <3>2. AccountInv(a)' /\ Info(a)' = i
      BY <1>1, <1>2, <1>3, <1>4, <1>6, <2>0, <2>1, <3>1, CodeDeployed
    <3>3. slot'[a] # 0 => Info(a)'.code = "contract"
      BY <1>1, <1>3, <3>1, <3>2
    <3>4. SlotInv(a)'
      BY <1>1, <1>4, <2>0, <2>1, <3>3, SlotStep
    <3> QED
      BY <2>1, <3>2, <3>4
  <2>2. CASE x # a
    BY <1>1, <1>4, <1>6, <2>0, <2>2, Bystander
  <2> QED
    BY <2>1, <2>2
<1> QED
  BY <1>7, <1>8 DEF WritesInv

LEMMA DelegateInv ==
    ASSUME WritesInv, NEW a \in Accounts, NEW code, Delegate(a, code) PROVE WritesInv'
<1> DEFINE i == [Info(a) EXCEPT !.nonce = @ + 1, !.code = code]
           J == [x \in {a} |-> Updated(x, i)]
           f == IF code = "none" THEN "zero" ELSE "delegation"
           N == [x \in {a} |-> NativeLeaf(i, f)]
<1>1. /\ code \in {"none", "delegation"} /\ Fieldsof(a) \in {"zero", "delegation"}
      /\ Info(a).nonce < MaxNonce /\ Transact(J) /\ NativeKeeps(N)
  BY DEF Delegate
<1>2. TypeInv /\ Info(a) \in Infos
  BY InfoType DEF WritesInv
<1>3. i \in Infos /\ i.nonce = Info(a).nonce + 1 /\ i.code = code
  <2>1. Info(a).nonce + 1 \in Nonces
    BY <1>1, <1>2, InfoFields, WritesAssumption DEF Nonces
  <2> QED
    BY <1>1, <1>2, <2>1 DEF Infos, Codes
<1> HIDE DEF i
<1>4. /\ DOMAIN J = {a} /\ DOMAIN N = {a} /\ N[a] = NativeLeaf(i, f)
      /\ J[a].info = i /\ J[a].slot = slot[a] /\ ~J[a].created /\ ~J[a].destroyed
  BY DEF Updated, Touched
<1>5. N[a] \in Leaves
  BY <1>3, <1>4, LeafType DEF Fields
<1> HIDE DEF J, N
<1>6. /\ native' \in [Accounts -> Leaves \cup {NoLeaf}] /\ changed' \subseteq Accounts
      /\ native'[a] = N[a] /\ a \in changed'
      /\ \A x \in Accounts : x # a =>
                 native'[x] = native[x] /\ (x \in changed') = (x \in changed)
  BY <1>1, <1>2, <1>4, <1>5, NativeTypes
<1>7. TypeInv' /\ DOMAIN slot' = Accounts
  <2>1. \A x \in DOMAIN J : J[x].info \in Infos
    BY <1>3, <1>4
  <2> QED
    BY <2>1, <1>1, <1>2, <1>4, <1>6, TransactTypes
<1>8. ASSUME NEW x \in Accounts PROVE AccountInv(x)' /\ SlotInv(x)'
  <2>0. AccountInv(x) /\ SlotInv(x)
    BY DEF WritesInv
  <2>1. CASE x = a
    <3>1. /\ ~ForceDeployed(a) /\ WritesAt(a, i) /\ slot'[a] = slot[a]
          /\ (a \in deployed') = (a \in deployed)
      BY <1>1, <1>4, InJournal
    <3>2. AccountInv(a)' /\ Info(a)' = i
      BY <1>1, <1>2, <1>3, <1>4, <1>6, <2>0, <2>1, <3>1, CodeDelegated
    <3>3. slot[a] = 0
      <4>1. Observable(Fieldsof(a)) = Info(a).code
        BY <1>2, <2>0, <2>1, <3>1, Reached
      <4>2. Info(a).code # "contract"
        BY <1>1, <4>1 DEF Observable
      <4> QED
        BY <2>0, <2>1, <4>2 DEF SlotInv
    <3>4. SlotInv(a)'
      BY <1>1, <1>4, <2>0, <2>1, <3>1, <3>3, SlotStep
    <3> QED
      BY <2>1, <3>2, <3>4
  <2>2. CASE x # a
    BY <1>1, <1>4, <1>6, <2>0, <2>2, Bystander
  <2> QED
    BY <2>1, <2>2
<1> QED
  BY <1>7, <1>8 DEF WritesInv

LEMMA DeployAndDestroyInv ==
    ASSUME WritesInv, NEW a \in Accounts, NEW b \in Accounts, DeployAndDestroy(a, b)
    PROVE  WritesInv'
<1> DEFINE gone == [info |-> DefaultInfo, slot |-> 0, created |-> TRUE, destroyed |-> TRUE]
           paid == [Info(b) EXCEPT !.balance = @ + Info(a).balance]
           J == [x \in {a, b} |-> IF x = a THEN gone ELSE Updated(x, paid)]
           heir == IF Info(a).balance > 0 THEN {b} ELSE {}
           N == [x \in {a} \cup heir |->
                  IF x = a THEN (IF pre[x] = NoLeaf THEN NoLeaf ELSE ZeroLeaf)
                  ELSE NativeLeaf(paid, Fieldsof(x))]
<1>1. /\ Creatable(a) /\ (a # b => Info(b).balance + Info(a).balance <= MaxBalance)
      /\ Transact(J) /\ NativeKeeps(N)
  BY DEF DeployAndDestroy
<1>2. TypeInv /\ Info(a) \in Infos /\ Info(b) \in Infos
  BY InfoType DEF WritesInv
<1>3. a # b => /\ paid \in Infos /\ paid.nonce = Info(b).nonce /\ paid.code = Info(b).code
               /\ (Info(a).balance = 0 => paid.balance = Info(b).balance)
  <2>1. Info(a).balance \in 0..MaxBalance /\ Info(b).balance \in 0..MaxBalance /\ MaxBalance \in Nat
    BY <1>2, InfoFields, WritesAssumption DEF Balances
  <2>2. a # b => Info(b).balance + Info(a).balance \in Balances
    BY <1>1, <2>1 DEF Balances
  <2>3. a # b => paid \in Infos /\ paid.nonce = Info(b).nonce /\ paid.code = Info(b).code
    BY <1>2, <2>2, BalanceMoved
  <2>4. paid.balance = Info(b).balance + Info(a).balance
    BY <1>2 DEF Infos
  <2> QED
    BY <2>1, <2>3, <2>4
<1> HIDE DEF paid
<1>4. /\ DOMAIN J = {a, b} /\ DOMAIN N = {a} \cup heir /\ heir \subseteq {b}
      /\ N[a] = (IF pre[a] = NoLeaf THEN NoLeaf ELSE ZeroLeaf)
      /\ J[a] = gone /\ J[a].destroyed /\ J[a].info = DefaultInfo
  OBVIOUS
<1>5. a # b => /\ J[b] = [info |-> paid, slot |-> slot[b], created |-> FALSE, destroyed |-> FALSE]
               /\ (b \in heir => N[b] = NativeLeaf(paid, Fieldsof(b)))
               /\ (b \notin heir => Info(a).balance = 0)
  <2>1. Info(a).balance \in Nat
    BY <1>2, InfoFields, Numbers
  <2>2. Updated(b, paid) = [info |-> paid, slot |-> slot[b], created |-> FALSE, destroyed |-> FALSE]
    BY Entries
  <2>3. a # b => J[b] = Updated(b, paid)
    OBVIOUS
  <2>4. a # b /\ b \in heir => N[b] = NativeLeaf(paid, Fieldsof(b))
    OBVIOUS
  <2>5. b \notin heir => Info(a).balance = 0
    BY <2>1
  <2> QED
    BY <2>2, <2>3, <2>4, <2>5
<1> HIDE DEF J, N, heir, gone
<1>6. \A x \in DOMAIN N : N[x] \in Leaves \cup {NoLeaf}
  <2>1. ZeroLeaf \in Leaves
    BY WritesAssumption DEF ZeroLeaf, Leaves, Nonces, Balances, Fields
  <2>2. a # b /\ b \in heir => N[b] \in Leaves
    BY <1>2, <1>3, <1>5, NativeFacts, LeafType
  <2> QED
    BY <1>4, <2>1, <2>2
<1>7. /\ native' \in [Accounts -> Leaves \cup {NoLeaf}] /\ changed' \subseteq Accounts
      /\ \A x \in Accounts : x \in DOMAIN N => native'[x] = N[x] /\ x \in changed'
      /\ \A x \in Accounts : x \notin DOMAIN N =>
                 native'[x] = native[x] /\ (x \in changed') = (x \in changed)
  BY <1>1, <1>2, <1>4, <1>6, NativeTypes
<1>8. TypeInv' /\ DOMAIN slot' = Accounts
  <2>1. DefaultInfo \in Infos
    BY WritesAssumption DEF DefaultInfo, Infos, Nonces, Balances, Codes
  <2>2. \A x \in DOMAIN J : J[x].info \in Infos
    BY <1>3, <1>4, <1>5, <2>1
  <2> QED
    BY <2>2, <1>1, <1>2, <1>4, <1>7, TransactTypes
<1>9. ASSUME NEW x \in Accounts PROVE AccountInv(x)' /\ SlotInv(x)'
  <2>0. AccountInv(x) /\ SlotInv(x)
    BY DEF WritesInv
  <2>1. CASE x = a
    <3>1. /\ pre' = pre /\ a \in destroyed' /\ (a \in deployed') = (a \in deployed)
          /\ cache'[a] = [state |-> "NotExisting", info |-> DefaultInfo] /\ slot'[a] = 0
      BY <1>1, <1>4, DestroyedInJournal
    <3>2. native'[a] = (IF pre[a] = NoLeaf THEN NoLeaf ELSE ZeroLeaf) /\ a \in changed'
      BY <1>4, <1>7
    <3>3. AccountInv(a)'
      BY <1>1, <1>2, <2>0, <2>1, <3>1, <3>2, AccountDestroyed
    <3>4. slot[a] = 0
      BY <1>1, <2>0, <2>1 DEF Creatable, SlotInv
    <3>5. SlotInv(a)'
      BY <1>1, <2>0, <2>1, <3>1, <3>4, SlotStep
    <3> QED
      BY <2>1, <3>3, <3>5
  <2>2. CASE x # a /\ x = b
    <3>1. slot[b] # 0 => Info(b).code = "contract"
      BY <2>0, <2>2 DEF SlotInv
    <3>2. \/ native'[b] = NativeLeaf(paid, Fieldsof(b)) /\ b \in changed'
          \/ /\ native'[b] = native[b] /\ paid.balance = Info(b).balance
             /\ (b \in changed') = (b \in changed)
      BY <1>3, <1>4, <1>5, <1>7, <2>2
    <3> QED
      BY <1>1, <1>2, <1>3, <1>4, <1>5, <2>0, <2>2, <3>1, <3>2, Payer
  <2>3. CASE x # a /\ x # b
    BY <1>1, <1>4, <1>7, <2>0, <2>3, Bystander
  <2> QED
    BY <2>1, <2>2, <2>3
<1> QED
  BY <1>8, <1>9 DEF WritesInv

\* WritesInv is inductive.
LEMMA AlwaysWritesInv == Spec => []WritesInv
<1>1. WritesInv /\ [Next]_vars => WritesInv'
  BY ReadInv, TouchInv, CreditInv, ForceDeployInv, TransferInv, DeployAndDestroyInv, StoreInv,
     DeployInv, DelegateInv, SealBlockInv, StutterInv DEF Next
<1> QED
  BY InitInv, <1>1, PTL DEF Spec

-----------------------------------------------------------------------------
(* What the guest accepts. *)

\* The three post states, in terms of the invariant.
LEMMA PostStates ==
    ASSUME TypeInv, NEW a \in Accounts, AccountInv(a)
    PROVE  /\ post_state(a) = "Unwritten" <=> Unwritten(a)
           /\ post_state(a) = "Destroyed" => cache[a].state = "NotExisting" /\ a \in destroyed
           /\ post_state(a) = "Written" => cache[a].state \in {"Touched", "StorageCleared"}
           /\ post_state(a) \in {"Written", "Destroyed", "Unwritten"}
<1>1. cache[a].state \in States
  BY DEF TypeInv
<1>2. cache[a].state \in {"Unloaded", "None"} => a \notin destroyed
  BY DEF AccountInv, CacheInv
<1> QED
  BY <1>1, <1>2 DEF post_state, Unwritten, States

\* The one leaf that may be supplied for an account execution wrote or destroyed:
\* native's, the zeroed one where native has none.
LEMMA AcceptedIsNative ==
    ASSUME TypeInv, NEW a \in Accounts, AccountInv(a), ~Unwritten(a),
           NEW p \in Leaves, PreimageAccepted(a, p)
    PROVE  p = Contents(native[a])
<1>0. p # NoLeaf /\ p = [nonce |-> p.nonce, balance |-> p.balance, fields |-> p.fields]
  BY DEF Leaves, Fields, NoLeaf
<1>1. CASE post_state(a) = "Written"
  <2>1. p.nonce = Info(a).nonce /\ p.balance = Info(a).balance /\ p.fields = expected_code_fields(a)
    BY <1>1 DEF PreimageAccepted, CodeFieldsMatch
  <2>2. native[a].nonce = Info(a).nonce /\ native[a].balance = Info(a).balance
        /\ Fieldsof(a) = expected_code_fields(a)
    BY DEF AccountInv, WrittenInv
  <2>3. native[a] # NoLeaf => Contents(native[a]) = p
    BY <1>0, <2>1, <2>2, NativeFacts DEF Contents, Fieldsof
  <2>4. native[a] = NoLeaf => p.nonce = 0 /\ p.balance = 0 /\ p.fields = "zero"
    BY <2>1, <2>2 DEF NoLeaf, Fieldsof
  <2> QED
    BY <1>0, <2>3, <2>4 DEF Contents, ZeroLeaf
<1>2. CASE post_state(a) = "Destroyed"
  <2>1. pre[a] # NoLeaf /\ p = ZeroLeaf
    BY <1>2 DEF PreimageAccepted
  <2>2. native[a] = ZeroLeaf
    BY <1>2, <2>1, PostStates DEF AccountInv, WrittenInv
  <2> QED
    BY <2>1, <2>2 DEF Contents
<1> QED
  BY <1>1, <1>2, PostStates

\* Where no preimage is demanded, the leaf of the pre-state is still native's.
LEMMA OmittedIsNative ==
    ASSUME TypeInv, NEW a \in Accounts, AccountInv(a), ~Unwritten(a), ~NeedsPreimage(a)
    PROVE  Contents(pre[a]) = Contents(native[a])
<1>0. cache[a].state # "Unloaded" /\ post_state(a) # "Unwritten"
  BY PostStates DEF Unwritten
<1>1. CASE post_state(a) = "Written"
  <2>1. Info(a) = cache[a].info
    BY <1>0 DEF Info
  <2>2. Info(a).nonce = pre[a].nonce /\ Info(a).balance = pre[a].balance
    BY <1>0, <1>1, <2>1 DEF NeedsPreimage
  <2>3. native[a].nonce = pre[a].nonce /\ native[a].balance = pre[a].balance
        /\ Fieldsof(a) = Contents(pre[a]).fields
    BY <2>2 DEF AccountInv, WrittenInv
  <2>4. native[a] = NoLeaf => pre[a] = NoLeaf
    BY DEF AccountInv, LifeInv
  <2>5. CASE pre[a] = NoLeaf /\ native[a] # NoLeaf
    <3>1. native[a].nonce = 0 /\ native[a].balance = 0 /\ native[a].fields = "zero"
      BY <2>3, <2>5 DEF NoLeaf, Contents, ZeroLeaf, Fieldsof
    <3>2. native[a] = ZeroLeaf
      BY <3>1, NativeFacts DEF ZeroLeaf
    <3> QED
      BY <2>5, <3>2 DEF Contents
  <2>6. CASE pre[a] # NoLeaf /\ native[a] # NoLeaf
    <3>1. native[a].fields = pre[a].fields
      BY <2>3, <2>6 DEF Contents, Fieldsof
    <3>2. native[a] = pre[a]
      BY <2>3, <3>1, NativeFacts, PreFacts
    <3> QED
      BY <3>2
  <2> QED
    BY <2>4, <2>5, <2>6
<1>2. CASE post_state(a) = "Destroyed"
  <2>1. pre[a].nonce = 0 /\ pre[a].balance = 0
    BY <1>0, <1>2 DEF NeedsPreimage, DefaultInfo
  <2>2. pre[a] # NoLeaf => pre[a].fields = "zero"
    BY <2>1, PreFacts
  <2>3. Contents(pre[a]) = ZeroLeaf
    BY <2>1, <2>2, PreFacts DEF Contents, ZeroLeaf
  <2>4. native[a] = IF pre[a] = NoLeaf THEN NoLeaf ELSE ZeroLeaf
    BY <1>2, PostStates DEF AccountInv, WrittenInv
  <2> QED
    BY <2>3, <2>4 DEF Contents
<1> QED
  BY <1>0, <1>1, <1>2, PostStates

\* No operator choice of after-preimages, and no omission, can leave the tree with
\* account contents native does not have (build_revm_write_map), for any accounts
\* and any sequence of transactions and blocks of a batch.
THEOREM AccountsAlwaysExact == Spec => []AccountsExact
<1>1. ASSUME WritesInv, NEW a \in Accounts, ~TrustedHole(a), NEW p \in Acceptable(a)
      PROVE  Contents(LeafAfter(a, p)) = Contents(native[a])
  <2>0. TypeInv /\ AccountInv(a)
    BY <1>1 DEF WritesInv
  <2>1. CASE p = NoLeaf
    <3>0. LeafAfter(a, p) = pre[a]
      BY <2>1 DEF LeafAfter
    <3>1. CASE Unwritten(a)
      <4>1. ~upgrade
        BY <1>1, <2>0, <3>1, PostStates DEF TrustedHole
      <4>2. native[a] = pre[a]
        BY <2>0, <3>1, <4>1 DEF AccountInv, UnwrittenInv
      <4> QED
        BY <3>0, <4>2
    <3>2. CASE ~Unwritten(a)
      <4>1. ~NeedsPreimage(a)
        BY <1>1, <2>1 DEF Acceptable, Leaves, Fields, NoLeaf
      <4> QED
        BY <2>0, <3>0, <3>2, <4>1, OmittedIsNative
    <3> QED
      BY <3>1, <3>2
  <2>2. CASE p # NoLeaf
    <3>1. p \in Leaves /\ PreimageAccepted(a, p)
      BY <1>1, <2>2 DEF Acceptable
    <3>2. ~Unwritten(a)
      BY <1>1, <2>0, <3>1, PostStates DEF PreimageAccepted, MayBeUnwritten, TrustedHole
    <3>3. p = Contents(native[a])
      BY <2>0, <3>1, <3>2, AcceptedIsNative
    <3>4. Contents(p) = p /\ LeafAfter(a, p) = p
      BY <2>2 DEF Contents, LeafAfter
    <3> QED
      BY <3>3, <3>4
  <2> QED
    BY <2>1, <2>2
<1>2. WritesInv => AccountsExact
  BY <1>1 DEF AccountsExact
<1> QED
  BY <1>2, AlwaysWritesInv, PTL

\* "the account has one legal leaf and the preimage carries no operator choice"
\* (verify.rs): at most one preimage of an account is accepted.
THEOREM AlwaysOneLegalLeaf == Spec => []OneLegalLeaf
<1>1. ASSUME WritesInv, NEW a \in Accounts, ~TrustedHole(a)
      PROVE  Cardinality(Acceptable(a) \ {NoLeaf}) <= 1
  <2>0. TypeInv /\ AccountInv(a)
    BY <1>1 DEF WritesInv
  <2>1. ASSUME NEW p \in Acceptable(a) \ {NoLeaf} PROVE p = Contents(native[a])
    <3>1. p \in Leaves /\ PreimageAccepted(a, p)
      BY <2>1 DEF Acceptable
    <3>2. ~Unwritten(a)
      BY <1>1, <2>0, <3>1, PostStates DEF PreimageAccepted, MayBeUnwritten, TrustedHole
    <3> QED
      BY <2>0, <3>1, <3>2, AcceptedIsNative
  <2>2. Acceptable(a) \ {NoLeaf} = {} \/ Acceptable(a) \ {NoLeaf} = {Contents(native[a])}
    BY <2>1
  <2>3. Cardinality({}) = 0 /\ Cardinality({Contents(native[a])}) = 1
    BY FS_EmptySet, FS_Singleton
  <2> QED
    BY <2>2, <2>3
<1>2. WritesInv => OneLegalLeaf
  BY <1>1 DEF OneLegalLeaf
<1> QED
  BY <1>2, AlwaysWritesInv, PTL

\* The guest refuses no batch native produced: the preimages of the accounts
\* native recorded a change for pass build_revm_write_map's checks, and no other
\* is demanded.
THEOREM NativeAlwaysAccepted == Spec => []HonestAccepted
<1>1. ASSUME WritesInv, NEW a \in Accounts
      PROVE  NativePreimage(a) \in Acceptable(a)
  <2>0. TypeInv /\ AccountInv(a) /\ native[a] \in Leaves \cup {NoLeaf}
    BY <1>1 DEF WritesInv, TypeInv
  <2>1. CASE a \in changed /\ native[a] # NoLeaf
    <3>1. NativePreimage(a) = native[a] /\ native[a] \in Leaves
      BY <2>0, <2>1 DEF NativePreimage
    <3>2. PreimageAccepted(a, native[a])
      <4>1. CASE post_state(a) = "Written"
        <5>1. ~Unwritten(a)
          BY <2>0, <4>1, PostStates
        <5>2. native[a].fields = Fieldsof(a)
          BY <2>1 DEF Fieldsof
        <5> QED
          BY <2>0, <4>1, <5>1, <5>2
             DEF AccountInv, WrittenInv, PreimageAccepted, CodeFieldsMatch
      <4>2. CASE post_state(a) = "Destroyed"
        <5>1. ~Unwritten(a) /\ cache[a].state = "NotExisting"
          BY <2>0, <4>2, PostStates
        <5>2. native[a] = IF pre[a] = NoLeaf THEN NoLeaf ELSE ZeroLeaf
          BY <2>0, <5>1 DEF AccountInv, WrittenInv
        <5> QED
          BY <2>1, <4>2, <5>2 DEF PreimageAccepted
      <4>3. CASE post_state(a) = "Unwritten"
        <5>1. Unwritten(a)
          BY <2>0, <4>3, PostStates
        <5>2. upgrade /\ native[a].fields = "contract"
          BY <2>0, <2>1, <5>1 DEF AccountInv, UnwrittenInv
        <5> QED
          BY <4>3, <5>2 DEF PreimageAccepted, MayBeUnwritten, SelfConsistent
      <4> QED
        BY <2>0, <4>1, <4>2, <4>3, PostStates
    <3> QED
      BY <3>1, <3>2 DEF Acceptable
  <2>2. CASE ~(a \in changed /\ native[a] # NoLeaf)
    <3>1. NativePreimage(a) = NoLeaf
      BY <2>2 DEF NativePreimage
    <3>2. ~NeedsPreimage(a)
      <4>1. CASE post_state(a) = "Written"
        <5>0. cache[a].state # "Unloaded" /\ ~Unwritten(a)
          BY <2>0, <4>1, PostStates
        <5>1. Info(a) = cache[a].info
          BY <5>0 DEF Info
        <5>2. native[a] = pre[a]
          BY <2>0, <2>2, <5>0 DEF AccountInv, WrittenInv, LifeInv
        <5>3. native[a].nonce = Info(a).nonce /\ native[a].balance = Info(a).balance
          BY <2>0, <5>0 DEF AccountInv, WrittenInv
        <5> QED
          BY <4>1, <5>1, <5>2, <5>3 DEF NeedsPreimage
      <4>2. CASE post_state(a) = "Destroyed"
        <5>1. ~Unwritten(a) /\ cache[a].state = "NotExisting"
          BY <2>0, <4>2, PostStates
        <5>2. native[a] = pre[a]
          BY <2>0, <2>2, <5>1 DEF AccountInv, WrittenInv, LifeInv
        <5>3. native[a].nonce = 0 /\ native[a].balance = 0
          BY <2>0, <5>1 DEF AccountInv, WrittenInv, NoLeaf, ZeroLeaf
        <5> QED
          BY <4>2, <5>2, <5>3 DEF NeedsPreimage, DefaultInfo
      <4>3. CASE post_state(a) = "Unwritten"
        BY <4>3 DEF NeedsPreimage
      <4> QED
        BY <2>0, <4>1, <4>2, <4>3, PostStates
    <3> QED
      BY <3>1, <3>2 DEF Acceptable
  <2> QED
    BY <2>1, <2>2
<1>2. WritesInv => HonestAccepted
  BY <1>1 DEF HonestAccepted
<1> QED
  BY <1>2, AlwaysWritesInv, PTL

\* The storage writes of a batch (run_evm_block's slot_writes, block by block)
\* turn the pre-state into what execution left, in any number of blocks and
\* though a destruction resets slots without a write.
THEOREM StorageAlwaysExact == Spec => []StorageExact
<1>1. ASSUME WritesInv, Executed, NEW a \in Accounts
      PROVE  slot[a] = IF a \in DOMAIN writes THEN writes[a] ELSE preSlot[a]
  <2>1. SlotInv(a) /\ DOMAIN blockDiff = {}
    BY <1>1 DEF WritesInv, Executed
  <2> QED
    BY <2>1 DEF SlotInv, Sealed
<1>2. WritesInv => StorageExact
  BY <1>1 DEF StorageExact
<1> QED
  BY <1>2, AlwaysWritesInv, PTL
=============================================================================

--------------------------- MODULE CryptoProvider ---------------------------
(***************************************************************************)
(* The crypto backend as the executor calls it, one call at a time: every   *)
(* precompile of Precompiles and every transaction's signer recovery is     *)
(* answered both as the ZiSK guest answers it and as native execution does, *)
(* the build that emits hints for the guest emits them, and the streaming   *)
(* hasher of Blake2s is fed in chunks of any size.                          *)
(***************************************************************************)
EXTENDS Precompiles, Blake2s

CONSTANTS MaxMessage,   \* longest message hashed
          MaxPairs      \* most pairs of a pairing or an MSM

ASSUME CallBounds == MaxMessage \in Nat /\ MaxPairs \in Nat

VARIABLES
  last,      \* the call in hand: both answers, the hints the hint build emitted
             \* for it, the guest hooks (one hint each) that it ran, and whether
             \* hooks.rs says two things of zisklib's answer
  paused,    \* whether hint emission is paused (external)
  hasher,    \* a Blake2s256, or << >> when there is none
  data,      \* what the current update has still to absorb
  fed,       \* length of the message fed so far
  digest     \* the digest of the last finalize

hashVars == <<hasher, data, fed, digest>>
vars == <<zisklib, last, paused, hashVars>>

NoCall == [op |-> "none", zisk |-> Halt, native |-> Halt, hints |-> 0, hooked |-> 0,
           disputed |-> FALSE]

Idle == hasher = << >>

\* The precompiles and a hasher share no state: a behaviour follows the one or
\* the other.
Ready == last = NoCall /\ Idle /\ digest = << >>
-----------------------------------------------------------------------------
(***************************************************************************)
(* Inputs.                                                                  *)
(***************************************************************************)
Points(classes) == [cls : {"element"}, v : 0..(R - 1)] \cup [cls : classes, v : 1..2]

G1Bn == Points({"noncanonical", "off_curve"})
AnyPoint == Points({"noncanonical", "off_curve", "no_subgroup"})
Fields == Points({"noncanonical"})
Scalars == 0..(R + 1)

ListsUpTo(S, n) == UNION {[1..k -> S] : k \in 0..n}
Digits(n) == ListsUpTo(0..(BYTE - 1), n)

Some(x) == [ok |-> TRUE, value |-> x]
Items(S) == {Halt} \cup {Some(x) : x \in [point : S, scalar : {0, 1, R}]}
-----------------------------------------------------------------------------
Init ==
  /\ zisklib \in Zisklibs
  /\ last = NoCall
  /\ paused = FALSE
  /\ hasher = << >>
  /\ data = << >>
  /\ fed = 0
  /\ digest = << >>

\* The hints n requests emit, paused or not (external).
Emitted(n, is_paused) == IF is_paused THEN 0 ELSE n

\* A call that reaches the hook: the hint build asks for its hint and goes on
\* in native code, which asks for none.
CallOn(op, zisk, native, disputed) ==
  /\ last' = [op |-> op, zisk |-> zisk, native |-> native,
              hints |-> Emitted(1, paused), hooked |-> 1, disputed |-> disputed]
  /\ UNCHANGED <<zisklib, paused, hashVars>>

Call(op, zisk, native) == CallOn(op, zisk, native, FALSE)

Bn254Add == \E a, b \in G1Bn :
  Call("bn254_g1_add", zisk_bn254_g1_add(a, b), RefAdd(a, b))

Bn254Mul == \E p \in G1Bn, k \in Scalars :
  Call("bn254_g1_mul", zisk_bn254_g1_mul(p, k), RefMul(p, k))

Bn254Pairing == \E pairs \in ListsUpTo([g1 : G1Bn, g2 : AnyPoint], MaxPairs) :
  Call("bn254_pairing_check", zisk_bn254_pairing_check(pairs), RefPairing(pairs))

Modexp == \E base, exp \in Digits(3), modulus \in Digits(5) :
  Call("modexp", zisk_modexp(base, exp, modulus), RefModexp(base, exp, modulus))

BlsAdd == \E a, b \in AnyPoint :
  \/ Call("bls12_381_g1_add", zisk_bls12_381_g1_add(a, b), RefBlsAdd(a, b))
  \/ Call("bls12_381_g2_add", zisk_bls12_381_g2_add(a, b), RefBlsAdd(a, b))

\* An invalid point has a scalar that reduces to zero.
DropsInvalid(items) ==
  \E i \in DOMAIN items : /\ ~ Valid(items[i].value.point)
                          /\ items[i].value.scalar % R = 0

\* An item that cannot be read ends the call on every build before the hint.
Msm(op, items, zisk) ==
  LET read == Readable(items)
  IN  /\ last' = [op |-> op, zisk |-> zisk,
                  native |-> IF read THEN RefMsm(items) ELSE Halt,
                  hints  |-> IF read THEN Emitted(1, paused) ELSE 0,
                  hooked |-> IF read THEN 1 ELSE 0,
                  disputed |-> read /\ DropsInvalid(items)]
      /\ UNCHANGED <<zisklib, paused, hashVars>>

BlsMsm == \E items \in ListsUpTo(Items(AnyPoint), MaxPairs) :
  \/ Msm("bls12_381_g1_msm", items, zisk_bls12_381_g1_msm(items))
  \/ Msm("bls12_381_g2_msm", items, zisk_bls12_381_g2_msm(items))

BlsPairing == \E pairs \in ListsUpTo([g1 : AnyPoint, g2 : AnyPoint], MaxPairs) :
  Call("bls12_381_pairing_check", zisk_bls12_381_pairing_check(pairs),
       RefPairing(pairs))

\* The two hash precompiles are opaque functions of their input on both builds.
Sha256 == Call("sha256", Ok(<<"sha256", "input">>), Ok(<<"sha256", "input">>))

Blake2Compress ==
  Call("blake2_compress", Ok(<<"blake2b", "input">>), Ok(<<"blake2b", "input">>))

P256Verify == \E msg \in 0..N, sig \in [r : 0..N, s : 0..N],
                pk \in [cls : {"element"}, v : 0..(N - 1)] \cup
                      [cls : {"noncanonical", "off_curve"}, v : {1}] :
  CallOn("secp256r1_verify_signature", zisk_secp256r1_verify_signature(msg, sig, pk),
         RefP256(msg, sig, pk), Valid(pk) /\ pk.v # 0 /\ P256X(pk.v) = 0)

Kzg == \E z, y \in 0..R, commitment, proof \in AnyPoint :
  Call("verify_kzg_proof", zisk_verify_kzg_proof(z, y, commitment, proof),
       RefKzg(z, y, commitment, proof))

BlsMap == \E u \in Fields :
  \/ CallOn("bls12_381_fp_to_g1", zisk_bls12_381_fp_to_g1(u), RefMap(u),
            RefMap(u) = Ok(0))
  \/ Call("bls12_381_fp2_to_g2", zisk_bls12_381_fp2_to_g2(u), RefMap(u))

\* The two recoveries pause the hints around the native code, whose own hashing
\* may ask for a hint the guest never reads, and resume them on every return,
\* early ones included, unless they were paused before.
pause_hints(is_paused) == [already_paused |-> is_paused, paused |-> TRUE]

\* mutant: hints are resumed though the caller had paused them.
resume_hints_guard_always(already_paused) == FALSE

resume_hints_guard(already_paused) == already_paused

Recover(op, zisk, native) ==
  LET pause == pause_hints(paused)
  IN  \E nested \in {0, 1} :
        /\ last' = [op |-> op, zisk |-> zisk, native |-> native,
                    hints  |-> Emitted(1, paused) + Emitted(nested, pause.paused),
                    hooked |-> 1, disputed |-> FALSE]
        /\ paused' = resume_hints_guard(pause.already_paused)
        /\ UNCHANGED <<zisklib, hashVars>>

\* DefaultCrypto's ecrecover is k256's, as native_recover_signer is.
Ecrecover == \E r, s, z \in 0..(N - 1), recid \in {0, 1} :
  Recover("secp256k1_ecrecover", zisk_secp256k1_ecrecover(r, s, recid, z),
          native_recover_signer(r, s, recid, z))

RecoverSigner == \E r, s, z \in 0..(N - 1), recid \in {0, 1} :
  Recover("recover_signer_unchecked", zisk_recover_signer(r, s, recid, z),
          native_recover_signer(r, s, recid, z))

\* The executor takes the answer.
TakeAnswer == last # NoCall /\ last' = NoCall /\ UNCHANGED <<zisklib, paused, hashVars>>

\* The host around the executor pauses and resumes hints between calls.
HostPauses == paused' = ~ paused /\ UNCHANGED <<zisklib, last, hashVars>>
-----------------------------------------------------------------------------
(***************************************************************************)
(* The streaming hasher: byte number i of the message is i.                 *)
(***************************************************************************)
NewHasher ==
  /\ Ready
  /\ hasher' = new
  /\ data' = << >>
  /\ fed' = 0
  /\ UNCHANGED <<zisklib, last, paused, digest>>

Update ==
  /\ ~ Idle
  /\ data = << >>
  /\ \E n \in 1..(MaxMessage - fed) :
       /\ data' = [i \in 1..n |-> fed + i]
       /\ fed' = fed + n
  /\ UNCHANGED <<zisklib, last, paused, hasher, digest>>

Absorb ==
  /\ data # << >>
  /\ hasher' = absorb(hasher, data)
  /\ data' = SubSeq(data, taken(hasher, data) + 1, Len(data))
  /\ UNCHANGED <<zisklib, last, paused, fed, digest>>

Finalize ==
  /\ ~ Idle
  /\ data = << >>
  /\ digest' = finalize(hasher)
  /\ hasher' = << >>
  /\ UNCHANGED <<zisklib, last, paused, data, fed>>

Next ==
  \/ Ready /\ ( \/ Bn254Add \/ Bn254Mul \/ Bn254Pairing \/ Modexp
                \/ BlsAdd \/ BlsMsm \/ BlsPairing \/ BlsMap
                \/ Sha256 \/ Blake2Compress \/ P256Verify \/ Kzg
                \/ Ecrecover \/ RecoverSigner \/ HostPauses )
  \/ TakeAnswer
  \/ NewHasher \/ Update \/ Absorb \/ Finalize

Spec == Init /\ [][Next]_vars
-----------------------------------------------------------------------------
\* Every call the executor makes is answered alike by the guest and by native
\* execution, results and failures both: the zero results, the unreduced
\* coordinates next to an infinity point (hooks.rs:108-144), the operands of
\* any length of modexp (hooks.rs:146-171), MSM points with a zero scalar, maps
\* to the identity and P-256 keys with x = 0 (hooks.rs:247-275, 344-358, 173-189),
\* and the unnormalised s of the guest's recovery against the normalised one of
\* the native code (guest/src/main.rs:210-213, impls.rs:827-841). Should zisklib
\* depart from the EIPs, as comments on three tests say, then the two answers may
\* differ on the calls those comments name, which no hook works around
\* (hooks.rs:264, 351, 188), but on no other.
GuestMatchesNative ==
  last.zisk # last.native => zisklib = "departs" /\ last.disputed

\* The guest reads one hint in each hook it runs, in the order of the calls, so
\* one hint too many or too few shifts all that follow. Whatever a call returns,
\* it emits a hint for every hook it reaches and no other unless hints were
\* paused before it, and leaves them paused or not as it found them
\* (impls.rs:205-269, 802-843, 459-519).
HintsOncePerCall ==
  [][last = NoCall /\ last' # NoCall =>
       paused' = paused /\ last'.hints = (IF paused THEN 0 ELSE last'.hooked)]_vars

Message == [i \in 1..fed |-> i]

\* However a message is cut into updates, the hasher's digest is that of the
\* whole message, at every length around a block boundary and with the stale
\* tail of an earlier block in the buffer (blake2s.rs:194-219); for a message
\* of one block it is node_hash of its halves (blake2s.rs:75-83).
DigestExact ==
  Idle /\ digest # << >> =>
    /\ digest = Digest(Message)
    /\ fed = BLOCK_BYTES =>
         digest = node_hash(SubSeq(Message, 1, DIGEST_BYTES),
                            SubSeq(Message, DIGEST_BYTES + 1, BLOCK_BYTES))
=============================================================================

---------------------------- MODULE Precompiles ----------------------------
(***************************************************************************)
(* The EVM's elliptic-curve and big-integer precompiles on the two sides    *)
(* that must agree: the ZiSK guest (lib/src/crypto/impls.rs over the hooks  *)
(* of guest/src/hooks.rs over zisklib) and native execution (impls.rs over  *)
(* revm's DefaultCrypto).                                                   *)
(*                                                                         *)
(* A curve group is the integers modulo a small prime R, 0 being infinity,  *)
(* and the pairing is multiplication of exponents. What a point encoding    *)
(* can be besides a group element is a class: a coordinate not reduced      *)
(* modulo p (it still stands for the element v), a point off the curve, or  *)
(* one outside the subgroup. secp256k1 is a group of prime order N whose    *)
(* x coordinate is the same for k and -k. Bytes are digits base BYTE.       *)
(***************************************************************************)
EXTENDS Integers, Sequences, SequencesExt

CONSTANTS R, N, BYTE, LIMB_BYTES, U256_LIMBS,
          TAU   \* the exponent of the KZG setup

ASSUME PrecompileSizes ==
  /\ {R, N, BYTE} \subseteq Nat \ {0, 1}
  /\ {LIMB_BYTES, U256_LIMBS} \subseteq Nat \ {0}
  /\ TAU \in 0..(R - 1)

\* zisklib is external and hooks.rs describes it in two ways. The comments on the
\* hooks (lines 175-181, 251-252 and 346-348) say that it follows the EIPs; those on
\* three tests (lines 1003-1008, 1491-1495 and 1703-1705) that it departs from them:
\* it drops MSM pairs with a zero scalar unchecked, aborts where the map to G1
\* meets the identity, and rejects P-256 keys with x = 0.
VARIABLE zisklib   \* the zisklib linked, by the one or the other description

Zisklibs == {"follows", "departs"}

Ok(v) == [ok |-> TRUE, value |-> v]
Halt == [ok |-> FALSE]
Abort == [ok |-> FALSE, aborted |-> TRUE]
Element(v) == [cls |-> "element", v |-> v]
SumOver(s, f(_)) == FoldLeft(LAMBDA a, x : (a + f(x)) % R, 0, s)
-----------------------------------------------------------------------------
(***************************************************************************)
(* zisklib, from how hooks.rs describes and uses it. A result is an error   *)
(* code, or 0 and a value; a negative code stands for an abort of the guest *)
(* program.                                                                 *)
(***************************************************************************)
Fails(code) == [err |-> code, v |-> 0]
Gives(v) == [err |-> 0, v |-> v]
Aborts == Fails(-1)

bn254_point_error(p) ==
  CASE p.cls = "noncanonical" -> 2 [] p.cls = "off_curve" -> 3 [] OTHER -> 0

add_complete_safe_bn254(a, b) ==
  IF bn254_point_error(a) # 0 THEN Fails(bn254_point_error(a))
  ELSE IF bn254_point_error(b) # 0 THEN Fails(bn254_point_error(b))
  ELSE Gives((a.v + b.v) % R)

scalar_mul_complete_safe_bn254(p, k) ==
  IF bn254_point_error(p) # 0 THEN Fails(bn254_point_error(p))
  ELSE Gives((p.v * (k % R)) % R)

\* A pair with an infinity point is passed over: its partner's coordinates
\* are then not checked for being canonical.
pairing_check_safe_bn254(pairs) ==
  LET skipped(q) == q.g1 = Element(0) \/ q.g2 = Element(0)
      error(q) ==
        CASE ~ skipped(q) /\ q.g1.cls = "noncanonical" -> 2
          [] q.g1.cls = "off_curve"                    -> 3
          [] ~ skipped(q) /\ q.g2.cls = "noncanonical" -> 4
          [] q.g2.cls = "off_curve"                    -> 5
          [] q.g2.cls = "no_subgroup"                  -> 6
          [] OTHER                                     -> 0
      bad == SelectSeq(pairs, LAMBDA q : error(q) # 0)
  IN  IF bad # << >> THEN Fails(error(bad[1]))
      ELSE Gives(SumOver(pairs, LAMBDA q : q.g1.v * q.g2.v))

bls_point_error(p) == IF p.cls \in {"noncanonical", "off_curve"} THEN 2 ELSE 0

bls_subgroup_error(p) ==
  IF bls_point_error(p) # 0 THEN bls_point_error(p)
  ELSE IF p.cls = "no_subgroup" THEN 3 ELSE 0

\* G1ADD and G2ADD have no subgroup check.
add_complete_safe_bls12_381(a, b) ==
  IF bls_point_error(a) # 0 \/ bls_point_error(b) # 0 THEN Fails(2)
  ELSE Gives((a.v + b.v) % R)

\* Every point is validated before a pair with a zero scalar is dropped, or, if
\* zisklib departs, only what is left.
msm_complete_safe_bls12_381(pairs) ==
  LET checked == IF zisklib = "departs"
                 THEN SelectSeq(pairs, LAMBDA q : q.scalar % R # 0) ELSE pairs
      bad == SelectSeq(checked, LAMBDA q : bls_subgroup_error(q.point) # 0)
  IN  IF bad # << >> THEN Fails(bls_subgroup_error(bad[1].point))
      ELSE Gives(SumOver(pairs, LAMBDA q : q.point.v * (q.scalar % R)))

pairing_check_safe_bls12_381(pairs) ==
  LET error(q) == IF bls_subgroup_error(q.g1) # 0 THEN bls_subgroup_error(q.g1)
                  ELSE IF bls_subgroup_error(q.g2) # 0
                  THEN 2 + bls_subgroup_error(q.g2) ELSE 0
      bad == SelectSeq(pairs, LAMBDA q : error(q) # 0)
  IN  IF bad # << >> THEN Fails(error(bad[1]))
      ELSE Gives(SumOver(pairs, LAMBDA q : q.g1.v * q.g2.v))

\* Some map of field elements to the group, with a kernel.
Mapped(u) == (u.v * u.v) % R

map_to_curve_g1_bls12_381(u) ==
  IF u.cls = "noncanonical" THEN Fails(1)
  ELSE IF Mapped(u) = 0 /\ zisklib = "departs" THEN Aborts
  ELSE Gives(Mapped(u))

map_to_curve_g2_bls12_381(u) ==
  IF u.cls = "noncanonical" THEN Fails(1) ELSE Gives(Mapped(u))

PowMod(b, e, m) ==
  LET pow[i \in 0..e] == IF i = 0 THEN 1 % m ELSE (pow[i - 1] * b) % m
  IN  pow[e]
-----------------------------------------------------------------------------
(***************************************************************************)
(* The hooks: a return code and an output buffer.                           *)
(***************************************************************************)
HookPoint(res) ==
  CASE res.err # 0 -> [code |-> res.err, out |-> 0]
    [] res.v = 0   -> [code |-> 1, out |-> 0]
    [] OTHER       -> [code |-> 0, out |-> res.v]

HookCheck(res) == IF res.err # 0 THEN res.err ELSE IF res.v = 0 THEN 0 ELSE 1

bn254_g1_add(a, b) == HookPoint(add_complete_safe_bn254(a, b))

bn254_g1_mul(p, k) == HookPoint(scalar_mul_complete_safe_bn254(p, k))

\* mutant: leaves the field check of every coordinate to zisklib.
bn254_pairing_check_lazy(pairs) == HookCheck(pairing_check_safe_bn254(pairs))

fq_is_canonical(p) == p.cls # "noncanonical"

bn254_pairing_check(pairs) ==
  LET noncanonical(q) == ~ fq_is_canonical(q.g1) \/ ~ fq_is_canonical(q.g2)
      bad == SelectSeq(pairs, noncanonical)
  IN  IF bad # << >> THEN IF fq_is_canonical(bad[1].g1) THEN 4 ELSE 2
      ELSE HookCheck(pairing_check_safe_bn254(pairs))

bls12_381_g1_add(a, b) == HookPoint(add_complete_safe_bls12_381(a, b))
bls12_381_g2_add(a, b) == HookPoint(add_complete_safe_bls12_381(a, b))
bls12_381_g1_msm(pairs) == HookPoint(msm_complete_safe_bls12_381(pairs))
bls12_381_g2_msm(pairs) == HookPoint(msm_complete_safe_bls12_381(pairs))
bls12_381_pairing_check(pairs) == HookCheck(pairing_check_safe_bls12_381(pairs))

\* The maps have no code of their own for infinity.
bls12_381_fp_to_g1(u) ==
  LET res == map_to_curve_g1_bls12_381(u) IN [code |-> res.err, out |-> res.v]
bls12_381_fp2_to_g2(u) ==
  LET res == map_to_curve_g2_bls12_381(u) IN [code |-> res.err, out |-> res.v]
-----------------------------------------------------------------------------
(***************************************************************************)
(* modexp: big-endian bytes to limbs and back.                              *)
(***************************************************************************)
ByteValue(i) == BYTE ^ i

\* Leading zeros are dropped, but not the last byte.
be_bytes_to_u64_limbs(bytes) ==
  IF bytes = << >> THEN <<0>>
  ELSE LET nonzero == {i \in DOMAIN bytes : bytes[i] # 0}
           first   == IF nonzero = {} THEN Len(bytes)
                      ELSE CHOOSE i \in nonzero : \A j \in nonzero : i =< j
           digits  == Reverse(SubSeq(bytes, first, Len(bytes)))
           digit(i) == IF i =< Len(digits) THEN digits[i] ELSE 0
       IN  [l \in 1..((Len(digits) + LIMB_BYTES - 1) \div LIMB_BYTES) |->
              FoldLeft(LAMBDA a, i : a + digit((l - 1) * LIMB_BYTES + i + 1)
                                           * ByteValue(i),
                       0, [i \in 1..LIMB_BYTES |-> i - 1])]

be_bytes_to_u256_le(bytes) ==
  LET limbs  == be_bytes_to_u64_limbs(bytes)
      padded == ((Len(limbs) + U256_LIMBS - 1) \div U256_LIMBS) * U256_LIMBS
  IN  [i \in 1..padded |-> IF i =< Len(limbs) THEN limbs[i] ELSE 0]

u256_le_to_bytes_be(flat, out_len) ==
  [k \in 1..out_len |->
     LET from_end == out_len - k
         limb     == (from_end \div LIMB_BYTES) + 1
     IN  IF limb > Len(flat) THEN 0
         ELSE (flat[limb] \div ByteValue(from_end % LIMB_BYTES)) % BYTE]

LimbsValue(flat) ==
  FoldLeft(LAMBDA a, limb : a * ByteValue(LIMB_BYTES) + limb, 0, Reverse(flat))

BytesValue(bytes) == FoldLeft(LAMBDA a, b : a * BYTE + b, 0, bytes)

\* zisklib::modexp, external: as many limbs as the modulus has.
zisklib_modexp(base, exp, modulus) ==
  LET v == PowMod(LimbsValue(base), LimbsValue(exp), LimbsValue(modulus))
  IN  [i \in 1..Len(modulus) |->
         (v \div ByteValue(LIMB_BYTES * (i - 1))) % ByteValue(LIMB_BYTES)]

modexp(base, exp, modulus) ==
  IF \A i \in DOMAIN modulus : modulus[i] = 0
  THEN [i \in 1..Len(modulus) |-> 0]
  ELSE u256_le_to_bytes_be(
         zisklib_modexp(be_bytes_to_u256_le(base), be_bytes_to_u64_limbs(exp),
                        be_bytes_to_u256_le(modulus)),
         Len(modulus))
-----------------------------------------------------------------------------
(***************************************************************************)
(* Signature recovery on secp256k1.                                         *)
(***************************************************************************)
XCoordinate(k) == IF 2 * k =< N THEN k ELSE N - k

\* The exponents of the nonce points with this x and parity, at most one.
NoncePoints(r, recid) ==
  {k \in 1..(N - 1) : XCoordinate(k) = r /\ (2 * k > N) = (recid = 1)}

InverseModN(r) == CHOOSE i \in 1..(N - 1) : (i * r) % N = 1

\* Q = r^-1 (s R - z G). Zero r or s, an r that is no x coordinate and an
\* infinite Q are failures.
RecoverKey(r, s, recid, z) ==
  IF r = 0 \/ s = 0 \/ NoncePoints(r, recid) = {} THEN Halt
  ELSE LET k == CHOOSE p \in NoncePoints(r, recid) : TRUE
           q == (InverseModN(r) * (s * k + N - z)) % N
       IN  IF q = 0 THEN Halt ELSE Ok(q)

AddressOf(key) == <<"address", key>>

zkvm_secp256k1_ecrecover(r, s, recid, z) == RecoverKey(r, s, recid, z)

\* Hook and C symbol in one: the output holds the address behind zeros.
secp256k1_ecdsa_address_recover_c(r, s, recid, z) ==
  LET key == zkvm_secp256k1_ecrecover(r, s, recid, z)
  IN  IF ~ key.ok THEN [code |-> 1, out |-> 0]
      ELSE [code |-> 0, out |-> AddressOf(key.value)]

\* k256's Signature::normalize_s.
HighS(s) == 2 * s > N

\* On P-256 two keys, a point and its negation, have the x coordinate 0.
P256X(k) == ((N - 1) \div 2) - XCoordinate(k)

\* zisklib's P-256 verification takes the nonce point from a hint and checks the
\* equation z G + r Q = s K on it; an honest hint finds K whenever there is one. A
\* corrupted hint can only reject.
ecdsa_verify_secp256r1(pk, z, r, s) ==
  /\ {r, s} \subseteq 1..(N - 1)
  /\ pk.cls = "element" /\ pk.v # 0
  /\ zisklib = "departs" => P256X(pk.v) # 0
  /\ \E k \in 1..(N - 1) : P256X(k) = r /\ (z + r * pk.v) % N = (s * k) % N

secp256r1_verify(msg, sig, pk) == ecdsa_verify_secp256r1(pk, msg, sig.r, sig.s)

\* The proof opens the commitment to y at z: C - y = proof (TAU - z), with every
\* scalar reduced and every point in the subgroup.
zisklib_verify_kzg_proof(z, y, commitment, proof) ==
  /\ {z, y} \subseteq 0..(R - 1)
  /\ commitment.cls = "element" /\ proof.cls = "element"
  /\ (commitment.v + R - y) % R = (proof.v * (TAU + R - z)) % R

verify_kzg_proof(z, y, commitment, proof) ==
  zisklib_verify_kzg_proof(z, y, commitment, proof)
-----------------------------------------------------------------------------
(***************************************************************************)
(* The C symbols CustomEvmCrypto links against on the ZiSK target: each     *)
(* hands the buffers to its hook and the hook's code back. The pairs of a   *)
(* list are counted by the caller.                                          *)
(***************************************************************************)
Taken(pairs, num_pairs) == SubSeq(pairs, 1, num_pairs)

bn254_g1_add_c(p1, p2) == bn254_g1_add(p1, p2)
bn254_g1_mul_c(point, scalar) == bn254_g1_mul(point, scalar)
bn254_pairing_check_c(pairs, num_pairs) == bn254_pairing_check(Taken(pairs, num_pairs))
modexp_bytes_c(base, exp, modulus) == modexp(base, exp, modulus)
secp256r1_ecdsa_verify_c(msg, sig, pk) == secp256r1_verify(msg, sig, pk)
verify_kzg_proof_c(z, y, commitment, proof) == verify_kzg_proof(z, y, commitment, proof)
bls12_381_g1_add_c(a, b) == bls12_381_g1_add(a, b)
bls12_381_g1_msm_c(pairs, num_pairs) == bls12_381_g1_msm(Taken(pairs, num_pairs))
bls12_381_g2_add_c(a, b) == bls12_381_g2_add(a, b)
bls12_381_g2_msm_c(pairs, num_pairs) == bls12_381_g2_msm(Taken(pairs, num_pairs))
bls12_381_pairing_check_c(pairs, num_pairs) ==
  bls12_381_pairing_check(Taken(pairs, num_pairs))
bls12_381_fp_to_g1_c(fp) == bls12_381_fp_to_g1(fp)
bls12_381_fp2_to_g2_c(fp2) == bls12_381_fp2_to_g2(fp2)
-----------------------------------------------------------------------------
(***************************************************************************)
(* CustomEvmCrypto on the ZiSK target: a return code to a result.           *)
(***************************************************************************)
PointResult(hook) == IF hook.code \in {0, 1} THEN Ok(hook.out) ELSE Halt
CheckResult(code) == IF code \in {0, 1} THEN Ok(code = 0) ELSE Halt
CodeResult(hook) ==
  CASE hook.code = 0 -> Ok(hook.out) [] hook.code < 0 -> Abort [] OTHER -> Halt

zisk_bn254_g1_add(a, b) == PointResult(bn254_g1_add_c(a, b))
zisk_bn254_g1_mul(p, k) == PointResult(bn254_g1_mul_c(p, k))
zisk_bn254_pairing_check(pairs) ==
  CheckResult(bn254_pairing_check_c(pairs, Len(pairs)))
zisk_secp256k1_ecrecover(r, s, recid, z) ==
  CodeResult(secp256k1_ecdsa_address_recover_c(r, s, recid, z))
zisk_modexp(base, exp, modulus) == Ok(modexp_bytes_c(base, exp, modulus))
zisk_bls12_381_g1_add(a, b) == PointResult(bls12_381_g1_add_c(a, b))
zisk_bls12_381_g2_add(a, b) == PointResult(bls12_381_g2_add_c(a, b))

\* Items that cannot be read end the call before the hook runs.
Readable(items) == \A i \in DOMAIN items : items[i].ok

zisk_bls12_381_g1_msm(items) ==
  IF ~ Readable(items) THEN Halt
  ELSE PointResult(bls12_381_g1_msm_c([i \in DOMAIN items |-> items[i].value],
                                      Len(items)))
zisk_bls12_381_g2_msm(items) ==
  IF ~ Readable(items) THEN Halt
  ELSE PointResult(bls12_381_g2_msm_c([i \in DOMAIN items |-> items[i].value],
                                      Len(items)))

zisk_bls12_381_pairing_check(pairs) ==
  CheckResult(bls12_381_pairing_check_c(pairs, Len(pairs)))
zisk_bls12_381_fp_to_g1(u) == CodeResult(bls12_381_fp_to_g1_c(u))
zisk_bls12_381_fp2_to_g2(u) == CodeResult(bls12_381_fp2_to_g2_c(u))
zisk_recover_signer(r, s, recid, z) ==
  CodeResult(secp256k1_ecdsa_address_recover_c(r, s, recid, z))

zisk_secp256r1_verify_signature(msg, sig, pk) ==
  Ok(secp256r1_ecdsa_verify_c(msg, sig, pk))
zisk_verify_kzg_proof(z, y, commitment, proof) ==
  IF verify_kzg_proof_c(z, y, commitment, proof) THEN Ok("verified") ELSE Halt

\* On native targets recovery is k256's: a high s is replaced by its negation
\* and the recovery id flipped.
native_recover_signer(r, s, recid, z) ==
  LET key == IF HighS(s) THEN RecoverKey(r, N - s, 1 - recid, z)
             ELSE RecoverKey(r, s, recid, z)
  IN  IF key.ok THEN Ok(AddressOf(key.value)) ELSE Halt
-----------------------------------------------------------------------------
(***************************************************************************)
(* revm's DefaultCrypto, by what the EIPs require of it.                    *)
(***************************************************************************)
Valid(p) == p.cls = "element"

RefAdd(a, b) == IF Valid(a) /\ Valid(b) THEN Ok((a.v + b.v) % R) ELSE Halt

RefMul(p, k) == IF Valid(p) THEN Ok((p.v * k) % R) ELSE Halt

RefPairing(pairs) ==
  IF \A i \in DOMAIN pairs : Valid(pairs[i].g1) /\ Valid(pairs[i].g2)
  THEN Ok(SumOver(pairs, LAMBDA q : q.g1.v * q.g2.v) = 0)
  ELSE Halt

RefBlsAdd(a, b) ==
  IF a.cls \in {"noncanonical", "off_curve"} \/ b.cls \in {"noncanonical", "off_curve"}
  THEN Halt ELSE Ok((a.v + b.v) % R)

RefMsm(items) ==
  IF \A i \in DOMAIN items : Valid(items[i].value.point)
  THEN Ok(SumOver(items, LAMBDA q : q.value.point.v * q.value.scalar))
  ELSE Halt

\* The nonce point is computed and its x coordinate compared.
RefP256(msg, sig, pk) ==
  Ok(/\ {sig.r, sig.s} \subseteq 1..(N - 1)
     /\ Valid(pk) /\ pk.v # 0
     /\ LET k == (InverseModN(sig.s) * (msg + sig.r * pk.v)) % N
        IN  k # 0 /\ P256X(k) = sig.r)

\* The pairing product over the exponents is one.
RefKzg(z, y, commitment, proof) ==
  LET opens == /\ z < R /\ y < R /\ Valid(commitment) /\ Valid(proof)
               /\ (commitment.v - y + proof.v * (z - TAU)) % R = 0
  IN  IF opens THEN Ok("verified") ELSE Halt

RefMap(u) == IF u.cls = "noncanonical" THEN Halt ELSE Ok(Mapped(u))

RefModexp(base, exp, modulus) ==
  LET m == BytesValue(modulus)
      v == IF m = 0 THEN 0 ELSE PowMod(BytesValue(base), BytesValue(exp), m)
  IN  Ok([k \in 1..Len(modulus) |-> (v \div ByteValue(Len(modulus) - k)) % BYTE])
=============================================================================

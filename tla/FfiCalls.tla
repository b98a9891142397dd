------------------------------- MODULE FfiCalls -------------------------------
(***************************************************************************)
(* The services of the C interface: what each call asks of its arguments, *)
(* in which order, what it asks of the module, and when it writes to its  *)
(* caller. A call is a sequence of steps, run until one answers for it.   *)
(* Lengths given by the caller are told apart as none, less than the      *)
(* call's bound, or enough; each handle holds its state, since nothing    *)
(* that ships consumes one.                                               *)
(***************************************************************************)
EXTENDS ByteStrings, FiniteSets

-----------------------------------------------------------------------------
(* Steps: a slice of a length the caller gives, of one that is fixed, one   *)
(* that is written to in place; pointers that may not be null; a handle     *)
(* or an array that is read through its pointer; a bound on a length; the   *)
(* call inside with the lengths of what it returns, a copy of its i-th.     *)

Slice(p, len) == <<"slice", p, len>>
Array(p, n) == <<"array", p, n>>
Place(p, len) == <<"place", p, len>>
NonNull(ps) == <<"nonnull", ps>>
Handle(p) == <<"handle", p>>
Cast(p, n) == <<"cast", p, n>>
Bound(len, status) == <<"bound", len, status>>
Allowed == <<"inner", "module", <<>>>>
Inner(of, lens) == <<"inner", of, lens>>
InPlace(of, ps) == <<"inplace", of, ps>>
Copy(p, n, i) == <<"copy", p, n, i>>
Fill(p) == <<"fill", p>>
Value(p) == <<"value", p>>

ModuleErrors ==
  {"NotOperational", "AlreadyFailed", "SelfTestFailed", "ConditionalTestFailed", "AlreadyInitialized",
   "InvalidInput", "AlgorithmRestricted", "NotImplemented", "IntegrityNotAttested",
   "EntropyInputTooShort", "NonceTooShort"}
ModeErrors ==
  {"NotBlockAligned", "InvalidIvLength", "TagMismatch", "LengthMismatch", "InvalidNonceLength",
   "InvalidTagLength", "InvalidPayloadLength", "InvalidAadLength"}
DrbgErrors ==
  {"Uninstantiated", "ReseedRequired", "InputTooLong", "InvalidSeedLength", "RequestTooLong",
   "EntropyInputTooShort"}

\* What a call inside may answer besides that all is well.
Answers(of) ==
  CASE of \in {"module", "invalid is mismatch"} -> ModuleErrors
    [] of = "true or false" -> ModuleErrors \cup {"false"}
    [] of = "any pair" -> ModuleErrors \cup {"Unroutable", "VerificationFailed"}
    [] of = "mode" -> ModuleErrors \cup ModeErrors
    [] of = "kdf" -> ModuleErrors \cup {"OutputTooLong"}
    [] of = "drbg" -> ModuleErrors \cup DrbgErrors
    [] of = "known" -> {"none"}

FromModule(e) ==
  CASE e \in {"NotOperational", "AlreadyFailed"} -> "NotOperational"
    [] e = "IntegrityNotAttested" -> "IntegrityUnverified"
    [] e \in ModuleErrors -> e
    [] OTHER -> "Internal"
FromMode(e) == IF e \in ModeErrors THEN e ELSE FromModule(e)
FromKdf(e) == IF e = "OutputTooLong" THEN e ELSE FromModule(e)
FromDrbg(e) ==
  CASE e \in {"InputTooLong", "InvalidSeedLength"} -> "InvalidInput"
    [] e = "RequestTooLong" -> "OutputTooLong"
    [] e \in DrbgErrors -> e
    [] OTHER -> FromModule(e)
\* Fault: every error of a verifier is told as a mismatch.
FromVerify_Any(e) == "TagMismatch"
FromVerify(e) == IF e = "InvalidInput" THEN "TagMismatch" ELSE FromModule(e)
FromAnyPair(e) ==
  CASE e = "Unroutable" -> "InvalidInput"
    [] e = "VerificationFailed" -> "TagMismatch"
    [] OTHER -> FromModule(e)

\* The status of an answer.
Told(of, answer) ==
  CASE of = "module" -> FromModule(answer)
    [] of = "invalid is mismatch" -> FromVerify(answer)
    [] of = "true or false" -> IF answer = "false" THEN "TagMismatch" ELSE FromModule(answer)
    [] of = "any pair" -> FromAnyPair(answer)
    [] of = "mode" -> FromMode(answer)
    [] of = "kdf" -> FromKdf(answer)
    [] of = "drbg" -> FromDrbg(answer)
    [] of = "known" -> "NotOperational"

-----------------------------------------------------------------------------
(* A run of a call. The caller: which pointers are null, which lengths are  *)
(* none and which less than a bound, and what the calls inside answer in    *)
(* turn. What is left of it: the status, the pointers *)
(* that were read or written through, what was written, how often a call    *)
(* inside was made and the lengths of what it gave.                         *)

Begun == [status |-> "running", used |-> {}, wrote |-> {}, asked |-> 0, gave |-> <<>>]

Answer(caller, s) == caller.answers[s.asked + 1]
Ended(s, status) == [s EXCEPT !.status = status]
Use(s, p) == [s EXCEPT !.used = @ \cup {p}]
Wrote(s, p, n) == [s EXCEPT !.used = @ \cup {p}, !.wrote = @ \cup {<<p, n>>}]

\* A null pointer is no slice, but of no bytes; then it is never read.
SliceFromRaw(s, p, none, caller) ==
  CASE none -> s
    [] ~none /\ p \in caller.null -> Ended(s, "NullPointer")
    [] OTHER -> Use(s, p)

\* A call inside either gives all of its results or an error; what it was handed to fill in
\* place is then anything.
Asking(s, of, lens, places, caller) ==
  LET filled == {p \in places : p \in s.used}
      next == [s EXCEPT !.asked = @ + 1, !.gave = lens]
  IN IF Answer(caller, s) = "ok"
       THEN [next EXCEPT !.wrote = @ \cup (filled \X {"whole"})]
       ELSE Ended([next EXCEPT !.wrote = @ \cup (filled \X {"part"})], Told(of, Answer(caller, s)))

After(step, s, caller) ==
  CASE s.status # "running" -> s
    [] step[1] \in {"slice", "place"} -> SliceFromRaw(s, step[2], step[3] \in caller.none, caller)
    [] step[1] = "array" -> SliceFromRaw(s, step[2], FALSE, caller)
    [] step[1] = "nonnull" -> IF step[2] \cap caller.null # {} THEN Ended(s, "NullPointer") ELSE s
    [] step[1] \in {"handle", "cast"} -> Use(s, step[2])
    [] step[1] = "bound" -> IF step[2] \in caller.short THEN Ended(s, step[3]) ELSE s
    [] step[1] = "inner" -> Asking(s, step[2], step[3], {}, caller)
    [] step[1] = "inplace" -> Asking(s, step[2], <<>>, step[3], caller)
    [] step[1] = "fill" -> IF step[2] \in s.used THEN Wrote(s, step[2], "whole") ELSE s
    [] step[1] = "copy" -> Wrote(s, step[2], IF step[3] = s.gave[step[4]] THEN "whole" ELSE "other")
    [] step[1] = "value" -> Wrote(s, step[2], "whole")

\* A call that runs to its end answers Ok.
Run(call, caller) ==
  LET last == Chain(Len(call), Begun, LAMBDA i, s : After(call[i], s, caller))[Len(call)]
  IN IF last.status = "running" THEN Ended(last, "Ok") ELSE last

-----------------------------------------------------------------------------
(* The sections of the interface. A pointer that other calls of a section   *)
(* take as well has one name there.                                         *)

KeyFingerprint == {<<NonNull({"out"}), Bound("out", "BufferTooSmall"), Inner("known", <<32>>), Copy("out", 32, 1)>>}
StatusDetail ==
  {<<NonNull({"written"}), Value("written"), Inner("known", <<>>), Place("out", "out"),
     Bound("out", "BufferTooSmall"), Fill("out")>>}

Digest(n) == <<Slice("data", "data"), NonNull({"out"}), Inner("module", <<n>>), Copy("out", n, 1)>>
Sha2 == {Digest(n) : n \in {28, 32, 48, 64}}
Sha2Truncated == {Digest(n) : n \in {28, 32}}
Sha3 == {Digest(n) : n \in {28, 32, 48, 64}}

\* Key and message; the module is asked again at the end.
Mac(n) ==
  <<Slice("key", "key"), Slice("data", "data"), NonNull({"out"}), Inner("module", <<>>),
    Inner("module", <<n>>), Copy("out", n, 1)>>
HmacSha2 == {Mac(n) : n \in {32, 48, 64}}
HmacSha3 == {Mac(n) : n \in {28, 32, 48, 64}}

\* n bytes to a coordinate.
Ecdsa(n) ==
  {<<Array("d", n), NonNull({"pk"}), Inner("module", <<2 * n + 1>>), Copy("pk", 2 * n + 1, 1)>>,
   <<Array("d", n), Slice("msg", "msg"), Array("k", n), NonNull({"sig"}),
     Inner("module", <<2 * n>>), Copy("sig", 2 * n, 1)>>,
   <<Array("pk", 2 * n + 1), Slice("msg", "msg"), Array("sig", 2 * n), Inner("true or false", <<>>)>>}
EcdsaP256 == Ecdsa(32)
EcdsaP384 == Ecdsa(48)

Hkdf(n) ==
  {<<Slice("salt", "salt"), Slice("ikm", "ikm"), NonNull({"prk"}), Inner("module", <<>>),
     Inner("module", <<n>>), Copy("prk", n, 1)>>,
   <<Array("prk", n), Slice("info", "info"), Place("okm", "okm"), Inner("module", <<>>),
     InPlace("kdf", {"okm"})>>}
HkdfSha256 == Hkdf(32)
HkdfSha384 == Hkdf(48)
HkdfSha512 == Hkdf(64)

Tls13(p) ==
  <<Slice("secret", "secret"), Slice("label", "label"), Slice(p, p), Place("out", "out"),
    InPlace("module", {"out"})>>
Tls13ExpandLabel == {Tls13("context")}
Tls13DeriveSecret == {Tls13("transcript")}

Ed25519 ==
  {<<Array("seed", 32), NonNull({"pk"}), Inner("module", <<32>>), Copy("pk", 32, 1)>>,
   <<Array("seed", 32), Slice("msg", "msg"), NonNull({"sig"}), Inner("module", <<64>>), Copy("sig", 64, 1)>>,
   <<Array("pk", 32), Slice("msg", "msg"), Array("sig", 64), Inner("true or false", <<>>)>>}

\* Bytes of a private value, of a public one and of the secret.
Agreement(d, q, z) ==
  <<Array("d", d), Array("q", q), NonNull({"z"}), Inner("module", <<z>>), Copy("z", z, 1)>>
Ephemeral(d, q) ==
  <<NonNull({"drbg", "d", "q"}), Handle("drbg"), Inner("module", <<d, q>>), Copy("d", d, 1), Copy("q", q, 2)>>
Ecdh(n) == {Agreement(n, 2 * n + 1, n), Ephemeral(n, 2 * n + 1)}
EcdhP256 == Ecdh(32)
EcdhP384 == Ecdh(48)
Dh3072 == {Agreement(384, 384, 384), Ephemeral(384, 384)}

\* Both paddings.
RsaVerify(n) ==
  {<<Array("n", n), Slice("msg", "msg"), Array("sig", n), Inner("invalid is mismatch", <<>>)>>}
RsaVerify2048 == RsaVerify(256)
RsaVerify3072 == RsaVerify(384)
RsaVerify4096 == RsaVerify(512)

-----------------------------------------------------------------------------
(* Lengths as the crates inside compute them, of a parameter set.           *)

MlDsaLen(k, l, etaPacked, zPacked, omega, lambda) ==
  [pk |-> 32 + 320 * k, sk |-> 128 + (l + k) * etaPacked + 416 * k,
   sig |-> lambda \div 4 + l * zPacked + omega + k]
MlKemLen(k, du, dv) ==
  [ek |-> 384 * k + 32, dk |-> 768 * k + 96, ct |-> 32 * (du * k + dv)]
SlhLen(n, h, d, a, k) ==
  [pk |-> 2 * n, sk |-> 4 * n, sig |-> n * (1 + k * (1 + a) + h + d * (2 * n + 3))]
LmsLen(n, p, h) == [pk |-> 24 + n, sig |-> 12 + n * (1 + p + h)]
XmssLen == [pk |-> 68, sig |-> 36 + 32 * (67 + 10)]

\* The bytes of a seed, of both keys and of a signature, as the interface writes them, and as
\* they are inside.
Signatures(seed, pk, sk, sig, len) ==
  {<<Array("seed", seed), NonNull({"pk", "sk"}), Inner("module", <<len.pk, len.sk>>),
     Copy("pk", pk, 1), Copy("sk", sk, 2)>>,
   <<Array("sk", sk), Slice("msg", "msg"), Slice("ctx", "ctx"), NonNull({"sig"}),
     Inner("module", <<len.sig>>), Copy("sig", sig, 1)>>,
   <<Array("pk", pk), Slice("msg", "msg"), Slice("ctx", "ctx"), Array("sig", sig),
     Inner("invalid is mismatch", <<>>)>>}
MlDsa87 == Signatures(32, 2592, 4896, 4627, MlDsaLen(8, 7, 96, 640, 75, 256))
MlDsa44 == Signatures(32, 1312, 2560, 2420, MlDsaLen(4, 4, 96, 576, 80, 128))
MlDsa65 == Signatures(32, 1952, 4032, 3309, MlDsaLen(6, 5, 128, 640, 55, 192))

Encapsulation(ek, dk, ct, len) ==
  {<<Array("seed_d", 32), Array("seed_z", 32), NonNull({"ek", "dk"}), Inner("module", <<len.ek, len.dk>>),
     Copy("ek", ek, 1), Copy("dk", dk, 2)>>,
   <<Array("ek", ek), Array("m", 32), NonNull({"ss", "ct"}), Inner("module", <<32, len.ct>>),
     Copy("ss", 32, 1), Copy("ct", ct, 2)>>,
   <<Array("dk", dk), Array("ct", ct), NonNull({"ss"}), Inner("module", <<32>>), Copy("ss", 32, 1)>>}
MlKem1024 == Encapsulation(1568, 3168, 1568, MlKemLen(4, 11, 5))
MlKem512 == Encapsulation(800, 1632, 768, MlKemLen(2, 10, 4))
MlKem768 == Encapsulation(1184, 2400, 1088, MlKemLen(3, 10, 4))

Slh256s == Signatures(96, 64, 128, 29792, SlhLen(32, 64, 8, 14, 22))
Slh128s == Signatures(48, 32, 64, 7856, SlhLen(16, 63, 7, 12, 14))
Slh128f == Signatures(48, 32, 64, 17088, SlhLen(16, 66, 22, 6, 33))
Slh192s == Signatures(72, 48, 96, 16224, SlhLen(24, 63, 7, 14, 17))
Slh192f == Signatures(72, 48, 96, 35664, SlhLen(24, 66, 22, 8, 33))
Slh256f == Signatures(96, 64, 128, 49856, SlhLen(32, 68, 17, 9, 35))

SlhShake128s == Signatures(48, 32, 64, 7856, SlhLen(16, 63, 7, 12, 14))
SlhShake128f == Signatures(48, 32, 64, 17088, SlhLen(16, 66, 22, 6, 33))
SlhShake192s == Signatures(72, 48, 96, 16224, SlhLen(24, 63, 7, 14, 17))
SlhShake192f == Signatures(72, 48, 96, 35664, SlhLen(24, 66, 22, 8, 33))
SlhShake256s == Signatures(96, 64, 128, 29792, SlhLen(32, 64, 8, 14, 22))
SlhShake256f == Signatures(96, 64, 128, 49856, SlhLen(32, 68, 17, 9, 35))

Stateful(pk, sig) ==
  <<Array("pk", pk), Slice("msg", "msg"), Array("sig", sig), Inner("invalid is mismatch", <<>>)>>
Lms == {Stateful(56, 2508)}
LmsAnyPair == {<<Slice("pk", "pk"), Slice("msg", "msg"), Slice("sig", "sig"), Inner("any pair", <<>>)>>}
\* One call for each pair of a family, by the lengths of its own module: for every height of
\* the tree, the chains of the four widths of a digit.
Chains32 == {265, 133, 67, 34}
Chains24 == {200, 101, 51, 26}
LmsHeight(n, chains, h) == {Stateful(LmsLen(n, p, h).pk, LmsLen(n, p, h).sig) : p \in chains}
LmsSha256M32H5 == LmsHeight(32, Chains32, 5)
LmsSha256M32H10 == LmsHeight(32, Chains32, 10)
LmsSha256M32H15 == LmsHeight(32, Chains32, 15)
LmsSha256M32H20 == LmsHeight(32, Chains32, 20)
LmsSha256M32H25 == LmsHeight(32, Chains32, 25)
LmsSha256M32 == LmsSha256M32H5 \cup LmsSha256M32H10 \cup LmsSha256M32H15 \cup LmsSha256M32H20 \cup LmsSha256M32H25
LmsSha256M24H5 == LmsHeight(24, Chains24, 5)
LmsSha256M24H10 == LmsHeight(24, Chains24, 10)
LmsSha256M24H15 == LmsHeight(24, Chains24, 15)
LmsSha256M24H20 == LmsHeight(24, Chains24, 20)
LmsSha256M24H25 == LmsHeight(24, Chains24, 25)
LmsSha256M24 == LmsSha256M24H5 \cup LmsSha256M24H10 \cup LmsSha256M24H15 \cup LmsSha256M24H20 \cup LmsSha256M24H25
LmsShakeM32H5 == LmsHeight(32, Chains32, 5)
LmsShakeM32H10 == LmsHeight(32, Chains32, 10)
LmsShakeM32H15 == LmsHeight(32, Chains32, 15)
LmsShakeM32H20 == LmsHeight(32, Chains32, 20)
LmsShakeM32H25 == LmsHeight(32, Chains32, 25)
LmsShakeM32 == LmsShakeM32H5 \cup LmsShakeM32H10 \cup LmsShakeM32H15 \cup LmsShakeM32H20 \cup LmsShakeM32H25
LmsShakeM24H5 == LmsHeight(24, Chains24, 5)
LmsShakeM24H10 == LmsHeight(24, Chains24, 10)
LmsShakeM24H15 == LmsHeight(24, Chains24, 15)
LmsShakeM24H20 == LmsHeight(24, Chains24, 20)
LmsShakeM24H25 == LmsHeight(24, Chains24, 25)
LmsShakeM24 == LmsShakeM24H5 \cup LmsShakeM24H10 \cup LmsShakeM24H15 \cup LmsShakeM24H20 \cup LmsShakeM24H25
Xmss == {Stateful(68, 2500)}

-----------------------------------------------------------------------------
(* Handles. A key or a generator is given out by the step that ends the     *)
(* call that makes it; what uses one reads it through its pointer.          *)

Made(p) == <<NonNull({"drbg", p}), Handle("drbg"), Inner("module", <<>>), Value(p)>>
Component(p, n) == <<NonNull({"key", p}), Handle("key"), Inner("module", <<n>>), Copy(p, n, 1)>>
SignFor(n) ==
  <<NonNull({"key", "drbg", "sig"}), Slice("msg", "msg"), Handle("key"), Handle("drbg"),
    Inner("module", <<n>>), Copy("sig", n, 1)>>

EcdsaKey(n) == {Made("key"), Component("pk", 2 * n + 1), SignFor(2 * n)}
EcdsaP256Key == EcdsaKey(32)
EcdsaP384Key == EcdsaKey(48)

RsaKey(n) ==
  {Made("key"), Component("n", n), SignFor(n),
   <<NonNull({"key", "e"}), Handle("key"), Inner("module", <<>>), Value("e")>>,
   <<NonNull({"key", "sig"}), Slice("msg", "msg"), Handle("key"), Inner("module", <<n>>), Copy("sig", n, 1)>>}
\* Decryption writes nothing unless all of its checks hold; the modulus of 2048 bits has a
\* buffer of its own for that, the wider ones rely on the call inside.
RsaOaep(n) ==
  {<<NonNull({"drbg", "n", "ct"}), Array("n", n), Slice("label", "label"), Slice("msg", "msg"),
     Handle("drbg"), Inner("module", <<n>>), Copy("ct", n, 1)>>,
   <<NonNull({"key", "ct", "out", "actual"}), Bound("out", "InvalidInput"), Slice("label", "label"),
     Array("ct", n), Handle("key"), Inner("module", <<>>), Place("out", "out"), Fill("out"), Value("actual")>>}
Rsa2048Key == RsaKey(256)
Rsa2048Oaep == RsaOaep(256)
Rsa3072Key == RsaKey(384)
Rsa3072Oaep == RsaOaep(384)
Rsa4096Key == RsaKey(512)
Rsa4096Oaep == RsaOaep(512)

AesKey == {<<NonNull({"handle", "key"}), Cast("key", 32), Inner("module", <<>>), Value("handle")>>}

\* The profile is asked once for the service and the module again by the mode.
Service(ps) == <<NonNull({"key"} \cup ps), Allowed, Handle("key")>>

\* The text may be missing only if there is none, and its place then as well.
Gcm ==
  {Service({"iv", "tag"}) \o <<Cast("iv", 12), Slice("aad", "aad"), Slice("from", "text"), Place("to", "text"),
     Cast("tag", 16), InPlace("mode", {"to", "tag"})>>,
   Service({"iv", "tag"}) \o <<Cast("iv", 12), Slice("aad", "aad"), Slice("from", "text"), Place("to", "text"),
     Cast("tag", 16), InPlace("mode", {"to"})>>}
Cbc == {Service({"iv"}) \o <<Cast("iv", 16), Slice("from", "text"), Place("to", "text"), InPlace("mode", {"to"})>>}
Ctr == {Service({"icb"}) \o <<Cast("icb", 16), Slice("from", "text"), Place("to", "text"), InPlace("mode", {"to"})>>}
Ccm ==
  {Service({}) \o <<Slice("nonce", "nonce"), Slice("aad", "aad"), Slice("from", "text"), Place("to", "sum"),
     InPlace("mode", {"to"})>>,
   Service({}) \o <<Bound("text", "LengthMismatch"), Slice("nonce", "nonce"), Slice("aad", "aad"),
     Slice("from", "text"), Place("to", "rest"), InPlace("mode", {"to"})>>}
Cmac == {Service({"tag"}) \o <<Slice("msg", "msg"), Inner("module", <<16>>), Copy("tag", 16, 1)>>}
Wrap == Service({}) \o <<Slice("from", "text"), Array("to", 8), InPlace("mode", {"to"})>>
Unwrap(ps) ==
  Service(ps) \o <<Bound("text", "LengthMismatch"), Slice("from", "text"), Place("to", "rest"),
    InPlace("mode", {"to"})>>
Kw == {Wrap, Unwrap({})}
Kwp == {Wrap, Unwrap({"out_len"}) \o <<Value("out_len")>>}

\* A generator is made without the module, and seeded with what the caller gives.
NewDrbg == <<NonNull({"handle"}), Value("handle")>>
Seeding(seeds, of) ==
  <<NonNull({"handle"})>> \o [i \in 1..Len(seeds) |-> Slice(seeds[i], seeds[i])]
    \o <<Handle("handle"), Inner(of, <<>>)>>
\* No additional input and an empty one are told apart by the pointer; both are no bytes.
Staged == <<Handle("handle"), Inner("drbg", <<>>), Fill("out")>>
Generate ==
  <<NonNull({"handle"}), Slice("input", "input"), Place("out", "out")>> \o Staged
Drbg ==
  {NewDrbg, Seeding(<<"entropy", "nonce", "personalization">>, "module"),
   Seeding(<<"entropy", "input">>, "drbg"), Generate}
\* With a derivation function and without one.
CtrDrbg == Drbg \cup {Seeding(<<"seed_material">>, "module"), Seeding(<<"seed_material">>, "drbg")}
HmacDrbgSha256 == Drbg
HmacDrbgSha384 == Drbg
HmacDrbgSha512 == Drbg
HashDrbgSha256 == Drbg
HashDrbgSha384 == Drbg
HashDrbgSha512 == Drbg
CtrDrbgAes128 == CtrDrbg
CtrDrbgAes192 == CtrDrbg
CtrDrbgAes256 == CtrDrbg

Sections ==
  [KeyFingerprint |-> KeyFingerprint, StatusDetail |-> StatusDetail,
   Sha2 |-> Sha2, Sha2Truncated |-> Sha2Truncated, Sha3 |-> Sha3, HmacSha2 |-> HmacSha2, HmacSha3 |-> HmacSha3,
   EcdsaP256 |-> EcdsaP256, EcdsaP384 |-> EcdsaP384,
   HkdfSha256 |-> HkdfSha256, HkdfSha384 |-> HkdfSha384, HkdfSha512 |-> HkdfSha512,
   Tls13ExpandLabel |-> Tls13ExpandLabel, Tls13DeriveSecret |-> Tls13DeriveSecret,
   Ed25519 |-> Ed25519, EcdhP256 |-> EcdhP256, EcdhP384 |-> EcdhP384, Dh3072 |-> Dh3072,
   RsaVerify2048 |-> RsaVerify2048, RsaVerify3072 |-> RsaVerify3072, RsaVerify4096 |-> RsaVerify4096,
   MlDsa44 |-> MlDsa44, MlDsa65 |-> MlDsa65, MlDsa87 |-> MlDsa87,
   MlKem512 |-> MlKem512, MlKem768 |-> MlKem768, MlKem1024 |-> MlKem1024,
   Slh128s |-> Slh128s, Slh128f |-> Slh128f, Slh192s |-> Slh192s, Slh192f |-> Slh192f,
   Slh256s |-> Slh256s, Slh256f |-> Slh256f,
   SlhShake128s |-> SlhShake128s, SlhShake128f |-> SlhShake128f, SlhShake192s |-> SlhShake192s,
   SlhShake192f |-> SlhShake192f, SlhShake256s |-> SlhShake256s, SlhShake256f |-> SlhShake256f,
   Lms |-> Lms, LmsAnyPair |-> LmsAnyPair, Xmss |-> Xmss,
   LmsSha256M32 |-> LmsSha256M32, LmsSha256M24 |-> LmsSha256M24,
   LmsShakeM32 |-> LmsShakeM32, LmsShakeM24 |-> LmsShakeM24,
   EcdsaP256Key |-> EcdsaP256Key, EcdsaP384Key |-> EcdsaP384Key,
   Rsa2048Key |-> Rsa2048Key, Rsa2048Oaep |-> Rsa2048Oaep, Rsa3072Key |-> Rsa3072Key,
   Rsa3072Oaep |-> Rsa3072Oaep, Rsa4096Key |-> Rsa4096Key, Rsa4096Oaep |-> Rsa4096Oaep,
   AesKey |-> AesKey, Gcm |-> Gcm, Cbc |-> Cbc, Ctr |-> Ctr, Ccm |-> Ccm, Cmac |-> Cmac, Kw |-> Kw, Kwp |-> Kwp,
   HmacDrbgSha256 |-> HmacDrbgSha256, HmacDrbgSha384 |-> HmacDrbgSha384, HmacDrbgSha512 |-> HmacDrbgSha512,
   HashDrbgSha256 |-> HashDrbgSha256, HashDrbgSha384 |-> HashDrbgSha384, HashDrbgSha512 |-> HashDrbgSha512,
   CtrDrbgAes128 |-> CtrDrbgAes128, CtrDrbgAes192 |-> CtrDrbgAes192, CtrDrbgAes256 |-> CtrDrbgAes256]

-----------------------------------------------------------------------------

Steps(call) == {call[i] : i \in 1..Len(call)}
Pointers(call) ==
  UNION {IF s[1] = "nonnull" THEN s[2]
         ELSE IF s[1] \in {"slice", "array", "place", "handle", "cast", "copy", "value"} THEN {s[2]}
         ELSE {} : s \in Steps(call)}
Lengths(call) == {s[3] : s \in {s \in Steps(call) : s[1] \in {"slice", "place"}}}
                   \cup {s[2] : s \in {s \in Steps(call) : s[1] = "bound"}}
Asked(call) == SelectSeq(call, LAMBDA s : s[1] \in {"inner", "inplace"})

\* Any pointers may be null; answers are told apart by what is inside, all of it where the
\* pointers are good.
Callers(call) ==
  LET asked == Asked(call)
      well == [i \in 1..Len(asked) |-> "ok"]
      fails(i) == {[well EXCEPT ![i] = e] : e \in Answers(asked[i][2])}
      failing == UNION {fails(i) : i \in 1..Len(asked)}
      some == {[well EXCEPT ![i] = CHOOSE e \in Answers(asked[i][2]) : TRUE] : i \in 1..Len(asked)}
      lengths == {l \in (SUBSET Lengths(call)) \X (SUBSET Lengths(call)) : l[1] \subseteq l[2]}
      with(nulls, answers) ==
        {[null |-> n, none |-> l[1], short |-> l[2], answers |-> a] : n \in nulls, l \in lengths, a \in answers}
  IN with({{}}, {well} \cup failing) \cup with(SUBSET Pointers(call), {well} \cup some)

\* Pointers that a caller must give: those that are written as a whole or through which bytes
\* are read, but of slices of no bytes.
Needed(call, caller) ==
  LET empty == {s[2] : s \in {s \in Steps(call) : s[1] \in {"slice", "place"} /\ s[3] \in caller.none}}
  IN Pointers(call) \ empty

\* A call answers Ok if and only if nothing was wrong: every pointer was given, every length
\* enough and every call inside made and well; then all that it gives is written, to its whole
\* length. Otherwise nothing is, but the places the call inside fills itself and the size of a
\* text. Nothing is read or written through a null pointer; and a mismatch is told of what
\* was looked at, never of a module that refused.
CallIsContained(call) ==
  \A caller \in Callers(call) :
    LET ran == Run(call, caller)
        outputs == {s[2] : s \in {s \in Steps(call) : s[1] \in {"copy", "value"}}}
        places == UNION {s[3] : s \in {s \in Steps(call) : s[1] = "inplace" /\ s[2] # "drbg"}}
                    \cup {"written"}
        wrong == \/ Needed(call, caller) \cap caller.null # {}
                 \/ \E s \in Steps(call) : s[1] = "bound" /\ s[2] \in caller.short
                 \/ \E i \in DOMAIN caller.answers : caller.answers[i] # "ok"
        answer == caller.answers[ran.asked]
    IN /\ ran.used \cap caller.null = {}
       /\ ran.status = "Ok" <=> ~wrong
       /\ ran.status = "Ok" => \A p \in outputs : {n \in {"whole", "other"} : <<p, n>> \in ran.wrote} = {"whole"}
       /\ ran.status # "Ok" => {w[1] : w \in ran.wrote} \subseteq places
       /\ ran.status # "Ok" => \A p \in places \ {"written"} : <<p, "whole">> \notin ran.wrote
       /\ ran.status = "TagMismatch" =>
            answer \in {"false", "InvalidInput", "VerificationFailed", "TagMismatch"}
       /\ ran.asked > 0 /\ answer \in {"NotOperational", "AlreadyFailed", "AlgorithmRestricted"} =>
            ran.status \in {"NotOperational", "AlgorithmRestricted"}
       /\ ran.status # "Internal"

\* What one call of a scheme gives under a name, every other takes to its whole length.
LengthsAgree(section) ==
  LET sizes(p) == UNION {{s[3] : s \in {s \in Steps(c) : s[1] \in {"array", "copy"} /\ s[2] = p}} : c \in section}
  IN \A p \in UNION {Pointers(c) : c \in section} : Cardinality(sizes(p)) <= 1

\* Sections of calls that have nothing of each other.
Unrelated == {"Sha2", "Sha2Truncated", "Sha3", "HmacSha2", "HmacSha3", "LmsSha256M32", "LmsSha256M24",
  "LmsShakeM32", "LmsShakeM24"}

SectionIsContained(name) ==
  /\ \A call \in Sections[name] : CallIsContained(call)
  /\ name \notin Unrelated => LengthsAgree(Sections[name])
================================================================================

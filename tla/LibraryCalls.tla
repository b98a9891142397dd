---------------------------- MODULE LibraryCalls ----------------------------
(***************************************************************************)
(* The calls of the algorithm crates, as what each asks of the module and  *)
(* in which order with the checks of its arguments and the writing of its  *)
(* output. Every operation asks for itself: nothing but the order in these *)
(* crates keeps a call from serving in a failed module, under a profile    *)
(* that refuses it, or from leaving half an output behind.                 *)
(*                                                                         *)
(* What the operations compute is in the modules of the algorithms; here a *)
(* computation is only where it stands. A loop over blocks is Rounds long. *)
(***************************************************************************)
LOCAL INSTANCE Integers
LOCAL INSTANCE Sequences
LOCAL INSTANCE FiniteSets
LOCAL INSTANCE TLC
LOCAL INSTANCE ServiceProfile

Rounds == 2

-----------------------------------------------------------------------------
(* The steps of a call.                                                    *)

\* require_operational, require_allowed, require_self_test_started.
Operational == [ask |-> "operational"]
Allowed(service) == [ask |-> "allowed", service |-> service]
Started == [ask |-> "started", answer |-> "NotOperational"]
\* A check of the arguments, and the answer when it fails.
Input(answer) == [ask |-> "input", answer |-> answer]
Bad == Input("InvalidInput")
\* A part of the output goes to the caller's buffer.
Emit == [ask |-> "emit"]

Repeat(steps) == [i \in 1..Rounds * Len(steps) |-> steps[((i - 1) % Len(steps)) + 1]]

\* Where a call comes from: a caller with nothing, an object made before, or this library.
Call(from, steps) == [from |-> from, wipes |-> FALSE, drbg |-> <<>>, steps |-> steps]
Inside(steps) == Call("library", steps)
Held(steps) == Call("object", steps)
Fresh(service, steps) == Call("caller", <<Operational, Allowed(service)>> \o steps)
\* The output is zeroed when the call fails.
Wiping(call) == [call EXCEPT !.wipes = TRUE]
\* The caller brings the generator that the call draws from.
Drawing(call) == [call EXCEPT !.drbg = <<"HmacDrbg", "Sha256">>]

-----------------------------------------------------------------------------
(* Hashes, extendable outputs and MACs. A one-shot finalizes a hash of its *)
(* own without asking again, but squeezes an extendable output as anyone.  *)

\* new, new_internal, finalize and the one-shot.
Hash(service) ==
  {Fresh(service, <<>>), Inside(<<Started>>), Held(<<Started, Emit>>), Fresh(service, <<Emit>>)}
\* A digest within a call: the object and its output.
Digested == <<Started, Started>>

Sha1 == Hash(<<"Sha", "Sha1">>)
Sha224 == Hash(<<"Sha", "Sha224">>)
Sha256 == Hash(<<"Sha", "Sha256">>)
Sha384 == Hash(<<"Sha", "Sha384">>)

\* Fault: the constructor was taken over from Sha384 with its service.
Sha512_AsksSha384 == Hash(<<"Sha", "Sha384">>)

Sha512 == Hash(<<"Sha", "Sha512">>)
Sha512_224 == Hash(<<"Sha", "Sha512_224">>)
Sha512_256 == Hash(<<"Sha", "Sha512_256">>)
\* Sha3<RATE, OUT>: only the constructor knows the length.
Sha3_(length) == Hash(<<"Sha3", length>>)

Sponge == <<Started>>
Squeezed == <<Started, Emit>>
\* new, the constructor of the known answers and the output; some have a one-shot.
Xof(item, made) == {Fresh(<<"Xof", item>>, made), Inside(Sponge), Held(Squeezed)}
OneShot(item) == {Fresh(<<"Xof", item>>, Sponge \o Squeezed)}

Shake128 == Xof("Shake128", Sponge) \cup OneShot("Shake128")
Shake256 == Xof("Shake256", Sponge) \cup OneShot("Shake256")
CShake128 == Xof("CShake128", Sponge) \cup OneShot("CShake128")
CShake256 == Xof("CShake256", Sponge) \cup OneShot("CShake256")
Kmac128 == Xof("Kmac128", Sponge) \cup OneShot("Kmac128")
Kmac256 == Xof("Kmac256", Sponge) \cup OneShot("Kmac256")
KmacXof128 == Xof("KmacXof128", Sponge) \cup OneShot("KmacXof128")
KmacXof256 == Xof("KmacXof256", Sponge) \cup OneShot("KmacXof256")
TupleHash128 == Xof("TupleHash128", Sponge)
TupleHash256 == Xof("TupleHash256", Sponge)
TupleHashXof128 == Xof("TupleHashXof128", Sponge)
TupleHashXof256 == Xof("TupleHashXof256", Sponge)
\* ParallelHash has a sponge for its message and one for the block at hand.
ParallelHash128 == Xof("ParallelHash128", Sponge \o Sponge)
ParallelHash256 == Xof("ParallelHash256", Sponge \o Sponge)
ParallelHashXof128 == Xof("ParallelHashXof128", Sponge \o Sponge)
ParallelHashXof256 == Xof("ParallelHashXof256", Sponge \o Sponge)

\* One token serves the inner and the outer hash of finalize.
HmacNew == <<Started, Started>>
HmacFinal == <<Started>>
Hmac(item) == {Fresh(<<"Hmac", item>>, HmacNew), Inside(HmacNew), Held(HmacFinal \o <<Emit>>)}

cmac_tag == <<Started>>
Cmac(key) == {Inside(<<Started>> \o cmac_tag), Fresh(<<"Cmac", key>>, <<Started>> \o cmac_tag)}

\* new, new_internal, encrypt_block and decrypt_block.
AesKey(key) == {Fresh(<<"AesKey", key>>, <<Started>>), Inside(<<Started>>), Held(<<Started, Emit>>)}

-----------------------------------------------------------------------------
(* Key derivation: an HMAC for every block of output.                      *)

Prf == HmacNew \o HmacFinal
TooLong == Input("OutputTooLong")

\* extract, from_prk, expand and prk.
Hkdf(service) ==
  {Fresh(service, Prf), Fresh(service, <<TooLong>>), Wiping(Fresh(service, <<TooLong>> \o Repeat(Prf \o <<Emit>>))),
   Held(<<Started, Emit>>)}

\* Fault: the blocks written so far stay when a later one is refused.
CounterBlocks_Kept(call) == [call EXCEPT !.steps = @ \o <<TooLong>> \o Repeat(Prf \o <<Emit>>)]

CounterBlocks(call) == Wiping([call EXCEPT !.steps = @ \o <<TooLong>> \o Repeat(Prf \o <<Emit>>)])
\* derive and, for the known answers, derive_with_fixed_data_internal.
Sp800_108Counter(service) == {CounterBlocks(Fresh(service, <<TooLong>>)), CounterBlocks(Inside(<<Started>>))}

FeedbackBlocks == Repeat(Prf \o <<Emit>>)
Sp800_108Feedback(service) ==
  {Wiping(Fresh(service, <<TooLong, TooLong>> \o FeedbackBlocks)),
   Wiping(Inside(<<Started, Bad, TooLong>> \o FeedbackBlocks))}

\* A(i) and then K(i).
DoubleBlocks == Repeat(Prf \o Prf \o <<Emit>>)
Sp800_108DoublePipeline(service) ==
  {Wiping(Fresh(service, <<TooLong, TooLong>> \o DoubleBlocks)),
   Wiping(Inside(<<Started, Bad, TooLong>> \o DoubleBlocks))}

Pbkdf2(service) == {Wiping(Fresh(service, <<TooLong>> \o Repeat(Repeat(Prf) \o <<Emit>>)))}

\* A(1), then each block and, but for the last, the next A(i).
tls12_prf == <<Started>> \o Prf \o Prf \o <<Emit>> \o Prf \o Prf \o <<Emit>>
\* The master secret stays here, the key block goes out.
tls12_master == <<Started>> \o SelectSeq(tls12_prf, LAMBDA step : step # Emit) \o tls12_prf
tls13_expand_label == <<Started, Bad>> \o Repeat(Prf \o <<Emit>>)
\* What a caller asks and what the known answers ask.
Derived(item, steps) == {Wiping(Fresh(<<"Tls", item>>, steps)), Wiping(Inside(steps))}
Tls12 == Derived("12Kdf", tls12_prf)
Tls12Extended == Derived("12Kdf", tls12_master)
Tls12Master == Derived("12Kdf", tls12_master)
Tls13 == Derived("13Kdf", tls13_expand_label)
Tls13Secret == Derived("13Kdf", <<Started>> \o tls13_expand_label)

-----------------------------------------------------------------------------
(* Public keys.                                                            *)

\* HmacDrbgSha256::generate as the key generators call it: it may refuse, or its hash may.
Drawn == <<Bad, Started>>

\* RSA: numbers below the modulus, a digest, the padding.
RsaVerified == <<Bad, Bad>> \o Digested \o <<Bad>>
RsaPssVerified == <<Bad, Bad>> \o Digested \o Digested \o <<Bad>>
RsaSigned == <<Bad, Bad>> \o Digested \o <<Bad>>
RsaPssSigned == <<Bad, Bad>> \o Digested \o Digested \o <<Bad>>
\* By the CRT: the digest comes first, and the result is checked with e.
RsaSignedCrt == Digested \o <<Bad, Bad>>
RsaPssSignedCrt == Digested \o Digested \o <<Bad, Bad>>
\* The label is hashed and the masks are; a modulus that is none is seen before, a message
\* that is too long by the encoding.
RsaOaepEncoded == <<Bad, Bad>> \o Digested \o Digested
\* The plaintext is written when every check of the padding has passed.
RsaOaepDecoded == Digested \o Digested \o <<Bad, Emit>>
RsaOaepDecrypted == <<Bad, Bad, Bad>> \o RsaOaepDecoded
RsaOaepDecryptedCrt == <<Bad>> \o RsaOaepDecoded
RsaPct == RsaSigned \o RsaVerified
RsaPctCrt == RsaSignedCrt \o RsaVerified
\* The primitives: a key and a number below its modulus.
RsaPrimitive == <<Started, Bad, Bad>>

RsaVerify(key) ==
  [Pkcs1v15Verify |-> {Fresh(<<key, "Pkcs1v15Verify">>, RsaVerified)},
   PssVerify |-> {Fresh(<<key, "PssVerify">>, RsaPssVerified)}]
RsaEncrypt(key) == {Drawing(Fresh(<<key, "Oaep">>, Drawn \o RsaOaepEncoded))}
RsaComponents(key) == {Fresh(<<key, "Keygen">>, steps) : steps \in {RsaPct, RsaPctCrt}}
RsaAccessors == {Held(<<Started, Emit>>)}
RsaSign(key) == {Fresh(<<key, "Pkcs1v15Sign">>, steps) : steps \in {RsaSigned, RsaSignedCrt}}
RsaPssWithSalt(key) == {Fresh(<<key, "PssSign">>, steps) : steps \in {RsaPssSigned, RsaPssSignedCrt}}
\* The 2048-bit handle signs with d whatever it holds, the others as they sign elsewhere.
RsaPss2048 == {Drawing(Fresh(<<"Rsa2048", "PssSign">>, Drawn \o RsaPssSigned))}
RsaPssWide(key) ==
  {Drawing(Fresh(<<key, "PssSign">>, Drawn \o steps)) : steps \in {RsaPssSigned, RsaPssSignedCrt}}
RsaDecrypt2048 == {Fresh(<<"Rsa2048", "Oaep">>, steps) : steps \in {RsaOaepDecrypted, RsaOaepDecryptedCrt}}
\* The length of the caller's buffer is looked at first.
RsaDecryptWide(key) ==
  {Fresh(<<key, "Oaep">>, <<Bad>> \o steps) : steps \in {RsaOaepDecrypted, RsaOaepDecryptedCrt}}
\* generate ends in from_components_crt, which asks again.
RsaGenerate(key) ==
  {Drawing(Fresh(<<key, "Keygen">>, Drawn \o <<Operational, Allowed(<<key, "Keygen">>)>> \o RsaPctCrt))}

\* For the known answers and the handlers of test vectors. Only the 2048-bit key has primitives.
RsaInternal(key) ==
  LET inside(bodies) == {Inside(<<Started>> \o steps) : steps \in bodies} IN
  [Keygen |-> inside({RsaPct}), Pkcs1v15Verify |-> inside({RsaVerified}), PssVerify |-> inside({RsaPssVerified}),
   Pkcs1v15Sign |-> inside({RsaSigned, RsaSignedCrt}) \cup (IF key = "Rsa2048" THEN {Inside(RsaPrimitive)} ELSE {}),
   PssSign |-> inside({RsaPssSigned, RsaPssSignedCrt}),
   Oaep |-> inside({RsaOaepEncoded, RsaOaepDecrypted, RsaOaepDecryptedCrt})]

\* DH: an element of the group; key generation has no pairwise test.
DhShared == <<Started, Bad, Bad>>
DhKeygen == <<Started>> \o Drawn
Dh == {Fresh(<<"Dh", "3072">>, DhShared \o <<Emit>>), Inside(DhShared), Inside(DhKeygen),
       Drawing(Fresh(<<"Dh", "3072">>, DhKeygen \o <<Emit>>))}

\* ECDSA: the nonce is drawn, and drawn again when it does not serve.
Sampled == <<Started>> \o Drawn
DerivedKey == <<Started, Bad>>
EcdsaSigned == <<Started, Bad, Bad>> \o Digested \o <<Bad>>
EcdsaVerified == <<Started, Bad>> \o Digested \o <<Bad>>
EcdsaPct == Sampled \o EcdsaSigned \o EcdsaVerified
EcdsaPublic(key) ==
  [Keygen |-> {Fresh(<<key, "Keygen">>, DerivedKey), Inside(DerivedKey)},
   Sign |-> {Fresh(<<key, "Sign">>, EcdsaSigned), Inside(EcdsaSigned)},
   Verify |-> {Fresh(<<key, "Verify">>, EcdsaVerified), Inside(EcdsaVerified)}]
\* from_bytes, generate and the accessors; sign_sha256.
EcdsaPrivate(key) ==
  [Keygen |-> {Drawing(Fresh(<<key, "Keygen">>, DerivedKey \o EcdsaPct)),
               Drawing(Fresh(<<key, "Keygen">>, <<Started>> \o Sampled \o DerivedKey \o EcdsaPct)),
               Held(<<Started, Emit>>)},
   Sign |-> {Drawing(Fresh(<<key, "Sign">>, Sampled \o EcdsaSigned \o <<Emit>>))},
   Verify |-> {}]

\* ECDH: the test derives two secrets with a key pair that is known.
EcdhShared == <<Started, Bad, Bad>>
EcdhKeygen == <<Started, Started>> \o Sampled \o DerivedKey \o EcdhShared \o EcdhShared \o <<Bad>>
Ecdh(curve) ==
  {Fresh(<<"Ecdh", curve>>, EcdhShared), Inside(EcdhShared), Drawing(Fresh(<<"Ecdh", curve>>, EcdhKeygen)),
   Inside(EcdhKeygen)}

EdKeygen == <<Started>> \o Digested
EdSigned == <<Started>> \o Digested \o Digested \o Digested
EdVerified == <<Started, Bad, Bad, Bad>> \o Digested \o <<Bad>>
Ed25519 ==
  [Keygen |-> {Fresh(<<"Ed25519", "Keygen">>, EdKeygen), Inside(EdKeygen)},
   Sign |-> {Fresh(<<"Ed25519", "Sign">>, EdSigned), Inside(EdSigned)},
   Verify |-> {Fresh(<<"Ed25519", "Verify">>, EdVerified), Inside(EdVerified)}]
EdPct == EdSigned \o EdVerified
\* generate, from_seed and the accessors; sign.
Ed25519Handle ==
  [Keygen |-> {Drawing(Fresh(<<"Ed25519", "Keygen">>, Drawn \o EdKeygen \o EdPct)),
               Fresh(<<"Ed25519", "Keygen">>, EdKeygen \o EdPct), Held(<<Started, Emit>>)},
   Sign |-> {Fresh(<<"Ed25519", "Sign">>, EdSigned)},
   Verify |-> {}]

\* Lattice schemes hash as they go; their randomness is the caller's.
MlKem(key) ==
  [Keygen |-> {Fresh(<<key, "Keygen">>, Digested)}, Encaps |-> {Fresh(<<key, "Encaps">>, <<Bad>> \o Digested)},
   Decaps |-> {Fresh(<<key, "Decaps">>, <<Bad>> \o Digested)}]
MlKemInternal ==
  [Keygen |-> {Inside(<<Started>> \o Digested)}, Encaps |-> {Inside(<<Started, Bad>> \o Digested)},
   Decaps |-> {Inside(<<Started, Bad>> \o Digested)}]
MlDsa(key) ==
  [Keygen |-> {Fresh(<<key, "Keygen">>, <<Started>> \o Digested)},
   Sign |-> {Fresh(<<key, "Sign">>, <<Bad>> \o Digested \o <<Bad>>)},
   Verify |-> {Fresh(<<key, "Verify">>, <<Bad>> \o Digested \o <<Bad>>)}]
MlDsaInternal ==
  [Keygen |-> {Inside(<<Started>> \o Digested)}, Sign |-> {Inside(<<Started>> \o Digested \o <<Bad>>)},
   Verify |-> {Inside(<<Started>> \o Digested \o <<Bad>>)}]

\* SLH-DSA takes a token for its tree hashes and asks again for those of its messages; lengths,
\* then the context.
SlhDsa(set) ==
  [Keygen |-> {Fresh(<<"SlhDsa", <<set, "Keygen">>>>, <<Started, Bad>>)},
   Sign |-> {Fresh(<<"SlhDsa", <<set, "Sign">>>>, <<Started, Bad, Bad>> \o Digested)},
   Verify |-> {Fresh(<<"SlhDsa", <<set, "Verify">>>>, <<Started, Bad, Bad, Bad>> \o Digested \o <<Bad>>)}]
SlhDsaInternal ==
  [Keygen |-> {Inside(<<Started>>)}, Sign |-> {Inside(<<Started>> \o Digested)},
   Verify |-> {Inside(<<Started>> \o Digested \o <<Bad>>)}]

\* The module is asked, then the types and the leaf of the key and the signature.
LmsVerify(pair) == Fresh(<<"Lms", pair>>, <<Bad>> \o Digested \o <<Bad>>)
Xmss == {Fresh(<<"Xmss", "Verify">>, <<Bad>> \o Digested \o <<Bad>>)}
\* verify_any: a key is routed, and its length and the signature's are looked at, before the
\* module is asked.
VerifyAny(pair) ==
  [LmsVerify(pair) EXCEPT !.from = "router", !.steps = <<Input("Unroutable"), Input("Unroutable")>> \o @]
Lms(pair) == {LmsVerify(pair), VerifyAny(pair), Inside(<<Started, Bad>> \o Digested \o <<Bad>>)}

-----------------------------------------------------------------------------
(* Who serves what: the calls of each service, by the service's own name.  *)

Sha(item) ==
  [Sha1 |-> Sha1, Sha224 |-> Sha224, Sha256 |-> Sha256, Sha384 |-> Sha384, Sha512 |-> Sha512,
   Sha512_224 |-> Sha512_224, Sha512_256 |-> Sha512_256][item]
XofCalls(item) ==
  [Shake128 |-> Shake128, Shake256 |-> Shake256, CShake128 |-> CShake128, CShake256 |-> CShake256,
   Kmac128 |-> Kmac128, Kmac256 |-> Kmac256, KmacXof128 |-> KmacXof128, KmacXof256 |-> KmacXof256,
   TupleHash128 |-> TupleHash128, TupleHash256 |-> TupleHash256, TupleHashXof128 |-> TupleHashXof128,
   TupleHashXof256 |-> TupleHashXof256, ParallelHash128 |-> ParallelHash128, ParallelHash256 |-> ParallelHash256,
   ParallelHashXof128 |-> ParallelHashXof128, ParallelHashXof256 |-> ParallelHashXof256][item]
Kdf(service) ==
  Hkdf(service) \cup Sp800_108Counter(service) \cup Sp800_108Feedback(service)
    \cup Sp800_108DoublePipeline(service) \cup Pbkdf2(service)
Rsa(key, item) ==
  CASE item = "Keygen" -> RsaComponents(key) \cup RsaGenerate(key) \cup RsaAccessors
    [] item = "Pkcs1v15Sign" -> RsaSign(key)
    [] item = "PssSign" -> RsaPssWithSalt(key) \cup (IF key = "Rsa2048" THEN RsaPss2048 ELSE RsaPssWide(key))
    [] item = "Oaep" -> RsaEncrypt(key) \cup (IF key = "Rsa2048" THEN RsaDecrypt2048 ELSE RsaDecryptWide(key))
    [] OTHER -> RsaVerify(key)[item]

\* The generators are the machine of Drbg; no call asks for the modes of AES, for KBKDF or for
\* PBKDF2 by those names.
CallsOf(s) ==
  LET item == Item(s) IN
  CASE s.block = "Sha" -> Sha(item) [] s.block = "Sha3" -> Sha3_(item) [] s.block = "Xof" -> XofCalls(item)
    [] s.block = "Hmac" -> Hmac(item) [] s.block = "Cmac" -> Cmac(item) [] s.block = "AesKey" -> AesKey(item)
    [] s.block = "Hkdf" -> Kdf(<<"Hkdf", item>>)
    [] s.block = "Tls" -> IF item = "12Kdf" THEN Tls12 \cup Tls12Extended \cup Tls12Master ELSE Tls13 \cup Tls13Secret
    [] s.block \in {"Rsa2048", "Rsa3072", "Rsa4096"} -> Rsa(s.block, item) \cup RsaInternal(s.block)[item]
    [] s.block = "Dh" -> Dh
    [] s.block \in {"EcdsaP256", "EcdsaP384"} -> EcdsaPublic(s.block)[item] \cup EcdsaPrivate(s.block)[item]
    [] s.block = "Ecdh" -> Ecdh(item)
    [] s.block = "Ed25519" -> Ed25519[item] \cup Ed25519Handle[item]
    [] s.block \in {"MlKem512", "MlKem768", "MlKem1024"} -> MlKem(s.block)[item] \cup MlKemInternal[item]
    [] s.block \in {"MlDsa44", "MlDsa65", "MlDsa87"} -> MlDsa(s.block)[item] \cup MlDsaInternal[item]
    [] s.block = "SlhDsa" -> SlhDsa(item[1])[item[2]] \cup SlhDsaInternal[item[2]]
    [] s.block = "Lms" -> Lms(item) [] s.block = "Xmss" -> Xmss
    [] OTHER -> {}

-----------------------------------------------------------------------------
(* A call in a world: the module's state and profile, the argument that is *)
(* bad, and the number of steps after which the module fails.              *)

Worlds ==
  [state : {"PowerOff", "SelfTest", "Operational", "Error", "IntegrityUnverified"}, tester : BOOLEAN,
   profile : AlgorithmProfile]
Serving(world) == world.state = "Operational"
\* require_self_test_started: the booting thread may work before the module serves.
Working(world) == Serving(world) \/ (world.state = "SelfTest" /\ world.tester)
Permits(world, service) ==
  \E s \in Service : s.block = service[1] /\ Item(s) = service[2] /\ is_allowed(world.profile, s)

Refuses(world, step) ==
  CASE step.ask = "operational" -> ~Serving(world)
    [] step.ask = "started" -> ~Working(world)
    [] step.ask = "allowed" -> ~Permits(world, step.service)
    [] OTHER -> FALSE
AnswerOf(step) ==
  CASE step.ask = "operational" -> "NotOperational"
    [] step.ask = "allowed" -> "AlgorithmRestricted"
    [] OTHER -> step.answer

\* What the call answers and what of its output is in the caller's buffer.
Follow(call, world, bad, fails) ==
  LET n == Len(call.steps)
      at(i) == IF i > fails THEN [world EXCEPT !.state = "Error"] ELSE world
      refused == {i \in 1..n : Refuses(at(i), call.steps[i]) \/ (i = bad /\ call.steps[i].ask = "input")}
      stop == IF refused = {} THEN n + 1 ELSE CHOOSE i \in refused : \A j \in refused : i <= j
      written == \E i \in 1..stop - 1 : call.steps[i] = Emit
  IN [answer |-> IF stop > n THEN "Ok" ELSE AnswerOf(call.steps[stop]),
      left |-> IF stop > n \/ ~written \/ call.wipes THEN "nothing" ELSE "part"]

\* Where an argument can be bad.
Inputs(call) == {i \in 1..Len(call.steps) : call.steps[i].ask = "input"}

\* Outside service, nothing is answered but that, whatever the arguments; the booting thread
\* is let through to the calls of the known answers and to nothing a caller may ask. A routed
\* key is looked at first.
RefusedOutOfService(call) ==
  \A world \in Worlds : ~Serving(world) =>
    \A bad \in {0} \cup (IF call.from = "router" THEN {} ELSE Inputs(call)) :
      LET end == Follow(call, world, bad, Len(call.steps)) IN
      IF Working(world) /\ call.from \in {"library", "object"}
      THEN bad = 0 => end.answer = "Ok"
      ELSE end = [answer |-> "NotOperational", left |-> "nothing"]

\* In service, a call that fails leaves no part of its output, wherever it fails; and a module
\* that fails on the way is not taken for bad arguments.
FailureIsContained(call) ==
  \A profile \in AlgorithmProfile, bad \in {0} \cup Inputs(call), fails \in 0..Len(call.steps) :
    LET end == Follow(call, [state |-> "Operational", tester |-> FALSE, profile |-> profile], bad, fails) IN
    /\ end.left = "nothing"
    /\ bad = 0 => end.answer \in {"Ok", "NotOperational", "AlgorithmRestricted"}
    /\ fails = 0 /\ call.from = "caller" => end.answer = "NotOperational"

\* The first question: a caller's call asks whether the module serves before it looks at
\* anything, a routed one when it has looked at the key; the others ask whether the
\* self-tests have begun, and no more of it.
AsksFirst(call) ==
  \/ /\ call.from \in {"object", "library"}
     /\ Len(call.steps) > 0 /\ call.steps[1] = Started
     /\ \A i \in 1..Len(call.steps) : call.steps[i].ask \in {"started", "input", "emit"}
  \/ /\ call.from \in {"caller", "router"}
     /\ \E k \in 1..Len(call.steps) :
          /\ call.steps[k] = Operational
          /\ \A i \in 1..k - 1 : call.steps[i].ask = "input"
          /\ call.from = "caller" => k = 1

\* The output is zeroed when the call fails, or is written when nothing can fail any more.
WritesLast(call) ==
  call.wipes \/ \A i, j \in 1..Len(call.steps) : call.steps[i] = Emit /\ i < j => call.steps[j] = Emit

\* Every call has this form, which is enough for the two at any length (AlgorithmProofs).
CallsContained(s) ==
  \A call \in CallsOf(s) :
    /\ AsksFirst(call) /\ WritesLast(call)
    /\ RefusedOutOfService(call) /\ FailureIsContained(call)

\* A profile refuses the calls of exactly the services it does not permit, and only those that
\* bring no object made before.
CallsFollowProfile(s) ==
  \A call \in CallsOf(s), profile \in AlgorithmProfile :
    LET world == [state |-> "Operational", tester |-> FALSE, profile |-> profile] IN
    (Follow(call, world, 0, Len(call.steps)).answer = "AlgorithmRestricted")
      <=> (call.from \in {"caller", "router"} /\ ~is_allowed(profile, s))

\* Whoever may ask for a service may make the generator that its calls draw from.
Servable(s) ==
  \A call \in CallsOf(s), profile \in AlgorithmProfile :
    is_allowed(profile, s) /\ call.drbg # <<>> =>
      \E t \in Service : t.block = call.drbg[1] /\ Item(t) = call.drbg[2] /\ is_allowed(profile, t)
=============================================================================

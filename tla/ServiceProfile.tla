--------------------------- MODULE ServiceProfile ---------------------------
(***************************************************************************)
(* The services of oxicrypt-module and the tables that say which of them   *)
(* an algorithm profile permits: what require_allowed answers.  ModuleState *)
(* takes this answer as its parameter Permitted.                           *)
(*                                                                         *)
(* A service is a block of the enum and an item of that block; the blocks  *)
(* hold consecutive discriminants, except that of LMS, which holds odd     *)
(* ones only.                                                              *)
(***************************************************************************)
LOCAL INSTANCE Integers
LOCAL INSTANCE Sequences

AesKeys == <<"Aes128", "Aes192", "Aes256">>
Modes == <<"Ecb", "Cbc", "Ctr", "Gcm", "Ccm", "Kw", "Kwp">>
RsaOps == <<"Keygen", "Pkcs1v15Sign", "PssSign", "Oaep", "Pkcs1v15Verify", "PssVerify">>
SignOps == <<"Sign", "Verify", "Keygen">>
SlhOps == <<"Keygen", "Sign", "Verify">>
Sha2 == <<"Sha1", "Sha224", "Sha256", "Sha384", "Sha512", "Sha512_224", "Sha512_256">>
Sha3 == <<"Sha3_224", "Sha3_256", "Sha3_384", "Sha3_512">>
Xofs == <<"Shake128", "Shake256", "CShake128", "CShake256", "Kmac128", "Kmac256",
          "KmacXof128", "KmacXof256", "TupleHash128", "TupleHash256", "TupleHashXof128",
          "TupleHashXof256", "ParallelHash128", "ParallelHash256", "ParallelHashXof128",
          "ParallelHashXof256">>
Slh == <<"Sha2256s", "Sha2128s", "Sha2128f", "Sha2192s", "Sha2192f", "Sha2256f",
         "Shake128s", "Shake128f", "Shake192s", "Shake192f", "Shake256s", "Shake256f">>
Mids == <<"Sha256M32", "Sha256M24", "ShakeM32", "ShakeM24">>
Heights == <<5, 10, 15, 20, 25>>
Windows == <<1, 2, 4, 8>>

\* Each block of Service: its items, in the order of their discriminants.
Block == [
  Sha |-> Sha2, Sha3 |-> Sha3, Xof |-> Xofs, Hmac |-> Sha2 \o Sha3,
  Cmac |-> AesKeys,
  Aes128 |-> Modes, Aes192 |-> Modes, Aes256 |-> Modes, AesKey |-> AesKeys,
  CtrDrbg |-> AesKeys,
  HashDrbg |-> <<"Sha256", "Sha384", "Sha512">>, HmacDrbg |-> <<"Sha256", "Sha384", "Sha512">>,
  Hkdf |-> <<"Sha1", "Sha256", "Sha384", "Sha512">>,
  KbkdfHmac |-> <<"Sha256", "Sha384", "Sha512">>, KbkdfCmac |-> AesKeys,
  Pbkdf2Hmac |-> <<"Sha1", "Sha224", "Sha256", "Sha384", "Sha512">>,
  Rsa2048 |-> RsaOps, Rsa3072 |-> RsaOps, Rsa4096 |-> RsaOps,
  EcdsaP256 |-> SignOps, EcdsaP384 |-> SignOps, Ecdh |-> <<"P256", "P384">>,
  Ed25519 |-> SignOps, Tls |-> <<"12Kdf", "13Kdf">>,
  MlKem1024 |-> <<"Encaps", "Decaps", "Keygen">>, MlKem512 |-> <<"Encaps", "Decaps", "Keygen">>,
  MlKem768 |-> <<"Encaps", "Decaps", "Keygen">>,
  MlDsa87 |-> SignOps, MlDsa44 |-> SignOps, MlDsa65 |-> SignOps,
  SlhDsa |-> [i \in 1..36 |-> <<Slh[((i - 1) \div 3) + 1], SlhOps[((i - 1) % 3) + 1]>>],
  Lms |-> [i \in 1..80 |-> <<Mids[((i - 1) \div 20) + 1], Heights[(((i - 1) \div 4) % 5) + 1],
                              Windows[((i - 1) % 4) + 1]>>],
  Xmss |-> <<"Verify">>, Dh |-> <<"3072">>]

\* The discriminant of a block's first item.
First == [
  Sha |-> 0, Sha3 |-> 10, Xof |-> 20, Hmac |-> 40, Cmac |-> 60,
  Aes128 |-> 70, Aes192 |-> 80, Aes256 |-> 90, AesKey |-> 97,
  CtrDrbg |-> 100, HashDrbg |-> 103, HmacDrbg |-> 106,
  Hkdf |-> 120, KbkdfHmac |-> 130, KbkdfCmac |-> 133, Pbkdf2Hmac |-> 140,
  Rsa2048 |-> 150, Rsa3072 |-> 160, Rsa4096 |-> 170,
  EcdsaP256 |-> 200, EcdsaP384 |-> 210, Ecdh |-> 220, Ed25519 |-> 230, Tls |-> 240,
  MlKem1024 |-> 300, MlKem512 |-> 303, MlKem768 |-> 306,
  MlDsa87 |-> 310, MlDsa44 |-> 313, MlDsa65 |-> 316, SlhDsa |-> 320,
  Lms |-> 501, Xmss |-> 371, Dh |-> 380]

\* A service, by its block and its place there.
Service == UNION {{[block |-> b, at |-> i] : i \in DOMAIN Block[b]} : b \in DOMAIN Block}
Item(s) == Block[s.block][s.at]
Is(s, b, items) == s.block = b /\ Item(s) \in items
Discriminant(s) == First[s.block] + (IF s.block = "Lms" THEN 2 ELSE 1) * (s.at - 1)

\* lms_block_contains, as is_lms_service calls it.
is_lms_service(s) ==
  LET d == Discriminant(s) IN d >= 501 /\ d <= 659 /\ d % 2 = 1

is_cnsa2_allowed(s) ==
  \/ s.block \in {"Aes256", "MlKem1024", "MlDsa87", "Xmss"}
  \/ \E b \in {"AesKey", "Cmac", "CtrDrbg", "KbkdfCmac"} : Is(s, b, {"Aes256"})
  \/ \E b \in {"Sha", "Hmac", "HashDrbg", "HmacDrbg", "Hkdf", "KbkdfHmac"} :
       Is(s, b, {"Sha384", "Sha512"})
  \/ is_lms_service(s)

\* Fault: the services at SHA-512 are taken over from the newer suite.
is_cnsa1_allowed_Sha512(s) ==
  \/ s.block \in {"Aes256", "EcdsaP384", "Rsa3072", "Rsa4096"}
  \/ \E b \in {"AesKey", "Cmac", "CtrDrbg", "KbkdfCmac"} : Is(s, b, {"Aes256"})
  \/ \E b \in {"HashDrbg", "HmacDrbg", "Hkdf", "KbkdfHmac"} : Is(s, b, {"Sha384", "Sha512"})
  \/ Is(s, "Ecdh", {"P384"}) \/ Is(s, "Dh", {"3072"})
  \/ \E b \in {"Sha", "Hmac"} : Is(s, b, {"Sha384"})

is_cnsa1_allowed(s) ==
  \/ s.block \in {"Aes256", "EcdsaP384", "Rsa3072", "Rsa4096"}
  \/ \E b \in {"AesKey", "Cmac", "CtrDrbg", "KbkdfCmac"} : Is(s, b, {"Aes256"})
  \/ \E b \in {"Sha", "Hmac", "HashDrbg", "HmacDrbg", "Hkdf", "KbkdfHmac"} :
       Is(s, b, {"Sha384"})
  \/ Is(s, "Ecdh", {"P384"}) \/ Is(s, "Dh", {"3072"})

AlgorithmProfile == {"Unrestricted", "Cnsa2", "Cnsa1", "Migration"}

is_allowed(profile, s) ==
  \/ profile = "Unrestricted"
  \/ profile \in {"Cnsa2", "Migration"} /\ is_cnsa2_allowed(s)
  \/ profile \in {"Cnsa1", "Migration"} /\ is_cnsa1_allowed(s)

-----------------------------------------------------------------------------
(* What the tables owe to one another.                                     *)

NamedIn(blocks, item) == {s \in Service : s.block \in blocks /\ Item(s) = item}

\* The services a service is built from, or cannot be used without.
Needs(s) ==
  CASE s.block = "Hmac" -> NamedIn({"Sha", "Sha3"}, Item(s))
    [] s.block \in {"HashDrbg", "Hkdf"} -> NamedIn({"Sha"}, Item(s))
    [] s.block \in {"HmacDrbg", "KbkdfHmac", "Pbkdf2Hmac"} -> NamedIn({"Hmac"}, Item(s))
    [] s.block \in {"Cmac", "CtrDrbg"} -> NamedIn({"AesKey"}, Item(s))
    [] s.block = "KbkdfCmac" -> NamedIn({"Cmac"}, Item(s))
    [] s.block = "AesKey" -> {t \in Service : t.block = Item(s)}
    [] s.block \in {"Aes128", "Aes192", "Aes256"} ->
         {t \in Service : t.block = "AesKey" /\ Item(t) = s.block}
    [] s.block \in {"Rsa2048", "Rsa3072", "Rsa4096", "EcdsaP256", "EcdsaP384", "Ed25519",
                    "MlKem512", "MlKem768", "MlKem1024", "MlDsa44", "MlDsa65", "MlDsa87"} ->
         {t \in Service : t.block = s.block}
    [] OTHER -> {}

\* No profile permits half of what a caller needs: a mode and its key construction, the
\* operations of one key, a construction and the primitive below it.  No two services
\* share a discriminant, and the block test of LMS admits no other service.
TablesAgree(profile, s) ==
  /\ is_allowed(profile, s) => \A t \in Needs(s) : is_allowed(profile, t)
  /\ is_lms_service(s) <=> s.block = "Lms"
  /\ \A t \in Service : Discriminant(t) = Discriminant(s) => t = s
=============================================================================

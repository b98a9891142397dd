------------------------------ MODULE RsaHandle ------------------------------
(***************************************************************************)
(* The RSA-2048 private-key handle of oxicrypt-rsa: its constructors with  *)
(* their pairwise consistency test (PCT), its signatures and decryption,   *)
(* transient faults in the arithmetic, and a module that another thread    *)
(* may shut between any two steps.                                         *)
(*                                                                         *)
(* A key is judged against its public half (n, e): the exponent d, and the *)
(* CRT components p, q, dP, dQ, qInv as one.  A private-key operation      *)
(* yields the right representative, one right modulo a single prime        *)
(* ("half": it gives the factors of n away), or a wrong one.               *)
(***************************************************************************)
EXTENDS Integers, Sequences

CONSTANT MaxFaults \* bound: faults that ever strike, a natural number

VARIABLES
  moduleState, \* STATE as the module reports it
  permitted,   \* is_allowed(active_profile(), .) of the RSA-2048 services
  handle,      \* the handle the application holds
  op,          \* the call in progress
  key,         \* the key material it works on
  at,          \* how many of its steps have run
  struck,      \* a fault has struck this call
  faults,      \* faults still to come
  value,       \* the representative the call has computed
  result,      \* what the last call returned
  out          \* the signature or plaintext it returned

callVars == <<op, key, at, struck, value>>
handleVars == <<moduleState, permitted, handle, callVars, faults, result, out>>

ModuleBoundary == INSTANCE ModuleLifecycle WITH
  OsIds <- {"boot"}, NoOwner <- "nobody",
  owner <- IF moduleState = "SelfTest" THEN "boot" ELSE "nobody",
  Profiles <- {"any"}, DefaultProfile <- "any", inForce <- "any",
  phase <- moduleState

Exponents == {"right", "wrong", "outOfRange"}
Keys == [d : Exponents, crt : {"absent", "right", "wrong"}]
NoKey == [d |-> "none", crt |-> "none"]

Constructors == {"from_components", "from_components_crt", "generate"}
Uses == {"sign_pkcs1_v15", "sign_pss_with_salt", "sign_pss", "decrypt_oaep"}

-----------------------------------------------------------------------------
(* The steps of each call.                                                 *)

\* Fault: every constructor tests the exponent it was given.
Steps_TestsExponent(o, k) ==
  IF o \in {"from_components", "from_components_crt"}
  THEN <<"range", "hash", "direct", "verify">>
  ELSE IF o = "generate"
  THEN <<"draw", "derive", "gate", "range", "hash", "direct", "verify">>
  ELSE IF o = "sign_pss" THEN <<"draw", "range", "hash", "encode", "direct">>
  ELSE IF k.crt = "absent"
  THEN IF o = "sign_pkcs1_v15" THEN <<"range", "hash", "direct">>
       ELSE IF o = "sign_pss_with_salt" THEN <<"range", "hash", "encode", "direct">>
       ELSE <<"range", "direct", "decode">>
  ELSE IF o = "sign_pkcs1_v15" THEN <<"hash", "crt">>
       ELSE IF o = "sign_pss_with_salt" THEN <<"hash", "encode", "crt">>
       ELSE <<"crt", "decode">>

\* Fault: a signature never takes the CRT path.
Steps_SignsDirect(o, k) ==
  IF o = "from_components" THEN <<"range", "hash", "direct", "verify">>
  ELSE IF o = "from_components_crt" THEN <<"hash", "crt", "verify">>
  ELSE IF o = "generate" THEN <<"draw", "derive", "gate", "hash", "crt", "verify">>
  ELSE IF o = "sign_pss" THEN <<"draw", "range", "hash", "encode", "direct">>
  ELSE IF o = "sign_pkcs1_v15" THEN <<"range", "hash", "direct">>
  ELSE IF o = "sign_pss_with_salt" THEN <<"range", "hash", "encode", "direct">>
  ELSE IF k.crt = "absent" THEN <<"range", "direct", "decode">> ELSE <<"crt", "decode">>

\* The steps of call o with key k. A constructor tests the path it expects the
\* handle to use: d, or the CRT components if there are any. sign_pss, which
\* draws its salt, uses d whatever the handle holds. The range of d is checked
\* wherever d is used.
Steps(o, k) ==
  IF o = "from_components" THEN <<"range", "hash", "direct", "verify">>
  ELSE IF o = "from_components_crt" THEN <<"hash", "crt", "verify">>
  ELSE IF o = "generate" THEN <<"draw", "derive", "gate", "hash", "crt", "verify">>
  ELSE IF o = "sign_pss" THEN <<"draw", "range", "hash", "encode", "direct">>
  ELSE IF k.crt = "absent"
  THEN IF o = "sign_pkcs1_v15" THEN <<"range", "hash", "direct">>
       ELSE IF o = "sign_pss_with_salt" THEN <<"range", "hash", "encode", "direct">>
       ELSE <<"range", "direct", "decode">>
  ELSE IF o = "sign_pkcs1_v15" THEN <<"hash", "crt">>
       ELSE IF o = "sign_pss_with_salt" THEN <<"hash", "encode", "crt">>
       ELSE <<"crt", "decode">>

\* The steps in which the module guard is evaluated: wherever a hash or the DRBG
\* is used, and at the gate of the second constructor in generate.
Guarded == {"draw", "gate", "hash", "encode", "verify", "decode"}

RsaInit ==
  /\ ModuleBoundary!Init
  /\ permitted \in BOOLEAN
  /\ handle = NoKey
  /\ op = "none" /\ key = NoKey /\ at = 0 /\ struck = FALSE /\ value = "none"
  /\ faults = MaxFaults
  /\ result = "none" /\ out = "none"

\* The step the call is at.
AtStep(s) == op # "none" /\ at < Len(Steps(op, key)) /\ Steps(op, key)[at + 1] = s

Continue ==
  /\ at' = at + 1
  /\ UNCHANGED <<moduleState, permitted, handle, op, result, out>>

\* The call ends: with an error nothing is handed out.
Return(r, h, o) ==
  /\ result' = r /\ handle' = h /\ out' = o
  /\ op' = "none" /\ key' = NoKey /\ at' = 0 /\ struck' = FALSE /\ value' = "none"
  /\ UNCHANGED <<moduleState, permitted>>

Fail(r) == Return(r, handle, "none")

-----------------------------------------------------------------------------
(* Calls.                                                                  *)

Gate ==
  IF moduleState # "Operational" THEN "Module"
  ELSE IF ~permitted THEN "AlgorithmRestricted" ELSE "ok"

\* from_components and from_components_crt bring a key, generate makes one; the
\* application keeps one handle at a time.
KeyFor(o, k) ==
  IF o \in Uses THEN handle # NoKey /\ k = handle
  ELSE /\ handle = NoKey
       /\ IF o = "generate" THEN k = NoKey ELSE k \in Keys
       /\ (o = "from_components") => (k.crt = "absent")
       /\ (o = "from_components_crt") => (k.crt # "absent")

Refuse(o, k) ==
  /\ op = "none" /\ KeyFor(o, k)
  /\ Gate # "ok"
  /\ Fail(Gate)
  /\ UNCHANGED faults

Call(o, k) ==
  /\ op = "none" /\ KeyFor(o, k)
  /\ Gate = "ok"
  /\ op' = o /\ key' = k /\ at' = 0 /\ struck' = FALSE /\ value' = "none"
  /\ result' = "none" /\ out' = "none"
  /\ UNCHANGED <<moduleState, permitted, handle, faults>>

DropHandle ==
  /\ op = "none" /\ handle # NoKey
  /\ handle' = NoKey
  /\ UNCHANGED <<moduleState, permitted, callVars, faults, result, out>>

-----------------------------------------------------------------------------
(* Steps.                                                                  *)

\* The guard of a hash or of the DRBG refuses, whatever was computed so far.
RefuseStep ==
  /\ \E s \in Guarded : AtStep(s)
  /\ moduleState # "Operational"
  /\ Fail("Module")
  /\ UNCHANGED faults

\* The DRBG fails, or no prime is found in 20 000 candidates.
DrawFails ==
  /\ AtStep("draw") /\ moduleState = "Operational"
  /\ Fail("InvalidInput")
  /\ UNCHANGED faults

\* The salt or the primes are drawn, the second gate opens, or the message is
\* encoded.
Prepare ==
  /\ \E s \in {"draw", "gate", "hash", "encode"} : AtStep(s)
  /\ moduleState = "Operational"
  /\ Continue
  /\ UNCHANGED <<key, struck, value, faults>>

RefuseRange ==
  /\ AtStep("range") /\ key.d = "outOfRange"
  /\ Fail("InvalidInput")
  /\ UNCHANGED faults

CheckRange ==
  /\ AtStep("range") /\ key.d # "outOfRange"
  /\ Continue
  /\ UNCHANGED <<key, struck, value, faults>>

\* A fault strikes the arithmetic of this step, or none does.
Strike(hit) ==
  /\ hit \in BOOLEAN
  /\ hit => faults > 0
  /\ faults' = IF hit THEN faults - 1 ELSE faults
  /\ struck' = (struck \/ hit)

\* generate_2048_internal: d, then dP, dQ and qInv from it; a fault spoils d, the
\* components, or, by way of d, both.
Derive(hit, k) ==
  /\ AtStep("derive") /\ Strike(hit)
  /\ k \in [d : Exponents, crt : {"right", "wrong"}]
  /\ (k = [d |-> "right", crt |-> "right"]) <=> ~hit
  /\ key' = k
  /\ Continue
  /\ UNCHANGED value

\* pow_secret with d.
Exponentiate(hit) ==
  /\ AtStep("direct") /\ Strike(hit)
  /\ value' = IF key.d = "right" /\ ~hit THEN "right" ELSE "wrong"
  /\ Continue
  /\ UNCHANGED key

\* What Garner's recombination may give.
Recombined(hit) == IF key.crt = "right" /\ ~hit THEN {"right"} ELSE {"half", "wrong"}

\* The recombined halves agree with the public exponent.
CrtExponentiate(hit) ==
  /\ AtStep("crt") /\ Strike(hit)
  /\ value' \in Recombined(hit) \cap {"right"}
  /\ Continue
  /\ UNCHANGED key

\* They do not (the Bellcore check), or a fault struck the check itself.
CrtMismatch(hit) ==
  /\ AtStep("crt")
  /\ hit \in BOOLEAN /\ (hit => faults > 0)
  /\ Recombined(hit) # {"right"}
  /\ faults' = IF hit THEN faults - 1 ELSE faults
  /\ Fail("InvalidInput")

\* The PCT: the probe signature verifies under (n, e), and the handle is made.
PctPasses ==
  /\ AtStep("verify") /\ moduleState = "Operational"
  /\ value = "right"
  /\ Return("ok", key, "none")
  /\ UNCHANGED faults

\* It does not, or a fault struck the verification.
PctFails(hit) ==
  /\ AtStep("verify") /\ moduleState = "Operational"
  /\ hit \in BOOLEAN /\ (hit => faults > 0)
  /\ value = "right" => hit
  /\ faults' = IF hit THEN faults - 1 ELSE faults
  /\ Fail("InvalidInput")

\* EME-OAEP decoding of anything but the right representative finds no padding;
\* the right one may have been made with another label.
DecodeFails ==
  /\ AtStep("decode") /\ moduleState = "Operational"
  /\ Fail("InvalidInput")
  /\ UNCHANGED faults

Decode ==
  /\ AtStep("decode") /\ moduleState = "Operational"
  /\ value = "right"
  /\ Return("ok", handle, value)
  /\ UNCHANGED faults

\* A signing call returns what it computed.
Sign ==
  /\ op \in Uses \ {"decrypt_oaep"} /\ at = Len(Steps(op, key))
  /\ Return("ok", handle, value)
  /\ UNCHANGED faults

-----------------------------------------------------------------------------

\* The module boots, and may be shut for good, between any two steps.
Lifecycle == ModuleBoundary!Next /\ UNCHANGED <<permitted, handle, callVars, faults, result, out>>

RsaNext ==
  \/ \E o \in Constructors \cup Uses, k \in Keys \cup {NoKey} : Call(o, k) \/ Refuse(o, k)
  \/ DropHandle
  \/ RefuseStep \/ DrawFails \/ Prepare \/ RefuseRange \/ CheckRange
  \/ \E hit \in BOOLEAN :
       \/ Exponentiate(hit) \/ CrtExponentiate(hit) \/ CrtMismatch(hit) \/ PctFails(hit)
       \/ \E k \in Keys : Derive(hit, k)
  \/ PctPasses \/ DecodeFails \/ Decode \/ Sign
  \/ Lifecycle

RsaSpec == RsaInit /\ [][RsaNext]_handleVars

-----------------------------------------------------------------------------
(* What a handle promises.                                                 *)

\* Every variable holds a value of its type; only a call in progress holds a key,
\* a representative or steps to run.
TypeOK ==
  /\ moduleState \in {"PowerOff", "SelfTest", "Operational", "IntegrityUnverified", "Error"}
  /\ permitted \in BOOLEAN
  /\ handle \in Keys \cup {NoKey}
  /\ op \in Constructors \cup Uses \cup {"none"}
  /\ key \in Keys \cup {NoKey}
  /\ at \in 0..6
  /\ struck \in BOOLEAN /\ faults \in 0..MaxFaults
  /\ value \in {"none", "right", "half", "wrong"}
  /\ op = "none" => key = NoKey /\ at = 0 /\ value = "none"
  /\ result \in {"none", "ok", "Module", "AlgorithmRestricted", "InvalidInput"}
  /\ out \in {"none", "right", "half", "wrong"}

\* A handle was permitted, and what it would compute with was found right,
\* faults during the test included: the components if it has them, d if not.
HandlesAreTested ==
  handle # NoKey =>
    /\ permitted
    /\ IF handle.crt = "absent" THEN handle.d = "right" ELSE handle.crt = "right"

\* No fault and no inconsistent key makes a call give away a factor of n.
NoHalfCongruence == out # "half" /\ (op # "none" => value # "half")

\* A call hands its caller something.
Delivers == op # "none" /\ op' = "none" /\ out' # "none"

\* Outside sign_pss a signature verifies and a plaintext is the one encrypted,
\* whatever struck a handle with CRT components; without them a fault may show in
\* a signature, never in a plaintext.
OutputVerifies ==
  [][Delivers /\ op # "sign_pss" =>
       out' = "right" \/ (struck /\ handle.crt = "absent" /\ op # "decrypt_oaep")]_handleVars

\* The documentation of the handle: with CRT components, signing takes the CRT
\* path and its verify-after-sign check, so a signature of such a handle verifies.
CrtHandleSignsChecked ==
  [][Delivers /\ handle.crt # "absent" => out' = "right"]_handleVars

=============================================================================

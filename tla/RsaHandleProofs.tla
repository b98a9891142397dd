--------------------------- MODULE RsaHandleProofs ---------------------------
(***************************************************************************)
(* Proofs about RsaHandle, for any number of faults.  The inductive        *)
(* invariant says what a call in progress knows of its key, and what the   *)
(* representative it has computed tells about that key.                    *)
(***************************************************************************)
EXTENDS RsaHandle, TLAPS

\* A call was admitted, and works on the handle's key or on one of its own.
CallInv ==
  op # "none" =>
    /\ permitted
    /\ at <= Len(Steps(op, key))
    /\ op \in Uses => handle # NoKey /\ key = handle
    /\ op \in Constructors => handle = NoKey
    /\ op = "from_components" => key \in Keys /\ key.crt = "absent"
    /\ op = "from_components_crt" => key \in Keys /\ key.crt # "absent"
    /\ op = "generate" /\ at >= 2 => key \in Keys /\ key.crt # "absent"

\* A representative that went through a path is evidence about the key.
ValueInv ==
  op # "none" =>
    \A j \in 1..at :
      /\ Steps(op, key)[j] = "crt" => value = "right" /\ key.crt = "right"
      /\ Steps(op, key)[j] = "direct" =>
           /\ value \in {"right", "wrong"}
           /\ value = "right" => key.d = "right"
           /\ key.d = "right" /\ ~struck => value = "right"

\* Nothing half right is in a variable.
HalfInv == value # "half" /\ out # "half"

IInv == TypeOK /\ CallInv /\ ValueInv /\ HalfInv /\ HandlesAreTested

-----------------------------------------------------------------------------
(* The step lists.                                                         *)

\* No call has more than six steps.
LEMMA StepsShort ==
  ASSUME NEW o \in Constructors \cup Uses, NEW k
  PROVE  Len(Steps(o, k)) \in 2..6
BY DEF Steps, Constructors, Uses

\* A call uses the private key once.
LEMMA OneExponentiation ==
  ASSUME NEW o \in Constructors \cup Uses, NEW k,
         NEW i \in 1..Len(Steps(o, k)), NEW j \in 1..Len(Steps(o, k)),
         Steps(o, k)[i] \in {"direct", "crt"}, Steps(o, k)[j] \in {"direct", "crt"}
  PROVE  i = j
<1>1. CASE o = "from_components"
  BY <1>1 DEF Steps
<1>2. CASE o = "from_components_crt"
  BY <1>2 DEF Steps
<1>3. CASE o = "generate"
  BY <1>3 DEF Steps
<1>4. CASE o = "sign_pss"
  BY <1>4 DEF Steps
<1>5. CASE o = "sign_pkcs1_v15"
  BY <1>5 DEF Steps
<1>6. CASE o = "sign_pss_with_salt"
  BY <1>6 DEF Steps
<1>7. CASE o = "decrypt_oaep"
  BY <1>7 DEF Steps
<1> QED
  BY <1>1, <1>2, <1>3, <1>4, <1>5, <1>6, <1>7 DEF Constructors, Uses

\* The path a constructor verifies, and the one a use of the handle returns.
LEMMA PathOf ==
  ASSUME NEW o \in Constructors \cup Uses, NEW k
  PROVE  /\ \A j \in 1..Len(Steps(o, k)) : Steps(o, k)[j] = "verify" =>
              /\ o \in Constructors /\ j > 1
              /\ Steps(o, k)[j - 1] = IF o = "from_components" THEN "direct" ELSE "crt"
              /\ o = "generate" => j > 2
         /\ \A j \in 1..Len(Steps(o, k)) : Steps(o, k)[j] = "derive" => o = "generate" /\ j = 2
         /\ \A j \in 1..Len(Steps(o, k)) : Steps(o, k)[j] = "decode" => o = "decrypt_oaep"
         /\ o \in {"sign_pkcs1_v15", "sign_pss_with_salt"} =>
              Steps(o, k)[Len(Steps(o, k))] = IF k.crt = "absent" THEN "direct" ELSE "crt"
<1>1. CASE o = "from_components"
  BY <1>1 DEF Steps, Constructors, Uses
<1>2. CASE o = "from_components_crt"
  BY <1>2 DEF Steps, Constructors, Uses
<1>3. CASE o = "generate"
  BY <1>3 DEF Steps, Constructors, Uses
<1>4. CASE o = "sign_pss"
  BY <1>4 DEF Steps, Constructors, Uses
<1>5. CASE o = "sign_pkcs1_v15"
  BY <1>5 DEF Steps, Constructors, Uses
<1>6. CASE o = "sign_pss_with_salt"
  BY <1>6 DEF Steps, Constructors, Uses
<1>7. CASE o = "decrypt_oaep"
  BY <1>7 DEF Steps, Constructors, Uses
<1> QED
  BY <1>1, <1>2, <1>3, <1>4, <1>5, <1>6, <1>7 DEF Constructors, Uses

-----------------------------------------------------------------------------
(* Every step keeps the invariant.                                         *)

\* A call that returns leaves nothing behind but a tested handle.
LEMMA ReturnStep ==
  ASSUME IInv,
         NEW r \in {"ok", "Module", "AlgorithmRestricted", "InvalidInput"},
         NEW h \in Keys \cup {NoKey}, NEW o \in {"none", "right", "wrong"},
         Return(r, h, o), faults' \in 0..MaxFaults,
         h # NoKey => permitted /\ IF h.crt = "absent" THEN h.d = "right" ELSE h.crt = "right"
  PROVE  IInv'
<1>1. TypeOK'
  <2>1. permitted' \in BOOLEAN /\ struck' \in BOOLEAN
    BY Zenon DEF IInv, TypeOK, Return
  <2>2. /\ moduleState' = moduleState /\ handle' = h /\ op' = "none" /\ key' = NoKey /\ at' = 0
        /\ value' = "none" /\ result' = r /\ out' = o
    BY DEF Return
  <2>3. moduleState \in {"PowerOff", "SelfTest", "Operational", "IntegrityUnverified", "Error"}
    BY DEF IInv, TypeOK
  <2> QED
    BY <2>1, <2>2, <2>3 DEF TypeOK
<1>2. CallInv' /\ ValueInv' /\ HalfInv'
  BY DEF CallInv, ValueInv, HalfInv, Return
<1>3. HandlesAreTested'
  BY DEF Return, HandlesAreTested
<1> QED
  BY <1>1, <1>2, <1>3 DEF IInv

\* A call that fails leaves the handle as it was.
LEMMA FailStep ==
  ASSUME IInv, NEW r \in {"Module", "AlgorithmRestricted", "InvalidInput"},
         Fail(r), faults' \in 0..MaxFaults
  PROVE  IInv'
<1>1. handle \in Keys \cup {NoKey}
  BY DEF IInv, TypeOK
<1>2. handle # NoKey =>
        permitted /\ IF handle.crt = "absent" THEN handle.d = "right" ELSE handle.crt = "right"
  BY DEF IInv, HandlesAreTested
<1> QED
  BY <1>1, <1>2, ReturnStep DEF Fail

\* A step that computes nothing.
LEMMA PrepareStep ==
  ASSUME IInv, NEW s, s \notin {"crt", "direct", "derive"}, AtStep(s), Continue,
         UNCHANGED <<key, struck, value, faults>>
  PROVE  IInv'
<1> USE DEF AtStep, Continue
<1>1. op \in Constructors \cup Uses /\ at \in Nat
  BY DEF IInv, TypeOK
<1>2. Len(Steps(op, key)) \in 2..6
  BY <1>1, StepsShort
<1>3. TypeOK'
  BY <1>1, <1>2 DEF IInv, TypeOK
<1>4. CallInv'
  <2>1. op = "generate" /\ at' >= 2 => key \in Keys /\ key.crt # "absent"
    BY <1>1, <1>2 DEF IInv, CallInv, Steps
  <2> QED
    BY <1>1, <1>2, <2>1 DEF IInv, CallInv
<1>5. ValueInv'
  BY <1>1 DEF IInv, ValueInv
<1>6. HalfInv' /\ HandlesAreTested'
  BY DEF IInv, HalfInv, HandlesAreTested
<1> QED
  BY <1>3, <1>4, <1>5, <1>6 DEF IInv

\* generate_2048_internal has made a key.
LEMMA DeriveStep ==
  ASSUME MaxFaults \in Nat, IInv, NEW hit, NEW k \in Keys, Derive(hit, k)
  PROVE  IInv'
<1> USE DEF AtStep, Continue
<1>1. /\ op \in Constructors \cup Uses /\ at \in Nat
      /\ k \in Keys /\ k.crt # "absent"
  BY DEF IInv, TypeOK, Derive, Keys
<1>2. Len(Steps(op, key)) \in 2..6
  BY <1>1, StepsShort
<1>3. op = "generate" /\ at = 1
  BY <1>1, PathOf DEF Derive
<1>4. TypeOK'
  BY <1>1, <1>3 DEF IInv, TypeOK, Derive, Strike
<1>5. CallInv'
  BY <1>1, <1>3 DEF IInv, CallInv, Derive, Steps, Constructors, Uses
<1>6. ValueInv'
  BY <1>1, <1>3 DEF ValueInv, Derive, Steps
<1>7. HalfInv' /\ HandlesAreTested'
  BY DEF IInv, HalfInv, HandlesAreTested, Derive
<1> QED
  BY <1>4, <1>5, <1>6, <1>7 DEF IInv

\* The representative a path computes is its first and only one.
LEMMA ExponentiateStep ==
  ASSUME MaxFaults \in Nat, IInv, NEW hit, Exponentiate(hit) \/ CrtExponentiate(hit)
  PROVE  IInv'
<1> USE DEF AtStep, Continue
<1>1. /\ op \in Constructors \cup Uses /\ at \in Nat
      /\ op # "none" /\ at < Len(Steps(op, key))
  BY DEF IInv, TypeOK, Exponentiate, CrtExponentiate
<1>2. Len(Steps(op, key)) \in 2..6
  BY <1>1, StepsShort
<1>3. Steps(op, key)[at + 1] \in {"direct", "crt"}
  BY DEF Exponentiate, CrtExponentiate
<1>4. \A j \in 1..at : Steps(op, key)[j] \notin {"direct", "crt"}
  BY <1>1, <1>2, <1>3, OneExponentiation
<1>5. value' \in {"right", "wrong"}
  BY DEF Exponentiate, CrtExponentiate
<1>6. /\ Steps(op, key)[at + 1] = "crt" => value' = "right" /\ key.crt = "right"
      /\ Steps(op, key)[at + 1] = "direct" =>
           /\ value' = "right" => key.d = "right"
           /\ key.d = "right" /\ ~struck' => value' = "right"
  BY DEF Exponentiate, CrtExponentiate, Recombined, Strike
<1>7. TypeOK'
  <2>1. UNCHANGED <<moduleState, permitted, handle, op, result, out, key>> /\ at' = at + 1
    BY DEF Exponentiate, CrtExponentiate
  <2>2. struck' \in BOOLEAN /\ faults' \in 0..MaxFaults
    BY DEF Exponentiate, CrtExponentiate, Strike, IInv, TypeOK
  <2>3. permitted' \in BOOLEAN
    BY <2>1, Zenon DEF IInv, TypeOK
  <2>4. at' \in 0..6
    <3> DEFINE n == Len(Steps(op, key))
    <3>1. n \in 2..6 /\ at < n /\ at \in Nat /\ at' = at + 1
      BY <1>1, <1>2, <2>1
    <3> HIDE DEF n
    <3> QED
      BY <3>1
  <2>5. /\ moduleState' \in {"PowerOff", "SelfTest", "Operational", "IntegrityUnverified", "Error"}
        /\ handle' \in Keys \cup {NoKey} /\ key' \in Keys \cup {NoKey}
        /\ op' \in Constructors \cup Uses \cup {"none"} /\ op' # "none"
        /\ result' \in {"none", "ok", "Module", "AlgorithmRestricted", "InvalidInput"}
        /\ out' \in {"none", "right", "half", "wrong"}
        /\ value' \in {"none", "right", "half", "wrong"}
    BY <1>1, <1>5, <2>1 DEF IInv, TypeOK
  <2> QED
    BY <2>2, <2>3, <2>4, <2>5 DEF TypeOK
<1>8. CallInv'
  <2>1. UNCHANGED <<permitted, handle, op, key>> /\ at' = at + 1
    BY DEF Exponentiate, CrtExponentiate
  <2>2. op = "generate" => at >= 2
    BY <1>1, <1>3 DEF Steps
  <2> QED
    BY <1>1, <1>2, <2>1, <2>2 DEF IInv, CallInv
<1>9. ValueInv'
  <2>1. UNCHANGED <<op, key>> /\ at' = at + 1
    BY DEF Exponentiate, CrtExponentiate
  <2> QED
    BY <1>1, <1>4, <1>5, <1>6, <2>1 DEF ValueInv
<1>10. HalfInv' /\ HandlesAreTested'
  BY <1>5 DEF IInv, HalfInv, HandlesAreTested, Exponentiate, CrtExponentiate
<1> QED
  BY <1>7, <1>8, <1>9, <1>10 DEF IInv

\* A handle is made of a key whose probe signature verified.
LEMMA PctStep ==
  ASSUME IInv, PctPasses
  PROVE  IInv'
<1>1. /\ op \in Constructors \cup Uses /\ at \in Nat /\ op # "none"
      /\ at + 1 \in 1..Len(Steps(op, key)) /\ Steps(op, key)[at + 1] = "verify"
  <2>1. op \in Constructors \cup Uses /\ at \in Nat
    BY DEF IInv, TypeOK, PctPasses, AtStep
  <2> QED
    BY <2>1, StepsShort DEF PctPasses, AtStep
<1>2. /\ op \in Constructors /\ at \in 1..at
      /\ Steps(op, key)[at] = IF op = "from_components" THEN "direct" ELSE "crt"
      /\ op = "generate" => at >= 2
  BY <1>1, PathOf
<1>3. key \in Keys /\ permitted /\ (key.crt = "absent" <=> op = "from_components")
  BY <1>1, <1>2 DEF IInv, CallInv, Constructors
<1>4. IF key.crt = "absent" THEN key.d = "right" ELSE key.crt = "right"
  BY <1>1, <1>2, <1>3 DEF IInv, ValueInv, PctPasses
<1>5. faults' \in 0..MaxFaults
  BY DEF IInv, TypeOK, PctPasses
<1> QED
  BY <1>3, <1>4, <1>5, ReturnStep DEF PctPasses

\* A use of the handle returns its representative.
LEMMA UseStep ==
  ASSUME IInv, Sign \/ Decode
  PROVE  IInv'
<1>1. op # "none"
  BY DEF Sign, Decode, AtStep, Uses
<1>2. value \in {"none", "right", "wrong"}
  BY DEF IInv, TypeOK, HalfInv
<1>3. handle \in Keys \cup {NoKey} /\ faults' \in 0..MaxFaults
  BY DEF IInv, TypeOK, Sign, Decode
<1>4. handle # NoKey =>
        permitted /\ IF handle.crt = "absent" THEN handle.d = "right" ELSE handle.crt = "right"
  BY DEF IInv, HandlesAreTested
<1> QED
  BY <1>2, <1>3, <1>4, ReturnStep DEF Sign, Decode

\* A handle begins with no key.
LEMMA InductiveInit ==
  ASSUME MaxFaults \in Nat
  PROVE  RsaInit => IInv
<1> SUFFICES ASSUME RsaInit PROVE IInv
  OBVIOUS
<1>1. TypeOK
  <2>1. permitted \in BOOLEAN /\ struck \in BOOLEAN
    BY Zenon DEF RsaInit
  <2>2. moduleState = "PowerOff"
    BY DEF RsaInit, ModuleBoundary!Init
  <2>3. faults \in 0..MaxFaults
    BY DEF RsaInit
  <2> QED
    BY <2>1, <2>2, <2>3 DEF RsaInit, TypeOK
<1>2. CallInv /\ ValueInv /\ HalfInv /\ HandlesAreTested
  BY DEF RsaInit, CallInv, ValueInv, HalfInv, HandlesAreTested
<1> QED
  BY <1>1, <1>2 DEF IInv

\* Every step of a handle, a fault in its arithmetic included, keeps the invariant.
LEMMA InductiveStep ==
  ASSUME MaxFaults \in Nat
  PROVE  IInv /\ [RsaNext]_handleVars => IInv'
<1> SUFFICES ASSUME IInv, [RsaNext]_handleVars PROVE IInv'
  OBVIOUS
<1>1. ASSUME NEW o \in Constructors \cup Uses, NEW k \in Keys \cup {NoKey}, Call(o, k)
      PROVE  IInv'
  <2>1. Len(Steps(o, k)) \in 2..6
    BY StepsShort
  <2>2. TypeOK'
    <3>1. permitted' \in BOOLEAN /\ struck' \in BOOLEAN
      BY <1>1, Zenon DEF IInv, TypeOK, Call
    <3>2. /\ moduleState' = moduleState /\ handle' = handle /\ op' = o /\ key' = k /\ at' = 0
          /\ value' = "none" /\ result' = "none" /\ out' = "none" /\ faults' = faults
          /\ op' # "none"
      BY <1>1 DEF Call, Constructors, Uses
    <3> QED
      BY <3>1, <3>2 DEF IInv, TypeOK
  <2>3. CallInv'
    BY <1>1, <2>1 DEF CallInv, Call, KeyFor, Gate, Constructors, Uses
  <2>4. ValueInv' /\ HalfInv' /\ HandlesAreTested'
    BY <1>1 DEF IInv, ValueInv, HalfInv, HandlesAreTested, Call
  <2> QED
    BY <2>2, <2>3, <2>4 DEF IInv
<1>2. ASSUME NEW o \in Constructors \cup Uses, NEW k \in Keys \cup {NoKey}, Refuse(o, k)
      PROVE  IInv'
  <2>1. Gate \in {"Module", "AlgorithmRestricted"} /\ Fail(Gate) /\ faults' \in 0..MaxFaults
    BY <1>2 DEF IInv, TypeOK, Refuse, Gate
  <2> QED
    BY <2>1, FailStep
<1>3. CASE DropHandle
  <2>1. TypeOK'
    BY <1>3 DEF IInv, TypeOK, DropHandle, callVars
  <2>2. CallInv' /\ ValueInv' /\ HalfInv' /\ HandlesAreTested'
    BY <1>3 DEF IInv, CallInv, ValueInv, HalfInv, HandlesAreTested, DropHandle, callVars
  <2> QED
    BY <2>1, <2>2 DEF IInv
<1>4. CASE RefuseStep \/ DrawFails \/ RefuseRange \/ DecodeFails
  <2>1. \E r \in {"Module", "InvalidInput"} : Fail(r)
    BY <1>4 DEF RefuseStep, DrawFails, RefuseRange, DecodeFails
  <2>2. faults' \in 0..MaxFaults
    BY <1>4 DEF IInv, TypeOK, RefuseStep, DrawFails, RefuseRange, DecodeFails
  <2> QED
    BY <2>1, <2>2, FailStep
<1>5. CASE Prepare \/ CheckRange
  BY <1>5, PrepareStep DEF Prepare, CheckRange
<1>6. ASSUME NEW hit \in BOOLEAN, CrtMismatch(hit) \/ PctFails(hit)
      PROVE  IInv'
  <2>1. Fail("InvalidInput") /\ faults' \in 0..MaxFaults
    BY <1>6 DEF CrtMismatch, PctFails, IInv, TypeOK
  <2> QED
    BY <2>1, FailStep
<1>7. ASSUME NEW hit \in BOOLEAN, Exponentiate(hit) \/ CrtExponentiate(hit)
      PROVE  IInv'
  BY <1>7, ExponentiateStep
<1>8. ASSUME NEW hit \in BOOLEAN, NEW k \in Keys, Derive(hit, k)
      PROVE  IInv'
  BY <1>8, DeriveStep
<1>9. CASE PctPasses
  BY <1>9, PctStep
<1>10. CASE Sign \/ Decode
  BY <1>10, UseStep
<1>11. CASE Lifecycle
  <2>1. TypeOK'
    BY <1>11 DEF IInv, TypeOK, Lifecycle, callVars, ModuleBoundary!Next, ModuleBoundary!Start,
      ModuleBoundary!Open, ModuleBoundary!Decline, ModuleBoundary!Latch
  <2>2. CallInv' /\ ValueInv' /\ HalfInv' /\ HandlesAreTested'
    BY <1>11 DEF IInv, CallInv, ValueInv, HalfInv, HandlesAreTested, Lifecycle, callVars
  <2> QED
    BY <2>1, <2>2 DEF IInv
<1>12. CASE UNCHANGED handleVars
  <2>1. TypeOK'
    BY <1>12 DEF IInv, TypeOK, handleVars, callVars
  <2>2. CallInv' /\ ValueInv' /\ HalfInv' /\ HandlesAreTested'
    BY <1>12 DEF IInv, CallInv, ValueInv, HalfInv, HandlesAreTested, handleVars, callVars
  <2> QED
    BY <2>1, <2>2 DEF IInv
<1> QED
  BY <1>1, <1>2, <1>3, <1>4, <1>5, <1>6, <1>7, <1>8, <1>9, <1>10, <1>11, <1>12 DEF RsaNext

-----------------------------------------------------------------------------
(* The theorems.                                                           *)

\* The inductive invariant holds of every reachable state.
THEOREM Inductive ==
  ASSUME MaxFaults \in Nat
  PROVE  RsaSpec => []IInv
BY InductiveInit, InductiveStep, PTL DEF RsaSpec

\* Every variable keeps its type, and no key outlives its call
\* (oxicrypt-rsa, RsaPrivateKey2048).
THEOREM TypeCorrect ==
  ASSUME MaxFaults \in Nat
  PROVE  RsaSpec => []TypeOK
<1>1. IInv => TypeOK
  BY DEF IInv
<1> QED
  BY <1>1, Inductive, PTL

\* However many faults strike, a handle exists only if the key material its PCT
\* exercised is consistent with (n, e), and only under a profile that permits it
\* (from_components, from_components_crt, generate).
THEOREM HandlesTested ==
  ASSUME MaxFaults \in Nat
  PROVE  RsaSpec => []HandlesAreTested
<1>1. IInv => HandlesAreTested
  BY DEF IInv
<1> QED
  BY <1>1, Inductive, PTL

\* However many faults strike, nothing right modulo one prime only is returned or
\* kept (rsa_crt_2048_private_exp_internal, the Bellcore check).
THEOREM HalfCongruenceNeverOut ==
  ASSUME MaxFaults \in Nat
  PROVE  RsaSpec => []NoHalfCongruence
<1>1. IInv => NoHalfCongruence
  BY DEF IInv, HalfInv, NoHalfCongruence
<1> QED
  BY <1>1, Inductive, PTL

\* What a use of the handle returns is right, sign_pss apart, unless a fault struck
\* a call without CRT components (sign_pkcs1_v15_sha256,
\* sign_pss_sha256_with_salt, decrypt_oaep_sha256).
THEOREM OutputsVerify ==
  ASSUME MaxFaults \in Nat
  PROVE  RsaSpec => OutputVerifies
<1>1. ASSUME IInv, [RsaNext]_handleVars, Delivers, op # "sign_pss"
      PROVE  out' = "right" \/ (struck /\ handle.crt = "absent" /\ op # "decrypt_oaep")
  <2>1. CASE Sign
    <3>1. /\ op \in {"sign_pkcs1_v15", "sign_pss_with_salt"} /\ op \in Constructors \cup Uses
          /\ at = Len(Steps(op, key)) /\ op # "none" /\ out' = value
      BY <1>1, <2>1 DEF Sign, Uses, Return
    <3>2. /\ at \in 1..at
          /\ Steps(op, key)[at] = IF key.crt = "absent" THEN "direct" ELSE "crt"
      BY <3>1, StepsShort, PathOf
    <3>3. key = handle /\ handle # NoKey
      BY <1>1, <3>1 DEF IInv, CallInv, Uses
    <3>4. CASE key.crt = "absent"
      <4>1. key.d = "right"
        BY <1>1, <3>3, <3>4 DEF IInv, HandlesAreTested
      <4>2. struck \in BOOLEAN
        BY <1>1 DEF IInv, TypeOK
      <4> QED
        BY <1>1, <3>1, <3>2, <3>3, <3>4, <4>1, <4>2 DEF IInv, ValueInv
    <3>5. CASE key.crt # "absent"
      BY <1>1, <3>1, <3>2, <3>5 DEF IInv, ValueInv
    <3> QED
      BY <3>4, <3>5
  <2>2. CASE Decode
    BY <2>2 DEF Decode, Return
  <2>3. Sign \/ Decode
    <3>1. op # "none" /\ op' = "none" /\ out' # "none"
      BY <1>1 DEF Delivers
    <3>2. ~UNCHANGED handleVars
      BY <3>1 DEF handleVars, callVars
    <3>3. ~Lifecycle /\ ~DropHandle /\ ~PctPasses
      BY <3>1 DEF Lifecycle, callVars, DropHandle, PctPasses, Return
    <3>4. ~RefuseStep /\ ~DrawFails /\ ~RefuseRange /\ ~DecodeFails /\ ~Prepare /\ ~CheckRange
      BY <3>1 DEF RefuseStep, DrawFails, RefuseRange, DecodeFails, Prepare, CheckRange, Fail,
        Return, Continue
    <3>5. \A hit \in BOOLEAN :
            /\ ~Exponentiate(hit) /\ ~CrtExponentiate(hit) /\ ~CrtMismatch(hit) /\ ~PctFails(hit)
            /\ \A k \in Keys : ~Derive(hit, k)
      BY <3>1 DEF Exponentiate, CrtExponentiate, CrtMismatch, PctFails, Derive, Fail, Return,
        Continue
    <3>6. \A o, k : ~Call(o, k) /\ ~Refuse(o, k)
      BY <3>1 DEF Call, Refuse
    <3> QED
      BY <1>1, <3>2, <3>3, <3>4, <3>5, <3>6 DEF RsaNext
  <2> QED
    BY <2>1, <2>2, <2>3
<1> QED
  BY <1>1, Inductive, PTL DEF RsaSpec, OutputVerifies

-----------------------------------------------------------------------------
(***************************************************************************)
(* The key handles in the lifecycle: whatever phase the module is in, no   *)
(* step of a handle moves it, neither a failed pairwise test nor a CRT     *)
(* mismatch; it goes through its lifecycle around the call in progress.    *)
(***************************************************************************)
THEOREM KeepsLifecycle == RsaSpec => ModuleBoundary!Spec
<1>1. RsaInit => ModuleBoundary!Init
  BY DEF RsaInit
<1>2. [RsaNext]_handleVars => [ModuleBoundary!Next]_(ModuleBoundary!lifecycleVars)
  <2> SUFFICES ASSUME [RsaNext]_handleVars PROVE UNCHANGED moduleState \/ ModuleBoundary!Next
    BY DEF ModuleBoundary!lifecycleVars
  <2>1. CASE Lifecycle
    BY <2>1 DEF Lifecycle
  <2>2. ASSUME RsaNext, ~Lifecycle PROVE UNCHANGED moduleState
    BY <2>2 DEF RsaNext, Call, Refuse, DropHandle, RefuseStep, DrawFails, Prepare, RefuseRange,
       CheckRange, Exponentiate, CrtExponentiate, CrtMismatch, PctFails, Derive, PctPasses,
       DecodeFails, Decode, Sign, Continue, Return, Fail
  <2>3. QED
    BY <2>1, <2>2 DEF handleVars
<1>3. QED
  BY <1>1, <1>2, PTL DEF RsaSpec, ModuleBoundary!Spec

=============================================================================

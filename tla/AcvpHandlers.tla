---------------------------- MODULE AcvpHandlers ----------------------------
(***************************************************************************)
(* The handlers of the ACVP harness: what each asks of a test group and    *)
(* of the tests in it, in which order, what it asks of the modules under   *)
(* test, how it tells their refusals, and what it answers. A handler is a  *)
(* sequence of steps for the group and one for each test. A group has its  *)
(* parameters (p, a record) and may have defects: a field that is missing  *)
(* or of another type, that is no hexadecimal, or that has another length  *)
(* than its parameters say.                                                *)
(***************************************************************************)
EXTENDS ByteStrings, FiniteSets, SequencesExt

-----------------------------------------------------------------------------
(* Steps: a field that is needed; one in hexadecimal; one that may be left  *)
(* out; one of a length that is fixed, or whose misfit is a failed          *)
(* verification; a condition without which the group is refused; a call of  *)
(* the module under test, whose refusals are told in one of several ways;   *)
(* a verification; an expected value to compare with.                       *)

Need(f) == <<"need", f>>
Hex(f) == <<"hex", f>>
Maybe(f) == <<"maybe", f>>
Fits(f) == <<"fits", f>>
FitsOrFails(f) == <<"fits or fails", f>>
Expected(f) == <<"expected", f>>
Unless(met, error) == <<"unless", met, error>>
Ask(told) == <<"ask", told>>
Judge(told) == <<"judge", told>>
\* A field of the group that is read with each test.
OfGroup(step) == <<"of group", step>>

Fixed(f) == <<Hex(f), Fits(f)>>
Each(kind, fs) == [i \in DOMAIN fs |-> <<kind, fs[i]>>]
Needed(fs) == Each("need", fs)
Decoded(fs) == Each("hex", fs)
Fitting(fs) == Each("fits", fs)
FittingOrFailing(fs) == Each("fits or fails", fs)
When(met, steps) == IF met THEN steps ELSE <<>>

Aligned(bits) == Unless(bits % 8 = 0, "Unsupported")
TestType(p, types) == Unless(p.testType \in types, "UnsupportedTestType")
Supported(value, values) == Unless(value \in values, "Unsupported")
Legal(value, values) == Unless(value \in values, "Crypto")

\* All tests of a group, one alone, or the first whatever follows.
Handler(group, test, gives) ==
  [group |-> Needed(<<"tgId", "testType">>) \o group \o Needed(<<"tests">>),
   test |-> Needed(<<"tcId">>) \o test, gives |-> gives, tests |-> "all"]
OneTest(group, test, gives) == [Handler(group, test, gives) EXCEPT !.tests = "one"]
FirstTest(group, test, gives) == [Handler(group, test, gives) EXCEPT !.tests = "first"]

-----------------------------------------------------------------------------
(* What a module under test refuses with, and how it is told.               *)

Refusals == {"InvalidInput", "EntropyInputTooShort", "NotOperational", "TagMismatch", "Uninstantiated"}

\* Fault: a module that refused is told as an input that was bad.
PrimitiveErr_All(e) == "Crypto"
PrimitiveErr(e) ==
  CASE e = "InvalidInput" -> "Crypto"
    [] e = "EntropyInputTooShort" -> "InputRefused"
    [] OTHER -> "Module"

\* Errors of the DRBG's own are no errors of the module.
DrbgErr(e) ==
  CASE e \in {"TagMismatch", "Uninstantiated"} -> "Crypto"
    [] OTHER -> PrimitiveErr(e)

ErrorTold(told, e) ==
  CASE told = "module" -> "Module"
    [] told = "crypto" -> "Crypto"
    [] told = "primitive" -> PrimitiveErr(e)
    [] told = "drbg" -> DrbgErr(e)

\* Some refusals are an answer: a tag that differs, an input the primitive does not take, and
\* for the RSA verifier any at all.
IsVerdict(told, e) ==
  \/ told = "is ok"
  \/ told = "tag" /\ e = "TagMismatch"
  \/ told = "input" /\ e = "InvalidInput"

VerdictTold(told, e) ==
  CASE told = "tag" -> "Crypto"
    [] told = "input" -> "Module"
    [] OTHER -> ErrorTold(told, e)

-----------------------------------------------------------------------------
(* A group is answered step by step. request.bad has the defects, each with *)
(* the number of its test, or none for the group; request.answers has what  *)
(* the module under test answers in turn.                                   *)

Begun == [status |-> "running", at |-> 0, verdict |-> "none", asked |-> 0, results |-> <<>>]

Ended(s, status) == [s EXCEPT !.status = status]
IsBad(request, at, f, how) == <<at, f, how>> \in request.bad
Answered(request, s) == request.answers[s.asked + 1]
FailedTest(s) == [s EXCEPT !.verdict = "false"]

Decode(request, at, s, f) ==
  CASE IsBad(request, at, f, "missing") -> Ended(s, "MissingField")
    [] IsBad(request, at, f, "hex") -> Ended(s, "Hex")
    [] OTHER -> s

Asking(told, request, s) ==
  LET next == [s EXCEPT !.asked = @ + 1]
  IN IF Answered(request, s) \in {"ok", "false"} THEN next ELSE Ended(next, ErrorTold(told, Answered(request, s)))

Judging(told, request, s) ==
  LET e == Answered(request, s)
      next == [s EXCEPT !.asked = @ + 1]
  IN CASE e = "ok" -> [next EXCEPT !.verdict = "true"]
       [] e = "false" \/ IsVerdict(told, e) -> FailedTest(next)
       [] OTHER -> Ended(next, VerdictTold(told, e))

Comparing(request, at, s, f) ==
  LET read == Decode(request, at, s, f)
  IN IF read.status # "running" THEN read
     ELSE [read EXCEPT !.verdict = IF \E how \in {"length", "differs"} : IsBad(request, at, f, how)
                                     THEN "false" ELSE "true"]

After(any, test, request, s) ==
  LET at == IF any[1] = "of group" THEN 0 ELSE test
      step == IF any[1] = "of group" THEN any[2] ELSE any
      kind == step[1]
      misfit == IsBad(request, at, step[2], "length")
  IN CASE s.status # "running" -> s
       [] kind = "need" -> IF IsBad(request, at, step[2], "missing") THEN Ended(s, "MissingField") ELSE s
       [] kind = "hex" -> Decode(request, at, s, step[2])
       [] kind = "maybe" -> IF IsBad(request, at, step[2], "hex") THEN Ended(s, "Hex") ELSE s
       [] kind = "fits" -> IF misfit THEN Ended(s, "Crypto") ELSE s
       [] kind = "fits or fails" -> IF misfit THEN FailedTest(s) ELSE s
       [] kind = "unless" -> IF step[2] THEN s ELSE Ended(s, step[3])
       [] kind = "ask" -> Asking(step[2], request, s)
       [] kind = "judge" -> IF s.verdict = "false" THEN s ELSE Judging(step[2], request, s)
       [] kind = "expected" -> Comparing(request, at, s, step[2])

Through(steps, test, request, s) ==
  Chain(Len(steps), s, LAMBDA i, t : After(steps[i], test, request, t))[Len(steps)]

\* A test that was answered has its result behind those before it.
\* Fault: a test that was refused is left out, and the next one answered.
AfterTest_Skip(h, request, s, test) ==
  LET t == Through(h.test, test, request, [s EXCEPT !.at = test, !.verdict = "none"])
  IN IF t.status = "running"
       THEN [t EXCEPT !.results = Append(@, [test |-> test, verdict |-> t.verdict])]
       ELSE [t EXCEPT !.status = s.status]
AfterTest(h, request, s, test) ==
  LET t == Through(h.test, test, request, [s EXCEPT !.at = test, !.verdict = "none"])
  IN IF t.status = "running"
       THEN [t EXCEPT !.results = Append(@, [test |-> test, verdict |-> t.verdict])] ELSE t

\* How many tests of a group of n are taken, and what a group is refused with for their number.
Taken(h, n) == IF h.tests = "all" THEN n ELSE 1
Miscounted(h, n) ==
  CASE h.tests = "one" /\ n # 1 -> "Crypto"
    [] h.tests = "first" /\ n = 0 -> "MissingField"
    [] OTHER -> "none"

HandleGroup(h, request) ==
  LET entered == Through(h.group, 0, request, Begun)
      counted ==
        IF entered.status = "running" /\ Miscounted(h, request.tests) # "none"
          THEN Ended(entered, Miscounted(h, request.tests)) ELSE entered
      n == Taken(h, request.tests)
      last == Chain(n, counted, LAMBDA k, s :
                IF s.status = "running" THEN AfterTest(h, request, s, k) ELSE s)[n]
  IN IF last.status = "running" THEN Ended(last, "Ok") ELSE [last EXCEPT !.results = <<>>]

-----------------------------------------------------------------------------
(* Hashes and extendable outputs. In a Monte Carlo test the module is asked *)
(* over and over, which is one step here; in a test of large data it is     *)
(* asked to begin and to end.                                               *)

LargeMessage(p, begins) ==
  Needed(<<"largeMsg", "content", "contentLength", "fullLength", "expansionTechnique">>)
    \o <<Supported(p.technique, {"repeating"}), Aligned(p.len), Hex("content"), Fits("content"),
         Unless(p.len > 0, "Crypto"), Ask(begins), Ask("module")>>

HashGroup(p, begins) ==
  CASE p.testType = "MCT" -> OneTest(<<>>, <<Hex("msg"), Ask("crypto")>>, {"resultsArray"})
    [] p.testType = "LDT" -> Handler(<<>>, LargeMessage(p, begins), {"md"})
    [] OTHER ->
         Handler(<<TestType(p, {"AFT"})>>,
                 <<Need("len"), Aligned(p.len), Hex("msg"), Fits("msg"), Ask("crypto")>>, {"md"})

Sha2Group(p) == HashGroup(p, "crypto")
Sha3Group(p) == HashGroup(p, "module")

XofDomain(fs, p) ==
  Needed(fs) \o <<Aligned(p.minOutLen), Aligned(p.outLen)>>

ShakeMonteCarlo(p) ==
  OneTest(XofDomain(<<"minOutLen", "maxOutLen">>, p), <<Hex("msg"), Ask("crypto"), Ask("module")>>, {"resultsArray"})
ShakeLargeData(p) == Handler(<<>>, <<Need("outLen"), Aligned(p.outLen)>> \o LargeMessage(p, "crypto"), {"md"})

ShakeGroup(p) ==
  CASE p.testType = "MCT" -> ShakeMonteCarlo(p)
    [] p.testType = "LDT" -> ShakeLargeData(p)
    [] OTHER ->
         Handler(<<TestType(p, {"AFT", "VOT"})>>,
                 Needed(<<"len", "outLen">>)
                   \o <<Aligned(p.len), Aligned(p.outLen), Hex("msg"), Fits("msg"), Ask("crypto"), Ask("module")>>,
                 {"md"})

\* The functions of SP 800-185: the customization is in hexadecimal if the group says so.
Customization(p) == When(p.hexCustomization, <<Maybe("customizationHex")>>)
Xof(p, input) == input \o Customization(p) \o <<Ask("crypto"), Ask("module")>>
XofMonteCarlo(p, fs, more, input) ==
  Handler(XofDomain(<<"minOutLen", "maxOutLen", "outLenIncrement">> \o fs, p)
            \o <<Unless(p.minOutLen <= p.outLen /\ p.increment > 0, "Crypto")>> \o more,
          <<Hex(input), Ask("crypto"), Ask("module")>>, {"resultsArray"})

CShakeGroup(p) ==
  IF p.testType = "MCT" THEN XofMonteCarlo(p, <<>>, <<>>, "msg")
  ELSE Handler(<<TestType(p, {"AFT"})>>,
               Xof(p, Needed(<<"len", "outLen">>)
                        \o <<Aligned(p.len), Aligned(p.outLen), Hex("msg"), Fits("msg")>>), {"md"})

TupleHashMonteCarlo(p) == XofMonteCarlo(p, <<>>, <<>>, "tuple")
TupleHashGroup(p) ==
  IF p.testType = "MCT" THEN TupleHashMonteCarlo(p)
  ELSE Handler(<<TestType(p, {"AFT"})>>, Xof(p, <<Need("outLen"), Aligned(p.outLen), Hex("tuple")>>), {"md"})

\* The block size is the test's or else the group's.
ParallelHashMonteCarlo(p) ==
  XofMonteCarlo(p, <<"minBlockSize", "maxBlockSize">>, <<Unless(p.minBlock <= p.maxBlock, "Crypto")>>, "msg")
ParallelHashGroup(p) ==
  IF p.testType = "MCT" THEN ParallelHashMonteCarlo(p)
  ELSE Handler(<<TestType(p, {"AFT"})>>,
               Xof(p, Needed(<<"len", "outLen">>)
                        \o <<Aligned(p.len), Aligned(p.outLen), Need("blockSize"), Hex("msg"), Fits("msg")>>), {"md"})

-----------------------------------------------------------------------------
(* Codes of authentication: given, or compared with the one expected.       *)

MacGroup(verifies, before, test) ==
  Handler(before, IF verifies THEN test \o <<Expected("mac")>> ELSE test,
          IF verifies THEN {"testPassed"} ELSE {"mac"})

\* The length of the code is the test's or else the group's.
HmacGroup(p) ==
  MacGroup(p.testType = "MVT", <<TestType(p, {"AFT", "MVT"})>>,
           <<Need("macLen"), Aligned(p.macLen), Unless(p.macLen \in 1..p.full, "Crypto")>>
             \o Decoded(<<"key", "msg">>) \o <<Ask("crypto"), Ask("module")>>)

KmacGroup(p) ==
  MacGroup(p.testType = "MVT", <<TestType(p, {"AFT", "MVT"})>>,
           Xof(p, Needed(<<"keyLen", "msgLen", "macLen">>)
                    \o <<Aligned(p.keyLen), Aligned(p.len), Aligned(p.macLen), Hex("key"), Fits("key"),
                         Hex("msg"), Fits("msg")>>))

CmacGroup(p) ==
  MacGroup(p.direction = "ver",
           <<TestType(p, {"AFT"}), Need("direction"), Supported(p.direction, {"gen", "ver"})>>
             \o Needed(<<"keyLen", "macLen">>) \o <<Supported(p.macLen, {8 * n : n \in 1..16})>>,
           Decoded(<<"key", "message">>)
             \o <<Legal(p.keyLen, {128, 192, 256}), Fits("key"), Ask("crypto")>>)

-----------------------------------------------------------------------------
(* Modes of AES and key wraps. A key of no length AES has is refused where  *)
(* the cipher is chosen, behind all that is read before.                    *)

Input(p) == IF p.direction = "encrypt" THEN "pt" ELSE "ct"
Output(p) == IF p.direction = "encrypt" THEN "ct" ELSE "pt"
CipherOf(p) == <<Legal(p.keyLen, {128, 192, 256}), Ask("module")>>

ModeOf(p) ==
  CASE p.blockMode = "ECB" -> <<Fits(Input(p)), Ask("crypto")>>
    [] p.blockMode = "CBC" -> <<Hex("iv"), Fits("iv"), Ask("crypto")>>
    [] p.blockMode = "CTR" ->
         When(p.payloadLen # 0, <<Aligned(p.payloadLen), Fits(Input(p))>>) \o <<Hex("iv"), Fits("iv"), Ask("crypto")>>

\* The tag of GCM is a field of its own, that of CCM the end of the ciphertext.
GcmOf(p) ==
  <<Hex("iv"), Maybe("aad")>>
    \o (IF p.direction = "encrypt" THEN <<Hex("pt")>> \o CipherOf(p) \o <<Ask("crypto")>>
        ELSE Decoded(<<"ct", "tag">>) \o <<Fits("tag")>> \o CipherOf(p) \o <<Judge("tag")>>)
CcmOf(p) ==
  Fixed("iv") \o <<Maybe("aad")>>
    \o (IF p.direction = "encrypt" THEN <<Hex("pt")>> \o CipherOf(p) \o <<Ask("crypto")>>
        ELSE Fixed("ct") \o CipherOf(p) \o <<Judge("tag")>>)

WrapOf(p) ==
  <<Hex(Input(p))>> \o CipherOf(p) \o <<IF p.direction = "encrypt" THEN Ask("crypto") ELSE Judge("tag")>>

\* What the mode reads of the group.
GroupMeta(p) ==
  CASE p.blockMode = "GCM" -> <<Need("tagLen"), Aligned(p.tagLen)>>
    [] p.blockMode = "CCM" -> Needed(<<"ivLen", "tagLen">>) \o <<Aligned(p.ivLen), Aligned(p.tagLen)>>
    [] p.blockMode \in {"KW", "KWP"} -> <<Need("kwCipher"), Legal(p.kwCipher, {"cipher", "inverse"})>>
    [] OTHER -> <<>>

AesTest(p) ==
  <<Hex("key"), Fits("key")>>
    \o (CASE p.blockMode = "GCM" -> GcmOf(p)
          [] p.blockMode = "CCM" -> CcmOf(p)
          [] p.blockMode \in {"KW", "KWP"} -> WrapOf(p)
          [] OTHER -> <<Hex(Input(p))>> \o CipherOf(p) \o ModeOf(p))

\* The cipher is made anew for each block; the vector of CBC is read behind the input.
EcbMonteCarlo(p) ==
  Decoded(<<"key", Input(p)>>)
    \o <<Legal(p.keyLen, {128, 192, 256}), Fits("key"), Ask("module"), Fits(Input(p)), Ask("crypto")>>
CbcMonteCarlo(p) ==
  Decoded(<<"key", Input(p), "iv">>)
    \o <<Legal(p.keyLen, {128, 192, 256}), Fits("key"), Ask("module"), Fits("iv"), Fits(Input(p)), Ask("crypto")>>

AesGroup(p) ==
  LET keyed == <<Need("direction"), Legal(p.direction, {"encrypt", "decrypt"}), Need("keyLen")>>
  IN IF p.testType = "MCT"
       THEN FirstTest(keyed \o <<Unless(p.blockMode \in {"ECB", "CBC"}, "UnsupportedTestType")>>,
                      IF p.blockMode = "CBC" THEN CbcMonteCarlo(p) ELSE EcbMonteCarlo(p), {"resultsArray"})
     ELSE Handler(keyed \o <<TestType(p, {"AFT"} \cup IF p.blockMode = "CTR" THEN {"CTR"} ELSE {})>> \o GroupMeta(p),
                  AesTest(p),
                  {Output(p)} \cup IF p.blockMode = "GCM" /\ p.direction = "encrypt" THEN {"tag"} ELSE {}
                    \cup IF p.blockMode \in {"GCM", "CCM", "KW", "KWP"} /\ p.direction = "decrypt" THEN {"testPassed"} ELSE {})

-----------------------------------------------------------------------------
(* Generators: seeded from the test, then taken through its other inputs.   *)
(* A use that demands fresh entropy reseeds before it generates: CTR_DRBG   *)
(* in two calls, the others in one.                                         *)

CtrUse(p, use) ==
  <<Need("intendedUse"), Maybe("otherEntropy"), Maybe("additionalInput"), Supported(use, {"reSeed", "generate"})>>
    \o When(use = "generate" /\ p.predResistance, <<Ask("drbg")>>) \o <<Ask("drbg")>>
HashUse(use) ==
  <<Need("intendedUse"), Maybe("otherEntropy"), Maybe("additionalInput"), Supported(use, {"reSeed", "generate"}), Ask("drbg")>>
UseOf(p, use) == IF p.family = "ctr" THEN CtrUse(p, use) ELSE HashUse(use)

GeneratorModes(family) ==
  IF family = "ctr" THEN {"AES-128", "AES-192", "AES-256"} ELSE {"SHA2-256", "SHA2-384", "SHA2-512"}

DrbgGroup(p) ==
  Handler(<<TestType(p, {"AFT"})>> \o Needed(<<"mode", "predResistance">>)
            \o When(p.family = "ctr", <<Need("derFunc")>>)
            \o <<Need("returnedBitsLen"), Unless(p.returnedBits > 0 /\ p.returnedBits % 8 = 0, "Unsupported")>>,
          <<Hex("entropyInput"), Maybe("nonce"), Maybe("persoString"), Need("otherInput"),
            Supported(p.mode, GeneratorModes(p.family)), Ask("primitive")>>
            \o FlattenSeq([i \in DOMAIN p.uses |-> UseOf(p, p.uses[i])]),
          {"returnedBits"})

-----------------------------------------------------------------------------
(* Elliptic curves. Keys and nonces come with the group or its tests, or    *)
(* else from a generator that is seeded by the operating system. A part of  *)
(* a key or a signature that has another length is no valid one.            *)

\* Behind the tests of a group, its key.
Keyed(h, steps) == [h EXCEPT !.group = @ \o steps]
FromSystem == <<Ask("crypto"), Ask("primitive")>>

CurveGroup(p, types, test, gives) ==
  Handler(<<TestType(p, types), Need("curve"), Supported(p.curve, {"P-256", "P-384"})>>, test, gives)
HashedCurveGroup(p, test, gives) ==
  Handler(<<TestType(p, {"AFT"})>> \o Needed(<<"curve", "hashAlg">>)
            \o <<Supported(<<p.curve, p.hashAlg>>, {<<"P-256", "SHA2-256">>, <<"P-384", "SHA2-384">>}),
                 Unless(~p.componentTest, "Unsupported")>>, test, gives)

EcdsaSigVer(p) ==
  HashedCurveGroup([p EXCEPT !.componentTest = FALSE],
    Decoded(<<"message", "qx", "qy", "r", "s">>) \o FittingOrFailing(<<"qx", "qy", "r", "s">>)
      \o <<Judge(IF p.curve = "P-256" THEN "primitive" ELSE "module")>>, {"testPassed"})

EcdsaKeyVer(p) ==
  CurveGroup(p, {"AFT"}, Decoded(<<"qx", "qy">>) \o FittingOrFailing(<<"qx", "qy">>) \o <<Judge("is ok")>>,
             {"testPassed"})

EcdsaSignGiven(p) ==
  Keyed(HashedCurveGroup(p, <<Hex("message"), Hex("k"), Fits("k"), Ask(IF p.curve = "P-256" THEN "crypto" ELSE "primitive")>>,
                         {"r", "s"}),
        Fixed("d") \o <<Ask("primitive")>>)
EcdsaSignMade(p) ==
  Keyed(HashedCurveGroup(p, <<Hex("message"), Ask("crypto")>>, {"r", "s"}), FromSystem \o <<Ask("crypto"), Ask("module")>>)
EcdsaSigGen(p) == IF p.keyGiven THEN EcdsaSignGiven(p) ELSE EcdsaSignMade(p)

KeyPairGroup(p, test) ==
  [CurveGroup(p, {"AFT"}, test, {"d", "qx", "qy"}) EXCEPT
     !.group = @ \o <<Supported(p.generation, {"none", "testing candidates"})>>]
EcdsaKeyGiven(p) == KeyPairGroup(p, Fixed("d") \o <<Ask("primitive")>>)
EcdsaKeyMade(p) == Keyed(KeyPairGroup(p, <<Ask("crypto"), Ask("module"), Ask("module")>>), FromSystem)
EcdsaKeyGen(p) == IF p.keyGiven THEN EcdsaKeyGiven(p) ELSE EcdsaKeyMade(p)

EdwardsGroup(p, types, pure, test, gives) ==
  Handler(<<TestType(p, types), Need("curve"), Supported(p.curve, {"ED-25519"})>> \o pure, test, gives)
Pure(p) == <<Unless(~p.preHash, "Unsupported")>>

EddsaSigVer(p) ==
  EdwardsGroup(p, {"AFT"}, Pure(p),
               Decoded(<<"message", "q", "signature">>) \o FittingOrFailing(<<"q", "signature">>)
                 \o <<Judge("primitive")>>, {"testPassed"})
EddsaKeyVer(p) ==
  EdwardsGroup(p, {"AFT"}, <<>>, <<Hex("q"), FitsOrFails("q"), Judge("is ok")>>, {"testPassed"})
EddsaSigGen(p) ==
  Keyed(EdwardsGroup(p, {"AFT", "BFT"}, Pure(p), <<Hex("message"), Ask("crypto")>>, {"signature"}),
        IF p.keyGiven THEN Fixed("d") ELSE FromSystem \o <<Ask("crypto"), Ask("module"), Ask("module")>>)
EddsaKeyGen(p) ==
  IF p.keyGiven THEN EdwardsGroup(p, {"AFT"}, <<>>, Fixed("d") \o <<Ask("module")>>, {"d", "q"})
  ELSE Keyed(EdwardsGroup(p, {"AFT"}, <<>>, <<Ask("crypto"), Ask("module"), Ask("module")>>, {"d", "q"}), FromSystem)

-----------------------------------------------------------------------------
(* RSA. A number of fewer bytes than its place is padded; one of more is    *)
(* refused, but a modulus to verify with, which has to fit.                 *)

AllFixed(fs) == FlattenSeq([i \in DOMAIN fs |-> Fixed(fs[i])])
CrtKey == AllFixed(<<"n", "e", "p", "q", "dmp1", "dmq1", "iqmp">>)
PlainKey == AllFixed(<<"n", "d">>)
FromGroup(steps) == [i \in DOMAIN steps |-> OfGroup(steps[i])]

RsaSigVer(p) ==
  Keyed(Handler(<<TestType(p, {"GDT"})>> \o Needed(<<"sigType", "modulo", "hashAlg">>)
                  \o <<Supported(p.hashAlg, {"SHA2-256"}), Supported(p.sigType, {"pkcs1v1.5", "pss"})>>,
                Decoded(<<"message", "signature">>) \o <<FitsOrFails("signature"), Judge("is ok")>>, {"testPassed"}),
        <<Supported(p.modulo, {2048, 3072, 4096})>> \o AllFixed(<<"n", "e">>))

\* A key given with the group, or one made for it; a salt only for PSS.
RsaSignGroup(p, test) ==
  Handler(<<TestType(p, {"GDT"})>> \o Needed(<<"sigType", "modulo", "hashAlg">>)
            \o <<Supported(p.hashAlg, {"SHA2-256"})>>, test, {"signature"})
SigType(p) == Supported(p.sigType, {"pkcs1v1.5", "pss"})
RsaSignGiven(p) ==
  Keyed(RsaSignGroup(p, <<Hex("message")>> \o When(p.sigType = "pss", Fixed("salt")) \o <<Ask("primitive")>>),
        <<Supported(p.modulo, {2048, 3072, 4096}), SigType(p)>> \o (IF p.keyMode = "crt" THEN CrtKey ELSE PlainKey))
RsaSignMade(p) ==
  Keyed(RsaSignGroup(p, <<Hex("message"), SigType(p)>> \o When(p.sigType = "pss", <<Ask("crypto")>>) \o <<Ask("primitive")>>),
        <<Supported(p.modulo, {2048, 3072, 4096})>> \o FromSystem \o <<Ask("crypto")>>)
RsaSigGen(p) == IF p.keyGiven THEN RsaSignGiven(p) ELSE RsaSignMade(p)

RsaKeyGen(p) ==
  Handler(<<TestType(p, {"AFT", "GDT"}), Need("modulo"), Hex("fixedPubExp"), Fits("fixedPubExp"),
            Supported(p.exponent, {65537})>>,
          (IF p.seeded THEN Decoded(<<"entropy", "nonce", "perso">>) \o <<Ask("primitive")>> ELSE FromSystem)
            \o <<Supported(p.modulo, {2048, 3072, 4096}), Ask("crypto")>>,
          {"n", "e", "d", "p", "q", "dmp1", "dmq1", "iqmp"})

\* A key the primitive does not take fails the test.
RsaDecPrim(p) ==
  Handler(<<TestType(p, {"AFT"}), Need("modulo"), Supported(p.modulo, {2048}), Need("keyMode")>>,
          Fixed("ct") \o (IF p.keyMode = "crt" THEN CrtKey ELSE PlainKey) \o <<Judge("input")>>, {"pt", "testPassed"})

RsaSigPrim(p) ==
  Handler(<<TestType(p, {"AFT"}), Need("modulo"), Supported(p.modulo, {2048})>>,
          Fixed("message") \o (IF p.keyMode = "crt" THEN CrtKey ELSE PlainKey) \o <<Judge("input")>>,
          {"signature", "testPassed"})

\* To decrypt, the parts of the key that depend on its mode are read with each test.
RsaOaep(p) ==
  LET entered == <<TestType(p, {"AFT"})>> \o Needed(<<"direction", "modulo", "hashAlg">>)
                   \o <<Supported(p.modulo, {2048}), Supported(p.hashAlg, {"SHA2-256"}),
                        Supported(p.direction, {"encrypt", "decrypt"})>>
  IN IF p.direction = "encrypt"
       THEN Keyed(Handler(entered, <<Hex("msg")>> \o Fixed("seed") \o <<Ask("primitive")>>, {"ct"}),
                  AllFixed(<<"n", "e">>))
     ELSE Keyed(Handler(entered, Fixed("ct") \o FromGroup(IF p.keyMode = "crt" THEN Tail(Tail(CrtKey)) ELSE Fixed("d"))
                                   \o <<Ask("primitive")>>, {"pt"}),
                Fixed("n"))

-----------------------------------------------------------------------------
(* Key derivation. Fixed data that is not given is drawn and reported.      *)

HmacAlgorithms ==
  {"SHA2-224", "SHA2-256", "SHA2-384", "SHA2-512", "SHA2-512/224", "SHA2-512/256",
   "SHA3-224", "SHA3-256", "SHA3-384", "SHA3-512"}
MacModes ==
  {"HMAC-SHA-1", "HMAC-SHA2-224", "HMAC-SHA2-256", "HMAC-SHA2-384", "HMAC-SHA2-512", "HMAC-SHA2-512/224",
   "HMAC-SHA2-512/256", "HMAC-SHA3-224", "HMAC-SHA3-256", "HMAC-SHA3-384", "HMAC-SHA3-512"}

\* The place of the counter, its length where it has one, and the function to call.
CounterOf(p) ==
  LET known == Supported(p.macMode, MacModes)
      length == Need("counterLength")
  IN <<Need("counterLocation")>>
       \o (CASE p.kdfMode = "counter" ->
                  <<Supported(p.counterLocation, {"before fixed data"}), length, Supported(p.counterLength, {32}), known>>
             [] p.kdfMode = "feedback" /\ ~p.zeroLengthIv ->
                  <<known, Supported(p.counterLocation, {"none", "before fixed data"})>>
                    \o When(p.counterLocation # "none", <<length>>)
             [] OTHER ->
                  <<Supported(p.counterLocation, {"none", "before fixed data"})>>
                    \o When(p.counterLocation # "none", <<length>>) \o <<known>>)

KbkdfGroup(p) ==
  Keyed(Handler(<<TestType(p, {"AFT"})>> \o Needed(<<"kdfMode", "macMode", "keyOutLength">>),
                <<Hex("keyIn"), IF p.generative THEN Ask("crypto") ELSE Hex("fixedData")>>
                  \o When(p.kdfMode = "feedback" /\ ~p.zeroLengthIv, <<Hex("iv")>>) \o <<Ask("crypto")>>,
                {"keyOut"} \cup IF p.generative THEN {"fixedData"} ELSE {}),
        <<Supported(p.kdfMode, {"counter", "feedback", "double pipeline iteration"})>> \o CounterOf(p))

\* What a token of the pattern puts into the fixed information.
FixedInfo(token) ==
  CASE token = "uPartyInfo" -> <<Need("fixedInfoPartyU"), Hex("partyIdU"), Maybe("ephemeralDataU")>>
    [] token = "vPartyInfo" -> <<Need("fixedInfoPartyV"), Hex("partyIdV"), Maybe("ephemeralDataV")>>
    [] token = "l" -> <<>>
    [] token \in {"algorithmId", "context", "label"} -> <<OfGroup(Maybe(token))>>
    [] token = "literal" -> <<OfGroup(Maybe("fixedInfoPattern"))>>
    [] OTHER -> <<Supported(token, {})>>

WholeBytes(bits) == Unless(bits > 0 /\ bits % 8 = 0, "Unsupported")
KdaHkdfTest(p) ==
  Needed(<<"kdfParameter", "salt", "z">>) \o Decoded(<<"salt", "z">>)
    \o When(p.hybrid, <<Hex("t")>>) \o <<WholeBytes(p.testLen)>>
    \o FlattenSeq([i \in DOMAIN p.pattern |-> FixedInfo(p.pattern[i])]) \o <<Ask("crypto")>>
    \o When(p.testType = "VAL", <<Expected("dkm")>>)
KdaHkdfGroup(p) ==
  Handler(<<TestType(p, {"AFT", "VAL"})>> \o Needed(<<"kdfConfiguration", "kdfType">>)
            \o <<Supported(p.kdfType, {"hkdf"}), Need("fixedInfoEncoding"), Supported(p.encoding, {"concatenation"})>>
            \o Needed(<<"fixedInfoPattern", "hmacAlg">>)
            \o <<Supported(p.hmacAlg, HmacAlgorithms), Need("l"), WholeBytes(p.len), Unless(~p.multiExpansion, "Unsupported")>>,
          KdaHkdfTest(p), IF p.testType = "VAL" THEN {"testPassed"} ELSE {"dkm"})

\* The algorithm is looked up with each test.
Pbkdf2Group(p) ==
  Handler(<<TestType(p, {"AFT"}), Need("hmacAlg")>>,
          Needed(<<"keyLen", "iterationCount">>)
            \o <<Aligned(p.keyLen), Unless(p.iterationsFit, "Crypto"), Need("password"), Hex("salt"),
                 Supported(p.hmacAlg, {"SHA-1"} \cup HmacAlgorithms), Ask("crypto")>>,
          {"derivedKey"})

TlsGroup(p, before, secrets) ==
  Handler(<<TestType(p, {"AFT"})>> \o before \o Needed(<<"hashAlg", "keyBlockLength">>) \o <<Aligned(p.keyBlockLen)>>,
          Decoded(secrets) \o <<Supported(p.hashAlg, {"SHA2-256", "SHA2-384", "SHA2-512"}), Ask("module")>>,
          {"masterSecret", "keyBlock"})

Tls12Group(p) == TlsGroup(p, <<>>, <<"preMasterSecret", "sessionHash", "clientRandom", "serverRandom">>)
KdfComponentTlsGroup(p) ==
  TlsGroup(p, <<Need("tlsVersion"), Supported(p.tlsVersion, {"v1.2"})>>,
           <<"preMasterSecret", "clientHelloRandom", "serverHelloRandom", "clientRandom", "serverRandom">>)

\* The transcript is hashed, the empty one once the early secrets are derived.
Tls13Test(p) ==
  Decoded(<<"helloClientRandom", "helloServerRandom", "finishedServerRandom", "finishedClientRandom">>)
    \o When(p.runningMode \in {"PSK", "PSK-DHE"}, <<Hex("psk")>>)
    \o <<Legal(p.runningMode, {"DHE", "PSK", "PSK-DHE"})>>
    \o When(p.runningMode \in {"DHE", "PSK-DHE"}, <<Hex("dhe")>>)
    \o <<Ask("crypto"), Ask("module"), Ask("crypto"), Ask("module")>>
Tls13Group(p) ==
  Handler(<<TestType(p, {"AFT"})>> \o Needed(<<"hmacAlg", "runningMode">>),
          <<Legal(p.hmacAlg, {"SHA2-256", "SHA2-384"})>> \o Tls13Test(p),
          {"clientEarlyTrafficSecret", "earlyExporterMasterSecret", "clientHandshakeTrafficSecret",
           "serverHandshakeTrafficSecret", "clientApplicationTrafficSecret", "serverApplicationTrafficSecret",
           "exporterMasterSecret", "resumptionMasterSecret"})

-----------------------------------------------------------------------------
(* Shared secrets and key transport. A test that brings no key of ours has  *)
(* one made for it; a test to validate brings the secret to compare with.   *)

SharedSecretGroup(p, domains, given, made, validated) ==
  LET verifies == p.testType = "VAL"
  IN Handler(<<TestType(p, {"AFT", "VAL"}), Need("domainParameterGenerationMode"), Supported(p.domain, domains)>>,
             CASE verifies -> validated \o <<Ask("primitive"), Expected("z")>>
               [] p.keyGiven -> given \o <<Ask("primitive")>>
               [] OTHER -> made \o <<Ask("primitive")>>,
             CASE verifies -> {"testPassed"} [] p.keyGiven -> {"z"} [] OTHER -> {"z", "ephemeralPublicIut"})

PointOf(x, y) == Decoded(<<x, y>>) \o Fitting(<<x, y>>)
ServerPoint == PointOf("ephemeralPublicServerX", "ephemeralPublicServerY")
KasEccValidated == Fixed("ephemeralPrivateIut") \o ServerPoint
KasEccSscGroup(p) ==
  SharedSecretGroup(p, {"P-256", "P-384"},
    Fixed("d") \o PointOf("peerPublicKeyX", "peerPublicKeyY"),
    ServerPoint \o FromSystem \o <<Ask("crypto"), Ask("module"), Ask("module")>>,
    KasEccValidated)

\* A number of fewer bytes is padded; one of more is refused.
KasFfcSscGroup(p) ==
  SharedSecretGroup(p, {"MODP-3072"},
    AllFixed(<<"x", "y">>),
    Fixed("ephemeralPublicServer") \o FromSystem \o <<Ask("primitive")>>,
    AllFixed(<<"ephemeralPrivateIut", "ephemeralPublicServer">>))

KtsInitiator == AllFixed(<<"serverN", "serverE">>) \o FromSystem \o <<Ask("crypto"), Ask("primitive")>>
KtsResponder == AllFixed(<<"iutN", "iutD", "serverC">>) \o <<Ask("primitive")>>
\* The role and the modulus are looked up with each test.
KtsIfcGroup(p) ==
  Handler(<<TestType(p, {"AFT"}), Need("scheme"), Supported(p.scheme, {"KTS-OAEP-basic"})>>
            \o Needed(<<"kasRole", "modulo", "l">>) \o <<Aligned(p.len)>>
            \o Needed(<<"ktsConfiguration", "hashAlg">>) \o <<Supported(p.hashAlg, {"SHA2-256"})>>,
          <<Supported(p.role, {"initiator", "responder"}), Supported(p.modulo, {2048, 3072, 4096})>>
            \o (IF p.role = "initiator" THEN KtsInitiator ELSE KtsResponder),
          {"dkm"} \cup IF p.role = "initiator" THEN {"iutC"} ELSE {})

-----------------------------------------------------------------------------
(* Post-quantum algorithms. The parameter set is looked up with each test,  *)
(* where the lengths it fixes are compared.                                 *)

ParameterGroup(p, type, test, gives) == Handler(<<TestType(p, {type}), Need("parameterSet")>>, test, gives)

MlKemSet(p) == Supported(p.parameterSet, {"ML-KEM-512", "ML-KEM-768", "ML-KEM-1024"})
MlKemKeyGen(p) ==
  ParameterGroup(p, "AFT", AllFixed(<<"d", "z">>) \o <<MlKemSet(p), Ask("primitive")>>, {"ek", "dk"})
MlKemEncapDecap(p) ==
  LET handler ==
        IF p.function = "encapsulation"
          THEN ParameterGroup(p, "AFT", Decoded(<<"ek", "m">>) \o <<Fits("m"), MlKemSet(p), Fits("ek"), Ask("module")>>,
                              {"c", "k"})
        ELSE ParameterGroup(p, "VAL", Decoded(<<"dk", "c">>) \o <<MlKemSet(p)>> \o Fitting(<<"dk", "c">>) \o <<Ask("module")>>,
                            {"k"})
  IN [handler EXCEPT !.group = <<Need("function"), Supported(p.function, {"encapsulation", "decapsulation"})>> \o @]

MlDsaSet(p) == Supported(p.parameterSet, {"ML-DSA-44", "ML-DSA-65", "ML-DSA-87"})
MlDsaKeyGen(p) == ParameterGroup(p, "AFT", Fixed("seed") \o <<MlDsaSet(p), Ask("module")>>, {"pk", "sk"})
MlDsaSigGen(p) ==
  ParameterGroup(p, "AFT", Decoded(<<"sk", "message">>) \o <<MlDsaSet(p), Fits("sk"), Ask("primitive")>>, {"signature"})

\* A signature of another length fails; a public key of another length is refused.
LatticeSigVer(p, known) ==
  ParameterGroup(p, "AFT", Decoded(<<"pk", "message", "signature">>)
                             \o <<known, Fits("pk"), FitsOrFails("signature"), Judge("module")>>, {"testPassed"})
MlDsaSigVer(p) == LatticeSigVer(p, MlDsaSet(p))

SlhDsaSet(p) ==
  Supported(p.parameterSet,
            {"SLH-DSA-SHA2-128s", "SLH-DSA-SHA2-128f", "SLH-DSA-SHA2-192s", "SLH-DSA-SHA2-192f",
             "SLH-DSA-SHA2-256s", "SLH-DSA-SHA2-256f", "SLH-DSA-SHAKE-128s", "SLH-DSA-SHAKE-128f",
             "SLH-DSA-SHAKE-192s", "SLH-DSA-SHAKE-192f", "SLH-DSA-SHAKE-256s", "SLH-DSA-SHAKE-256f"})
SlhDsaKeyGen(p) ==
  LET seeds == <<"skSeed", "skPrf", "pkSeed">>
  IN ParameterGroup(p, "AFT", Decoded(seeds) \o <<SlhDsaSet(p)>> \o Fitting(seeds) \o <<Ask("module")>>, {"pk", "sk"})
SlhDsaSigGen(p) ==
  ParameterGroup(p, "AFT", Decoded(<<"sk", "message">>) \o <<SlhDsaSet(p), Fits("sk"), Ask("module")>>, {"signature"})
SlhDsaSigVer(p) == LatticeSigVer(p, SlhDsaSet(p))

\* Signatures of a tree of one-time keys, all of one public key.
TreeSigVer(p, key) ==
  Handler(<<TestType(p, {"AFT"})>> \o key,
          Decoded(<<"message", "signature">>) \o <<FitsOrFails("signature"), Judge("module")>>, {"testPassed"})
XmssSigVer(p) == TreeSigVer(p, Fixed("pk"))

\* The tree and the one-time signature have the same hash, and are of every height and width.
IsPair(lms, lmOts) ==
  /\ lms.hash = lmOts.hash /\ lms.hash \in {"SHA256_32", "SHA256_24", "SHAKE_32", "SHAKE_24"}
  /\ lms.height \in {5, 10, 15, 20, 25} /\ lmOts.width \in {1, 2, 4, 8}
LmsSigVer(p) ==
  TreeSigVer(p, Needed(<<"lmsMode", "lmOtsMode">>)
                  \o <<Hex("publicKey"), Unless(IsPair(p.lms, p.lmOts), "Crypto"), Fits("publicKey")>>)


-----------------------------------------------------------------------------
(* The dispatcher: the registry of the handlers, what each registers with  *)
(* the server as its capabilities, and how a set of vectors is taken to    *)
(* its handler, group by group.                                            *)

-----------------------------------------------------------------------------
(* The registry, in the order it is searched.                               *)

Registered ==
  LET Under(algorithms, mode, revision, family) ==
        [i \in DOMAIN algorithms |-> [id |-> <<algorithms[i], mode, revision>>, family |-> family]]
      Modes(algorithm, modes, revision, families) ==
        [i \in DOMAIN modes |-> [id |-> <<algorithm, modes[i], revision>>, family |-> families[i]]]
  IN Under(<<"SHA-1", "SHA2-224", "SHA2-256", "SHA2-384", "SHA2-512", "SHA2-512/224", "SHA2-512/256">>,
           "none", "1.0", "sha2")
     \o Under(<<"SHA3-224", "SHA3-256", "SHA3-384", "SHA3-512">>, "none", "2.0", "sha3")
     \o Under(<<"SHAKE-128", "SHAKE-256">>, "none", "FIPS202", "shake")
     \o Under(<<"HMAC-SHA-1", "HMAC-SHA2-224", "HMAC-SHA2-256", "HMAC-SHA2-384", "HMAC-SHA2-512",
                "HMAC-SHA2-512/224", "HMAC-SHA2-512/256", "HMAC-SHA3-224", "HMAC-SHA3-256", "HMAC-SHA3-384",
                "HMAC-SHA3-512">>, "none", "1.0", "hmac")
     \o Under(<<"CMAC-AES">>, "none", "1.0", "cmac")
     \o Under(<<"KDF">>, "none", "1.0", "kbkdf")
     \o Modes("KDA", <<"HKDF">>, "Sp800-56Cr2", <<"kda_hkdf">>)
     \o Under(<<"ACVP-AES-ECB">>, "none", "1.0", "ecb") \o Under(<<"ACVP-AES-CBC">>, "none", "1.0", "cbc")
     \o Under(<<"ACVP-AES-CTR">>, "none", "1.0", "ctr") \o Under(<<"ACVP-AES-GCM">>, "none", "1.0", "gcm")
     \o Under(<<"ACVP-AES-CCM">>, "none", "1.0", "ccm") \o Under(<<"ACVP-AES-KW">>, "none", "1.0", "kw")
     \o Under(<<"ACVP-AES-KWP">>, "none", "1.0", "kwp")
     \o Under(<<"ctrDRBG">>, "none", "1.0", "ctr_drbg") \o Under(<<"hashDRBG">>, "none", "1.0", "hash_drbg")
     \o Under(<<"hmacDRBG">>, "none", "1.0", "hmac_drbg")
     \o Modes("ECDSA", <<"sigVer", "keyVer", "sigGen", "keyGen">>, "FIPS186-5",
              <<"ecdsa_sigver", "ecdsa_keyver", "ecdsa_siggen", "ecdsa_keygen">>)
     \o Modes("EDDSA", <<"sigVer", "keyVer", "sigGen", "keyGen">>, "1.0",
              <<"eddsa_sigver", "eddsa_keyver", "eddsa_siggen", "eddsa_keygen">>)
     \o Modes("RSA", <<"sigVer">>, "FIPS186-5", <<"rsa_sigver">>)
     \o Modes("RSA", <<"decryptionPrimitive">>, "Sp800-56Br2", <<"rsa_decprim">>)
     \o Modes("TLS-v1.2", <<"KDF">>, "RFC7627", <<"tls12">>) \o Modes("TLS-v1.3", <<"KDF">>, "RFC8446", <<"tls13">>)
     \o Modes("kdf-components", <<"tls">>, "1.0", <<"kdf_comp_tls">>)
     \o Modes("RSA", <<"signaturePrimitive">>, "2.0", <<"rsa_sigprim">>)
     \o Modes("RSA", <<"sigGen">>, "FIPS186-5", <<"rsa_siggen">>)
     \o Under(<<"KAS-ECC-SSC">>, "none", "Sp800-56Ar3", "kas_ecc") \o Under(<<"KAS-FFC-SSC">>, "none", "Sp800-56Ar3", "kas_ffc")
     \o Under(<<"KTS-IFC">>, "none", "Sp800-56Br2", "kts_ifc")
     \o Modes("RSA", <<"OAEP">>, "RFC8017", <<"rsa_oaep">>) \o Modes("RSA", <<"keyGen">>, "FIPS186-5", <<"rsa_keygen">>)
     \o Under(<<"cSHAKE-128", "cSHAKE-256">>, "none", "1.0", "cshake")
     \o Under(<<"KMAC-128", "KMAC-256">>, "none", "1.0", "kmac")
     \o Under(<<"TupleHash-128", "TupleHash-256">>, "none", "1.0", "tuplehash")
     \o Under(<<"ParallelHash-128", "ParallelHash-256">>, "none", "1.0", "parallelhash")
     \o Under(<<"KMACXOF-128", "KMACXOF-256">>, "none", "1.0", "kmac")
     \o Under(<<"TupleHashXOF-128", "TupleHashXOF-256">>, "none", "1.0", "tuplehash_xof")
     \o Under(<<"ParallelHashXOF-128", "ParallelHashXOF-256">>, "none", "1.0", "parallelhash_xof")
     \o Under(<<"PBKDF">>, "none", "1.0", "pbkdf2")
     \o Modes("ML-KEM", <<"keyGen", "encapDecap">>, "FIPS203", <<"ml_kem_keygen", "ml_kem_encapdecap">>)
     \o Modes("ML-DSA", <<"keyGen", "sigGen", "sigVer">>, "FIPS204", <<"ml_dsa_keygen", "ml_dsa_siggen", "ml_dsa_sigver">>)
     \o Modes("SLH-DSA", <<"keyGen", "sigGen", "sigVer">>, "FIPS205", <<"slh_dsa_keygen", "slh_dsa_siggen", "slh_dsa_sigver">>)
     \o Modes("LMS", <<"sigVer">>, "1.0", <<"lms_sigver">>) \o Modes("LMS", <<"sigVer">>, "SP800-208", <<"lms_sigver">>)
     \o Modes("XMSS", <<"sigVer">>, "1.0", <<"xmss_sigver">>)

Find(id) ==
  LET at == {i \in DOMAIN Registered : Registered[i].id = id}
  IN IF at = {} THEN "none" ELSE Registered[Min(at)].family

\* The XOF handlers know no Monte Carlo test.
OnlyAft(p, group) == IF p.testType = "AFT" THEN group ELSE Handler(<<TestType(p, {"AFT"})>>, <<>>, {})

GroupHandler(family, p) ==
  CASE family = "sha2" -> Sha2Group(p)
    [] family = "sha3" -> Sha3Group(p)
    [] family = "shake" -> ShakeGroup(p)
    [] family = "cshake" -> CShakeGroup(p)
    [] family = "tuplehash" -> TupleHashGroup(p)
    [] family = "parallelhash" -> ParallelHashGroup(p)
    [] family = "tuplehash_xof" -> OnlyAft(p, TupleHashGroup(p))
    [] family = "parallelhash_xof" -> OnlyAft(p, ParallelHashGroup(p))
    [] family = "hmac" -> HmacGroup(p)
    [] family = "kmac" -> KmacGroup(p)
    [] family = "cmac" -> CmacGroup(p)
    [] family \in {"ecb", "cbc", "ctr", "gcm", "ccm", "kw", "kwp"} -> AesGroup(p)
    [] family \in {"ctr_drbg", "hash_drbg", "hmac_drbg"} -> DrbgGroup(p)
    [] family = "ecdsa_sigver" -> EcdsaSigVer(p)
    [] family = "ecdsa_keyver" -> EcdsaKeyVer(p)
    [] family = "ecdsa_siggen" -> EcdsaSigGen(p)
    [] family = "ecdsa_keygen" -> EcdsaKeyGen(p)
    [] family = "eddsa_sigver" -> EddsaSigVer(p)
    [] family = "eddsa_keyver" -> EddsaKeyVer(p)
    [] family = "eddsa_siggen" -> EddsaSigGen(p)
    [] family = "eddsa_keygen" -> EddsaKeyGen(p)
    [] family = "rsa_sigver" -> RsaSigVer(p)
    [] family = "rsa_siggen" -> RsaSigGen(p)
    [] family = "rsa_keygen" -> RsaKeyGen(p)
    [] family = "rsa_decprim" -> RsaDecPrim(p)
    [] family = "rsa_sigprim" -> RsaSigPrim(p)
    [] family = "rsa_oaep" -> RsaOaep(p)
    [] family = "kbkdf" -> KbkdfGroup(p)
    [] family = "kda_hkdf" -> KdaHkdfGroup(p)
    [] family = "pbkdf2" -> Pbkdf2Group(p)
    [] family = "tls12" -> Tls12Group(p)
    [] family = "kdf_comp_tls" -> KdfComponentTlsGroup(p)
    [] family = "tls13" -> Tls13Group(p)
    [] family = "kas_ecc" -> KasEccSscGroup(p)
    [] family = "kas_ffc" -> KasFfcSscGroup(p)
    [] family = "kts_ifc" -> KtsIfcGroup(p)
    [] family = "ml_kem_keygen" -> MlKemKeyGen(p)
    [] family = "ml_kem_encapdecap" -> MlKemEncapDecap(p)
    [] family = "ml_dsa_keygen" -> MlDsaKeyGen(p)
    [] family = "ml_dsa_siggen" -> MlDsaSigGen(p)
    [] family = "ml_dsa_sigver" -> MlDsaSigVer(p)
    [] family = "slh_dsa_keygen" -> SlhDsaKeyGen(p)
    [] family = "slh_dsa_siggen" -> SlhDsaSigGen(p)
    [] family = "slh_dsa_sigver" -> SlhDsaSigVer(p)
    [] family = "lms_sigver" -> LmsSigVer(p)
    [] family = "xmss_sigver" -> XmssSigVer(p)

-----------------------------------------------------------------------------
(* A set of vectors: [operational, id, bad (fields of the set that are      *)
(* missing or of another type), groups: [p, tests, bad], answers]. The      *)
(* first group that fails ends it, and nothing of it is reported.           *)

\* Fault: the groups before one that fails are reported.
HandleGroups_Partly(prompt, family) ==
  LET begun == [status |-> "Ok", asked |-> 0, groups |-> <<>>]
  IN Chain(Len(prompt.groups), begun, LAMBDA i, s :
       LET g == prompt.groups[i]
           answered == HandleGroup(GroupHandler(family, g.p),
                         [tests |-> g.tests, bad |-> g.bad, answers |-> From(prompt.answers, s.asked + 1)])
       IN IF s.status # "Ok" THEN s
          ELSE [status |-> answered.status, asked |-> s.asked + answered.asked,
                groups |-> IF answered.status = "Ok" THEN Append(s.groups, answered.results) ELSE s.groups])
     [Len(prompt.groups)]

HandleGroups(prompt, family) ==
  LET begun == [status |-> "Ok", asked |-> 0, groups |-> <<>>]
  IN Chain(Len(prompt.groups), begun, LAMBDA i, s :
       LET g == prompt.groups[i]
           answered == HandleGroup(GroupHandler(family, g.p),
                         [tests |-> g.tests, bad |-> g.bad, answers |-> From(prompt.answers, s.asked + 1)])
       IN IF s.status # "Ok" THEN s
          ELSE [status |-> answered.status, asked |-> s.asked + answered.asked,
                groups |-> IF answered.status = "Ok" THEN Append(s.groups, answered.results) ELSE <<>>])
     [Len(prompt.groups)]

Process(prompt) ==
  LET refused(status) == [status |-> status, asked |-> 0, groups |-> <<>>]
      family == Find(prompt.id)
  IN CASE ~prompt.operational -> refused("Module")
       [] prompt.bad \cap {"algorithm", "mode", "revision"} # {} -> refused("Envelope")
       [] family = "none" -> refused("UnsupportedAlgorithm")
       [] "testGroups" \in prompt.bad -> refused("Envelope")
       [] OTHER -> HandleGroups(prompt, family)

-----------------------------------------------------------------------------
(* The groups a server may make of what a handler registers: every value    *)
(* that is listed, and of a range its ends and the value next to the first. *)

RangeDomain(least, most, increment) == {least, least + increment, most}
MessageLengths == RangeDomain(0, 65536, 8)
OutputLengths == RangeDomain(16, 65536, 8)
AllKeys == {128, 192, 256}
Directions == {"encrypt", "decrypt"}

HashCapability ==
  [testType : {"AFT"}, len : MessageLengths] \cup [testType : {"MCT"}]
    \cup [testType : {"LDT"}, len : {8, 65536}, technique : {"repeating"}]
ShakeCapability ==
  [testType : {"AFT", "VOT"}, len : MessageLengths, outLen : OutputLengths]
    \cup [testType : {"MCT"}, minOutLen : {16}, outLen : {65536}]
    \cup [testType : {"LDT"}, len : {8, 65536}, outLen : OutputLengths, technique : {"repeating"}]

\* With a key or in blocks as the function has it.
CShakeCapability ==
  [testType : {"AFT"}, len : MessageLengths, outLen : OutputLengths, hexCustomization : BOOLEAN]
    \cup [testType : {"MCT"}, minOutLen : {16}, outLen : {65536}, increment : {8}]
TupleHashCapability ==
  [testType : {"AFT"}, outLen : OutputLengths, hexCustomization : BOOLEAN]
    \cup [testType : {"MCT"}, minOutLen : {16}, outLen : {65536}, increment : {8}]
ParallelHashCapability ==
  [testType : {"AFT"}, len : MessageLengths, outLen : OutputLengths, hexCustomization : BOOLEAN]
    \cup [testType : {"MCT"}, minOutLen : {16}, outLen : {65536}, increment : {8}, minBlock : {1}, maxBlock : {1, 128}]
KmacCapability ==
  [testType : {"AFT", "MVT"}, keyLen : RangeDomain(128, 524288, 8), len : MessageLengths,
   macLen : RangeDomain(32, 65536, 8), hexCustomization : BOOLEAN]

\* macLen up to the length of the hash.
HmacCapability ==
  UNION {[testType : {"AFT", "MVT"}, full : {full}, macLen : RangeDomain(32, full, 8)] :
           full \in {160, 224, 256, 384, 512}}
CmacCapability ==
  [testType : {"AFT"}, direction : {"gen", "ver"}, keyLen : AllKeys, macLen : RangeDomain(8, 128, 8)]

CipherCapability(mode, types) == [testType : types, blockMode : {mode}, direction : Directions, keyLen : AllKeys]
CtrCapability ==
  [testType : {"AFT", "CTR"}, blockMode : {"CTR"}, direction : Directions, keyLen : AllKeys,
   payloadLen : {0} \cup RangeDomain(8, 128, 8)]
GcmCapability ==
  [testType : {"AFT"}, blockMode : {"GCM"}, direction : Directions, keyLen : AllKeys, tagLen : {128}]
CcmCapability ==
  [testType : {"AFT"}, blockMode : {"CCM"}, direction : Directions, keyLen : AllKeys,
   ivLen : {56, 64, 72, 80, 88, 96, 104}, tagLen : {32, 48, 64, 80, 96, 112, 128}]
WrapCapability(mode) ==
  [testType : {"AFT"}, blockMode : {mode}, direction : Directions, keyLen : AllKeys, kwCipher : {"cipher", "inverse"}]

\* The length of what is returned goes with the hash.
DrbgCapability(family, modes) ==
  UNION {[testType : {"AFT"}, family : {family}, mode : {m[1]}, predResistance : BOOLEAN, returnedBits : {m[2]},
          uses : {<<"generate", "generate">>}] : m \in modes}
CtrDrbgCapability == DrbgCapability("ctr", {<<"AES-128", 256>>, <<"AES-192", 256>>, <<"AES-256", 256>>})
HashDrbgModes == {<<"SHA2-256", 256>>, <<"SHA2-384", 384>>, <<"SHA2-512", 512>>}

HashedCurves(keys) ==
  UNION {[testType : {"AFT"}, curve : {c[1]}, hashAlg : {c[2]}, componentTest : {FALSE}, keyGiven : keys] :
           c \in {<<"P-256", "SHA2-256">>, <<"P-384", "SHA2-384">>}}
EdwardsCapability(types, keys) ==
  [testType : types, curve : {"ED-25519"}, preHash : {FALSE}, keyGiven : keys]
EdwardsKeyCapability(keys) == [testType : {"AFT"}, curve : {"ED-25519"}, keyGiven : keys]

Moduli == {2048, 3072, 4096}
KeyFormats == {"standard", "crt"}
RsaSigVerCapability ==
  [testType : {"GDT"}, sigType : {"pkcs1v1.5", "pss"}, modulo : Moduli, hashAlg : {"SHA2-256"}]
RsaSigGenCapability ==
  [testType : {"GDT"}, sigType : {"pkcs1v1.5", "pss"}, modulo : Moduli, hashAlg : {"SHA2-256"}, keyGiven : BOOLEAN,
   keyMode : KeyFormats]
RsaKeyGenCapability == [testType : {"AFT", "GDT"}, modulo : Moduli, exponent : {65537}, seeded : BOOLEAN]
RsaPrimitiveCapability == [testType : {"AFT"}, modulo : {2048}, keyMode : KeyFormats]
RsaOaepCapability ==
  [testType : {"AFT"}, direction : Directions, modulo : {2048}, hashAlg : {"SHA2-256"}, keyMode : KeyFormats]

KbkdfCapability ==
  [testType : {"AFT"}, kdfMode : {"counter", "feedback", "double pipeline iteration"}, macMode : MacModes,
   counterLocation : {"before fixed data"}, counterLength : {32}, zeroLengthIv : BOOLEAN, generative : BOOLEAN]
KdaHkdfCapability ==
  [testType : {"AFT", "VAL"}, kdfType : {"hkdf"}, encoding : {"concatenation"},
   pattern : {<<"uPartyInfo", "vPartyInfo", "l">>}, hmacAlg : HmacAlgorithms, len : {2048}, testLen : {2048},
   hybrid : BOOLEAN, multiExpansion : {FALSE}]
Pbkdf2Capability ==
  [testType : {"AFT"}, hmacAlg : {"SHA-1"} \cup HmacAlgorithms, keyLen : RangeDomain(112, 4096, 8), iterationsFit : {TRUE}]
TlsHashes == {"SHA2-256", "SHA2-384", "SHA2-512"}
Tls12Capability == [testType : {"AFT"}, hashAlg : TlsHashes, keyBlockLen : {1024}]
KdfComponentTlsCapability == [testType : {"AFT"}, tlsVersion : {"v1.2"}, hashAlg : TlsHashes, keyBlockLen : {1024}]
Tls13Capability ==
  [testType : {"AFT"}, hmacAlg : {"SHA2-256", "SHA2-384"}, runningMode : {"DHE", "PSK", "PSK-DHE"}]

KasCapability(domains) == [testType : {"AFT", "VAL"}, domain : domains, keyGiven : BOOLEAN]
KtsIfcCapability ==
  [testType : {"AFT"}, scheme : {"KTS-OAEP-basic"}, role : {"initiator", "responder"}, modulo : Moduli, len : {256},
   hashAlg : {"SHA2-256"}]

ParameterSets(sets) == [testType : {"AFT"}, parameterSet : sets]
MlKemSets == {"ML-KEM-512", "ML-KEM-768", "ML-KEM-1024"}
MlKemEncapDecapCapability ==
  [testType : {"AFT"}, function : {"encapsulation"}, parameterSet : MlKemSets]
    \cup [testType : {"VAL"}, function : {"decapsulation"}, parameterSet : MlKemSets]
MlDsaSets == {"ML-DSA-44", "ML-DSA-65", "ML-DSA-87"}
SlhDsaSets ==
  {"SLH-DSA-SHA2-128s", "SLH-DSA-SHA2-128f", "SLH-DSA-SHA2-192s", "SLH-DSA-SHA2-192f", "SLH-DSA-SHA2-256s",
   "SLH-DSA-SHA2-256f", "SLH-DSA-SHAKE-128s", "SLH-DSA-SHAKE-128f", "SLH-DSA-SHAKE-192s", "SLH-DSA-SHAKE-192f",
   "SLH-DSA-SHAKE-256s", "SLH-DSA-SHAKE-256f"}
LmsCapability ==
  UNION {[testType : {"AFT"}, lms : [hash : {h}, height : {5, 10, 15, 20, 25}], lmOts : [hash : {h}, width : {1, 2, 4, 8}]] :
           h \in {"SHA256_32", "SHA256_24", "SHAKE_32", "SHAKE_24"}}
XmssCapability == [testType : {"AFT"}]

Capability(family) ==
  CASE family \in {"sha2", "sha3"} -> HashCapability
    [] family = "shake" -> ShakeCapability
    [] family = "cshake" -> CShakeCapability
    [] family = "tuplehash" -> TupleHashCapability
    [] family = "parallelhash" -> ParallelHashCapability
    [] family = "hmac" -> HmacCapability
    [] family = "kmac" -> KmacCapability
    [] family = "cmac" -> CmacCapability
    [] family = "ecb" -> CipherCapability("ECB", {"AFT", "MCT"})
    [] family = "cbc" -> CipherCapability("CBC", {"AFT", "MCT"})
    [] family = "ctr" -> CtrCapability
    [] family = "gcm" -> GcmCapability
    [] family = "ccm" -> CcmCapability
    [] family = "kw" -> WrapCapability("KW")
    [] family = "kwp" -> WrapCapability("KWP")
    [] family = "ctr_drbg" -> CtrDrbgCapability
    [] family = "hash_drbg" -> DrbgCapability("hash", HashDrbgModes)
    [] family = "hmac_drbg" -> DrbgCapability("hmac", HashDrbgModes)
    [] family = "ecdsa_sigver" -> HashedCurves({TRUE})
    [] family = "ecdsa_keyver" -> [testType : {"AFT"}, curve : {"P-256", "P-384"}]
    [] family = "ecdsa_siggen" -> HashedCurves(BOOLEAN)
    [] family = "ecdsa_keygen" ->
         [testType : {"AFT"}, curve : {"P-256", "P-384"}, generation : {"testing candidates"}, keyGiven : BOOLEAN]
    [] family = "eddsa_sigver" -> EdwardsCapability({"AFT"}, {TRUE})
    [] family = "eddsa_keyver" -> EdwardsKeyCapability({TRUE})
    [] family = "eddsa_siggen" -> EdwardsCapability({"AFT", "BFT"}, BOOLEAN)
    [] family = "eddsa_keygen" -> EdwardsKeyCapability(BOOLEAN)
    [] family = "rsa_sigver" -> RsaSigVerCapability
    [] family = "rsa_siggen" -> RsaSigGenCapability
    [] family = "rsa_keygen" -> RsaKeyGenCapability
    [] family \in {"rsa_decprim", "rsa_sigprim"} -> RsaPrimitiveCapability
    [] family = "rsa_oaep" -> RsaOaepCapability
    [] family = "kbkdf" -> KbkdfCapability
    [] family = "kda_hkdf" -> KdaHkdfCapability
    [] family = "pbkdf2" -> Pbkdf2Capability
    [] family = "tls12" -> Tls12Capability
    [] family = "kdf_comp_tls" -> KdfComponentTlsCapability
    [] family = "tls13" -> Tls13Capability
    [] family = "kas_ecc" -> KasCapability({"P-256", "P-384"})
    [] family = "kas_ffc" -> KasCapability({"MODP-3072"})
    [] family = "kts_ifc" -> KtsIfcCapability
    [] family = "ml_kem_keygen" -> ParameterSets(MlKemSets)
    [] family = "ml_kem_encapdecap" -> MlKemEncapDecapCapability
    [] family \in {"ml_dsa_keygen", "ml_dsa_siggen", "ml_dsa_sigver"} -> ParameterSets(MlDsaSets)
    [] family \in {"slh_dsa_keygen", "slh_dsa_siggen", "slh_dsa_sigver"} -> ParameterSets(SlhDsaSets)
    [] family = "lms_sigver" -> LmsCapability
    [] family = "xmss_sigver" -> XmssCapability
    [] OTHER -> {}

-----------------------------------------------------------------------------
(* Properties.                                                              *)

Answers == [i \in 1..60 |-> "ok"]
TestsOf(h) == IF h.tests = "all" THEN 2 ELSE 1
IdOf(family) == (CHOOSE e \in ToSet(Registered) : e.family = family).id
GroupOf(family, p, bad) == [p |-> p, tests |-> TestsOf(GroupHandler(family, p)), bad |-> bad]
Prompt(family, groups, answers) ==
  [operational |-> TRUE, id |-> IdOf(family), bad |-> {}, groups |-> groups, answers |-> answers]

\* What two groups of the same parameters are answered with when all is well.
Sound(family, p) ==
  Process(Prompt(family, <<GroupOf(family, p, {}), GroupOf(family, p, {})>>, Answers))

\* Handlers that say whether a test passed.
Verifies(h) == "testPassed" \in h.gives

\* Whatever a server makes of the capabilities is answered: every test of every group, in
\* order, with a verdict where the handler gives one and that it is passed.
CapabilityIsServed(family, p) ==
  LET h == GroupHandler(family, p)
      told == Sound(family, p)
      whole == [k \in 1..TestsOf(h) |-> [test |-> k, verdict |-> IF Verifies(h) THEN "true" ELSE "none"]]
  IN told.status = "Ok" /\ told.groups = <<whole, whole>>

\* Parameters of which every value is taken, or that are the handler's own.
Loose(p) ==
  {"family", "blockMode", "full", "uses", "increment", "minBlock", "maxBlock", "keyMode", "lms", "lmOts"}
    \cup {f \in {"counterLength"} : "kdfMode" \in DOMAIN p /\ p.kdfMode # "counter"}
    \cup {f \in {"testType"} : p.testType \in {"MCT", "LDT"}}
    \cup {"hexCustomization", "predResistance", "componentTest", "keyGiven", "preHash", "generative", "zeroLengthIv",
          "hybrid", "multiExpansion", "seeded", "iterationsFit"}

Numbers ==
  {"len", "outLen", "minOutLen", "keyLen", "macLen", "payloadLen", "ivLen", "tagLen", "returnedBits", "modulo",
   "exponent", "testLen", "keyBlockLen", "counterLength"}
Altered(p, f) == [p EXCEPT ![f] = IF f = "pattern" THEN <<"other">> ELSE IF f \in Numbers THEN 7 ELSE "other"]

\* A parameter that no capability names is refused, and nothing of the set is answered.
OtherIsRefused(family, p, f) ==
  LET told == Process(Prompt(family, <<GroupOf(family, p, {}), GroupOf(family, Altered(p, f), {})>>, Answers))
  IN told.status \in {"Unsupported", "UnsupportedTestType", "Crypto"} /\ told.groups = <<>>

\* Fields whose length the algorithm fixes.
CrtFields == {"n", "e", "p", "q", "dmp1", "dmq1", "iqmp"}
KeyFields(p) == IF p.keyMode = "crt" THEN CrtFields ELSE {"n", "d"}
Server == {"ephemeralPublicServerX", "ephemeralPublicServerY"}
FixedLengths(family, p) ==
  CASE family \in {"sha2", "sha3", "shake"} ->
         (CASE p.testType = "MCT" -> {} [] p.testType = "LDT" -> {"content"} [] OTHER -> {"msg"})
    [] family \in {"cshake", "parallelhash"} -> IF p.testType = "MCT" THEN {} ELSE {"msg"}
    [] family = "kmac" -> {"key", "msg"}
    [] family \in {"cmac", "kw", "kwp"} -> {"key"}
    [] family = "ecb" -> {"key", Input(p)}
    [] family = "cbc" -> {"key", "iv"}
    [] family = "ctr" -> {"key", "iv"} \cup IF p.payloadLen # 0 THEN {Input(p)} ELSE {}
    [] family = "gcm" -> {"key"} \cup IF p.direction = "decrypt" THEN {"tag"} ELSE {}
    [] family = "ccm" -> {"key", "iv"} \cup IF p.direction = "decrypt" THEN {"ct"} ELSE {}
    [] family = "ecdsa_sigver" -> {"qx", "qy", "r", "s"}
    [] family = "ecdsa_keyver" -> {"qx", "qy"}
    [] family = "ecdsa_siggen" -> IF p.keyGiven THEN {"d", "k"} ELSE {}
    [] family \in {"ecdsa_keygen", "eddsa_siggen", "eddsa_keygen"} -> IF p.keyGiven THEN {"d"} ELSE {}
    [] family = "eddsa_sigver" -> {"q", "signature"}
    [] family = "eddsa_keyver" -> {"q"}
    [] family = "rsa_sigver" -> {"n", "e", "signature"}
    [] family = "rsa_siggen" ->
         IF p.keyGiven THEN KeyFields(p) \cup {f \in {"salt"} : p.sigType = "pss"} ELSE {}
    [] family = "rsa_keygen" -> {"fixedPubExp"}
    [] family = "rsa_decprim" -> {"ct"} \cup KeyFields(p)
    [] family = "rsa_sigprim" -> {"message"} \cup KeyFields(p)
    [] family = "rsa_oaep" -> IF p.direction = "encrypt" THEN {"n", "e", "seed"} ELSE {"ct"} \cup KeyFields(p)
    [] family = "kas_ecc" ->
         (CASE p.testType = "VAL" -> {"ephemeralPrivateIut"} \cup Server
            [] p.keyGiven -> {"d", "peerPublicKeyX", "peerPublicKeyY"} [] OTHER -> Server)
    [] family = "kas_ffc" ->
         (CASE p.testType = "VAL" -> {"ephemeralPrivateIut", "ephemeralPublicServer"}
            [] p.keyGiven -> {"x", "y"} [] OTHER -> {"ephemeralPublicServer"})
    [] family = "kts_ifc" -> IF p.role = "initiator" THEN {"serverN", "serverE"} ELSE {"iutN", "iutD", "serverC"}
    [] family = "ml_kem_keygen" -> {"d", "z"}
    [] family = "ml_kem_encapdecap" -> IF p.function = "encapsulation" THEN {"ek", "m"} ELSE {"dk", "c"}
    [] family = "ml_dsa_keygen" -> {"seed"}
    [] family \in {"ml_dsa_siggen", "slh_dsa_siggen"} -> {"sk"}
    [] family \in {"ml_dsa_sigver", "slh_dsa_sigver", "xmss_sigver"} -> {"pk", "signature"}
    [] family = "slh_dsa_keygen" -> {"skSeed", "skPrf", "pkSeed"}
    [] family = "lms_sigver" -> {"publicKey", "signature"}
    [] OTHER -> {}

\* Fields without which a test is another one, not a defective one.
Presence == {"d", "n", "x", "peerPublicKeyX", "fixedData", "entropy", "dmp1"}

\* The fields of a group, and of each of its tests, with what may be wrong about them.
Defects(family, p) ==
  LET h == GroupHandler(family, p)
      ofTest == {s \in ToSet(h.test) : s[1] # "of group"}
      ofGroup == ToSet(h.group) \cup {s[2] : s \in ToSet(h.test) \ ofTest}
      about(steps, k) ==
        {<<k, s[2], "missing">> : s \in {s \in steps : s[1] \in {"need", "hex", "expected"} /\ s[2] \notin Presence}}
          \cup {<<k, s[2], "hex">> : s \in {s \in steps : s[1] \in {"hex", "maybe", "expected"}}}
          \cup {<<k, s[2], "differs">> : s \in {s \in steps : s[1] = "expected"}}
          \cup {<<k, f, "length">> : f \in FixedLengths(family, p)
                   \cap {s[2] : s \in {s \in steps : s[1] \in {"hex", "expected"}}}}
  IN about(ofGroup, 0) \cup about(ofTest, TestsOf(h))

\* A verdict on one test is another than that of the sound groups; nothing else is.
OneFails(told, sound, g, k) ==
  /\ sound.groups[g][k].verdict # "none"
  /\ told.groups = [sound.groups EXCEPT ![g][k].verdict = "false"]

\* A defect in one group is told by its kind, and then nothing of the set is answered; or it
\* is a failed verification, of that test only. A field of another length is never taken.
DefectIsContained(family, p, g, defect) ==
  LET sound == Sound(family, p)
      group(i) == GroupOf(family, p, IF i = g THEN {defect} ELSE {})
      told == Process(Prompt(family, <<group(1), group(2)>>, Answers))
      failed == told.status = "Ok" /\ OneFails(told, sound, g, defect[1])
  IN CASE defect[3] = "missing" -> told.status = "MissingField" /\ told.groups = <<>>
       [] defect[3] = "hex" -> told.status = "Hex" /\ told.groups = <<>>
       [] defect[3] = "length" -> failed \/ (told.status = "Crypto" /\ told.groups = <<>>)
       [] OTHER -> failed

\* Handlers that tell a module which cannot serve from an input it does not take.
TellsState(family) ==
  family \in {"rsa_decprim", "rsa_sigprim", "rsa_oaep", "tls12", "kdf_comp_tls", "ml_kem_keygen", "ml_kem_encapdecap",
    "ml_dsa_keygen", "ml_dsa_siggen", "ml_dsa_sigver", "slh_dsa_keygen", "slh_dsa_siggen", "slh_dsa_sigver",
    "ecdsa_sigver", "eddsa_sigver", "lms_sigver", "xmss_sigver", "ctr_drbg", "hash_drbg", "hmac_drbg"}
\* Those that take any refusal for a verdict.
ReadsAny(family) == family \in {"rsa_sigver", "ecdsa_keyver", "eddsa_keyver"}

\* The call at which it refuses is one of the first test's, or of the group before it.
RefusalIsTold(family, p, k, e) ==
  LET sound == Sound(family, p)
      answers == [Answers EXCEPT ![k] = e]
      told == Process(Prompt(family, <<GroupOf(family, p, {}), GroupOf(family, p, {})>>, answers))
      ended == told.status \notin {"Ok", "MissingField", "Hex"} /\ told.groups = <<>>
      verdict == told.status = "Ok" /\ \E g \in 1..2 : \E t \in DOMAIN sound.groups[g] : OneFails(told, sound, g, t)
  IN /\ ended \/ verdict
     /\ e = "false" => verdict
     /\ e \in {"NotOperational", "EntropyInputTooShort"} /\ verdict => ReadsAny(family)
     /\ e = "NotOperational" /\ TellsState(family) => told.status = "Module"
     /\ e = "EntropyInputTooShort" /\ family \in {"ctr_drbg", "hash_drbg", "hmac_drbg"} =>
          told.status = "InputRefused"

\* Every handler is found under its own name; no other name finds one; and a module that does
\* not serve, or a set that is none, is answered by nothing.
NameIsFound(i, j) ==
  LET a == Registered[i].id
      b == Registered[j].id
      mixed == <<a[1], b[2], a[3]>>
      prompt(id) == [Prompt("xmss_sigver", <<>>, <<>>) EXCEPT !.id = id]
      named == {e.id : e \in ToSet(Registered)}
  IN /\ i # j => a # b
     /\ Find(a) = Registered[i].family
     /\ Process(prompt(mixed)).status = IF mixed \in named THEN "Ok" ELSE "UnsupportedAlgorithm"
     /\ \A f \in {"algorithm", "mode", "revision", "testGroups"} :
          Process([prompt(a) EXCEPT !.bad = {f}]).status = "Envelope"
     /\ Process([prompt(a) EXCEPT !.operational = FALSE]).status = "Module"

\* Of parameters that differ in a length or a name only, those that have the least.
NamedFields == {"macMode", "hmacAlg", "parameterSet"}
Alike(p, q) ==
  DOMAIN p = DOMAIN q /\ \A f \in DOMAIN p \ (Numbers \cup NamedFields \cup {"full", "lms", "lmOts", "mode"}) : p[f] = q[f]
Typical(family) == {CHOOSE q \in Capability(family) : Alike(p, q) : p \in Capability(family)}

Families == {e.family : e \in ToSet(Registered)}
\* Of a family that registers nothing, the groups of the one it shares its handler with.
Served(family) ==
  CASE family = "tuplehash_xof" -> {p \in TupleHashCapability : p.testType = "AFT"}
    [] family = "parallelhash_xof" -> {p \in ParallelHashCapability : p.testType = "AFT"}
    [] OTHER -> Capability(family)

SetQuestions(family) ==
  LET typical == Typical(family)
      calls(p) == 1..Sound(family, p).asked
      told(p) ==
        {"InvalidInput", "EntropyInputTooShort", "NotOperational", "TagMismatch"}
  IN {<<"capability", family, p>> : p \in Served(family)}
       \cup UNION {{<<"other", family, p, f>> : f \in DOMAIN p \ Loose(p)} : p \in typical}
       \cup UNION {{<<"defect", family, p, g, d>> : g \in 1..2, d \in Defects(family, p)} : p \in typical}
       \cup UNION {{<<"refusal", family, p, k, e>> : k \in calls(p), e \in told(p)} : p \in typical}

NameQuestions == {<<"name", i, j>> : i \in DOMAIN Registered, j \in DOMAIN Registered}

\* A set is answered whole or not at all, and what is registered is served.
SetIsAnsweredWhole(q) ==
  CASE q[1] = "capability" -> CapabilityIsServed(q[2], q[3])
    [] q[1] = "other" -> OtherIsRefused(q[2], q[3], q[4])
    [] q[1] = "defect" -> DefectIsContained(q[2], q[3], q[4], q[5])
    [] q[1] = "refusal" -> RefusalIsTold(q[2], q[3], q[4], q[5])
    [] q[1] = "name" -> NameIsFound(q[2], q[3])

=============================================================================

----------------------------- MODULE MCAlgorithms -----------------------------
(***************************************************************************)
(* One model for what shares no state: the algorithms, each asked about    *)
(* inputs of its own, the elliptic-curve handles, the sweeps of SLH-DSA    *)
(* and the requests of the ESV client.  A behaviour asks one question of   *)
(* one algorithm, or runs one of the three machines; nothing of the code   *)
(* couples them, so none is run beside another.                            *)
(***************************************************************************)
EXTENDS TLC, FiniteSets, ByteStrings, ServiceProfile, EcdsaHandle, SweepPool, EsvExchange

VARIABLES
  input  \* the algorithm that is asked, and about what

vars == <<handleVars, sweepVars, exchangeVars, input>>

-----------------------------------------------------------------------------
(* Reduced sizes; each module says what the code has in their place.       *)

RSA == INSTANCE RsaArith WITH
  WordBits <- 3, HalfWords <- 2, NewtonRounds <- 2, NibbleBits <- 3, SMALL_PRIMES <- {3, 5, 7}

STATEFUL == INSTANCE StatefulHash WITH TreeHeight <- 2

SLH == INSTANCE SlhDsa WITH H_PRIME <- 2, D <- 2, A <- 2, K <- 2, CHAINS <- 2

\* Any function that mixes its arguments well enough for the noise to look like noise.
Mixed(s) ==
  LET x == Chain(Len(s), 7, LAMBDA i, acc : (acc * 5003 + (s[i] % 65537) * 17 + 12345) % 40009)[Len(s)]
      y == (x * x + 3 * x) % 44687
  IN (y * y) \div 17

KEM == INSTANCE MlKem WITH
  N <- 8, K <- 2, ETA1 <- 3, ETA2 <- 2, DU <- 10, DV <- 4, Hash <- Mixed

\* Both widths of the low part that the parameter sets use; signing is asked of the first.
DSA == INSTANCE MlDsa WITH
  N <- 4, K <- 2, L <- 2, TAU <- 4, ETA <- 2, GAMMA1 <- 16384, GAMMA2 <- 95232, BETA <- 2000,
  OMEGA <- 2, MaxIters <- 20, Hash <- Mixed
DSA32 == INSTANCE MlDsa WITH
  N <- 4, K <- 2, L <- 2, TAU <- 4, ETA <- 2, GAMMA1 <- 524288, GAMMA2 <- 261888, BETA <- 196,
  OMEGA <- 2, MaxIters <- 20, Hash <- Mixed

\* n bytes that depend on all of s.
Spread(s, n) ==
  LET both(i, p) == <<(p[1] * 5003 + s[i] * 17 + 12345) % 40009, (p[2] * 4001 + s[i] * 29 + 777) % 39989>>
      p == Chain(Len(s), <<7, 11>>, both)[Len(s)]
      x == (p[1] * p[1] + p[2]) % 38011
      y == (p[2] * p[2] + 3 * p[1]) % 36011
  IN Bytes(n, LAMBDA i : ((x * (2 * i + 5) + y * (3 * i + 5)) \div (i + 7)) % 256)

\* A permutation of blocks: four rounds that add to one half what the other gives.
Halves(blk) == <<SubSeq(blk, 1, 8), From(blk, 9)>>
Added(a, b, sign) == Bytes(8, LAMBDA i : (a[i+1] + sign * b[i+1]) % 256)
Enciphered(blk) ==
  LET h == Chain(4, Halves(blk), LAMBDA k, p : <<p[2], Added(p[1], Spread(<<k>> \o p[2], 8), 1)>>)[4]
  IN h[1] \o h[2]
Deciphered(blk) ==
  LET h == Chain(4, Halves(blk), LAMBDA k, p : <<Added(p[2], Spread(<<5 - k>> \o p[1], 8), -1), p[1]>>)[4]
  IN h[1] \o h[2]

AES == INSTANCE BlockModes WITH Encrypt <- Enciphered, Decrypt <- Deciphered

HASH == INSTANCE HashStreams WITH
  BLOCK_SIZE <- 8, LEN_FIELD <- 2, DIGEST_SIZE <- 6, H0 <- <<1, 2, 3, 4, 5, 6, 7, 8>>,
  Compress <- LAMBDA state, blk : Spread(state \o blk, 8),
  RATE <- 8, WIDTH <- 12, Permute <- LAMBDA state : Spread(state, 12), INNER_LEN <- 4

KDF == INSTANCE KeyDerivation WITH L <- 4, Prf <- LAMBDA key, msg : Spread(key \o <<300>> \o msg, 4)

\* A curve of 53 points over 59 elements, in two words of three bits.
CURVE == INSTANCE WeierstrassCurve WITH
  WordBits <- 3, Words <- 2, P <- 59, B <- 37, N <- 53, GX <- 1, GY <- 25

\* A curve of 8 * 67 * 31314 points over 2^24 - 3 elements, in three limbs of eight bits.
ED == INSTANCE EdwardsCurve WITH
  Radix <- 8, Limbs <- 3, Fold <- 3, D <- 13, BaseX <- 4272766, BaseY <- 4519964, L <- 67,
  ScalarBits <- 10, Hash <- LAMBDA s : Mixed(s) % 1048576

\* y coordinates: the smallest, the largest and three beyond them, a point of order eight, and
\* some whose square is small in its low limbs.
PointYs ==
  {0, 1, 2, 3, 16777212, 16777213, 16777214, 16777215, 14988765, 4519964,
   902683, 608971, 70284, 25300, 83379, 4352, 548008, 440273, 305946, 84252, 6144, 5888, 6656,
   6400, 449453, 1048577}

\* Runs of three samples trip one test, three of one value in five the other; the sample 2 is
\* wider than declared.
RAW == INSTANCE RawCollector WITH
  Samples <- 0..2, NoSample <- 3, RctCutoff <- 3, AptCutoff <- 3, AptWindow <- 5,
  StartupMin <- 3, Narrow <- {0, 1}, ChunkSamples <- 3, MaxAnnotations <- 2

FFI == INSTANCE FfiCalls

LIB == INSTANCE LibraryCalls

ACVP == INSTANCE AcvpHandlers

ESV == INSTANCE EsvReplay

\* Three competitors of each kind, and dictionaries that fill.
COUNT == INSTANCE Estimators WITH
  D_LAG <- 3, WINDOWS <- <<2, 3, 4>>, D_MMC <- 3, MAX_ENTRIES <- 3, B_LEN <- 2, MAX_DICTIONARY_SIZE <- 5,
  TUPLE_THRESHOLD <- 3,
  Octet <- 3, WordWidth <- 6, Enough <- 1, Least <- 2, MaxTuple <- 3

Tests == {"excursion", "periods"}
Shuffles == UNION {[1..n -> [Tests -> {"greater", "equal", "less"}]] : n \in 1..4}

\* Samples of two symbols up to length m and of three up to length n, and longer noise.
Samples(m, n) ==
  UNION {[1..k -> {0, 1}] : k \in 2..m} \cup UNION {[1..k -> {2, 5, 9}] : k \in 2..n}
Noise(k) == Bytes(14, LAMBDA i : <<5, 2, 9>>[1 + (Mixed(<<k, i>>) % (2 + (k % 2)))])
\* A word over and over, then its beginning.
Repeated(word, n) == Bytes(n, LAMBDA i : word[1 + (i % Len(word))])

\* Two values in any number and twenty samples of others.
Skewed(a, b) == Bytes(20 + a, LAMBDA i : IF i < a THEN 3 ELSE IF i < a + b THEN 7 ELSE IF i % 3 = 0 THEN 2 ELSE 4)

\* The lines of a session: responses that name one environment or two, the second time with
\* other files; and the operations with their intents.
Responses ==
  {<<ESV!Oe("e1", "t1", [raw |-> "f1", restart |-> "none"])>>,
   <<ESV!Oe("e1", "t2", [raw |-> "none", restart |-> "f2"])>>,
   <<ESV!Oe("e2", "t3", [raw |-> "f3", restart |-> "f4"]), ESV!Oe("e1", "t4", [raw |-> "f5", restart |-> "none"])>>}
EsvIntents ==
  {[kind |-> "intentRegister"], [kind |-> "intentCertify", mode |-> "full"]}
    \cup [kind : {"intentUploadFile"}, ea : {"e1"}, slot : ESV!Slots]
    \cup [kind : {"intentUploadDoc"}, type : {"ear", "pud"}]
EsvOutcomes ==
  [kind : {"registered"}, entropy : {"tid"}, oes : Responses]
    \cup [kind : {"fileUploaded"}, ea : {"e1"}, slot : ESV!Slots]
    \cup [kind : {"docUploaded"}, type : {"ear", "pud"}]
    \cup {[kind |-> "assessmentCaptured", ea |-> "e1", slot |-> "raw"], [kind |-> "certified", mode |-> "full"]}
EsvLogs ==
  UNION {[1..n -> EsvIntents \cup EsvOutcomes] : n \in 0..3}
    \cup [1..4 -> [kind : {"registered"}, entropy : {"tid"}, oes : Responses]
                    \cup {[kind |-> "intentRegister"], [kind |-> "intentCertify", mode |-> "full"],
                          [kind |-> "certified", mode |-> "full"]}]

\* Cells of two bits, words of two of them; pages of four cells here and of eight elsewhere.
IMAGE == INSTANCE ImageVerification WITH
  Word <- 2, SlotSize <- 2, MaxMeta <- 2, MaxRepeats <- 1, MaxEntries <- 12, MaxExpanded <- 20,
  Limit <- 48, Base <- 4, BitmapWords <- 3, Page <- 4, SegmentPage <- 8

\* The imports a pattern names, in the order of their first use, and where they are.
Import == [Bind |-> [name |-> "f", addend |-> 1, weak |-> FALSE],
           Weak |-> [name |-> "g", addend |-> 0, weak |-> TRUE]]
Imports(pattern) ==
  LET named == SelectSeq(pattern, LAMBDA k : k \in DOMAIN Import)
      first == SelectSeq([i \in 1..Len(named) |-> i], LAMBDA i : \A j \in 1..i - 1 : named[j] # named[i])
  IN [i \in 1..Len(first) |-> named[first[i]]]
Resolved == Import.Bind :> <<9>> @@ Import.Weak :> "none"

\* An image of a read-only segment with the slot and a writable one: words as the pattern says,
\* under RELRO, then what the program writes, then zeros. .dynamic is the first word.
ImageOf(pattern) ==
  LET n == 2 * Len(pattern)
      word(i, len, kind, meta) ==
        [va |-> 14 + 2 * (i - 1), len |-> len, kind |-> kind, meta |-> meta, relocation |-> i > 1, copy |-> FALSE]
      bind(i) == word(i, 2, "Bind", IF Imports(pattern)[1] = pattern[i] THEN 0 ELSE 1)
      half(i) == word(i, 1, "Hole", 0)
      words(i) ==
        CASE pattern[i] = "Plain" -> <<>>
          [] pattern[i] = "Halves" -> <<half(i), [half(i) EXCEPT !.va = @ + 1]>>
          [] pattern[i] \in DOMAIN Import -> <<bind(i)>>
          [] OTHER -> <<word(i, 2, pattern[i], 0)>>
      late == word(Len(pattern) + 1, 2, "Relative", 0)
  IN [loads |-> <<[vaddr |-> 4, offset |-> 0, filesz |-> 6, memsz |-> 6, writable |-> FALSE],
                  [vaddr |-> 14, offset |-> 6, filesz |-> n + 3, memsz |-> n + 7, writable |-> TRUE]>>,
      relro |-> <<14, 14 + n>>, dynamic |-> <<14, 16>>, slot_off |-> 2, flags |-> 0,
      words |-> FlattenSeq([i \in 1..Len(pattern) |-> words(i)]) \o <<late>>,
      records |-> [i \in 1..Len(Imports(pattern)) |-> Import[Imports(pattern)[i]]],
      file |-> [a \in 0..n + 8 |-> (3 * a + a \div 4) % 4]]

\* An image with one more word, anywhere.
WithWord(image, w) == [image EXCEPT !.words = SortSeq(Append(@, w), LAMBDA a, b : a.va < b.va)]

\* Entries one after another, of kinds and lengths, with gaps.
EntriesFrom(parts) ==
  LET start[i \in 1..Len(parts) + 1] == IF i = 1 THEN 4 ELSE start[i - 1] + parts[i - 1][2]
      entry(i) == [rva |-> start[i], file_off |-> start[i], len |-> parts[i][2], kind |-> parts[i][1], meta |-> 0]
  IN SelectSeq([i \in 1..Len(parts) |-> entry(i)], LAMBDA e : e.kind # "gap")

Polynomial(s) == <<>> \o [i \in 1..8 |-> Mixed(<<s, i>>) % 3329]

\* Primes of key generation are made of the bytes that were drawn.
Primes(e) ==
  {p \in {RSA!Candidate(drawn) : drawn \in 0..15} : RSA!Acceptable(p, e, {2, 3})}

Exponents == {3, 5, 7, 11, 13, 17, 29}

\* The questions of each family.
Questions(family) ==
  CASE family = "service" -> {<<family, profile, s>> : profile \in AlgorithmProfile, s \in Service}
    [] family = "calls" -> {<<family, s>> : s \in {s \in Service : LIB!CallsOf(s) # {}}}
    [] family = "montgomery" ->
         {<<family, n, a>> : n \in RSA!HalfWidth \div 2 .. RSA!HalfWidth - 1, a \in 0..RSA!HalfWidth - 1}
    [] family = "miller_rabin" -> {<<family, n>> : n \in RSA!HalfWidth \div 2 .. RSA!HalfWidth - 1}
    [] family = "rsa_key" ->
         UNION {{<<family, p, q, e>> : p \in Primes(e), q \in Primes(e)} : e \in Exponents}
    [] family = "lms" ->
         {<<family, w, q, 17 * k>> : w \in {1, 2, 4}, q \in 0..STATEFUL!Leaves-1, k \in 0..15}
    [] family = "lms_pair" -> {<<family, a, b>> : a \in 4..25, b \in 0..17}
    [] family = "xmss" -> {<<family, q, 17 * k>> : q \in 0..STATEFUL!Leaves-1, k \in 0..15}
    [] family = "stateful" -> {<<family, "all">>}
    [] family = "slh_dsa" ->
         {<<family, [md |-> 9 * k, tree |-> t, leaf |-> l]>> :
            k \in 0..28, t \in {0, 1, 2, 3, 7}, l \in {0, 1, 2, 3, 6}}
    [] family = "slh_sets" -> {<<family, "all">>}
    [] family = "ml_kem" -> {<<family, d, <<m>>>> : d \in 0..2, m \in {37, 255}}
    [] family = "ml_kem_ring" -> {<<family, a, b>> : a \in 0..5, b \in 6..11}
    [] family = "ml_kem_code" -> {<<family, d>> : d \in {1, 4, 5, 10, 11, 12}}
    [] family = "ml_kem_words" -> {<<family, "all">>}
    [] family = "ml_dsa" -> {<<family, xi>> : xi \in {9, 11, 14, 20, 24, 36}}
    [] family = "ml_dsa_hint" -> {<<family, buf>> : buf \in [1..4 -> 0..4]}
    [] family = "ml_dsa_round" -> {<<family, "all">>}
    [] family = "modes" -> {<<family, len>> : len \in 0..1 \cup 15..17 \cup 31..33 \cup {40, 48}}
    [] family = "wraps" -> {<<family, len>> : len \in 0..40}
    [] family = "ghash" -> {<<family, k>> : k \in 0..9}
    [] family = "counters" -> {<<family, "all">>}
    [] family = "streams" -> {<<family, len>> : len \in 0..25}
    [] family = "frames" -> {<<family, "all">>}
    [] family = "derivations" -> {<<family, len>> : len \in 0..17}
    [] family = "labels" -> {<<family, "all">>}
    [] family = "residues" -> {<<family, m, x>> : m \in {59, 53}, x \in 0..63}
    [] family = "ladder" -> {<<family, i, 1 + (i % 5)>> : i \in 0..52}
    [] family = "sec1" -> {<<family, x>> : x \in 0..63}
    [] family = "ecdsa" -> {<<family, d, e>> : d \in {1, 26, 52}, e \in {0, 5, 53, 63}}
    [] family = "ecdh" -> {<<family, d>> : d \in {1, 2, 27, 52}}
    [] family = "limbs" ->
         {<<family, a, b>> : a, b \in {0, 1, 255, 256, 65535, 65536, 70284, 608971, 8421504,
                                        16711680, 16777212, 16777213, 16777215}}
    [] family = "ed_decode" -> {<<family, y + sign>> : y \in PointYs, sign \in {0, 16777216}}
    [] family = "ed_group" ->
         {<<family, y, other>> : y \in PointYs, other \in {16777212, 4519964, 14988765}}
    [] family = "ed_scalars" -> {<<family, high>> : high \in 0..1023}
    [] family = "tables" ->
         {<<family, s>> : s \in UNION {[1..n -> ({"Plain", "Hole"} \X {1, 2}) \cup {<<"Relative", 2>>, <<"gap", 1>>}] : n \in 1..5}}
    [] family = "images" ->
         {<<family, s>> : s \in [1..4 -> {"Plain", "Relative", "Hole"}]
                                \cup [1..2 -> {"Plain", "Relative", "Bind", "Weak"}]
                                \cup {<<"Plain", "Hole", "Hole", "Hole", "Hole">>, <<"Plain", "Halves", "Hole", "Halves">>,
                                      <<"Plain", "Relative", "Plain", "Relative", "Plain", "Relative">>}}
    [] family = "words" ->
         {<<family, [va |-> va, len |-> len, kind |-> kind, meta |-> 0, relocation |-> r, copy |-> c]>> :
            va \in 4..30, len \in {2, 4}, kind \in {"Relative", "Hole"}, r \in BOOLEAN, c \in BOOLEAN}
    [] family = "relr" -> {<<family, S>> : S \in SUBSET {2 * i : i \in 1..9}}
    [] family = "raw_samples" -> {<<family, h>> : h \in [1..10 -> {0, 1}] \cup [1..7 -> 0..2]}
    [] family = "ffi" -> {<<family, name>> : name \in DOMAIN FFI!Sections}
    [] family = "acvp" -> {<<family, q>> : q \in UNION {ACVP!SetQuestions(name) : name \in ACVP!Families}}
    [] family = "acvp_names" -> {<<family, q>> : q \in ACVP!NameQuestions}
    [] family = "esv_logs" -> {<<family, log>> : log \in EsvLogs}
    [] family = "guesses" -> {<<family, s>> : s \in Samples(9, 6) \cup {Noise(k) : k \in 0..149}}
    [] family = "symbol_bits" -> {<<family, s>> : s \in [1..3 -> 0..15]}
    [] family = "tuples" ->
         {<<family, s>> : s \in Samples(9, 6)
            \cup {Repeated(word, n) : word \in UNION {[1..k -> 0..2] : k \in 2..4}, n \in {16, 23}}}
    [] family = "statistics" ->
         {<<family, s>> : s \in {s \in Samples(9, 6) : s[1] \in {0, 1} \/ Cardinality(ToSet(s)) # 2}}
    [] family = "draws" -> {<<family, s>> : s \in 0..63}
    [] family = "verdicts" -> {<<family, s>> : s \in Shuffles}
    [] family = "bins" -> {<<family, a, b>> : a \in 1..10, b \in 1..10}
    [] family = "ed25519" -> {<<family, seed, msg>> : seed \in 0..7, msg \in 0..2}

Families ==
  {"service", "calls", "montgomery", "miller_rabin", "rsa_key", "lms", "lms_pair", "xmss", "stateful",
   "slh_dsa", "slh_sets", "ml_kem", "ml_kem_ring", "ml_kem_code", "ml_kem_words",
   "ml_dsa", "ml_dsa_hint", "ml_dsa_round", "modes", "wraps", "ghash", "counters", "streams",
   "frames", "derivations", "labels", "residues", "ladder", "sec1", "ecdsa", "ecdh", "limbs",
   "ed_decode", "ed_group", "ed_scalars", "ed25519", "tables", "images", "words", "relr",
   "raw_samples", "ffi", "acvp", "acvp_names", "esv_logs", "guesses", "symbol_bits", "tuples", "statistics", "draws",
   "verdicts", "bins"}

-----------------------------------------------------------------------------

Init == HandleInit /\ SweepInit /\ ExchangeInit /\ input = <<"none">>

\* The machines that are not run begin in one way only.
HandleRests == HandleInit /\ UNCHANGED handleVars
SweepRests == SweepInit /\ UNCHANGED sweepVars
ExchangeRests == ExchangeInit /\ honest /\ phase = 0 /\ UNCHANGED exchangeVars

\* First the algorithm, then the question, so that the workers of TLC share them.
Choose ==
  /\ input = <<"none">> /\ \E family \in Families : input' = <<family>>
  /\ HandleRests /\ SweepRests /\ ExchangeRests

Ask ==
  /\ Len(input) = 1 /\ input[1] \in Families
  /\ input' \in Questions(input[1])
  /\ HandleRests /\ SweepRests /\ ExchangeRests

HandleStep == input = <<"none">> /\ HandleNext /\ SweepRests /\ ExchangeRests /\ UNCHANGED input
SweepStep == input = <<"none">> /\ SweepNext /\ HandleRests /\ ExchangeRests /\ UNCHANGED input
ExchangeStep == input = <<"none">> /\ ExchangeNext /\ HandleRests /\ SweepRests /\ UNCHANGED input

Next == Choose \/ Ask \/ HandleStep \/ SweepStep \/ ExchangeStep

Spec == Init /\ [][Next]_vars /\ SweepFairness /\ ExchangeFairness

-----------------------------------------------------------------------------

\* The step that asks it: what is wrong about the answer is wrong about that step.
Asked(family) == input'[1] = family /\ Len(input') > 1 /\ input' # input

\* No profile cuts a construction from its primitive or one operation of a key from another,
\* and the LMS services, told by the parity of their number, are no others (lib.rs); a call of
\* the algorithm crates is refused as restricted if and only if the profile refuses its service.
ProfileTablesAgree ==
  [][ /\ Asked("service") => TablesAgree(input'[2], input'[3])
      /\ Asked("calls") => LIB!CallsFollowProfile(input'[2]) ]_vars

\* A profile that admits a suite admits "the DRBGs that seed [its] key generation"
\* (lib.rs:1820): whoever may ask for a service may make the generator its calls take.
PermittedIsServable == [][ Asked("calls") => LIB!Servable(input'[2]) ]_vars

\* Montgomery arithmetic is that of the integers, Miller-Rabin tells primes, and the key
\* material of two primes is that of one RSA key (keygen.rs, mont2048.rs, lib.rs).
RsaKeysAreExact ==
  /\ Asked("montgomery") => RSA!MontgomeryAgrees(input'[2], input'[3])
  /\ Asked("miller_rabin") => RSA!WitnessesDecide(input'[2])
  /\ Asked("rsa_key") /\ input'[2] # input'[3] => RSA!KeyAgrees(input'[2], input'[3], input'[4])

\* Points are multiplied as the group does for every scalar, though the ladder of the NIST
\* curves tells no equal or opposite points apart and Ed25519 lets limbs grow; encodings that
\* are taken are those of points, and signatures and shared secrets are the standard's
\* (oxicrypt-ecdsa, oxicrypt-ecdh, oxicrypt-eddsa).
CurvesAreExact ==
  /\ Asked("residues") => CURVE!ResiduesAreExact(input'[2], input'[3])
  /\ Asked("ladder") => CURVE!LadderMultiplies(input'[2], input'[3])
  /\ Asked("sec1") => CURVE!EncodingsAreValidated(input'[2])
  /\ Asked("ecdsa") => CURVE!SignaturesAreExact(input'[2], input'[3])
  /\ Asked("ecdh") => CURVE!SecretsAgree(input'[2])
  /\ Asked("limbs") => ED!ProductsAreExact(input'[2], input'[3])
  /\ Asked("ed_decode") => ED!DecodedIsStated(input'[2])
  /\ Asked("ed_group") => ED!GroupIsExact(input'[2], input'[3])
  /\ Asked("ed_scalars") => ED!ScalarsReduce(input'[2])
  /\ Asked("ed25519") => ED!SignatureIsBound(input'[2], input'[3])

\* The integers beneath RSA and the curves are computed exactly, at every width of a limb.
ArithmeticIsExact == [][ RsaKeysAreExact /\ CurvesAreExact ]_vars

\* What holds of an image that is signed; a word no typing describes keeps it from that.
ImageVerifies(image, junks) ==
  LET slot == IMAGE!SignedSlot(image, "key")
  IN IMAGE!Classified(image) =>
       /\ IMAGE!CoverageIsWhole(image)
       /\ IMAGE!Signable(image, "key")
       /\ IMAGE!OneSpelling(slot)
       /\ \A base \in {0, 12}, archive \in {0, 8}, junk \in junks :
            IMAGE!LoadVerifies(image, slot, base, archive, junk, Resolved)
       /\ Cardinality(junks) > 1 => IMAGE!DamageShows(image, slot, 8, 8, Resolved)

\* The slot the signing tool writes says of every cell of the image what it is, in the one
\* form the verifier takes; the image passes its test wherever it is loaded and whatever is
\* written where it may be, and a change of anything signed fails (slot.rs, verify.rs,
\* acquire.rs; elf.rs, image.rs of the tool).
SignedImagesVerify ==
  [][ /\ Asked("tables") => IMAGE!TableIsCanonical(EntriesFrom(input'[2]))
      /\ Asked("relr") => IMAGE!RelrIsExact(input'[2])
      /\ Asked("images") => ImageVerifies(ImageOf(input'[2]), {0, 3})
      /\ Asked("words") => ImageVerifies(WithWord(ImageOf(<<"Plain", "Relative", "Plain">>), input'[2]), {3}) ]_vars

\* decompress gives None only for "bytes [that] do not encode a valid point" (edwards.rs:296),
\* and reduce leaves "every limb in [0, 2^51)" (field.rs:170).
EncodedPointsDecode ==
  [][ Asked("ed_decode") => ED!PointsAreDecoded(input'[2]) ]_vars

\* A signature of LMS, XMSS or SLH-DSA verifies for its digest and leaf alone, under the
\* parameters its key names; no two hash calls of a tree and no two secrets share an address,
\* and every parameter set fits its types (oxicrypt-lms, oxicrypt-xmss, oxicrypt-slh-dsa).
HashSignaturesBind ==
  [][ /\ Asked("lms") => STATEFUL!LmsBinds(input'[2], input'[3], input'[4])
      /\ Asked("lms_pair") => STATEFUL!PairFits(input'[2], input'[3])
      /\ Asked("xmss") => STATEFUL!XmssBinds(input'[2], input'[3])
      /\ Asked("stateful") => STATEFUL!AddressesDiffer /\ STATEFUL!DigitsAreOneWay
      /\ Asked("slh_dsa") => SLH!SignatureBinds(input'[2])
      /\ Asked("slh_sets") => SLH!SecretsDiffer /\ SLH!ParametersFit /\ SLH!FramesDiffer ]_vars

\* Both sides of ML-KEM find one secret and a changed ciphertext gives the rejection value;
\* an ML-DSA signature, whose verifier lacks the low bits of the key, verifies for its message
\* alone; and no reduction, transform, rounding or encoding beneath loses a residue
\* (oxicrypt-ml-kem, oxicrypt-ml-dsa).
LatticeSchemesAgree ==
  [][ /\ Asked("ml_kem") => KEM!SecretsAgree(input'[2], 5, input'[3])
      /\ Asked("ml_kem_ring") => KEM!TransformMultiplies(Polynomial(input'[2]), Polynomial(input'[3]))
      /\ Asked("ml_kem_code") => KEM!EncodingsInvert(input'[2])
      /\ Asked("ml_kem_words") => KEM!ReductionsAreExact /\ KEM!WordsSuffice
      /\ Asked("ml_dsa") => DSA!SignatureVerifies(input'[2], 3)
      /\ Asked("ml_dsa_hint") => DSA!HintsAreCanonical(input'[2])
      /\ Asked("ml_dsa_round") =>
           /\ DSA!RoundingIsExact /\ DSA!HintsRecover(78) /\ DSA!MasksDiffer
           /\ DSA32!RoundingIsExact /\ \A beta \in {120, 196} : DSA32!HintsRecover(beta) ]_vars

\* What a mode of AES or a key wrap gives is taken back by its inverse alone, at every length
\* around a block, and no counter or first block of a call meets another (oxicrypt-aes,
\* oxicrypt-cmac).
ModesInvert ==
  [][ /\ Asked("modes") => AES!CallInverts(input'[2])
      /\ Asked("wraps") => AES!WrapInverts(input'[2]) /\ \A n \in 1..2 : AES!StatedLengthFits(input'[2], n)
      /\ Asked("ghash") => AES!GhashMultiplies(AES!Message(16, input'[2]), AES!Message(16, 3 * input'[2] + 1))
      /\ Asked("counters") =>
           /\ AES!CountersDiffer(4) /\ AES!CcmCountersFit
           /\ AES!MacInputsDiffer({AES!Message(n, 0) : n \in {0, 1} \cup 13..17 \cup 30..32}
                                  \cup {Zeros(n) : n \in {1} \cup 14..16} \cup {<<128>> \o Zeros(15)}) ]_vars

\* A message hashed, authenticated or drawn from in pieces is the message whole, and what is
\* framed differently is hashed differently (oxicrypt-sha, oxicrypt-xof, oxicrypt-hmac). A
\* derivation is the standard's for every length up to the last its counter numbers, and one
\* that loses the module on the way leaves nothing (oxicrypt-kdf, oxicrypt-tls-kdf).
MessagesAreFramed ==
  [][ /\ Asked("streams") => HASH!StreamsAgree(input'[2]) /\ HASH!MacsAgree(input'[2])
      /\ Asked("frames") => HASH!PaddingsDiffer /\ HASH!FramesDiffer /\ HASH!LengthsAreCoded
      /\ Asked("derivations") => KDF!DerivationsAgree(input'[2]) /\ KDF!NothingPartial(input'[2])
      /\ Asked("labels") => KDF!LabelsDiffer /\ KDF!CountersEnd ]_vars

\* initialize returns though self-tests sweep in pools, and every request and poll of the ESV
\* client returns whatever the server answers (sweep.rs, login.rs, datafiles.rs).
OperationsReturn == InitializeReturns /\ ExchangesReturn

\* A service called from C answers Ok if and only if every pointer, length and call inside was
\* good and all it gives is written whole; a refused one writes nothing, reads nothing through
\* a null pointer, and is never told as a mismatch; what one call of a scheme gives the others
\* take to its length (lib.rs, aes.rs, drbg.rs and error.rs of oxicrypt-ffi). A set of test
\* vectors is answered whole or not at all: what the ACVP harness registers it serves, each test
\* in its place with its verdict; what is missing, malformed or not registered, or a module that
\* refuses, ends the set by its kind or fails that one test (dispatch.rs, handlers, caps.rs).
\* No call of the algorithm crates serves outside service or leaves a part of its output when
\* refused on the way, and a module that fails is not told as bad arguments; the known answers
\* pass before service, under any profile.
CallsAreContained ==
  [][ /\ Asked("calls") => LIB!CallsContained(input'[2])
      /\ Asked("ffi") => FFI!SectionIsContained(input'[2])
      /\ Asked("acvp") \/ Asked("acvp_names") => ACVP!SetIsAnsweredWhole(input'[2]) ]_vars

\* A raw collection annotates exactly the trips of fresh health tests, behind earlier trips
\* too, and the streamed file is the one held in memory would be (raw.rs).
RawTripsAgree == [][ Asked("raw_samples") => RAW!CollectorsAgree(input'[2]) ]_vars

\* Each predictor of oxicrypt-maxwell counts the guesses SP 800-90B describes, up to the caps
\* of its dictionaries (lag.rs, multi_mcw.rs, multi_mmc.rs, lz78y.rs); tuples are counted as
\* often as they occur (lrs.rs); the shuffles of the permutation test are even, its statistics
\* those of its windows and runs, and its verdict no other for being reached early
\* (permutation.rs); no bin of a chi-square test is left out or too small (chi_square.rs).
EstimatesAgree ==
  [][ /\ Asked("guesses") => COUNT!PredictorsAgree(input'[2])
      /\ Asked("symbol_bits") => COUNT!BitsAreExact(input'[2], 4)
      /\ Asked("tuples") => COUNT!TuplesAgree(input'[2])
      /\ Asked("statistics") => COUNT!StatisticsAreExact(input'[2])
      /\ Asked("draws") =>
           COUNT!RangesAreEven(input'[2]) /\ (input'[2] < 5 => COUNT!ShufflesAreEven(input'[2] + 1))
      /\ Asked("verdicts") => COUNT!EarlyExitIsSound(input'[2], Tests)
      /\ Asked("bins") =>
           /\ COUNT!ChiSquareIsWhole(Skewed(input'[2], input'[3]))
           /\ \A n \in {31, 40, 48, 64} : COUNT!TuplesFill(n, input'[2] + 2 * input'[3])
    ]_vars

\* A resumed submission has each environment's newest token and files, and knows of every
\* operation whose outcome is not on record (session.rs).
ReplayIsFaithful == [][ Asked("esv_logs") => ESV!ReplayIsExact(input'[2]) ]_vars
===============================================================================

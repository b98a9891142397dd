------------------------------ MODULE DrbgProofs ------------------------------
(***************************************************************************)
(* Invariance proofs for a DRBG instance, for every mechanism, any reseed  *)
(* interval, any length of a request and any number of entropy inputs.     *)
(*                                                                         *)
(* An operation is a script of passes that a refusal may cut anywhere.     *)
(* What holds when it returns therefore hangs on what its remaining passes *)
(* are still to write: the first part says this of every script there is,  *)
(* and the invariant carries it along while the script is run down.        *)
(***************************************************************************)
EXTENDS Drbg, TLAPS

\* What the code has in the place of the bounds.
Bounds == RESEED_INTERVAL \in Nat \ {0} /\ MaxBlocks \in Nat

-----------------------------------------------------------------------------
(* Scripts.                                                                *)

Passes == SUBSET {"first", "second", "out"}

\* A pass still to come writes the half h.
Writes(s, h) == \E j \in 1..Len(s) : h \in s[j]

\* No pass writes output.
Silent(s) == \A j \in 1..Len(s) : "out" \notin s[j]

\* After each pass that writes output another writes the half h, or this one does when h
\* counts with it.
Followed(s, h, itself) ==
  \A i \in 1..Len(s) : "out" \in s[i] =>
     \E j \in 1..Len(s) : h \in s[j] /\ (j > i \/ (itself /\ j = i))

\* Once all the output is written V or Key, and V, are still to be overwritten.
Seals(s, m) == Followed(s, "first", FALSE) /\ (m # "hash" => Followed(s, "second", TRUE))

\* Where the passes of two scripts run one after the other are.
LEMMA Joined ==
  ASSUME NEW s \in Seq(Passes), NEW t \in Seq(Passes)
  PROVE  /\ s \o t \in Seq(Passes) /\ Len(s \o t) = Len(s) + Len(t)
         /\ Len(s) \in Nat /\ Len(t) \in Nat
         /\ \A j \in 1..Len(s) : (s \o t)[j] = s[j]
         /\ \A j \in 1..Len(t) : (s \o t)[Len(s) + j] = t[j]
         /\ \A j \in 1..Len(s) + Len(t) : j \in 1..Len(s) \/ \E k \in 1..Len(t) : j = Len(s) + k
<1>1. Len(s) \in Nat /\ Len(t) \in Nat
  OBVIOUS
<1>2. \A j \in 1..Len(s) + Len(t) : j \in 1..Len(s) \/ (j - Len(s) \in 1..Len(t) /\ j = Len(s) + (j - Len(s)))
  BY <1>1
<1>3. \A j \in 1..Len(s) + Len(t) : j \in 1..Len(s) \/ \E k \in 1..Len(t) : j = Len(s) + k
  BY <1>2
<1>4. QED
  BY <1>1, <1>3

\* What either of two scripts writes their succession writes.
LEMMA JoinWrites ==
  ASSUME NEW s \in Seq(Passes), NEW t \in Seq(Passes), NEW h, Writes(s, h) \/ Writes(t, h)
  PROVE  Writes(s \o t, h)
<1> DEFINE g == s \o t
<1>1. /\ Len(g) = Len(s) + Len(t) /\ Len(s) \in Nat /\ Len(t) \in Nat
      /\ \A j \in 1..Len(s) : g[j] = s[j]
      /\ \A j \in 1..Len(t) : g[Len(s) + j] = t[j]
  BY Joined
<1> HIDE DEF g
<1>2. CASE Writes(s, h)
  <2>1. PICK j \in 1..Len(s) : h \in s[j]
    BY <1>2 DEF Writes
  <2>2. j \in 1..Len(g) /\ h \in g[j]
    BY <1>1, <2>1
  <2>3. QED
    BY <2>2 DEF Writes, g
<1>3. CASE Writes(t, h)
  <2>1. PICK j \in 1..Len(t) : h \in t[j]
    BY <1>3 DEF Writes
  <2>2. Len(s) + j \in 1..Len(g) /\ h \in g[Len(s) + j]
    BY <1>1, <2>1
  <2>3. QED
    BY <2>2 DEF Writes, g
<1>4. QED
  BY <1>2, <1>3

\* Two scripts that put nothing out put nothing out one after the other.
LEMMA JoinSilent ==
  ASSUME NEW s \in Seq(Passes), NEW t \in Seq(Passes), Silent(s), Silent(t)
  PROVE  Silent(s \o t)
<1> DEFINE g == s \o t
<1>1. /\ Len(g) = Len(s) + Len(t) /\ Len(s) \in Nat /\ Len(t) \in Nat
      /\ \A j \in 1..Len(s) : g[j] = s[j]
      /\ \A j \in 1..Len(t) : g[Len(s) + j] = t[j]
      /\ \A j \in 1..Len(s) + Len(t) : j \in 1..Len(s) \/ \E k \in 1..Len(t) : j = Len(s) + k
  BY Joined
<1> HIDE DEF g
<1>2. ASSUME NEW j \in 1..Len(g) PROVE "out" \notin g[j]
  <2>1. j \in 1..Len(s) \/ \E k \in 1..Len(t) : j = Len(s) + k
    BY <1>1
  <2>2. CASE j \in 1..Len(s)
    BY <1>1, <2>2 DEF Silent
  <2>3. ASSUME NEW k \in 1..Len(t), j = Len(s) + k PROVE "out" \notin g[j]
    <3>1. g[j] = t[k]
      BY <1>1, <2>3
    <3>2. QED
      BY <3>1 DEF Silent
  <2>4. QED
    BY <2>1, <2>2, <2>3
<1>3. QED
  BY <1>2 DEF Silent, g

\* A silent end that writes h comes after every output there is.
LEMMA JoinFollowed ==
  ASSUME NEW s \in Seq(Passes), NEW t \in Seq(Passes), NEW h, NEW itself \in BOOLEAN,
         Silent(t), Writes(t, h)
  PROVE  Followed(s \o t, h, itself)
<1> DEFINE g == s \o t
<1>1. /\ Len(g) = Len(s) + Len(t) /\ Len(s) \in Nat /\ Len(t) \in Nat
      /\ \A j \in 1..Len(s) : g[j] = s[j]
      /\ \A j \in 1..Len(t) : g[Len(s) + j] = t[j]
      /\ \A j \in 1..Len(s) + Len(t) : j \in 1..Len(s) \/ \E k \in 1..Len(t) : j = Len(s) + k
  BY Joined
<1>2. PICK k \in 1..Len(t) : h \in t[k]
  BY DEF Writes
<1> HIDE DEF g
<1>3. Len(s) + k \in 1..Len(g) /\ h \in g[Len(s) + k] /\ \A i \in 1..Len(s) : Len(s) + k > i
  BY <1>1, <1>2
<1>4. ASSUME NEW i \in 1..Len(g), "out" \in g[i] PROVE i \in 1..Len(s)
  <2>1. i \in 1..Len(s) \/ \E n \in 1..Len(t) : i = Len(s) + n
    BY <1>1
  <2>2. ASSUME NEW n \in 1..Len(t), i = Len(s) + n PROVE FALSE
    <3>1. g[i] = t[n]
      BY <1>1, <2>2
    <3>2. QED
      BY <1>4, <3>1 DEF Silent
  <2>3. QED
    BY <2>1, <2>2
<1>5. QED
  BY <1>3, <1>4 DEF Followed, g

\* What follows a pass in a script is still to come when the pass is done.
LEMMA TailOf ==
  ASSUME NEW s \in Seq(Passes), s # <<>>
  PROVE  /\ Head(s) \in Passes /\ Tail(s) \in Seq(Passes)
         /\ \A h : Writes(s, h) => h \in Head(s) \/ Writes(Tail(s), h)
         /\ Silent(s) => "out" \notin Head(s) /\ Silent(Tail(s))
         /\ \A h : \A itself \in BOOLEAN : Followed(s, h, itself) =>
              /\ Followed(Tail(s), h, itself)
              /\ "out" \in Head(s) => Writes(Tail(s), h) \/ (itself /\ h \in Head(s))
<1> DEFINE t == Tail(s)
<1>1. /\ t \in Seq(Passes) /\ Head(s) = s[1] /\ s[1] \in Passes /\ Len(s) \in Nat
      /\ Len(t) = Len(s) - 1 /\ 1 \in 1..Len(s) /\ \A j \in 1..Len(t) : t[j] = s[j + 1]
  OBVIOUS
<1> HIDE DEF t
<1>2. \A j \in 1..Len(s) : j = 1 \/ (j - 1 \in 1..Len(t) /\ t[j - 1] = s[j])
  BY <1>1
<1>3. \A j \in 1..Len(t) : j + 1 \in 1..Len(s)
  BY <1>1
<1>4. \A h : Writes(s, h) => h \in Head(s) \/ Writes(t, h)
  BY <1>1, <1>2 DEF Writes
<1>5. Silent(s) => "out" \notin Head(s) /\ Silent(t)
  BY <1>1, <1>3 DEF Silent
<1>6. ASSUME NEW h, NEW itself \in BOOLEAN, Followed(s, h, itself)
      PROVE  /\ Followed(t, h, itself)
             /\ "out" \in Head(s) => Writes(t, h) \/ (itself /\ h \in Head(s))
  <2>1. ASSUME NEW i \in 1..Len(t), "out" \in t[i]
        PROVE  \E j \in 1..Len(t) : h \in t[j] /\ (j > i \/ (itself /\ j = i))
    <3>1. i + 1 \in 1..Len(s) /\ "out" \in s[i + 1]
      BY <1>1, <1>3, <2>1
    <3>2. PICK k \in 1..Len(s) : h \in s[k] /\ (k > i + 1 \/ (itself /\ k = i + 1))
      BY <1>6, <3>1 DEF Followed
    <3>3. k - 1 \in 1..Len(t) /\ h \in t[k - 1] /\ (k - 1 > i \/ (itself /\ k - 1 = i))
      BY <1>1, <1>2, <3>2
    <3>4. QED
      BY <3>3
  <2>2. ASSUME "out" \in Head(s) PROVE Writes(t, h) \/ (itself /\ h \in Head(s))
    <3>1. PICK k \in 1..Len(s) : h \in s[k] /\ (k > 1 \/ (itself /\ k = 1))
      BY <1>1, <1>6, <2>2 DEF Followed
    <3>2. CASE k = 1
      BY <1>1, <3>1, <3>2
    <3>3. CASE k # 1
      <4>1. k - 1 \in 1..Len(t) /\ h \in t[k - 1]
        BY <1>2, <3>1, <3>3
      <4>2. QED
        BY <4>1 DEF Writes
    <3>4. QED
      BY <3>2, <3>3
  <2>3. QED
    BY <2>1, <2>2 DEF Followed
<1>7. QED
  BY <1>1, <1>4, <1>5, <1>6 DEF t

\* Short scripts, written out.
LEMMA Literals ==
  /\ <<>> \in Seq(Passes) /\ Silent(<<>>)
  /\ \A p \in Passes : /\ <<p>> \in Seq(Passes)
                       /\ \A h : h \in p => Writes(<<p>>, h)
                       /\ "out" \notin p => Silent(<<p>>)
  /\ \A p, q \in Passes : /\ <<p, q>> \in Seq(Passes)
                          /\ \A h : h \in p \cup q => Writes(<<p, q>>, h)
                          /\ "out" \notin p \cup q => Silent(<<p, q>>)
  /\ \A p, q, r, s \in Passes : /\ <<p, q, r, s>> \in Seq(Passes)
                                /\ \A h : h \in p \cup q => Writes(<<p, q, r, s>>, h)
                                /\ "out" \notin (p \cup q) \cup (r \cup s) => Silent(<<p, q, r, s>>)
<1>1. <<>> \in Seq(Passes) /\ Silent(<<>>)
  BY DEF Silent
<1>2. ASSUME NEW p \in Passes
      PROVE  /\ <<p>> \in Seq(Passes) /\ \A h : h \in p => Writes(<<p>>, h)
             /\ "out" \notin p => Silent(<<p>>)
  <2>1. Len(<<p>>) = 1 /\ <<p>>[1] = p /\ <<p>> \in Seq(Passes) /\ \A j \in 1..1 : j = 1
    OBVIOUS
  <2>2. QED
    BY <2>1 DEF Writes, Silent
<1>3. ASSUME NEW p \in Passes, NEW q \in Passes
      PROVE  /\ <<p, q>> \in Seq(Passes) /\ \A h : h \in p \cup q => Writes(<<p, q>>, h)
             /\ "out" \notin p \cup q => Silent(<<p, q>>)
  <2>1. /\ Len(<<p, q>>) = 2 /\ <<p, q>>[1] = p /\ <<p, q>>[2] = q /\ <<p, q>> \in Seq(Passes)
        /\ \A j : j \in 1..2 <=> j = 1 \/ j = 2
    OBVIOUS
  <2>2. QED
    BY <2>1 DEF Writes, Silent
<1>4. ASSUME NEW p \in Passes, NEW q \in Passes, NEW r \in Passes, NEW s \in Passes
      PROVE  /\ <<p, q, r, s>> \in Seq(Passes)
             /\ \A h : h \in p \cup q => Writes(<<p, q, r, s>>, h)
             /\ "out" \notin (p \cup q) \cup (r \cup s) => Silent(<<p, q, r, s>>)
  <2>1. /\ Len(<<p, q, r, s>>) = 4 /\ <<p, q, r, s>>[1] = p /\ <<p, q, r, s>>[2] = q
        /\ <<p, q, r, s>>[3] = r /\ <<p, q, r, s>>[4] = s /\ <<p, q, r, s>> \in Seq(Passes)
        /\ \A j : j \in 1..4 <=> j = 1 \/ j = 2 \/ j = 3 \/ j = 4
    OBVIOUS
  <2>2. QED
    BY <2>1 DEF Writes, Silent
<1>5. QED
  BY <1>1, <1>2, <1>3, <1>4

\* The passes the scripts are made of, and the halves they write.
LEMMA Halves ==
  /\ Guard \in Passes /\ Both \in Passes /\ First \in Passes /\ Second \in Passes
  /\ "out" \notin Guard /\ "out" \notin Both /\ "out" \notin First /\ "out" \notin Second
  /\ "first" \in Both /\ "second" \in Both /\ "first" \in First /\ "second" \in Second
  /\ {"out"} \in Passes /\ (Second \cup {"out"}) \in Passes
BY DEF Guard, Both, First, Second, Passes

\* Each mechanism's seeding writes both halves, and no output.
LEMMA SeedingWrites ==
  /\ Seeding \in Seq(Passes) /\ Silent(Seeding)
  /\ Writes(Seeding, "first") /\ Writes(Seeding, "second")
<1>1. /\ CtrSeeding \in Seq(Passes) /\ Silent(CtrSeeding)
      /\ Writes(CtrSeeding, "first") /\ Writes(CtrSeeding, "second")
  <2>1. CtrUpdate \in Seq(Passes) /\ Silent(CtrUpdate) /\ Writes(CtrUpdate, "first") /\ Writes(CtrUpdate, "second")
    BY Literals, Halves DEF CtrUpdate
  <2>2. BlockCipherDf \in Seq(Passes) /\ Silent(BlockCipherDf)
    BY Literals, Halves DEF BlockCipherDf
  <2>3. QED
    BY <2>1, <2>2, Joined, JoinSilent, JoinWrites DEF CtrSeeding
<1>2. /\ HashSeeding \in Seq(Passes) /\ Silent(HashSeeding)
      /\ Writes(HashSeeding, "first") /\ Writes(HashSeeding, "second")
  <2>1. HashDf(First) \in Seq(Passes) /\ Silent(HashDf(First)) /\ Writes(HashDf(First), "first")
    BY Literals, Halves DEF HashDf
  <2>2. HashDf(Second) \in Seq(Passes) /\ Silent(HashDf(Second)) /\ Writes(HashDf(Second), "second")
    BY Literals, Halves DEF HashDf
  <2>3. QED
    BY <2>1, <2>2, Joined, JoinSilent, JoinWrites DEF HashSeeding
<1>3. /\ HmacSeeding \in Seq(Passes) /\ Silent(HmacSeeding)
      /\ Writes(HmacSeeding, "first") /\ Writes(HmacSeeding, "second")
  BY Literals, Halves DEF HmacSeeding, HmacUpdate
<1>4. QED
  BY <1>1, <1>2, <1>3 DEF Seeding

\* update of HMAC_DRBG writes K and V, with provided data or without it.
LEMMA HmacUpdates ==
  ASSUME NEW provided \in BOOLEAN
  PROVE  /\ HmacUpdate(provided) \in Seq(Passes) /\ Silent(HmacUpdate(provided))
         /\ Writes(HmacUpdate(provided), "first") /\ Writes(HmacUpdate(provided), "second")
BY Literals, Halves DEF HmacUpdate

\* Each mechanism's generation ends by overwriting what its output came from.
LEMMA GenerationSeals ==
  ASSUME NEW n \in Nat, NEW additional \in BOOLEAN
  PROVE  Generation(n, additional) \in Seq(Passes) /\ Seals(Generation(n, additional), mech)
<1>1. CASE mech = "hash"
  <2> DEFINE a == IF additional THEN <<First>> ELSE <<>>
  <2>1. a \in Seq(Passes) /\ <<First>> \in Seq(Passes) /\ Silent(<<First>>) /\ Writes(<<First>>, "first")
    BY Literals, Halves
  <2>2. Hashgen(n) \in Seq(Passes)
    BY Halves DEF Hashgen
  <2>3. (a \o Hashgen(n)) \o <<First>> = HashGeneration(n, additional)
    BY DEF HashGeneration
  <2> HIDE DEF a
  <2>4. a \o Hashgen(n) \in Seq(Passes)
    BY <2>1, <2>2, Joined
  <2>5. HashGeneration(n, additional) \in Seq(Passes) /\ Followed(HashGeneration(n, additional), "first", FALSE)
    BY <2>1, <2>3, <2>4, Joined, JoinFollowed
  <2>6. QED
    BY <1>1, <2>5 DEF Generation, Seals
<1>2. CASE mech = "hmac"
  <2> DEFINE a == IF additional THEN HmacUpdate(TRUE) ELSE <<>>
  <2> DEFINE b == [i \in 1..n |-> Second \cup {"out"}]
  <2> DEFINE c == HmacUpdate(additional)
  <2>1. a \in Seq(Passes)
    BY Literals, HmacUpdates
  <2>2. b \in Seq(Passes)
    BY Halves
  <2>3. c \in Seq(Passes) /\ Silent(c) /\ Writes(c, "first") /\ Writes(c, "second")
    BY HmacUpdates
  <2>4. (a \o b) \o c = HmacGeneration(n, additional)
    BY DEF HmacGeneration
  <2> HIDE DEF a, b, c
  <2>5. a \o b \in Seq(Passes)
    BY <2>1, <2>2, Joined
  <2>6. HmacGeneration(n, additional) \in Seq(Passes) /\ Followed(HmacGeneration(n, additional), "first", FALSE)
        /\ Followed(HmacGeneration(n, additional), "second", TRUE)
    BY <2>3, <2>4, <2>5, Joined, JoinFollowed
  <2>7. QED
    BY <1>2, <2>6 DEF Generation, Seals
<1>3. CASE mech # "hash" /\ mech # "hmac"
  <2> DEFINE a == IF additional THEN CtrSeeding ELSE <<>>
  <2> DEFINE b == GenerateBlocks(n)
  <2>1. CtrUpdate \in Seq(Passes) /\ Silent(CtrUpdate) /\ Writes(CtrUpdate, "first") /\ Writes(CtrUpdate, "second")
    BY Literals, Halves DEF CtrUpdate
  <2>2. a \in Seq(Passes)
    BY <1>3, SeedingWrites, Literals DEF Seeding
  <2>3. b \in Seq(Passes)
    BY Literals, Halves DEF GenerateBlocks
  <2>4. (a \o b) \o CtrUpdate = CtrGeneration(n, additional)
    BY DEF CtrGeneration
  <2> HIDE DEF a, b
  <2>5. a \o b \in Seq(Passes)
    BY <2>2, <2>3, Joined
  <2>6. CtrGeneration(n, additional) \in Seq(Passes) /\ Followed(CtrGeneration(n, additional), "first", FALSE)
        /\ Followed(CtrGeneration(n, additional), "second", TRUE)
    BY <2>1, <2>4, <2>5, Joined, JoinFollowed
  <2>7. QED
    BY <1>3, <2>6 DEF Generation, Seals
<1>4. QED
  BY <1>1, <1>2, <1>3

-----------------------------------------------------------------------------
(* The inductive invariant, in parts.                                      *)

Phases == {"PowerOff", "SelfTest", "IntegrityUnverified", "Operational", "Error"}

NumberInv ==
  /\ moduleState \in Phases
  /\ first \in Nat /\ second \in Nat /\ counter \in Nat /\ instantiated \in BOOLEAN
  /\ clock \in Nat /\ born \in Nat /\ served \in Nat
  /\ first <= clock /\ second <= clock /\ born <= clock

Calls == [op : {"none", "instantiate", "reseed", "generate"}, blocks : Nat,
          since : Nat, pr : BOOLEAN]

ScriptInv == call \in Calls /\ call.since <= clock /\ todo \in Seq(Passes)

Blocks == Nat \X Nat \X Nat

TypeInv == NumberInv /\ ScriptInv /\ output \in Seq(Blocks)

\* What an operation in progress has to do with the rest of the instance: only an instantiate
\* runs on an instance that is not instantiated, and only a generate has output.
CallInv ==
  /\ call.op = "none" => call = NoCall /\ todo = <<>>
  /\ call.op # "none" => answer = "none"
  /\ call.op = "instantiate" => ~instantiated /\ ~call.pr
  /\ call.op \in {"reseed", "generate"} => instantiated
  /\ call.op \in {"instantiate", "reseed"} => output = <<>> /\ Silent(todo)
  /\ call.op = "none" /\ answer \in Errors => output = <<>>

\* Halves other than those an operation left were written under a guard that was open, and it
\* closes for good: an application's opened with the module, a test runs before it does.
BoundaryInv ==
  /\ client = "application" /\ (instantiated \/ call.op # "none") =>
       moduleState \in {"Operational", "Error"}
  /\ <<first, second>> # settled =>
       /\ call.op # "none" => moduleState \in {"SelfTest", "Operational", "Error"}
       /\ call.op = "none" /\ instantiated => moduleState = "Error"

\* reseed_counter is one ahead of the requests served, unless the health test has moved it.
CounterInv ==
  /\ served <= RESEED_INTERVAL
  /\ instantiated =>
       counter = served + 1 \/ (client = "health" /\ counter = RESEED_INTERVAL + 1)
  /\ call.op = "generate" => counter <= RESEED_INTERVAL
  /\ answer = "ReseedRequired" /\ client # "health" => served = RESEED_INTERVAL

\* The stamp of the seed the call's output is to come from.
Seed == IF call.pr THEN call.since ELSE born

\* A seeding makes both halves newer than it is, at the latest when its passes are done.
SeedInv ==
  /\ instantiated => first > born /\ second > born
  /\ call.op = "instantiate" \/ (call.op = "reseed" /\ call.pr) =>
       /\ first > Seed \/ Writes(todo, "first")
       /\ second > Seed \/ Writes(todo, "second")
  /\ call.op = "generate" => first > Seed /\ second > Seed

\* A block comes from halves that are newer than the seed, and older than those the call
\* leaves when its passes are done.
Fresh(b) == b[1] > Seed /\ (mech # "hash" => b[2] > Seed)

Gone(b) ==
  /\ first > b[1] \/ Writes(todo, "first")
  /\ mech # "hash" => second > b[2] \/ Writes(todo, "second")

OutputInv ==
  call.op = "generate" =>
    /\ Seals(todo, mech)
    /\ \A i \in 1..Len(output) :
         output[i][1] <= clock /\ output[i][2] <= clock /\ Fresh(output[i]) /\ Gone(output[i])

IInv == TypeInv /\ CallInv /\ BoundaryInv /\ CounterInv /\ SeedInv /\ OutputInv

-----------------------------------------------------------------------------

\* What an operation in progress has to do with the instance holds over every step.
LEMMA CallStep ==
  ASSUME Bounds, IInv, [DrbgNext]_drbgVars
  PROVE  CallInv'
<1> USE DEF Bounds, boundaryVars, envVars, stateVars, historyVars, instanceVars, drbgVars
<1>1. ASSUME NEW s \in Seeds, Instantiate(s) PROVE CallInv'
  <2>1. CASE InstantiateCheck(s) = "ok"
    <3>1. /\ call'.op = "instantiate" /\ ~call'.pr /\ answer' = "none" /\ output' = <<>>
          /\ todo' = Seeding /\ ~instantiated'
      BY <1>1, <2>1 DEF Instantiate, MayCall, Begin, Zeroize
    <3>2. Silent(todo')
      BY <3>1, SeedingWrites
    <3>3. QED
      BY <3>1, <3>2 DEF CallInv
  <2>2. CASE InstantiateCheck(s) # "ok"
    BY <1>1, <2>2 DEF Instantiate, MayCall, ReturnEarly, NoCall, IInv, CallInv
  <2>3. QED
    BY <2>1, <2>2
<1>2. ASSUME NEW s \in Seeds, Reseed(s) PROVE CallInv'
  BY <1>2, SeedingWrites
    DEF Reseed, MayCall, Begin, ReturnEarly, NoCall, IInv, TypeInv, NumberInv, ScriptInv, Calls,
        CallInv, ReseedCheck, Errors
<1>3. ASSUME NEW s \in Seeds, NEW n \in Requests, GeneratePr(s, n) PROVE CallInv'
  BY <1>3, SeedingWrites
    DEF GeneratePr, MayCall, Begin, ReturnEarly, NoCall, IInv, TypeInv, NumberInv, ScriptInv, Calls,
        CallInv, ReseedCheck, Errors
<1>4. ASSUME NEW n \in Requests, NEW i \in Inputs, Generate(n, i) PROVE CallInv'
  BY <1>4
    DEF Generate, MayCall, Begin, ReturnEarly, NoCall, IInv, TypeInv, NumberInv, ScriptInv, Calls,
        CallInv, GenerateCheck, Errors
<1>5. ASSUME RefuseInstantiate PROVE CallInv'
  BY <1>5
    DEF RefuseInstantiate, MayCall, ReturnEarly, NoCall, IInv, TypeInv, NumberInv, ScriptInv, Calls,
        CallInv
<1>6. ASSUME Uninstantiate PROVE CallInv'
  BY <1>6
    DEF Uninstantiate, MayCall, ReturnEarly, Zeroize, NoCall, IInv, TypeInv, NumberInv, ScriptInv,
        Calls, CallInv, Errors
<1>7. ASSUME ForceReseedCeiling PROVE CallInv'
  BY <1>7
    DEF ForceReseedCeiling, MayCall, ReturnEarly, NoCall, IInv, TypeInv, NumberInv, ScriptInv, Calls,
        CallInv
<1>8. ASSUME Pass PROVE CallInv'
  BY <1>8, TailOf DEF Pass, IInv, TypeInv, NumberInv, ScriptInv, Calls, CallInv
<1>9. ASSUME RefusePass PROVE CallInv'
  BY <1>9 DEF RefusePass, NoCall, IInv, TypeInv, NumberInv, ScriptInv, Calls, CallInv
<1>10. ASSUME FinishInstantiate PROVE CallInv'
  BY <1>10
    DEF FinishInstantiate, Finished, NoCall, IInv, TypeInv, NumberInv, ScriptInv, Calls, CallInv,
        Errors
<1>11. ASSUME FinishReseed PROVE CallInv'
  BY <1>11 DEF FinishReseed, Finished, NoCall, IInv, TypeInv, NumberInv, ScriptInv, Calls, CallInv
<1>12. ASSUME ContinuePr PROVE CallInv'
  <2>1. /\ call.op = "reseed" /\ instantiated' /\ answer = "none" /\ output' = <<>> /\ todo = <<>>
    BY <1>12 DEF ContinuePr, Finished, IInv, CallInv
  <2>2. CASE GenerateCheck(1, call.blocks, "none") = "ok"
    <3>1. call'.op = "generate" /\ answer' = "none"
      BY <1>12, <2>1, <2>2 DEF ContinuePr, IInv, TypeInv, ScriptInv, Calls
    <3>2. QED
      BY <2>1, <3>1 DEF CallInv
  <2>3. CASE GenerateCheck(1, call.blocks, "none") # "ok"
    <3>1. call' = NoCall /\ todo' = <<>>
      BY <1>12, <2>1, <2>3 DEF ContinuePr
    <3>2. QED
      BY <2>1, <3>1 DEF CallInv, NoCall
  <2>4. QED
    BY <2>2, <2>3
<1>13. ASSUME FinishGenerate PROVE CallInv'
  BY <1>13
    DEF FinishGenerate, Finished, NoCall, IInv, TypeInv, NumberInv, ScriptInv, Calls, CallInv,
        Errors
<1>14. ASSUME Boot PROVE CallInv'
  BY <1>14 DEF Boot, ModuleBoundary!Start, IInv, TypeInv, NumberInv, ScriptInv, Calls, CallInv
<1>15. ASSUME LeaveBoot PROVE CallInv'
  BY <1>15
    DEF LeaveBoot, ModuleBoundary!Open, ModuleBoundary!Decline, IInv, TypeInv, NumberInv, ScriptInv, Calls,
        CallInv
<1>16. ASSUME Latch PROVE CallInv'
  BY <1>16 DEF Latch, ModuleBoundary!Latch, IInv, TypeInv, NumberInv, ScriptInv, Calls, CallInv
<1>17. ASSUME JudgeHealth PROVE CallInv'
  BY <1>17
    DEF JudgeHealth, ModuleBoundary!Latch, IInv, TypeInv, NumberInv, ScriptInv, Calls, CallInv, Errors
<1>18. CASE UNCHANGED drbgVars
  BY <1>18 DEF IInv, TypeInv, NumberInv, ScriptInv, Calls, CallInv
<1>19. QED
  BY <1>1, <1>2, <1>3, <1>4, <1>5, <1>6, <1>7, <1>8, <1>9, <1>10, <1>11, <1>12, <1>13, <1>14,
     <1>15, <1>16, <1>17, <1>18 DEF DrbgNext

\* So does which guard halves were written under, that no operation has settled.
LEMMA BoundaryStep ==
  ASSUME Bounds, IInv, [DrbgNext]_drbgVars
  PROVE  BoundaryInv'
<1> USE DEF Bounds, boundaryVars, envVars, stateVars, historyVars, instanceVars, drbgVars
<1>1. ASSUME NEW s \in Seeds, Instantiate(s) PROVE BoundaryInv'
  BY <1>1
    DEF Instantiate, MayCall, Begin, ReturnEarly, Zeroize, NoCall, IInv, TypeInv, NumberInv,
        ScriptInv, Calls, CallInv, BoundaryInv, Phases, Gate
<1>2. ASSUME NEW s \in Seeds, Reseed(s) PROVE BoundaryInv'
  BY <1>2
    DEF Reseed, MayCall, Begin, ReturnEarly, NoCall, IInv, TypeInv, NumberInv, ScriptInv, Calls,
        CallInv, BoundaryInv, Phases, ReseedCheck
<1>3. ASSUME NEW s \in Seeds, NEW n \in Requests, GeneratePr(s, n) PROVE BoundaryInv'
  BY <1>3
    DEF GeneratePr, MayCall, Begin, ReturnEarly, NoCall, IInv, TypeInv, NumberInv, ScriptInv, Calls,
        CallInv, BoundaryInv, Phases, ReseedCheck
<1>4. ASSUME NEW n \in Requests, NEW i \in Inputs, Generate(n, i) PROVE BoundaryInv'
  BY <1>4
    DEF Generate, MayCall, Begin, ReturnEarly, NoCall, IInv, TypeInv, NumberInv, ScriptInv, Calls,
        CallInv, BoundaryInv, Phases, GenerateCheck
<1>5. ASSUME RefuseInstantiate PROVE BoundaryInv'
  BY <1>5
    DEF RefuseInstantiate, MayCall, ReturnEarly, NoCall, IInv, TypeInv, NumberInv, ScriptInv, Calls,
        CallInv, BoundaryInv, Phases
<1>6. ASSUME Uninstantiate PROVE BoundaryInv'
  BY <1>6
    DEF Uninstantiate, MayCall, ReturnEarly, Zeroize, NoCall, IInv, TypeInv, NumberInv, ScriptInv,
        Calls, CallInv, BoundaryInv, Phases
<1>7. ASSUME ForceReseedCeiling PROVE BoundaryInv'
  BY <1>7
    DEF ForceReseedCeiling, MayCall, ReturnEarly, NoCall, IInv, TypeInv, NumberInv, ScriptInv, Calls,
        CallInv, BoundaryInv, Phases
<1>8. ASSUME Pass PROVE BoundaryInv'
  BY <1>8 DEF Pass, IInv, TypeInv, NumberInv, ScriptInv, Calls, CallInv, BoundaryInv, Phases, GuardAdmits
<1>9. ASSUME RefusePass PROVE BoundaryInv'
  BY <1>9
    DEF RefusePass, NoCall, IInv, TypeInv, NumberInv, ScriptInv, Calls, CallInv, BoundaryInv,
        Phases, GuardAdmits
<1>10. ASSUME FinishInstantiate PROVE BoundaryInv'
  BY <1>10
    DEF FinishInstantiate, Finished, NoCall, IInv, TypeInv, NumberInv, ScriptInv, Calls, CallInv,
        BoundaryInv, Phases
<1>11. ASSUME FinishReseed PROVE BoundaryInv'
  BY <1>11
    DEF FinishReseed, Finished, NoCall, IInv, TypeInv, NumberInv, ScriptInv, Calls, CallInv,
        BoundaryInv, Phases
<1>12. ASSUME ContinuePr PROVE BoundaryInv'
  BY <1>12
    DEF ContinuePr, Finished, NoCall, IInv, TypeInv, NumberInv, ScriptInv, Calls, CallInv,
        BoundaryInv, Phases
<1>13. ASSUME FinishGenerate PROVE BoundaryInv'
  BY <1>13
    DEF FinishGenerate, Finished, NoCall, IInv, TypeInv, NumberInv, ScriptInv, Calls, CallInv,
        BoundaryInv, Phases
<1>14. ASSUME Boot PROVE BoundaryInv'
  BY <1>14
    DEF Boot, ModuleBoundary!Start, IInv, TypeInv, NumberInv, ScriptInv, Calls, CallInv, BoundaryInv,
        Phases
<1>15. ASSUME LeaveBoot PROVE BoundaryInv'
  BY <1>15
    DEF LeaveBoot, ModuleBoundary!Open, ModuleBoundary!Decline, IInv, TypeInv, NumberInv, ScriptInv, Calls,
        CallInv, BoundaryInv, Phases, NoCall
<1>16. ASSUME Latch PROVE BoundaryInv'
  BY <1>16
    DEF Latch, ModuleBoundary!Latch, IInv, TypeInv, NumberInv, ScriptInv, Calls, CallInv, BoundaryInv,
        Phases
<1>17. ASSUME JudgeHealth PROVE BoundaryInv'
  BY <1>17
    DEF JudgeHealth, ModuleBoundary!Latch, IInv, TypeInv, NumberInv, ScriptInv, Calls, CallInv,
        BoundaryInv, Phases
<1>18. CASE UNCHANGED drbgVars
  BY <1>18 DEF IInv, TypeInv, NumberInv, ScriptInv, Calls, CallInv, BoundaryInv, Phases
<1>19. QED
  BY <1>1, <1>2, <1>3, <1>4, <1>5, <1>6, <1>7, <1>8, <1>9, <1>10, <1>11, <1>12, <1>13, <1>14,
     <1>15, <1>16, <1>17, <1>18 DEF DrbgNext

\* So does the count: only a (re)seed restarts it and only a completed generate adds to it.
LEMMA CounterStep ==
  ASSUME Bounds, IInv, [DrbgNext]_drbgVars
  PROVE  CounterInv'
<1> USE DEF Bounds, boundaryVars, envVars, stateVars, historyVars, instanceVars, drbgVars
<1>1. ASSUME NEW s \in Seeds, Instantiate(s) PROVE CounterInv'
  BY <1>1
    DEF Instantiate, MayCall, Begin, ReturnEarly, Zeroize, NoCall, IInv, TypeInv, NumberInv,
        ScriptInv, Calls, CallInv, CounterInv, InstantiateCheck
<1>2. ASSUME NEW s \in Seeds, Reseed(s) PROVE CounterInv'
  BY <1>2
    DEF Reseed, MayCall, Begin, ReturnEarly, NoCall, IInv, TypeInv, NumberInv, ScriptInv, Calls,
        CallInv, CounterInv, ReseedCheck
<1>3. ASSUME NEW s \in Seeds, NEW n \in Requests, GeneratePr(s, n) PROVE CounterInv'
  BY <1>3
    DEF GeneratePr, MayCall, Begin, ReturnEarly, NoCall, IInv, TypeInv, NumberInv, ScriptInv, Calls,
        CallInv, CounterInv, ReseedCheck
<1>4. ASSUME NEW n \in Requests, NEW i \in Inputs, Generate(n, i) PROVE CounterInv'
  BY <1>4
    DEF Generate, MayCall, Begin, ReturnEarly, NoCall, IInv, TypeInv, NumberInv, ScriptInv, Calls,
        CallInv, CounterInv, GenerateCheck
<1>5. ASSUME RefuseInstantiate PROVE CounterInv'
  BY <1>5
    DEF RefuseInstantiate, MayCall, ReturnEarly, NoCall, IInv, TypeInv, NumberInv, ScriptInv, Calls,
        CallInv, CounterInv, Gate
<1>6. ASSUME Uninstantiate PROVE CounterInv'
  BY <1>6
    DEF Uninstantiate, MayCall, ReturnEarly, Zeroize, NoCall, IInv, TypeInv, NumberInv, ScriptInv,
        Calls, CallInv, CounterInv
<1>7. ASSUME ForceReseedCeiling PROVE CounterInv'
  BY <1>7
    DEF ForceReseedCeiling, MayCall, ReturnEarly, NoCall, IInv, TypeInv, NumberInv, ScriptInv, Calls,
        CallInv, CounterInv
<1>8. ASSUME Pass PROVE CounterInv'
  BY <1>8 DEF Pass, IInv, TypeInv, NumberInv, ScriptInv, Calls, CallInv, CounterInv
<1>9. ASSUME RefusePass PROVE CounterInv'
  BY <1>9 DEF RefusePass, NoCall, IInv, TypeInv, NumberInv, ScriptInv, Calls, CallInv, CounterInv
<1>10. ASSUME FinishInstantiate PROVE CounterInv'
  BY <1>10
    DEF FinishInstantiate, Finished, NoCall, IInv, TypeInv, NumberInv, ScriptInv, Calls, CallInv,
        CounterInv
<1>11. ASSUME FinishReseed PROVE CounterInv'
  BY <1>11
    DEF FinishReseed, Finished, NoCall, IInv, TypeInv, NumberInv, ScriptInv, Calls, CallInv,
        CounterInv
<1>12. ASSUME ContinuePr PROVE CounterInv'
  <2>1. call.op = "reseed" /\ answer = "none" /\ counter' = 1 /\ served' = 0
    BY <1>12 DEF ContinuePr, Finished, IInv, CallInv
  <2>2. ~(1 > RESEED_INTERVAL)
    OBVIOUS
  <2>3. GenerateCheck(1, call.blocks, "none") # "ReseedRequired"
    BY <2>2 DEF GenerateCheck
  <2>4. answer' = answer \/ answer' = GenerateCheck(1, call.blocks, "none")
    BY <1>12 DEF ContinuePr
  <2>5. QED
    BY <2>1, <2>3, <2>4 DEF CounterInv
<1>13. ASSUME FinishGenerate PROVE CounterInv'
  BY <1>13
    DEF FinishGenerate, Finished, NoCall, IInv, TypeInv, NumberInv, ScriptInv, Calls, CallInv,
        CounterInv
<1>14. ASSUME Boot PROVE CounterInv'
  BY <1>14 DEF Boot, ModuleBoundary!Start, IInv, TypeInv, NumberInv, ScriptInv, Calls, CallInv, CounterInv
<1>15. ASSUME LeaveBoot PROVE CounterInv'
  BY <1>15
    DEF LeaveBoot, ModuleBoundary!Open, ModuleBoundary!Decline, IInv, TypeInv, NumberInv, ScriptInv, Calls,
        CallInv, CounterInv
<1>16. ASSUME Latch PROVE CounterInv'
  BY <1>16
    DEF Latch, ModuleBoundary!Latch, IInv, TypeInv, NumberInv, ScriptInv, Calls, CallInv, CounterInv
<1>17. ASSUME JudgeHealth PROVE CounterInv'
  BY <1>17
    DEF JudgeHealth, ModuleBoundary!Latch, IInv, TypeInv, NumberInv, ScriptInv, Calls, CallInv, CounterInv
<1>18. CASE UNCHANGED drbgVars
  BY <1>18 DEF IInv, TypeInv, NumberInv, ScriptInv, Calls, CallInv, CounterInv
<1>19. QED
  BY <1>1, <1>2, <1>3, <1>4, <1>5, <1>6, <1>7, <1>8, <1>9, <1>10, <1>11, <1>12, <1>13, <1>14,
     <1>15, <1>16, <1>17, <1>18 DEF DrbgNext

\* The stamps and the counts keep their types, and no half is newer than the clock.
LEMMA NumberStep ==
  ASSUME Bounds, IInv, [DrbgNext]_drbgVars
  PROVE  NumberInv'
<1> USE DEF Bounds, boundaryVars, envVars, stateVars, historyVars, instanceVars, drbgVars
<1>1. ASSUME NEW s \in Seeds, Instantiate(s) PROVE NumberInv'
  <2>1. /\ first' = 0 /\ second' = 0 /\ counter' = 0 /\ instantiated' = FALSE
        /\ clock' = clock /\ (born' = born \/ born' = clock) /\ UNCHANGED <<served, moduleState>>
    BY <1>1 DEF Instantiate, Zeroize, Begin, ReturnEarly
  <2>2. clock \in Nat /\ born \in Nat /\ born <= clock /\ served \in Nat /\ moduleState \in Phases
    BY DEF IInv, TypeInv, NumberInv
  <2>3. /\ first' \in Nat /\ second' \in Nat /\ counter' \in Nat /\ first' <= clock' /\ second' <= clock'
    BY <2>1, <2>2
  <2>4. clock' \in Nat /\ born' \in Nat /\ born' <= clock' /\ served' \in Nat /\ moduleState' \in Phases
    BY <2>1, <2>2
  <2>5. instantiated' \in BOOLEAN
    BY <2>1
  <2>6. QED
    BY <2>3, <2>4, <2>5 DEF NumberInv
<1>2. ASSUME NEW s \in Seeds, Reseed(s) PROVE NumberInv'
  BY <1>2 DEF Reseed, MayCall, Begin, ReturnEarly, NoCall, IInv, TypeInv, NumberInv, CallInv
<1>3. ASSUME NEW s \in Seeds, NEW n \in Requests, GeneratePr(s, n) PROVE NumberInv'
  BY <1>3 DEF GeneratePr, MayCall, Begin, ReturnEarly, NoCall, IInv, TypeInv, NumberInv, CallInv
<1>4. ASSUME NEW n \in Requests, NEW i \in Inputs, Generate(n, i) PROVE NumberInv'
  BY <1>4 DEF Generate, MayCall, Begin, ReturnEarly, NoCall, IInv, TypeInv, NumberInv, CallInv
<1>5. ASSUME RefuseInstantiate PROVE NumberInv'
  BY <1>5 DEF RefuseInstantiate, MayCall, ReturnEarly, NoCall, IInv, TypeInv, NumberInv, CallInv
<1>6. ASSUME Uninstantiate PROVE NumberInv'
  <2>1. /\ first' = 0 /\ second' = 0 /\ counter' = 0 /\ instantiated' = FALSE
        /\ clock' = clock /\ (born' = born \/ born' = clock) /\ UNCHANGED <<served, moduleState>>
    BY <1>6 DEF Uninstantiate, Zeroize, Begin, ReturnEarly
  <2>2. clock \in Nat /\ born \in Nat /\ born <= clock /\ served \in Nat /\ moduleState \in Phases
    BY DEF IInv, TypeInv, NumberInv
  <2>3. /\ first' \in Nat /\ second' \in Nat /\ counter' \in Nat /\ first' <= clock' /\ second' <= clock'
    BY <2>1, <2>2
  <2>4. clock' \in Nat /\ born' \in Nat /\ born' <= clock' /\ served' \in Nat /\ moduleState' \in Phases
    BY <2>1, <2>2
  <2>5. instantiated' \in BOOLEAN
    BY <2>1
  <2>6. QED
    BY <2>3, <2>4, <2>5 DEF NumberInv
<1>7. ASSUME ForceReseedCeiling PROVE NumberInv'
  BY <1>7 DEF ForceReseedCeiling, MayCall, ReturnEarly, NoCall, IInv, TypeInv, NumberInv, CallInv
<1>8. ASSUME Pass PROVE NumberInv'
  BY <1>8 DEF Pass, IInv, TypeInv, NumberInv, CallInv
<1>9. ASSUME RefusePass PROVE NumberInv'
  BY <1>9 DEF RefusePass, NoCall, IInv, TypeInv, NumberInv, CallInv
<1>10. ASSUME FinishInstantiate PROVE NumberInv'
  BY <1>10 DEF FinishInstantiate, Finished, NoCall, IInv, TypeInv, NumberInv, CallInv
<1>11. ASSUME FinishReseed PROVE NumberInv'
  BY <1>11 DEF FinishReseed, Finished, NoCall, IInv, TypeInv, NumberInv, CallInv
<1>12. ASSUME ContinuePr PROVE NumberInv'
  BY <1>12 DEF ContinuePr, Finished, NoCall, IInv, TypeInv, NumberInv, CallInv
<1>13. ASSUME FinishGenerate PROVE NumberInv'
  BY <1>13 DEF FinishGenerate, Finished, NoCall, IInv, TypeInv, NumberInv, CallInv
<1>14. ASSUME Boot PROVE NumberInv'
  BY <1>14 DEF Boot, ModuleBoundary!Start, IInv, TypeInv, NumberInv, CallInv, Phases
<1>15. ASSUME LeaveBoot PROVE NumberInv'
  BY <1>15 DEF LeaveBoot, ModuleBoundary!Open, ModuleBoundary!Decline, IInv, TypeInv, NumberInv, CallInv, Phases
<1>16. ASSUME Latch PROVE NumberInv'
  BY <1>16 DEF Latch, ModuleBoundary!Latch, IInv, TypeInv, NumberInv, CallInv, Phases
<1>17. ASSUME JudgeHealth PROVE NumberInv'
  BY <1>17 DEF JudgeHealth, ModuleBoundary!Latch, IInv, TypeInv, NumberInv, CallInv, Phases
<1>18. CASE UNCHANGED drbgVars
  BY <1>18 DEF IInv, TypeInv, NumberInv, CallInv
<1>19. QED
  BY <1>1, <1>2, <1>3, <1>4, <1>5, <1>6, <1>7, <1>8, <1>9, <1>10, <1>11, <1>12, <1>13, <1>14,
     <1>15, <1>16, <1>17, <1>18 DEF DrbgNext

\* The operation in progress keeps its type, and what is left of its script.
LEMMA ScriptStep ==
  ASSUME Bounds, IInv, [DrbgNext]_drbgVars
  PROVE  ScriptInv'
<1> USE DEF Bounds, boundaryVars, envVars, stateVars, historyVars, instanceVars, drbgVars
<1>1. ASSUME NEW s \in Seeds, Instantiate(s) PROVE ScriptInv'
  <2>1. CASE InstantiateCheck(s) = "ok"
    <3>1. /\ call' = [op |-> "instantiate", blocks |-> 0, since |-> clock, pr |-> FALSE]
          /\ todo' = Seeding /\ clock' = clock
      BY <1>1, <2>1 DEF Instantiate, Begin
    <3>2. 0 \in Nat /\ Seeding \in Seq(Passes)
      BY SeedingWrites
    <3>3. QED
      BY <3>1, <3>2 DEF ScriptInv, Calls, IInv, TypeInv, NumberInv
  <2>2. CASE ~(InstantiateCheck(s) = "ok")
    BY <1>1, <2>2 DEF Instantiate, ReturnEarly, IInv, TypeInv, ScriptInv
  <2>3. QED
    BY <2>1, <2>2
<1>2. ASSUME NEW s \in Seeds, Reseed(s) PROVE ScriptInv'
  <2>1. CASE ReseedCheck(s) = "ok"
    <3>1. /\ call' = [op |-> "reseed", blocks |-> 0, since |-> clock, pr |-> FALSE]
          /\ todo' = Seeding /\ clock' = clock
      BY <1>2, <2>1 DEF Reseed, Begin
    <3>2. 0 \in Nat /\ Seeding \in Seq(Passes)
      BY SeedingWrites
    <3>3. QED
      BY <3>1, <3>2 DEF ScriptInv, Calls, IInv, TypeInv, NumberInv
  <2>2. CASE ~(ReseedCheck(s) = "ok")
    BY <1>2, <2>2 DEF Reseed, ReturnEarly, IInv, TypeInv, ScriptInv
  <2>3. QED
    BY <2>1, <2>2
<1>3. ASSUME NEW s \in Seeds, NEW n \in Requests, GeneratePr(s, n) PROVE ScriptInv'
  <2>1. CASE ReseedCheck(s) = "ok"
    <3>1. /\ call' = [op |-> "reseed", blocks |-> n, since |-> clock, pr |-> TRUE]
          /\ todo' = Seeding /\ clock' = clock
      BY <1>3, <2>1 DEF GeneratePr, Begin
    <3>2. n \in Nat /\ Seeding \in Seq(Passes)
      BY SeedingWrites DEF Requests
    <3>3. QED
      BY <3>1, <3>2 DEF ScriptInv, Calls, Requests, IInv, TypeInv, NumberInv
  <2>2. CASE ~(ReseedCheck(s) = "ok")
    BY <1>3, <2>2 DEF GeneratePr, ReturnEarly, IInv, TypeInv, ScriptInv
  <2>3. QED
    BY <2>1, <2>2
<1>4. ASSUME NEW n \in Requests, NEW i \in Inputs, Generate(n, i) PROVE ScriptInv'
  <2>1. CASE GenerateCheck(counter, n, i) = "ok"
    <3>1. /\ call' = [op |-> "generate", blocks |-> n, since |-> clock, pr |-> FALSE]
          /\ todo' = Generation(n, i = "ok") /\ clock' = clock
      BY <1>4, <2>1 DEF Generate, Begin
    <3>2. n \in Nat /\ Generation(n, i = "ok") \in Seq(Passes)
      <4>1. n \in Nat
        BY DEF Requests
      <4>2. (i = "ok") \in BOOLEAN
        OBVIOUS
      <4>3. QED
        BY <4>1, <4>2, GenerationSeals
    <3>3. QED
      BY <3>1, <3>2 DEF ScriptInv, Calls, Requests, IInv, TypeInv, NumberInv
  <2>2. CASE ~(GenerateCheck(counter, n, i) = "ok")
    BY <1>4, <2>2 DEF Generate, ReturnEarly, IInv, TypeInv, ScriptInv
  <2>3. QED
    BY <2>1, <2>2
<1>5. ASSUME RefuseInstantiate PROVE ScriptInv'
  BY <1>5
    DEF RefuseInstantiate, MayCall, ReturnEarly, NoCall, IInv, TypeInv, NumberInv, ScriptInv, Calls,
        CallInv
<1>6. ASSUME Uninstantiate PROVE ScriptInv'
  BY <1>6
    DEF Uninstantiate, MayCall, ReturnEarly, Zeroize, NoCall, IInv, TypeInv, NumberInv, ScriptInv,
        Calls, CallInv
<1>7. ASSUME ForceReseedCeiling PROVE ScriptInv'
  BY <1>7
    DEF ForceReseedCeiling, MayCall, ReturnEarly, NoCall, IInv, TypeInv, NumberInv, ScriptInv, Calls,
        CallInv
<1>8. ASSUME Pass PROVE ScriptInv'
  <2>1. todo # <<>> /\ todo' = Tail(todo) /\ UNCHANGED call
    BY <1>8 DEF Pass
  <2>2. clock' \in Nat /\ clock' >= clock
    BY <1>8 DEF Pass, IInv, TypeInv, NumberInv
  <2>3. todo' \in Seq(Passes)
    BY <2>1, TailOf DEF IInv, TypeInv, ScriptInv
  <2>4. call.since \in Nat /\ call.since <= clock /\ clock \in Nat
    BY DEF IInv, TypeInv, NumberInv, ScriptInv, Calls
  <2>5. call.since <= clock'
    BY <2>2, <2>4
  <2>6. QED
    BY <2>1, <2>3, <2>5 DEF IInv, TypeInv, ScriptInv
<1>9. ASSUME RefusePass PROVE ScriptInv'
  BY <1>9 DEF RefusePass, NoCall, IInv, TypeInv, NumberInv, ScriptInv, Calls, CallInv
<1>10. ASSUME FinishInstantiate PROVE ScriptInv'
  BY <1>10
    DEF FinishInstantiate, Finished, NoCall, IInv, TypeInv, NumberInv, ScriptInv, Calls, CallInv
<1>11. ASSUME FinishReseed PROVE ScriptInv'
  BY <1>11 DEF FinishReseed, Finished, NoCall, IInv, TypeInv, NumberInv, ScriptInv, Calls, CallInv
<1>12. ASSUME ContinuePr PROVE ScriptInv'
  <2>1. call.blocks \in Nat /\ todo = <<>> /\ clock' = clock
    BY <1>12 DEF ContinuePr, Finished, IInv, TypeInv, ScriptInv, Calls
  <2>2. Generation(call.blocks, FALSE) \in Seq(Passes)
    BY <2>1, GenerationSeals
  <2>3. CASE GenerateCheck(1, call.blocks, "none") = "ok"
    <3>1. call' = [call EXCEPT !.op = "generate"] /\ todo' = Generation(call.blocks, FALSE)
      BY <1>12, <2>3 DEF ContinuePr
    <3>2. call' \in Calls /\ call'.since = call.since
      BY <3>1 DEF IInv, TypeInv, ScriptInv, Calls
    <3>3. QED
      BY <2>1, <2>2, <3>1, <3>2 DEF IInv, TypeInv, ScriptInv
  <2>4. CASE GenerateCheck(1, call.blocks, "none") # "ok"
    <3>1. call' = NoCall /\ todo' = <<>>
      BY <1>12, <2>1, <2>4 DEF ContinuePr
    <3>2. QED
      BY <2>1, <3>1 DEF ScriptInv, Calls, NoCall, IInv, TypeInv, NumberInv
  <2>5. QED
    BY <2>3, <2>4
<1>13. ASSUME FinishGenerate PROVE ScriptInv'
  BY <1>13 DEF FinishGenerate, Finished, NoCall, IInv, TypeInv, NumberInv, ScriptInv, Calls, CallInv
<1>14. ASSUME Boot PROVE ScriptInv'
  BY <1>14 DEF Boot, ModuleBoundary!Start, IInv, TypeInv, NumberInv, ScriptInv, Calls, CallInv
<1>15. ASSUME LeaveBoot PROVE ScriptInv'
  BY <1>15
    DEF LeaveBoot, ModuleBoundary!Open, ModuleBoundary!Decline, IInv, TypeInv, NumberInv, ScriptInv, Calls,
        CallInv
<1>16. ASSUME Latch PROVE ScriptInv'
  BY <1>16 DEF Latch, ModuleBoundary!Latch, IInv, TypeInv, NumberInv, ScriptInv, Calls, CallInv
<1>17. ASSUME JudgeHealth PROVE ScriptInv'
  BY <1>17 DEF JudgeHealth, ModuleBoundary!Latch, IInv, TypeInv, NumberInv, ScriptInv, Calls, CallInv
<1>18. CASE UNCHANGED drbgVars
  BY <1>18 DEF IInv, TypeInv, NumberInv, ScriptInv, Calls, CallInv
<1>19. QED
  BY <1>1, <1>2, <1>3, <1>4, <1>5, <1>6, <1>7, <1>8, <1>9, <1>10, <1>11, <1>12, <1>13, <1>14,
     <1>15, <1>16, <1>17, <1>18 DEF DrbgNext

\* The output keeps its type.
LEMMA OutStep ==
  ASSUME Bounds, IInv, [DrbgNext]_drbgVars
  PROVE  (output \in Seq(Blocks))'
<1> USE DEF Bounds, boundaryVars, envVars, stateVars, historyVars, instanceVars, drbgVars
<1>1. ASSUME NEW s \in Seeds, Instantiate(s) PROVE (output \in Seq(Blocks))'
  <2>1. output' = <<>> /\ <<>> \in Seq(Blocks)
    BY <1>1 DEF Instantiate, Begin, ReturnEarly
  <2>2. QED
    BY <2>1
<1>2. ASSUME NEW s \in Seeds, Reseed(s) PROVE (output \in Seq(Blocks))'
  <2>1. output' = <<>> /\ <<>> \in Seq(Blocks)
    BY <1>2 DEF Reseed, Begin, ReturnEarly
  <2>2. QED
    BY <2>1
<1>3. ASSUME NEW s \in Seeds, NEW n \in Requests, GeneratePr(s, n) PROVE (output \in Seq(Blocks))'
  <2>1. output' = <<>> /\ <<>> \in Seq(Blocks)
    BY <1>3 DEF GeneratePr, Begin, ReturnEarly
  <2>2. QED
    BY <2>1
<1>4. ASSUME NEW n \in Requests, NEW i \in Inputs, Generate(n, i) PROVE (output \in Seq(Blocks))'
  <2>1. output' = <<>> /\ <<>> \in Seq(Blocks)
    BY <1>4 DEF Generate, Begin, ReturnEarly
  <2>2. QED
    BY <2>1
<1>5. ASSUME RefuseInstantiate PROVE (output \in Seq(Blocks))'
  BY <1>5 DEF RefuseInstantiate, MayCall, ReturnEarly, NoCall, IInv, TypeInv, NumberInv, CallInv, Blocks
<1>6. ASSUME Uninstantiate PROVE (output \in Seq(Blocks))'
  BY <1>6
    DEF Uninstantiate, MayCall, ReturnEarly, Zeroize, NoCall, IInv, TypeInv, NumberInv, CallInv, Blocks
<1>7. ASSUME ForceReseedCeiling PROVE (output \in Seq(Blocks))'
  BY <1>7 DEF ForceReseedCeiling, MayCall, ReturnEarly, NoCall, IInv, TypeInv, NumberInv, CallInv, Blocks
<1>8. ASSUME Pass PROVE (output \in Seq(Blocks))'
  <2>1. Source \in Blocks /\ output \in Seq(Blocks)
    <3>1. Len(output) \in Nat
      BY DEF IInv, TypeInv
    <3>2. QED
      BY <3>1 DEF Source, Blocks, IInv, TypeInv, NumberInv
  <2>2. output' = output \/ output' = Append(output, Source)
    BY <1>8 DEF Pass
  <2>3. QED
    BY <2>1, <2>2
<1>9. ASSUME RefusePass PROVE (output \in Seq(Blocks))'
  BY <1>9 DEF RefusePass, NoCall, IInv, TypeInv, NumberInv, CallInv, Blocks
<1>10. ASSUME FinishInstantiate PROVE (output \in Seq(Blocks))'
  BY <1>10 DEF FinishInstantiate, Finished, NoCall, IInv, TypeInv, NumberInv, CallInv, Blocks
<1>11. ASSUME FinishReseed PROVE (output \in Seq(Blocks))'
  BY <1>11 DEF FinishReseed, Finished, NoCall, IInv, TypeInv, NumberInv, CallInv, Blocks
<1>12. ASSUME ContinuePr PROVE (output \in Seq(Blocks))'
  BY <1>12 DEF ContinuePr, Finished, NoCall, IInv, TypeInv, NumberInv, CallInv, Blocks
<1>13. ASSUME FinishGenerate PROVE (output \in Seq(Blocks))'
  BY <1>13 DEF FinishGenerate, Finished, NoCall, IInv, TypeInv, NumberInv, CallInv, Blocks
<1>14. ASSUME Boot PROVE (output \in Seq(Blocks))'
  BY <1>14 DEF Boot, ModuleBoundary!Start, IInv, TypeInv, NumberInv, CallInv, Blocks
<1>15. ASSUME LeaveBoot PROVE (output \in Seq(Blocks))'
  BY <1>15 DEF LeaveBoot, ModuleBoundary!Open, ModuleBoundary!Decline, IInv, TypeInv, NumberInv, CallInv, Blocks
<1>16. ASSUME Latch PROVE (output \in Seq(Blocks))'
  BY <1>16 DEF Latch, ModuleBoundary!Latch, IInv, TypeInv, NumberInv, CallInv, Blocks
<1>17. ASSUME JudgeHealth PROVE (output \in Seq(Blocks))'
  BY <1>17 DEF JudgeHealth, ModuleBoundary!Latch, IInv, TypeInv, NumberInv, CallInv, Blocks
<1>18. CASE UNCHANGED drbgVars
  BY <1>18 DEF IInv, TypeInv, NumberInv, CallInv, Blocks
<1>19. QED
  BY <1>1, <1>2, <1>3, <1>4, <1>5, <1>6, <1>7, <1>8, <1>9, <1>10, <1>11, <1>12, <1>13, <1>14,
     <1>15, <1>16, <1>17, <1>18 DEF DrbgNext

\* Every pass makes what it writes newer than the seed, and the rest of the script makes up
\* for what it does not write.
LEMMA SeedStep ==
  ASSUME Bounds, IInv, [DrbgNext]_drbgVars
  PROVE  SeedInv'
<1> USE DEF Bounds, boundaryVars, envVars, stateVars, historyVars, instanceVars, drbgVars
<1>1. ASSUME NEW s \in Seeds, Instantiate(s) PROVE SeedInv'
  BY <1>1, SeedingWrites
    DEF Instantiate, MayCall, Begin, ReturnEarly, Zeroize, NoCall, IInv, TypeInv, NumberInv,
        ScriptInv, Calls, CallInv, SeedInv, Seed
<1>2. ASSUME NEW s \in Seeds, Reseed(s) PROVE SeedInv'
  BY <1>2, SeedingWrites
    DEF Reseed, MayCall, Begin, ReturnEarly, NoCall, IInv, TypeInv, NumberInv, ScriptInv, Calls,
        CallInv, SeedInv, Seed
<1>3. ASSUME NEW s \in Seeds, NEW n \in Requests, GeneratePr(s, n) PROVE SeedInv'
  BY <1>3, SeedingWrites
    DEF GeneratePr, MayCall, Begin, ReturnEarly, NoCall, IInv, TypeInv, NumberInv, ScriptInv, Calls,
        CallInv, SeedInv, Seed
<1>4. ASSUME NEW n \in Requests, NEW i \in Inputs, Generate(n, i) PROVE SeedInv'
  <2>1. UNCHANGED <<first, second, instantiated, born>> /\ todo = <<>>
    BY <1>4 DEF Generate, MayCall, IInv, CallInv, NoCall
  <2>2. CASE GenerateCheck(counter, n, i) = "ok"
    <3>1. call'.op = "generate" /\ call'.pr = FALSE
      BY <1>4, <2>2 DEF Generate, Begin
    <3>2. instantiated
      BY <2>2 DEF GenerateCheck
    <3>3. QED
      BY <2>1, <3>1, <3>2 DEF IInv, SeedInv, Seed
  <2>3. CASE GenerateCheck(counter, n, i) # "ok"
    <3>1. call' = call /\ todo' = todo
      BY <1>4, <2>3 DEF Generate, ReturnEarly
    <3>2. QED
      BY <2>1, <3>1 DEF IInv, SeedInv, Seed
  <2>4. QED
    BY <2>2, <2>3
<1>5. ASSUME RefuseInstantiate PROVE SeedInv'
  BY <1>5
    DEF RefuseInstantiate, MayCall, ReturnEarly, NoCall, IInv, TypeInv, NumberInv, ScriptInv, Calls,
        CallInv, SeedInv, Seed
<1>6. ASSUME Uninstantiate PROVE SeedInv'
  BY <1>6
    DEF Uninstantiate, MayCall, ReturnEarly, Zeroize, NoCall, IInv, TypeInv, NumberInv, ScriptInv,
        Calls, CallInv, SeedInv, Seed
<1>7. ASSUME ForceReseedCeiling PROVE SeedInv'
  BY <1>7
    DEF ForceReseedCeiling, MayCall, ReturnEarly, NoCall, IInv, TypeInv, NumberInv, ScriptInv, Calls,
        CallInv, SeedInv, Seed
<1>8. ASSUME Pass PROVE SeedInv'
  <2> DEFINE p == Head(todo)
  <2>1. /\ todo \in Seq(Passes) /\ todo # <<>> /\ todo' = Tail(todo)
        /\ UNCHANGED <<call, born, instantiated>>
    BY <1>8 DEF Pass, IInv, TypeInv, ScriptInv
  <2>2. /\ Writes(todo, "first") => "first" \in p \/ Writes(todo', "first")
        /\ Writes(todo, "second") => "second" \in p \/ Writes(todo', "second")
    BY <2>1, TailOf
  <2>3. /\ first' = IF "first" \in p THEN clock + 1 ELSE first
        /\ second' = IF "second" \in p THEN clock + 1 ELSE second
    BY <1>8 DEF Pass, Both
  <2>4. /\ first \in Nat /\ second \in Nat /\ clock \in Nat /\ first <= clock /\ second <= clock
        /\ born \in Nat /\ born <= clock /\ Seed \in Nat /\ Seed <= clock /\ Seed' = Seed
    BY <2>1 DEF IInv, TypeInv, NumberInv, ScriptInv, Calls, Seed
  <2> HIDE DEF p
  <2>5. /\ first' >= first /\ second' >= second /\ first' \in Nat /\ second' \in Nat
        /\ "first" \in p => first' > Seed /\ first' > born
        /\ "second" \in p => second' > Seed /\ second' > born
    BY <2>3, <2>4
  <2>6. (first > born => first' > born) /\ (second > born => second' > born)
    BY <2>4, <2>5
  <2>7. (first > Seed => first' > Seed) /\ (second > Seed => second' > Seed)
    BY <2>4, <2>5
  <2>8. (instantiated => first > born /\ second > born)'
    BY <2>1, <2>6 DEF IInv, SeedInv
  <2>9. (call.op = "generate" => first > Seed /\ second > Seed)'
    BY <2>1, <2>4, <2>7 DEF IInv, SeedInv
  <2>10. (call.op = "instantiate" \/ (call.op = "reseed" /\ call.pr) =>
            /\ first > Seed \/ Writes(todo, "first")
            /\ second > Seed \/ Writes(todo, "second"))'
    BY <2>1, <2>2, <2>4, <2>5, <2>7 DEF IInv, SeedInv
  <2>11. QED
    BY <2>8, <2>9, <2>10 DEF SeedInv
<1>9. ASSUME RefusePass PROVE SeedInv'
  BY <1>9 DEF RefusePass, NoCall, IInv, TypeInv, NumberInv, ScriptInv, Calls, CallInv, SeedInv, Seed
<1>10. ASSUME FinishInstantiate PROVE SeedInv'
  <2>1. /\ call.op = "instantiate" /\ todo = <<>> /\ UNCHANGED <<first, second, born, todo>>
        /\ call' = NoCall
    BY <1>10 DEF FinishInstantiate, Finished
  <2>2. Seed = born /\ ~Writes(todo, "first") /\ ~Writes(todo, "second")
    BY <2>1 DEF IInv, CallInv, Seed, Writes
  <2>3. first > born /\ second > born
    BY <2>1, <2>2 DEF IInv, SeedInv
  <2>4. QED
    BY <2>1, <2>3 DEF SeedInv, NoCall
<1>11. ASSUME FinishReseed PROVE SeedInv'
  BY <1>11
    DEF FinishReseed, Finished, NoCall, IInv, TypeInv, NumberInv, ScriptInv, Calls, CallInv,
        SeedInv, Seed
<1>12. ASSUME ContinuePr PROVE SeedInv'
  <2>1. /\ call.op = "reseed" /\ call.pr /\ todo = <<>>
        /\ UNCHANGED <<first, second, born, instantiated>>
    BY <1>12 DEF ContinuePr, Finished
  <2>2. ~Writes(todo, "first") /\ ~Writes(todo, "second")
    BY <2>1 DEF Writes
  <2>3. first > Seed /\ second > Seed
    BY <2>1, <2>2 DEF IInv, SeedInv
  <2>4. CASE GenerateCheck(1, call.blocks, "none") = "ok"
    <3>1. call' = [call EXCEPT !.op = "generate"]
      BY <1>12, <2>4 DEF ContinuePr
    <3>2. call'.op = "generate" /\ call'.pr = call.pr /\ call'.since = call.since
      BY <3>1 DEF IInv, TypeInv, ScriptInv, Calls
    <3>3. QED
      BY <2>1, <2>3, <3>2 DEF IInv, SeedInv, Seed
  <2>5. CASE GenerateCheck(1, call.blocks, "none") # "ok"
    <3>1. call' = NoCall
      BY <1>12, <2>5 DEF ContinuePr
    <3>2. QED
      BY <2>1, <3>1 DEF IInv, SeedInv, NoCall
  <2>6. QED
    BY <2>4, <2>5
<1>13. ASSUME FinishGenerate PROVE SeedInv'
  BY <1>13
    DEF FinishGenerate, Finished, NoCall, IInv, TypeInv, NumberInv, ScriptInv, Calls, CallInv,
        SeedInv, Seed
<1>14. ASSUME Boot PROVE SeedInv'
  BY <1>14
    DEF Boot, ModuleBoundary!Start, IInv, TypeInv, NumberInv, ScriptInv, Calls, CallInv, SeedInv, Seed
<1>15. ASSUME LeaveBoot PROVE SeedInv'
  BY <1>15
    DEF LeaveBoot, ModuleBoundary!Open, ModuleBoundary!Decline, IInv, TypeInv, NumberInv, ScriptInv, Calls,
        CallInv, SeedInv, Seed
<1>16. ASSUME Latch PROVE SeedInv'
  BY <1>16
    DEF Latch, ModuleBoundary!Latch, IInv, TypeInv, NumberInv, ScriptInv, Calls, CallInv, SeedInv, Seed
<1>17. ASSUME JudgeHealth PROVE SeedInv'
  BY <1>17
    DEF JudgeHealth, ModuleBoundary!Latch, IInv, TypeInv, NumberInv, ScriptInv, Calls, CallInv,
        SeedInv, Seed
<1>18. CASE UNCHANGED drbgVars
  BY <1>18 DEF IInv, TypeInv, NumberInv, ScriptInv, Calls, CallInv, SeedInv, Seed
<1>19. QED
  BY <1>1, <1>2, <1>3, <1>4, <1>5, <1>6, <1>7, <1>8, <1>9, <1>10, <1>11, <1>12, <1>13, <1>14,
     <1>15, <1>16, <1>17, <1>18 DEF DrbgNext

\* A block put out is newer than the seed, and older than what the rest of the script leaves.
LEMMA OutputStep ==
  ASSUME Bounds, IInv, [DrbgNext]_drbgVars
  PROVE  OutputInv'
<1> USE DEF Bounds, boundaryVars, envVars, stateVars, historyVars, instanceVars, drbgVars
<1>1. ASSUME NEW s \in Seeds, Instantiate(s) PROVE OutputInv'
  <2>1. call'.op # "generate"
    BY <1>1 DEF Instantiate, MayCall, Begin, ReturnEarly, NoCall
  <2>2. QED
    BY <2>1 DEF OutputInv
<1>2. ASSUME NEW s \in Seeds, Reseed(s) PROVE OutputInv'
  <2>1. call'.op # "generate"
    BY <1>2 DEF Reseed, MayCall, Begin, ReturnEarly, NoCall
  <2>2. QED
    BY <2>1 DEF OutputInv
<1>3. ASSUME NEW s \in Seeds, NEW n \in Requests, GeneratePr(s, n) PROVE OutputInv'
  <2>1. call'.op # "generate"
    BY <1>3 DEF GeneratePr, MayCall, Begin, ReturnEarly, NoCall
  <2>2. QED
    BY <2>1 DEF OutputInv
<1>4. ASSUME NEW n \in Requests, NEW i \in Inputs, Generate(n, i) PROVE OutputInv'
  <2>1. call = NoCall /\ UNCHANGED mech /\ output' = <<>>
    BY <1>4 DEF Generate, MayCall, Begin, ReturnEarly
  <2>2. CASE GenerateCheck(counter, n, i) = "ok"
    <3>1. todo' = Generation(n, i = "ok")
      BY <1>4, <2>2 DEF Generate, Begin
    <3>2. Seals(todo', mech)
      <4>1. n \in Nat
        BY DEF Requests
      <4>2. (i = "ok") \in BOOLEAN
        OBVIOUS
      <4>3. QED
        BY <3>1, <4>1, <4>2, GenerationSeals
    <3>3. QED
      BY <2>1, <3>2 DEF OutputInv
  <2>3. CASE GenerateCheck(counter, n, i) # "ok"
    <3>1. call' = NoCall
      BY <1>4, <2>1, <2>3 DEF Generate, ReturnEarly
    <3>2. QED
      BY <3>1 DEF OutputInv, NoCall
  <2>4. QED
    BY <2>2, <2>3
<1>5. ASSUME RefuseInstantiate PROVE OutputInv'
  <2>1. call'.op # "generate"
    BY <1>5 DEF RefuseInstantiate, MayCall, Begin, ReturnEarly, NoCall
  <2>2. QED
    BY <2>1 DEF OutputInv
<1>6. ASSUME Uninstantiate PROVE OutputInv'
  <2>1. call'.op # "generate"
    BY <1>6 DEF Uninstantiate, MayCall, Begin, ReturnEarly, NoCall
  <2>2. QED
    BY <2>1 DEF OutputInv
<1>7. ASSUME ForceReseedCeiling PROVE OutputInv'
  <2>1. call'.op # "generate"
    BY <1>7 DEF ForceReseedCeiling, MayCall, Begin, ReturnEarly, NoCall
  <2>2. QED
    BY <2>1 DEF OutputInv
<1>8. ASSUME Pass PROVE OutputInv'
  <2> SUFFICES ASSUME call'.op = "generate"
               PROVE  /\ Seals(todo', mech')
                      /\ \A j \in 1..Len(output') :
                           /\ output'[j][1] <= clock' /\ output'[j][2] <= clock'
                           /\ Fresh(output[j])' /\ Gone(output[j])'
    BY DEF OutputInv
  <2> DEFINE p == Head(todo)
  <2>1. /\ todo \in Seq(Passes) /\ todo # <<>> /\ todo' = Tail(todo)
        /\ UNCHANGED <<call, born, mech>> /\ call.op = "generate"
    BY <1>8 DEF Pass, IInv, TypeInv, ScriptInv
  <2>2. /\ Seals(todo, mech) /\ Seed' = Seed
        /\ \A j \in 1..Len(output) : output[j][1] <= clock /\ output[j][2] <= clock
        /\ \A j \in 1..Len(output) : Fresh(output[j]) /\ Gone(output[j])
    BY <2>1 DEF IInv, OutputInv, Seed
  <2>3. /\ clock' = IF p \cap Both = {} THEN clock ELSE clock + 1
        /\ first' = IF "first" \in p THEN clock' ELSE first
        /\ second' = IF "second" \in p THEN clock' ELSE second
        /\ output' = IF "out" \in p THEN Append(output, Source) ELSE output
    BY <1>8 DEF Pass
  <2>4. /\ first \in Nat /\ second \in Nat /\ clock \in Nat /\ first <= clock /\ second <= clock
        /\ output \in Seq(Blocks) /\ first > Seed /\ second > Seed
    BY <2>1 DEF IInv, TypeInv, NumberInv, SeedInv
  <2>5. /\ Writes(todo, "first") => "first" \in p \/ Writes(todo', "first")
        /\ Writes(todo, "second") => "second" \in p \/ Writes(todo', "second")
    BY <2>1, TailOf
  <2>6. /\ Seals(todo', mech')
        /\ "out" \in p => Writes(todo', "first")
        /\ "out" \in p /\ mech # "hash" => Writes(todo', "second") \/ "second" \in p
    <3>1. /\ Followed(todo, "first", FALSE) => /\ Followed(todo', "first", FALSE)
                                               /\ "out" \in p => Writes(todo', "first")
          /\ Followed(todo, "second", TRUE) =>
               /\ Followed(todo', "second", TRUE)
               /\ "out" \in p => Writes(todo', "second") \/ "second" \in p
      BY <2>1, TailOf
    <3>2. QED
      BY <2>1, <2>2, <3>1 DEF Seals
  <2>7. /\ clock' \in Nat /\ clock' >= clock
        /\ first' \in Nat /\ first' >= first /\ ("first" \in p => first' > clock)
        /\ second' \in Nat /\ second' >= second /\ ("second" \in p => second' > clock)
    BY <2>3, <2>4 DEF Both
  <2> HIDE DEF p
  \* What was output earlier.
  <2>8. ASSUME NEW j \in 1..Len(output)
        PROVE  /\ output[j][1] <= clock' /\ output[j][2] <= clock'
               /\ output[j][1] > Seed' /\ (mech' # "hash" => output[j][2] > Seed')
               /\ first' > output[j][1] \/ Writes(todo', "first")
               /\ mech' # "hash" => second' > output[j][2] \/ Writes(todo', "second")
    <3> DEFINE b == output[j]
    <3>1. b[1] \in Nat /\ b[2] \in Nat
      <4>1. b \in Blocks
        BY <2>4
      <4> HIDE DEF b
      <4>2. QED
        BY <4>1 DEF Blocks
    <3>2. /\ b[1] <= clock /\ b[2] <= clock /\ b[1] > Seed /\ (mech # "hash" => b[2] > Seed)
          /\ first > b[1] \/ Writes(todo, "first")
          /\ mech # "hash" => second > b[2] \/ Writes(todo, "second")
      BY <2>2 DEF Fresh, Gone
    <3> HIDE DEF b
    <3>3. b[1] <= clock' /\ b[2] <= clock'
      BY <2>4, <2>7, <3>1, <3>2
    <3>4. /\ first > b[1] => first' > b[1]
          /\ second > b[2] => second' > b[2]
          /\ "first" \in p => first' > b[1]
          /\ "second" \in p => second' > b[2]
      BY <2>4, <2>7, <3>1, <3>2
    <3>5. QED
      BY <2>1, <2>2, <2>5, <3>2, <3>3, <3>4 DEF b
  \* What this pass outputs.
  <2>9. ASSUME "out" \in p
        PROVE  /\ Source[1] <= clock' /\ Source[2] <= clock'
               /\ Source[1] > Seed' /\ (mech' # "hash" => Source[2] > Seed')
               /\ first' > Source[1] \/ Writes(todo', "first")
               /\ mech' # "hash" => second' > Source[2] \/ Writes(todo', "second")
    <3>1. Source[1] = first /\ Source[2] = IF mech = "hash" THEN 0 ELSE second
      BY DEF Source
    <3>2. "second" \in p => second' > second
      BY <2>4, <2>7
    <3>3. first <= clock' /\ second <= clock' /\ 0 <= clock'
      BY <2>4, <2>7
    <3>4. Source[1] <= clock' /\ Source[2] <= clock'
      BY <3>1, <3>3
    <3>5. Source[1] > Seed' /\ (mech' # "hash" => Source[2] > Seed')
      BY <2>1, <2>2, <2>4, <3>1
    <3>6. Writes(todo', "first")
      BY <2>6, <2>9
    <3>7. mech' # "hash" => second' > Source[2] \/ Writes(todo', "second")
      BY <2>1, <2>6, <2>9, <3>1, <3>2
    <3>8. QED
      BY <3>4, <3>5, <3>6, <3>7
  <2>10. ASSUME NEW j \in 1..Len(output')
         PROVE  /\ output'[j][1] <= clock' /\ output'[j][2] <= clock'
                /\ Fresh(output[j])' /\ Gone(output[j])'
    <3>1. CASE "out" \notin p
      <4>1. output' = output
        BY <2>3, <3>1
      <4>2. QED
        BY <2>8, <4>1 DEF Fresh, Gone
    <3>2. CASE "out" \in p /\ j \in 1..Len(output)
      <4>1. output'[j] = output[j]
        BY <2>3, <2>4, <3>2
      <4>2. QED
        BY <2>8, <3>2, <4>1 DEF Fresh, Gone
    <3>3. CASE "out" \in p /\ j \notin 1..Len(output)
      <4>1. output'[j] = Source
        BY <2>3, <2>4, <3>3
      <4>2. QED
        BY <2>9, <3>3, <4>1 DEF Fresh, Gone
    <3>4. QED
      BY <3>1, <3>2, <3>3
  <2>11. QED
    BY <2>6, <2>10
<1>9. ASSUME RefusePass PROVE OutputInv'
  <2>1. call'.op # "generate"
    BY <1>9 DEF RefusePass, NoCall
  <2>2. QED
    BY <2>1 DEF OutputInv
<1>10. ASSUME FinishInstantiate PROVE OutputInv'
  <2>1. call'.op # "generate"
    BY <1>10 DEF FinishInstantiate, NoCall
  <2>2. QED
    BY <2>1 DEF OutputInv
<1>11. ASSUME FinishReseed PROVE OutputInv'
  <2>1. call'.op # "generate"
    BY <1>11 DEF FinishReseed, NoCall
  <2>2. QED
    BY <2>1 DEF OutputInv
<1>12. ASSUME ContinuePr PROVE OutputInv'
  <2>1. output' = <<>> /\ UNCHANGED mech
    BY <1>12 DEF ContinuePr, Finished, IInv, CallInv
  <2>2. call.blocks \in Nat
    BY DEF IInv, TypeInv, ScriptInv, Calls
  <2>3. Seals(Generation(call.blocks, FALSE), mech)
    BY <2>2, GenerationSeals
  <2>4. todo' = Generation(call.blocks, FALSE) \/ call' = NoCall
    BY <1>12 DEF ContinuePr
  <2>5. CASE todo' = Generation(call.blocks, FALSE)
    <3>1. Seals(todo', mech') /\ Len(output') = 0
      BY <2>1, <2>3, <2>5
    <3>2. QED
      BY <3>1 DEF OutputInv
  <2>6. CASE call' = NoCall
    BY <2>6 DEF OutputInv, NoCall
  <2>7. QED
    BY <2>4, <2>5, <2>6
<1>13. ASSUME FinishGenerate PROVE OutputInv'
  <2>1. call'.op # "generate"
    BY <1>13 DEF FinishGenerate, NoCall
  <2>2. QED
    BY <2>1 DEF OutputInv
<1>14. ASSUME Boot PROVE OutputInv'
  <2>1. UNCHANGED <<call, todo, output, first, second, clock, born, mech>>
    BY <1>14 DEF Boot
  <2>2. Seed' = Seed
    BY <2>1 DEF Seed
  <2>3. Seals(todo, mech)' <=> Seals(todo, mech)
    BY <2>1
  <2>4. ASSUME NEW k \in 1..Len(output) PROVE (Fresh(output[k]) /\ Gone(output[k]))' <=> (Fresh(output[k]) /\ Gone(output[k]))
    BY <2>1, <2>2 DEF Fresh, Gone
  <2>5. QED
    BY <2>1, <2>3, <2>4 DEF IInv, OutputInv
<1>15. ASSUME LeaveBoot PROVE OutputInv'
  <2>1. UNCHANGED <<call, todo, output, first, second, clock, born, mech>>
    BY <1>15 DEF LeaveBoot
  <2>2. Seed' = Seed
    BY <2>1 DEF Seed
  <2>3. Seals(todo, mech)' <=> Seals(todo, mech)
    BY <2>1
  <2>4. ASSUME NEW k \in 1..Len(output) PROVE (Fresh(output[k]) /\ Gone(output[k]))' <=> (Fresh(output[k]) /\ Gone(output[k]))
    BY <2>1, <2>2 DEF Fresh, Gone
  <2>5. QED
    BY <2>1, <2>3, <2>4 DEF IInv, OutputInv
<1>16. ASSUME Latch PROVE OutputInv'
  <2>1. UNCHANGED <<call, todo, output, first, second, clock, born, mech>>
    BY <1>16 DEF Latch
  <2>2. Seed' = Seed
    BY <2>1 DEF Seed
  <2>3. Seals(todo, mech)' <=> Seals(todo, mech)
    BY <2>1
  <2>4. ASSUME NEW k \in 1..Len(output) PROVE (Fresh(output[k]) /\ Gone(output[k]))' <=> (Fresh(output[k]) /\ Gone(output[k]))
    BY <2>1, <2>2 DEF Fresh, Gone
  <2>5. QED
    BY <2>1, <2>3, <2>4 DEF IInv, OutputInv
<1>17. ASSUME JudgeHealth PROVE OutputInv'
  <2>1. UNCHANGED <<call, todo, output, first, second, clock, born, mech>>
    BY <1>17 DEF JudgeHealth
  <2>2. Seed' = Seed
    BY <2>1 DEF Seed
  <2>3. Seals(todo, mech)' <=> Seals(todo, mech)
    BY <2>1
  <2>4. ASSUME NEW k \in 1..Len(output) PROVE (Fresh(output[k]) /\ Gone(output[k]))' <=> (Fresh(output[k]) /\ Gone(output[k]))
    BY <2>1, <2>2 DEF Fresh, Gone
  <2>5. QED
    BY <2>1, <2>3, <2>4 DEF IInv, OutputInv
<1>18. CASE UNCHANGED drbgVars
  <2>1. UNCHANGED <<call, todo, output, first, second, clock, born, mech>>
    BY <1>18 DEF OutputInv
  <2>2. Seed' = Seed
    BY <2>1 DEF Seed
  <2>3. Seals(todo, mech)' <=> Seals(todo, mech)
    BY <2>1
  <2>4. ASSUME NEW k \in 1..Len(output) PROVE (Fresh(output[k]) /\ Gone(output[k]))' <=> (Fresh(output[k]) /\ Gone(output[k]))
    BY <2>1, <2>2 DEF Fresh, Gone
  <2>5. QED
    BY <2>1, <2>3, <2>4 DEF IInv, OutputInv
<1>19. QED
  BY <1>1, <1>2, <1>3, <1>4, <1>5, <1>6, <1>7, <1>8, <1>9, <1>10, <1>11, <1>12, <1>13, <1>14,
     <1>15, <1>16, <1>17, <1>18 DEF DrbgNext

-----------------------------------------------------------------------------
(* The theorems.                                                           *)

\* new() leaves an instance that nothing has been drawn from.
LEMMA Initially == Bounds /\ DrbgInit => IInv
<1> SUFFICES ASSUME Bounds, DrbgInit PROVE IInv
  OBVIOUS
<1>1. /\ moduleState = "PowerOff" /\ first = 0 /\ second = 0 /\ counter = 0 /\ instantiated = FALSE
      /\ call = NoCall /\ todo = <<>> /\ output = <<>> /\ answer = "none" /\ clock = 0 /\ born = 0
      /\ settled = <<0, 0>> /\ served = 0
  BY DEF DrbgInit, ModuleBoundary!Init
<1>2. NumberInv
  <2>1. moduleState \in Phases /\ instantiated \in BOOLEAN
    BY <1>1 DEF Phases
  <2>2. QED
    BY <1>1, <2>1 DEF NumberInv
<1>3. <<>> \in Seq(Passes) /\ <<>> \in Seq(Blocks)
  OBVIOUS
<1>4. call.op = "none" /\ call.since = 0 /\ call \in Calls
  BY <1>1 DEF NoCall, Calls
<1>5. TypeInv
  BY <1>1, <1>2, <1>3, <1>4 DEF TypeInv, ScriptInv
<1>6. CallInv
  BY <1>1, <1>4 DEF CallInv
<1>7. BoundaryInv
  BY <1>1, <1>4 DEF BoundaryInv
<1>8. CounterInv
  BY <1>1, <1>4 DEF CounterInv, Bounds
<1>9. SeedInv /\ OutputInv
  BY <1>1, <1>4 DEF SeedInv, OutputInv
<1>10. QED
  BY <1>5, <1>6, <1>7, <1>8, <1>9 DEF IInv

\* Every operation, and every step of the module around it, keeps the invariant.
LEMMA Step == Bounds /\ IInv /\ [DrbgNext]_drbgVars => IInv'
<1> SUFFICES ASSUME Bounds, IInv, [DrbgNext]_drbgVars PROVE IInv'
  OBVIOUS
<1>1. TypeInv'
  BY NumberStep, ScriptStep, OutStep DEF TypeInv
<1>2. QED
  BY <1>1, CallStep, BoundaryStep, CounterStep, SeedStep, OutputStep DEF IInv

\* The invariant of an instance (ctr.rs, hash.rs, hmac.rs: instantiate, reseed, generate).
THEOREM Invariant == Bounds => (DrbgSpec => []IInv)
<1> SUFFICES ASSUME Bounds PROVE DrbgSpec => []IInv
  OBVIOUS
<1>1. DrbgInit => IInv
  BY Initially
<1>2. IInv /\ [DrbgNext]_drbgVars => IInv'
  BY Step
<1>3. QED
  BY <1>1, <1>2, PTL DEF DrbgSpec

\* A pass that the guard refuses in the middle of an operation leaves no halves that are used
\* again and no output in the caller's buffer (the guards inside update, hashgen and generate).
THEOREM RefusalLeavesNothing == Bounds => (DrbgSpec => []RefusalIsContained)
<1>1. IInv => RefusalIsContained
  BY DEF IInv, CallInv, BoundaryInv, TypeInv, ScriptInv, RefusalIsContained, Idle, NoCall
<1>2. QED
  BY <1>1, Invariant, PTL

\* The reseed counter lets exactly the interval of requests through, on any instance the
\* health test has not forced to its ceiling (generate's check against RESEED_INTERVAL).
THEOREM IntervalIsExact == Bounds => (DrbgSpec => []Ceiling)
<1>1. IInv => Ceiling
  BY DEF IInv, CounterInv, Ceiling
<1>2. QED
  BY <1>1, Invariant, PTL

\* Blocks are handed out only when a generate completes: those its passes have written.
LEMMA Delivery ==
  ASSUME Bounds, IInv, [DrbgNext]_drbgVars, NEW b \in Returned
  PROVE  /\ call.op = "generate" /\ todo = <<>> /\ UNCHANGED <<first, second>>
         /\ \E i \in 1..Len(output) : b = output[i]
<1>1. b \in delivered' /\ b \notin delivered
  BY DEF Returned
<1>2. FinishGenerate
  <2>1. ~FinishGenerate => UNCHANGED delivered
    BY DEF DrbgNext, drbgVars, historyVars, instanceVars, Instantiate, Reseed, Generate, GeneratePr,
           RefuseInstantiate, Uninstantiate, ForceReseedCeiling, Pass, RefusePass,
           FinishInstantiate, FinishReseed, ContinuePr, Boot, LeaveBoot, Latch, JudgeHealth
  <2>2. QED
    BY <1>1, <2>1
<1>3. delivered' = delivered \cup Range(output) /\ call.op = "generate" /\ todo = <<>>
      /\ UNCHANGED <<first, second>>
  BY <1>2 DEF FinishGenerate, Finished
<1>4. output \in Seq(Blocks)
  BY DEF IInv, TypeInv
<1>5. b \in Range(output)
  BY <1>1, <1>3
<1>6. \E i \in 1..Len(output) : b = output[i]
  BY <1>4, <1>5 DEF Range
<1>7. QED
  BY <1>3, <1>6

\* What is returned came from the seed given last, and under prediction resistance from the
\* entropy of the same call (instantiate zeroizes first; generate_pr reseeds first).
THEOREM SeedIsTheLatest == Bounds => (DrbgSpec => OutputOfLatestSeed)
<1> DEFINE A == LET seed == IF call.pr THEN call.since ELSE born
                IN \A b \in Returned : b[1] > seed /\ (mech # "hash" => b[2] > seed)
<1>1. Bounds /\ IInv /\ [DrbgNext]_drbgVars => A
  <2> SUFFICES ASSUME Bounds, IInv, [DrbgNext]_drbgVars, NEW b \in Returned
               PROVE  b[1] > Seed /\ (mech # "hash" => b[2] > Seed)
    BY DEF Seed
  <2>1. PICK i \in 1..Len(output) : b = output[i]
    BY Delivery
  <2>2. Fresh(output[i])
    BY Delivery DEF IInv, OutputInv
  <2>3. QED
    BY <2>1, <2>2 DEF Fresh
<1>2. ASSUME Bounds PROVE DrbgSpec => [][A]_drbgVars
  <2>1. IInv /\ [DrbgNext]_drbgVars => [A]_drbgVars
    BY <1>1, <1>2
  <2>2. DrbgSpec => []IInv
    BY <1>2, Invariant
  <2> HIDE DEF A
  <2>3. QED
    BY <2>1, <2>2, PTL DEF DrbgSpec
<1>3. QED
  BY <1>2 DEF OutputOfLatestSeed

\* The halves a returned block was computed from are overwritten before it is returned (the
\* update that ends every generate).
THEOREM OriginsAreGone == Bounds => (DrbgSpec => BacktrackingResistance)
<1> DEFINE A == \A b \in Returned : first' > b[1] /\ (mech # "hash" => second' > b[2])
<1>1. Bounds /\ IInv /\ [DrbgNext]_drbgVars => A
  <2> SUFFICES ASSUME Bounds, IInv, [DrbgNext]_drbgVars, NEW b \in Returned
               PROVE  first' > b[1] /\ (mech # "hash" => second' > b[2])
    OBVIOUS
  <2>1. /\ call.op = "generate" /\ todo = <<>> /\ UNCHANGED <<first, second>>
        /\ \E i \in 1..Len(output) : b = output[i]
    BY Delivery
  <2>2. PICK i \in 1..Len(output) : b = output[i]
    BY <2>1
  <2>3. Gone(output[i])
    BY <2>1 DEF IInv, OutputInv
  <2>4. ~Writes(todo, "first") /\ ~Writes(todo, "second")
    BY <2>1 DEF Writes
  <2>5. QED
    BY <2>1, <2>2, <2>3, <2>4 DEF Gone
<1>2. ASSUME Bounds PROVE DrbgSpec => [][A]_drbgVars
  <2>1. IInv /\ [DrbgNext]_drbgVars => [A]_drbgVars
    BY <1>1, <1>2
  <2>2. DrbgSpec => []IInv
    BY <1>2, Invariant
  <2> HIDE DEF A
  <2>3. QED
    BY <2>1, <2>2, PTL DEF DrbgSpec
<1>3. QED
  BY <1>2 DEF BacktrackingResistance

-----------------------------------------------------------------------------
(***************************************************************************)
(* The generators in the lifecycle: each step of an instance (its health   *)
(* latch and its power-on test included) is one transition of the module's *)
(* lifecycle or leaves it alone.                                           *)
(***************************************************************************)
THEOREM KeepsLifecycle == DrbgSpec => ModuleBoundary!Spec
<1>1. DrbgInit => ModuleBoundary!Init
  BY DEF DrbgInit
<1>2. [DrbgNext]_drbgVars => [ModuleBoundary!Next]_(ModuleBoundary!lifecycleVars)
  <2> SUFFICES ASSUME [DrbgNext]_drbgVars
               PROVE  UNCHANGED boundaryVars \/ ModuleBoundary!Next
    BY DEF boundaryVars, ModuleBoundary!lifecycleVars
  <2>1. CASE Boot \/ LeaveBoot \/ Latch \/ JudgeHealth
    BY <2>1 DEF Boot, LeaveBoot, Latch, JudgeHealth, ModuleBoundary!Next
  <2>2. ASSUME DrbgNext, ~(Boot \/ LeaveBoot \/ Latch \/ JudgeHealth) PROVE UNCHANGED boundaryVars
    BY <2>2 DEF DrbgNext, Instantiate, Reseed, GeneratePr, Generate, RefuseInstantiate, Uninstantiate, ForceReseedCeiling, Pass, RefusePass, FinishInstantiate, FinishReseed, ContinuePr, FinishGenerate
  <2>3. QED
    BY <2>1, <2>2 DEF drbgVars
<1>3. QED
  BY <1>1, <1>2, PTL DEF DrbgSpec, ModuleBoundary!Spec

=============================================================================

-------------------------- MODULE AlgorithmProofs --------------------------
(***************************************************************************)
(* Proofs about what the run of the algorithms asks. Invariance, of two    *)
(* components whose calls are retried and one whose calls wait: the        *)
(* elliptic-curve handles (EcdsaHandle), for any number of faults,         *)
(* candidates and nonces; the requests of esv-harness (EsvExchange), for   *)
(* any life of a token, window of a code and number of polls; and the      *)
(* pools of the parallel sweeps (SweepPool), for any number of workers, of *)
(* other threads and of parts of a sweep. Arithmetic: the reduction, the   *)
(* rounding and the hints of ML-DSA (MlDsa), for every coefficient modulo  *)
(* the q of the code; and the addresses of SLH-DSA (SlhDsa), for trees of  *)
(* any size. And the order in which a call of the algorithm crates asks    *)
(* and writes (LibraryCalls), for calls of any length.                     *)
(***************************************************************************)
EXTENDS EcdsaHandle, EsvExchange, SweepPool, WellFoundedInduction, TLAPS

\* The parameters of ML-DSA, as MlDsa declares them.
CONSTANTS N, K, L, TAU, ETA, GAMMA1, GAMMA2, BETA, OMEGA, MaxIters, Hash(_)

DSA == INSTANCE MlDsa

-----------------------------------------------------------------------------
(* The elliptic-curve handles.                                             *)

Schemes == {"ecdsa", "eddsa", "ecdh", "dh"}
Ops == {"generate", "import", "use"}
Steps == {"scalar", "seed", "derive", "nonce", "sign", "verify", "agree", "agreeBack"}
Points == {"none", "ofD", "negative", "other"}

CallTypes == [scheme : Schemes, op : Ops, todo : Seq(Steps) \ {<<>>}, q : Points,
              sig : {"none", "ofD", "wrong"}, attempts : Nat, tries : Nat]

HandleTypes ==
  /\ admits \in BOOLEAN
  /\ pair \in [scheme : Schemes \cup {"none"}, q : Points]
  /\ verdicts \in Seq(BOOLEAN)
  /\ answer \in {"none", "ok", "InvalidInput", "NotOperational"}
  /\ call = Idle \/ call \in CallTypes
  /\ faults \in Nat

\* The test is the last step of every call that makes a handle; whatever is repeated, it
\* still lies ahead.
TestAhead ==
  Busy /\ call.op # "use" =>
    /\ call.scheme \in {"ecdsa", "eddsa"} => call.todo[Len(call.todo)] = "verify"
    /\ call.scheme = "ecdh" => call.todo[Len(call.todo)] = "agreeBack"

\* No test of the call in progress has failed, and it has not answered.
NoneFailed == Busy => answer = "none" /\ \A i \in DOMAIN verdicts : verdicts[i]

HandleInv == HandleTypes /\ TestAhead /\ NoneFailed /\ PairsAreTested

\* A sequence that is not empty.
LEMMA SomeLen == ASSUME NEW S, NEW s \in Seq(S), s # <<>> PROVE Len(s) = 1 \/ Len(s) > 1
<1> DEFINE n == Len(s)
<1>1. n \in Nat /\ n # 0
  OBVIOUS
<1> HIDE DEF n
<1>2. n = 1 \/ n > 1
  BY <1>1
<1>3. QED
  BY <1>2 DEF n

\* The rest of a longer sequence ends as it does.
LEMMA TailOf ==
  ASSUME NEW S, NEW s \in Seq(S), Len(s) > 1
  PROVE  Tail(s) \in Seq(S) \ {<<>>} /\ Tail(s)[Len(Tail(s))] = s[Len(s)]
<1>1. Len(s) \in Nat
  OBVIOUS
<1>2. Tail(s) \in Seq(S) /\ Len(Tail(s)) = Len(s) - 1
  BY <1>1
<1>3. Tail(s)[Len(s) - 1] = s[Len(s)]
  BY <1>1
<1> DEFINE n == Len(s)
<1> DEFINE r == Tail(s)
<1>4. n \in Nat /\ n > 1 /\ Len(r) = n - 1
  BY <1>1, <1>2
<1>5. n - 1 # 0
  <2> HIDE DEF n
  <2> QED BY <1>4
<1>6. Len(r) # 0
  BY <1>4, <1>5
<1>7. r # <<>>
  <2> HIDE DEF r
  <2> QED BY <1>6
<1>8. QED
  BY <1>2, <1>3, <1>7

\* A handle at work is in a call that it has.
LEMMA BusyCalls == ASSUME HandleTypes, Busy PROVE call \in CallTypes
BY DEF HandleTypes, Busy, CallTypes

\* The plans end with the tests.
LEMMA PlansEnd ==
  ASSUME NEW scheme \in DOMAIN Plan, NEW op \in DOMAIN Plan[scheme]
  PROVE  /\ scheme \in Schemes /\ op \in Ops
         /\ Plan[scheme][op] \in Seq(Steps) \ {<<>>}
         /\ op # "use" /\ scheme \in {"ecdsa", "eddsa"} => Plan[scheme][op][Len(Plan[scheme][op])] = "verify"
         /\ op # "use" /\ scheme = "ecdh" => Plan[scheme][op][Len(Plan[scheme][op])] = "agreeBack"
<1> USE DEF Schemes, Ops, Steps
<1>1. CASE scheme = "ecdsa"
  <2>1. CASE op = "generate"
    <3>1. Plan[scheme][op] = <<"scalar", "derive", "nonce", "sign", "verify">>
      BY <1>1, <2>1 DEF Plan, EcdsaPlan
    <3>2. <<"scalar", "derive", "nonce", "sign", "verify">> \in Seq(Steps) \ {<<>>} /\ <<"scalar", "derive", "nonce", "sign", "verify">>[5] = "verify" /\ Len(<<"scalar", "derive", "nonce", "sign", "verify">>) = 5
      OBVIOUS
    <3>3. QED
      BY <1>1, <2>1, <3>1, <3>2
  <2>2. CASE op = "import"
    <3>1. Plan[scheme][op] = <<"derive", "nonce", "sign", "verify">>
      BY <1>1, <2>2 DEF Plan, EcdsaPlan
    <3>2. <<"derive", "nonce", "sign", "verify">> \in Seq(Steps) \ {<<>>} /\ <<"derive", "nonce", "sign", "verify">>[4] = "verify" /\ Len(<<"derive", "nonce", "sign", "verify">>) = 4
      OBVIOUS
    <3>3. QED
      BY <1>1, <2>2, <3>1, <3>2
  <2>3. CASE op = "use"
    <3>1. Plan[scheme][op] = <<"nonce", "sign">>
      BY <1>1, <2>3 DEF Plan, EcdsaPlan
    <3>2. <<"nonce", "sign">> \in Seq(Steps) \ {<<>>} /\ <<"nonce", "sign">>[2] = "sign" /\ Len(<<"nonce", "sign">>) = 2
      OBVIOUS
    <3>3. QED
      BY <1>1, <2>3, <3>1, <3>2
  <2>4. QED
    BY <1>1, <2>1, <2>2, <2>3 DEF Plan, EcdsaPlan
<1>2. CASE scheme = "eddsa"
  <2>1. CASE op = "generate"
    <3>1. Plan[scheme][op] = <<"seed", "derive", "sign", "verify">>
      BY <1>2, <2>1 DEF Plan, EddsaPlan
    <3>2. <<"seed", "derive", "sign", "verify">> \in Seq(Steps) \ {<<>>} /\ <<"seed", "derive", "sign", "verify">>[4] = "verify" /\ Len(<<"seed", "derive", "sign", "verify">>) = 4
      OBVIOUS
    <3>3. QED
      BY <1>2, <2>1, <3>1, <3>2
  <2>2. CASE op = "import"
    <3>1. Plan[scheme][op] = <<"derive", "sign", "verify">>
      BY <1>2, <2>2 DEF Plan, EddsaPlan
    <3>2. <<"derive", "sign", "verify">> \in Seq(Steps) \ {<<>>} /\ <<"derive", "sign", "verify">>[3] = "verify" /\ Len(<<"derive", "sign", "verify">>) = 3
      OBVIOUS
    <3>3. QED
      BY <1>2, <2>2, <3>1, <3>2
  <2>3. CASE op = "use"
    <3>1. Plan[scheme][op] = <<"sign">>
      BY <1>2, <2>3 DEF Plan, EddsaPlan
    <3>2. <<"sign">> \in Seq(Steps) \ {<<>>} /\ <<"sign">>[1] = "sign" /\ Len(<<"sign">>) = 1
      OBVIOUS
    <3>3. QED
      BY <1>2, <2>3, <3>1, <3>2
  <2>4. QED
    BY <1>2, <2>1, <2>2, <2>3 DEF Plan, EddsaPlan
<1>3. CASE scheme = "ecdh"
  <2>1. CASE op = "generate"
    <3>1. Plan[scheme][op] = <<"scalar", "derive", "agree", "agreeBack">>
      BY <1>3, <2>1 DEF Plan, EcdhPlan
    <3>2. <<"scalar", "derive", "agree", "agreeBack">> \in Seq(Steps) \ {<<>>} /\ <<"scalar", "derive", "agree", "agreeBack">>[4] = "agreeBack" /\ Len(<<"scalar", "derive", "agree", "agreeBack">>) = 4
      OBVIOUS
    <3>3. QED
      BY <1>3, <2>1, <3>1, <3>2
  <2>2. QED
    BY <1>3, <2>1 DEF Plan, EcdhPlan
<1>4. CASE scheme = "dh"
  <2>1. CASE op = "generate"
    <3>1. Plan[scheme][op] = <<"scalar", "derive">>
      BY <1>4, <2>1 DEF Plan, DhPlan
    <3>2. <<"scalar", "derive">> \in Seq(Steps) \ {<<>>} /\ <<"scalar", "derive">>[2] = "derive" /\ Len(<<"scalar", "derive">>) = 2
      OBVIOUS
    <3>3. QED
      BY <1>4, <2>1, <3>1, <3>2
  <2>2. QED
    BY <1>4, <2>1 DEF Plan, DhPlan
<1>5. QED
  BY <1>1, <1>2, <1>3, <1>4 DEF Plan

\* A step that is not the last leaves the rest; the last one hands out a pair, which must
\* have been tested.
LEMMA ProceedKeeps ==
  ASSUME HandleInv, Busy, NEW STATE c, c \in CallTypes, Proceed(c),
         c.scheme = call.scheme, c.op = call.op, c.todo = call.todo,
         admits' \in BOOLEAN, faults' \in Nat, verdicts' \in Seq(BOOLEAN),
         \A i \in DOMAIN verdicts' : verdicts'[i],
         Len(c.todo) = 1 /\ c.op # "use" =>
           \/ c.scheme = "dh"
           \/ c.scheme = "ecdh" /\ c.q \in {"none", "ofD", "negative"}
           \/ c.scheme \in {"ecdsa", "eddsa"} /\ c.q \in {"none", "ofD"}
  PROVE  HandleInv'
<1> USE DEF HandleInv
<1>1. CASE Len(c.todo) > 1
  <2>1. call' = [c EXCEPT !.todo = Tail(c.todo)] /\ UNCHANGED <<pair, answer>>
    BY <1>1 DEF Proceed
  <2>2. /\ Tail(c.todo) \in Seq(Steps) \ {<<>>}
        /\ Tail(c.todo)[Len(Tail(c.todo))] = c.todo[Len(c.todo)]
    <3>1. c.todo \in Seq(Steps)
      BY DEF CallTypes
    <3>2. QED
      BY <1>1, <3>1, TailOf
  <2>3. call' \in CallTypes
    BY <2>1, <2>2 DEF CallTypes
  <2>4. HandleTypes'
    BY <2>1, <2>3 DEF HandleTypes, CallTypes
  <2>5. TestAhead'
    BY <2>1, <2>2 DEF TestAhead, CallTypes, Busy
  <2>6. QED
    BY <2>1, <2>4, <2>5 DEF NoneFailed, PairsAreTested, Busy
<1>2. CASE Len(c.todo) = 1
  <2>1. /\ call' = Idle /\ answer' = "ok"
        /\ pair' = IF c.op = "use" THEN pair ELSE [scheme |-> c.scheme, q |-> c.q]
    BY <1>2 DEF Proceed
  <2>2. HandleTypes'
    BY <2>1 DEF HandleTypes, CallTypes
  <2>3. TestAhead' /\ NoneFailed'
    BY <2>1 DEF TestAhead, NoneFailed, Busy
  <2>4. PairsAreTested'
    BY <1>2, <2>1 DEF PairsAreTested, CallTypes, Ops, Schemes
  <2>5. QED
    BY <2>2, <2>3, <2>4
<1>3. c.todo \in Seq(Steps) /\ c.todo # <<>>
  BY DEF CallTypes
<1>4. Len(c.todo) = 1 \/ Len(c.todo) > 1
  BY <1>3, SomeLen
<1>5. QED
  BY <1>1, <1>2, <1>4

\* A call that fails leaves no key pair that was not tested.
LEMMA FailKeeps ==
  ASSUME HandleInv, NEW error \in {"InvalidInput", "NotOperational"}, FailWith(error),
         admits' \in BOOLEAN, faults' \in Nat, verdicts' \in Seq(BOOLEAN)
  PROVE  HandleInv'
BY DEF HandleInv, FailWith, HandleTypes, TestAhead, NoneFailed, PairsAreTested, Busy

\* The call goes on where it was, or one step back.
LEMMA RepeatKeeps ==
  ASSUME HandleInv, Busy, UNCHANGED <<admits, pair, verdicts, answer, faults>>, call' \in CallTypes,
         call'.scheme = call.scheme, call'.op = call.op,
         call'.todo[Len(call'.todo)] = call.todo[Len(call.todo)]
  PROVE  HandleInv'
<1> USE DEF HandleInv
<1>1. HandleTypes'
  BY DEF HandleTypes, CallTypes
<1>2. QED
  BY <1>1 DEF TestAhead, NoneFailed, PairsAreTested, Busy

\* So does the beginning of one.
LEMMA CallKeeps ==
  ASSUME HandleInv, NEW scheme \in DOMAIN Plan, NEW op \in DOMAIN Plan[scheme], CallPair(scheme, op)
  PROVE  HandleInv'
<1> USE DEF HandleInv
<1>1. CASE ~admits
  BY <1>1 DEF CallPair, HandleTypes, TestAhead, NoneFailed, PairsAreTested, Busy
<1>2. CASE admits
  <2> DEFINE c == [scheme |-> scheme, op |-> op, todo |-> Plan[scheme][op],
                   q |-> IF op = "use" THEN pair.q ELSE "none", sig |-> "none",
                   attempts |-> 0, tries |-> 0]
  <2>1. call' = c /\ answer' = "none" /\ verdicts' = <<>> /\ UNCHANGED <<admits, pair, faults>>
    BY <1>2 DEF CallPair, Idle
  <2>2. c \in CallTypes
    BY PlansEnd DEF CallTypes, HandleTypes, Points
  <2>3. HandleTypes'
    BY <2>1, <2>2 DEF HandleTypes, CallTypes
  <2>4. TestAhead'
    BY <2>1, PlansEnd DEF TestAhead
  <2>5. QED
    BY <2>1, <2>3, <2>4 DEF NoneFailed, PairsAreTested
<1>3. QED
  BY <1>1, <1>2 DEF HandleTypes

\* Only a test ends a call that makes a handle for a scheme that has one.
LEMMA LastStep ==
  ASSUME HandleInv, Busy, Len(call.todo) = 1, call.op # "use"
  PROVE  /\ call.scheme \in {"ecdsa", "eddsa"} => At("verify")
         /\ call.scheme = "ecdh" => At("agreeBack")
BY BusyCalls DEF HandleInv, TestAhead, At, CallTypes

\* A step that is no test.
LEMMA PlainStep ==
  ASSUME HandleInv, Busy, ~At("verify"), ~At("agreeBack"), UNCHANGED <<admits, verdicts>>, faults' \in Nat,
         NEW STATE c, c \in CallTypes, Proceed(c), c.scheme = call.scheme, c.op = call.op, c.todo = call.todo
  PROVE  HandleInv'
<1>1. Len(c.todo) = 1 /\ c.op # "use" => c.scheme = "dh"
  BY LastStep, BusyCalls DEF CallTypes, Schemes
<1>2. verdicts' \in Seq(BOOLEAN) /\ admits' \in BOOLEAN /\ \A i \in DOMAIN verdicts' : verdicts'[i]
  BY DEF HandleInv, HandleTypes, NoneFailed
<1>3. QED
  BY <1>1, <1>2, ProceedKeeps

\* So does drawing a scalar or a seed.
LEMMA DrawKeeps == ASSUME HandleInv, DrawScalar \/ DrawSeed PROVE HandleInv'
<1> USE DEF HandleInv
<1>1. Busy /\ ~At("verify") /\ ~At("agreeBack") /\ call \in CallTypes /\ UNCHANGED <<admits, verdicts, faults>>
  BY BusyCalls DEF DrawScalar, DrawSeed, At
<1>2. admits' \in BOOLEAN /\ faults' \in Nat /\ verdicts' \in Seq(BOOLEAN)
  BY <1>1 DEF HandleTypes
<1>3. CASE FailWith("InvalidInput")
  BY <1>2, <1>3, FailKeeps
<1>4. CASE Proceed([call EXCEPT !.attempts = 0])
  <2>1. [call EXCEPT !.attempts = 0] \in CallTypes
    BY <1>1 DEF CallTypes
  <2>2. QED
    BY <1>1, <1>2, <1>4, <2>1, PlainStep DEF CallTypes
<1>5. CASE call' = [call EXCEPT !.attempts = @ + 1] /\ UNCHANGED <<pair, answer>>
  <2>1. call' \in CallTypes
    BY <1>1, <1>5 DEF CallTypes
  <2>2. QED
    BY <1>1, <1>5, <2>1, RepeatKeeps DEF CallTypes
<1>6. CASE Proceed(call)
  BY <1>1, <1>2, <1>6, PlainStep
<1>7. QED
  BY <1>3, <1>4, <1>5, <1>6 DEF DrawScalar, DrawSeed

\* So does deriving the public point.
LEMMA DeriveKeeps == ASSUME HandleInv, DerivePoint PROVE HandleInv'
<1> USE DEF HandleInv
<1>1. Busy /\ ~At("verify") /\ ~At("agreeBack") /\ call \in CallTypes /\ UNCHANGED <<admits, verdicts>>
  BY BusyCalls DEF DerivePoint, At
<1>2. admits' \in BOOLEAN /\ faults' \in Nat /\ verdicts' \in Seq(BOOLEAN)
  BY <1>1 DEF HandleTypes, DerivePoint
<1>3. ASSUME NEW q \in Points, Proceed([call EXCEPT !.q = q]) PROVE HandleInv'
  <2>1. [call EXCEPT !.q = q] \in CallTypes
    BY <1>1 DEF CallTypes
  <2>2. QED
    BY <1>1, <1>2, <1>3, <2>1, PlainStep DEF CallTypes
<1>4. CASE FailWith("InvalidInput")
  BY <1>2, <1>4, FailKeeps
<1>5. QED
  BY <1>3, <1>4 DEF DerivePoint, Points

\* So does the signature of the pairwise test.
LEMMA SignKeeps == ASSUME HandleInv, SignOnce PROVE HandleInv'
<1> USE DEF HandleInv
<1>1. Busy /\ ~At("verify") /\ ~At("agreeBack") /\ call \in CallTypes /\ UNCHANGED <<admits, verdicts>>
  BY BusyCalls DEF SignOnce, At
<1>2. admits' \in BOOLEAN /\ faults' \in Nat /\ verdicts' \in Seq(BOOLEAN)
  BY <1>1 DEF HandleTypes, SignOnce
<1>3. ASSUME NEW sig \in {"ofD", "wrong"}, Proceed([call EXCEPT !.sig = sig]) PROVE HandleInv'
  <2>1. [call EXCEPT !.sig = sig] \in CallTypes
    BY <1>1 DEF CallTypes
  <2>2. QED
    BY <1>1, <1>2, <1>3, <2>1, PlainStep DEF CallTypes
<1>4. ASSUME Again(<<"nonce">>), UNCHANGED faults PROVE HandleInv'
  <2>1. CASE FailWith("InvalidInput")
    BY <1>2, <2>1, FailKeeps
  <2>2. CASE /\ call' = [call EXCEPT !.tries = @ + 1, !.todo = <<"nonce">> \o @]
             /\ UNCHANGED <<pair, answer>>
    <3>1. <<"nonce">> \o call.todo \in Seq(Steps) \ {<<>>}
      BY <1>1 DEF CallTypes, Steps
    <3>2. (<<"nonce">> \o call.todo)[Len(<<"nonce">> \o call.todo)] = call.todo[Len(call.todo)]
      BY <1>1 DEF CallTypes
    <3>3. call' \in CallTypes
      <4>1. call.tries + 1 \in Nat
        BY <1>1 DEF CallTypes
      <4>2. QED
        BY <1>1, <2>2, <3>1, <4>1 DEF CallTypes
    <3>4. QED
      BY <1>1, <1>4, <2>2, <3>2, <3>3, RepeatKeeps DEF CallTypes
  <2>3. QED
    BY <1>4, <2>1, <2>2 DEF Again
<1>5. QED
  BY <1>3, <1>4 DEF SignOnce

\* The tests: what they let through belongs together.
LEMMA TestKeeps == ASSUME HandleInv, VerifyProbe \/ AgreeBack PROVE HandleInv'
<1> USE DEF HandleInv
<1> DEFINE passed == IF VerifyProbe THEN call.sig = call.q ELSE call.q \in {"ofD", "negative"}
<1>1. Busy /\ call \in CallTypes /\ UNCHANGED <<admits, faults>> /\ verdicts' = Append(verdicts, passed)
  BY BusyCalls DEF VerifyProbe, AgreeBack, At
<1>2. admits' \in BOOLEAN /\ faults' \in Nat /\ verdicts' \in Seq(BOOLEAN)
  <2>1. verdicts \in Seq(BOOLEAN)
    BY DEF HandleTypes
  <2>2. passed \in BOOLEAN
    <3>1. CASE VerifyProbe
      BY <3>1
    <3>2. CASE ~VerifyProbe
      BY <3>2
    <3>3. QED
      BY <3>1, <3>2
  <2> HIDE DEF passed
  <2>3. QED
    BY <1>1, <2>1, <2>2 DEF HandleTypes
<1>3. CASE ~passed
  BY <1>2, <1>3, FailKeeps DEF VerifyProbe, AgreeBack
<1>4. CASE passed
  <2>1. Proceed(call)
    BY <1>4 DEF VerifyProbe, AgreeBack
  <2>2. \A i \in DOMAIN verdicts' : verdicts'[i]
    <3>1. verdicts \in Seq(BOOLEAN) /\ \A i \in DOMAIN verdicts : verdicts[i]
      BY <1>1 DEF NoneFailed, HandleTypes
    <3>2. verdicts' = Append(verdicts, TRUE)
      BY <1>1, <1>4
    <3>3. QED
      BY <3>1, <3>2
  <2>3. Len(call.todo) = 1 /\ call.op # "use" =>
           \/ call.scheme = "dh"
           \/ call.scheme = "ecdh" /\ call.q \in {"none", "ofD", "negative"}
           \/ call.scheme \in {"ecdsa", "eddsa"} /\ call.q \in {"none", "ofD"}
    BY <1>1, <1>4, LastStep DEF VerifyProbe, AgreeBack, At, CallTypes, Schemes, Points
  <2>4. QED
    BY <1>1, <1>2, <2>1, <2>2, <2>3, ProceedKeeps
<1>5. QED
  BY <1>3, <1>4

\* A handle that was made belongs together, for any number of faults and retries (run_pct and
\* the pairwise tests of the four schemes).
THEOREM HandlesPaired == HandleInit /\ [][HandleNext]_handleVars => []PairsAreTested
<1>1. HandleInit => HandleInv
  BY DEF HandleInit, HandleInv, HandleTypes, TestAhead, NoneFailed, PairsAreTested, Busy, NoPair, Points
<1>2. HandleInv /\ [HandleNext]_handleVars => HandleInv'
  <2> SUFFICES ASSUME HandleInv, [HandleNext]_handleVars PROVE HandleInv'
    OBVIOUS
  <2> USE DEF HandleInv
  <2>1. CASE \E scheme \in DOMAIN Plan : \E op \in DOMAIN Plan[scheme] : CallPair(scheme, op)
    BY <2>1, CallKeeps
  <2>2. CASE DrawScalar \/ DrawSeed \/ DerivePoint \/ SignOnce \/ VerifyProbe \/ AgreeBack
    BY <2>2, DrawKeeps, DeriveKeeps, SignKeeps, TestKeeps
  <2>3. CASE Agree
    BY <2>3, BusyCalls, PlainStep DEF Agree, At, HandleTypes
  <2>4. CASE RefuseAt
    BY <2>4, FailKeeps DEF RefuseAt, HandleTypes
  <2>5. CASE ShutModule
    BY <2>5 DEF ShutModule, HandleTypes, TestAhead, NoneFailed, PairsAreTested, Busy
  <2>6. CASE UNCHANGED handleVars
    BY <2>6 DEF handleVars, HandleTypes, TestAhead, NoneFailed, PairsAreTested, Busy
  <2>7. QED
    BY <2>1, <2>2, <2>3, <2>4, <2>5, <2>6 DEF HandleNext
<1>3. HandleInv => PairsAreTested
  BY DEF HandleInv
<1>4. QED
  BY <1>1, <1>2, <1>3, PTL

-----------------------------------------------------------------------------
(* The requests of esv-harness.                                            *)

Wheres == {"idle", "fresh", "send", "resend", "poll", "get", "rest", "post", "wait"}
Results == {"none", "served", "unauthorized", "failed", "refused", "windowReuse", "pollTimeout",
            "nypTimeout", "transient", "terminal", "serverError"}

ExchangeTypes ==
  /\ honest \in BOOLEAN /\ used \in BOOLEAN /\ slept \in BOOLEAN /\ blind \in BOOLEAN
  /\ phase \in 0..Window - 1 /\ age \in 0..Life /\ clock \in 0..Margin
  /\ where \in Wheres /\ what \in {"request", "poll"} /\ result \in Results
  /\ post \in {"refresh", "login"} /\ next \in {"idle", "send", "resend", "get"}
  /\ retries \in Nat

\* Which of the two calls is at which place, and where it goes on with a new token.
PlaceInv ==
  /\ where # "idle" => result = "none"
  /\ where \in {"fresh", "send", "resend"} => what = "request"
  /\ where \in {"poll", "get", "rest"} => what = "poll"
  /\ where \in {"post", "wait"} => next \in (IF what = "request" THEN {"send", "resend"} ELSE {"get"})

\* The client knows the age of its token unless the machine was suspended or it is stale.
ClockInv == ~blind /\ clock < Margin => age = clock

\* While the window of a code that was taken lasts, there are retries left to wait it out.
WindowInv ==
  used =>
    /\ where = "post" => retries + (Window - phase) <= RetryCap
    /\ where = "wait" => retries + (Window - phase) <= RetryCap + 1

\* A request is sent again, and a poll sent, with a token that is good, as far as the client
\* can tell.
TokenInv ==
  /\ where = "resend" => age < Life \/ (slept /\ blind)
  /\ where = "get" => age < Life \/ blind

ExchangeInv == ExchangeTypes /\ PlaceInv /\ ClockInv /\ (honest => WindowInv) /\ TokenInv /\ HonestIsServed

\* Time within a window.
LEMMA NextPhase ==
  ASSUME ExchangeTypes, NEW n \in Nat
  PROVE  /\ (phase + n) % Window \in 0..Window - 1
         /\ phase + n < Window => (phase + n) % Window = phase + n
<1>1. phase + n \in Nat /\ Window \in Nat \ {0}
  BY ExchangeAssumption DEF ExchangeTypes
<1>2. \A k \in Nat, w \in Nat \ {0} : k % w \in 0..w - 1 /\ (k < w => k % w = k)
  OBVIOUS
<1>3. QED
  BY <1>1, <1>2

\* Time that passes keeps the types and what the client knows of its token.
LEMMA PassKeeps ==
  ASSUME ExchangeTypes, ClockInv, NEW n \in Nat, Pass(n)
  PROVE  /\ phase' \in 0..Window - 1 /\ age' \in 0..Life /\ clock' \in 0..Margin /\ used' \in BOOLEAN
         /\ UNCHANGED <<honest, slept, blind>>
         /\ ClockInv'
         /\ used' => used /\ phase' = phase + n
<1> USE DEF Pass
<1>1. phase' \in 0..Window - 1 /\ (used' => used /\ phase' = phase + n)
  BY NextPhase DEF ExchangeTypes
<1>2. age' \in 0..Life /\ clock' \in 0..Margin
  BY ExchangeAssumption DEF ExchangeTypes, AtMost
<1>3. ClockInv'
  BY ExchangeAssumption DEF ExchangeTypes, ClockInv, AtMost
<1>4. QED
  BY <1>1, <1>2, <1>3 DEF ExchangeTypes

\* An exchange begins idle, with the token of a login just made and its code used up.
LEMMA InitExchange == ExchangeInit => ExchangeInv
<1> SUFFICES ASSUME ExchangeInit PROVE ExchangeInv
  OBVIOUS
<1>1. ExchangeTypes
  <2>1. 0 \in 0..Life /\ 0 \in 0..Margin
    BY ExchangeAssumption
  <2>2. QED
    BY <2>1 DEF ExchangeInit, ExchangeTypes, Wheres, Results
<1>2. PlaceInv /\ ClockInv /\ WindowInv /\ TokenInv /\ HonestIsServed
  BY DEF ExchangeInit, PlaceInv, ClockInv, WindowInv, TokenInv, HonestIsServed
<1>3. QED
  BY <1>1, <1>2 DEF ExchangeInv

\* A post with a code, and its retries.
LEMMA PostingKeeps ==
  ASSUME ExchangeInv, Reuse \/ Wait \/ Adopt \/ Refused \/ PostFails
  PROVE  ExchangeInv'
<1> USE ExchangeAssumption DEF ExchangeInv
<1>1. CASE Reuse
  <2>1. honest => used
    BY <1>1 DEF Reuse, Replies
  <2>2. honest => ~Exhausted
    BY <1>1, <2>1 DEF Reuse, Exhausted, WindowInv, ExchangeTypes
  <2>3. CASE Exhausted
    BY <1>1, <2>2, <2>3 DEF Reuse, End, Quiet, timeVars, ExchangeTypes, PlaceInv, ClockInv, TokenInv,
       HonestIsServed, Wheres, Results
  <2>4. CASE ~Exhausted
    BY <1>1, <2>4 DEF Reuse, Quiet, timeVars, ExchangeTypes, PlaceInv, ClockInv, WindowInv, TokenInv,
       HonestIsServed, Wheres
  <2>5. QED
    BY <2>3, <2>4
<1>2. CASE Wait
  <2>1. Pass(1) /\ Goto("post") /\ where = "wait"
    BY <1>2 DEF Wait
  <2>2. /\ phase' \in 0..Window - 1 /\ age' \in 0..Life /\ clock' \in 0..Margin /\ used' \in BOOLEAN
        /\ UNCHANGED <<honest, slept, blind>> /\ ClockInv' /\ (used' => used /\ phase' = phase + 1)
    BY <2>1, PassKeeps
  <2>3. honest => WindowInv'
    BY <2>1, <2>2 DEF WindowInv, Goto, ExchangeTypes
  <2>4. QED
    BY <2>1, <2>2, <2>3 DEF Goto, ExchangeTypes, PlaceInv, TokenInv, HonestIsServed, Wheres
<1>3. CASE Adopt
  <2>1. /\ where = "post" /\ where' = next /\ age' = 0 /\ clock' = 0 /\ blind' = FALSE /\ used' = TRUE
        /\ UNCHANGED <<what, post, next, retries, result, honest, phase, slept>>
    BY <1>3 DEF Adopt, Goto
  <2>2. 0 \in 0..Life /\ 0 \in 0..Margin /\ 0 < Life
    BY ExchangeAssumption
  <2>3. where' \in {"send", "resend", "get"} /\ result' = "none"
    BY <2>1 DEF PlaceInv
  <2>4. ExchangeTypes'
    BY <2>1, <2>2, <2>3 DEF ExchangeTypes, Wheres
  <2>5. PlaceInv'
    <3>1. what = "request" => next \in {"send", "resend"}
      BY <2>1 DEF PlaceInv
    <3>2. what # "request" => next = "get" /\ what = "poll"
      BY <2>1 DEF PlaceInv, ExchangeTypes
    <3>3. QED
      BY <2>1, <3>1, <3>2 DEF PlaceInv
  <2>6. ClockInv' /\ WindowInv' /\ TokenInv' /\ HonestIsServed'
    BY <2>1, <2>2, <2>3 DEF ClockInv, WindowInv, TokenInv, HonestIsServed
  <2>7. QED
    BY <2>4, <2>5, <2>6
<1>4. CASE Refused
  <2>1. CASE post = "login"
    <3>1. ~honest
      BY <1>4, <2>1 DEF Refused, Replies
    <3>2. /\ where' = "idle" /\ result' = "refused" /\ retries' = 0 /\ post' = "login" /\ next' = "idle"
          /\ used' \in BOOLEAN /\ UNCHANGED <<what, honest, phase, age, clock, slept, blind>>
      BY <1>4, <2>1 DEF Refused, End, ExchangeTypes
    <3>3. ExchangeTypes' /\ PlaceInv' /\ ClockInv'
      BY <3>2 DEF ExchangeTypes, PlaceInv, ClockInv, Wheres, Results
    <3>4. QED
      BY <3>1, <3>2, <3>3 DEF TokenInv, HonestIsServed
  <2>2. CASE post # "login"
    <3>1. /\ where = "post" /\ post' = "login" /\ retries' = 0 /\ used' \in BOOLEAN
          /\ UNCHANGED <<where, what, next, result, honest, phase, age, clock, slept, blind>>
      BY <1>4, <2>2 DEF Refused, ExchangeTypes
    <3>2. ExchangeTypes' /\ PlaceInv' /\ ClockInv' /\ TokenInv' /\ HonestIsServed'
      BY <3>1 DEF ExchangeTypes, PlaceInv, ClockInv, TokenInv, HonestIsServed
    <3>3. phase \in Int /\ 0 <= phase
      BY ExchangeAssumption DEF ExchangeTypes
    <3>4. 0 + (Window - phase) <= RetryCap
      BY <3>3, ExchangeAssumption
    <3>5. WindowInv'
      BY <3>1, <3>4 DEF WindowInv
    <3>6. QED
      BY <3>2, <3>5
  <2>3. QED
    BY <2>1, <2>2
<1>5. CASE PostFails
  <2>1. ~honest
    BY <1>5 DEF PostFails, Replies
  <2>2. QED
    BY <1>5, <2>1 DEF PostFails, End, Quiet, timeVars, ExchangeTypes, PlaceInv, ClockInv, TokenInv,
       HonestIsServed, Wheres, Results
<1>6. QED
  BY <1>1, <1>2, <1>3, <1>4, <1>5

\* A post begins with all its retries.
LEMMA PostKeeps ==
  ASSUME ExchangeInv, NEW place \in {"send", "resend"}, what = "request", result = "none", Post(place), Quiet
  PROVE  ExchangeInv'
BY ExchangeAssumption DEF ExchangeInv, Post, Quiet, timeVars, ExchangeTypes, PlaceInv, ClockInv, WindowInv,
   TokenInv, HonestIsServed, Wheres

\* Asking, sending and resending keep the accounts of the time a request has left.
LEMMA RequestKeeps ==
  ASSUME ExchangeInv, Request \/ Fresh \/ Send \/ Resend
  PROVE  ExchangeInv'
<1> USE ExchangeAssumption DEF ExchangeInv
<1>1. CASE Request
  BY <1>1 DEF Request, Begin, timeVars, ExchangeTypes, PlaceInv, ClockInv, WindowInv, TokenInv, HonestIsServed,
     Wheres, Results
<1>2. CASE Fresh
  <2>1. what = "request" /\ result = "none" /\ Quiet
    BY <1>2 DEF Fresh, PlaceInv
  <2>2. CASE Post("send")
    BY <2>1, <2>2, PostKeeps
  <2>3. CASE Goto("send")
    BY <2>1, <2>3 DEF Goto, Quiet, timeVars, ExchangeTypes, PlaceInv, ClockInv, WindowInv, TokenInv,
       HonestIsServed, Wheres
  <2>4. QED
    BY <1>2, <2>2, <2>3 DEF Fresh, RefreshIfStale
<1>3. CASE Send
  <2>1. what = "request" /\ result = "none" /\ Quiet
    BY <1>3 DEF Send, PlaceInv
  <2>2. CASE Post("resend")
    BY <2>1, <2>2, PostKeeps
  <2>3. ASSUME NEW reply \in Answers, reply # "unauthorized", End(reply) PROVE ExchangeInv'
    <3>1. reply \in Results /\ (honest => reply = "served")
      BY <2>3 DEF Answers, Results
    <3>2. QED
      BY <2>1, <2>3, <3>1 DEF End, Quiet, timeVars, ExchangeTypes, PlaceInv, ClockInv, WindowInv, TokenInv,
         HonestIsServed, Wheres
  <2>4. QED
    BY <1>3, <2>2, <2>3 DEF Send
<1>4. CASE Resend
  <2>1. PICK reply \in Answers : End(reply)
    BY <1>4 DEF Resend
  <2>2. what = "request" /\ Quiet
    BY <1>4 DEF Resend, PlaceInv
  <2>3. reply \in Results /\ (honest => reply = "served" \/ (reply = "unauthorized" /\ slept /\ blind))
    BY <1>4 DEF Resend, Answers, Results, TokenInv
  <2>4. QED
    BY <2>1, <2>2, <2>3 DEF End, Quiet, timeVars, ExchangeTypes, PlaceInv, ClockInv, WindowInv, TokenInv,
       HonestIsServed, Wheres
<1>5. QED
  BY <1>1, <1>2, <1>3, <1>4

\* So do polling, resting between polls and fetching.
LEMMA PollKeeps ==
  ASSUME ExchangeInv, Poll \/ PollOnce \/ Get \/ RestOver
  PROVE  ExchangeInv'
<1> USE ExchangeAssumption DEF ExchangeInv
<1>1. CASE Poll
  BY <1>1 DEF Poll, Begin, timeVars, ExchangeTypes, PlaceInv, ClockInv, WindowInv, TokenInv, HonestIsServed,
     Wheres, Results
<1>2. CASE PollOnce
  <2>1. what = "poll" /\ result = "none" /\ Quiet
    BY <1>2 DEF PollOnce, PlaceInv
  <2>2. CASE End("pollTimeout")
    BY <2>1, <2>2 DEF End, Quiet, timeVars, ExchangeTypes, PlaceInv, ClockInv, WindowInv, TokenInv,
       HonestIsServed, Wheres, Results
  <2>3. CASE clock >= Margin /\ where' = "post" /\ next' = "get" /\ post' = "refresh" /\ retries' = 0
             /\ UNCHANGED <<what, result>>
    BY <2>1, <2>3 DEF Quiet, timeVars, ExchangeTypes, PlaceInv, ClockInv, WindowInv, TokenInv, HonestIsServed,
       Wheres
  <2>4. CASE clock < Margin /\ where' = "get" /\ UNCHANGED <<what, post, next, retries, result>>
    <3>1. age < Life \/ blind
      BY <2>4 DEF ClockInv, ExchangeTypes
    <3>2. QED
      BY <2>1, <2>4, <3>1 DEF Quiet, timeVars, ExchangeTypes, PlaceInv, ClockInv, WindowInv, TokenInv,
         HonestIsServed, Wheres
  <2>5. QED
    BY <1>2, <2>2, <2>3, <2>4 DEF PollOnce, ExchangeTypes
<1>3. CASE Get
  <2>1. what = "poll" /\ result = "none" /\ Quiet
    BY <1>3 DEF Get, PlaceInv
  <2>2. ASSUME NEW how \in {"transient", "nypTimeout", "terminal", "serverError"}, End(how),
               honest => how # "transient" /\ (how = "serverError" => blind)
        PROVE  ExchangeInv'
    BY <2>1, <2>2 DEF End, Quiet, timeVars, ExchangeTypes, PlaceInv, ClockInv, WindowInv, TokenInv,
       HonestIsServed, Wheres, Results
  <2>3. ASSUME NEW inRow, NEW failures, Rest(inRow, failures) PROVE ExchangeInv'
    BY <2>1, <2>3 DEF Rest, Quiet, timeVars, ExchangeTypes, PlaceInv, ClockInv, WindowInv, TokenInv,
       HonestIsServed, Wheres
  <2>4. \A status \in Statuses : honest => status # "transient" /\ (status = "serverError" => blind)
    BY <1>3 DEF Get, Statuses, TokenInv
  <2>5. QED
    BY <1>3, <2>2, <2>3, <2>4 DEF Get
<1>4. CASE RestOver
  <2>1. Pass(PollWait) /\ Goto("poll") /\ where = "rest"
    BY <1>4 DEF RestOver
  <2>2. /\ phase' \in 0..Window - 1 /\ age' \in 0..Life /\ clock' \in 0..Margin /\ used' \in BOOLEAN
        /\ UNCHANGED <<honest, slept, blind>> /\ ClockInv'
    BY <2>1, PassKeeps
  <2>3. QED
    BY <2>1, <2>2 DEF Goto, ExchangeTypes, PlaceInv, WindowInv, TokenInv, HonestIsServed, Wheres
<1>5. QED
  BY <1>1, <1>2, <1>3, <1>4

\* So does the passing of time, awake or suspended.
LEMMA TimeKeeps ==
  ASSUME ExchangeInv, Elapse \/ Suspend
  PROVE  ExchangeInv'
<1> USE ExchangeAssumption DEF ExchangeInv
<1>1. CASE Elapse
  <2>1. Pass(1) /\ where = "idle" /\ UNCHANGED callVars
    BY <1>1 DEF Elapse
  <2>2. /\ phase' \in 0..Window - 1 /\ age' \in 0..Life /\ clock' \in 0..Margin /\ used' \in BOOLEAN
        /\ UNCHANGED <<honest, slept, blind>> /\ ClockInv'
    BY <2>1, PassKeeps
  <2>3. QED
    BY <2>1, <2>2 DEF callVars, ExchangeTypes, PlaceInv, WindowInv, TokenInv, HonestIsServed
<1>2. CASE Suspend
  <2>1. used' => used /\ phase' >= phase
    BY <1>2 DEF Suspend
  <2>2. /\ phase' \in 0..Window - 1 /\ age' \in age..Life /\ used' \in BOOLEAN
        /\ slept' = TRUE /\ blind' = TRUE
        /\ UNCHANGED <<honest, clock, where, what, post, next, retries, result>>
    BY <1>2 DEF Suspend, callVars, ExchangeTypes
  <2>3. honest' => WindowInv'
    <3>1. retries \in Nat /\ phase \in Int /\ phase' \in Int /\ (used' => used /\ phase' >= phase)
      BY <2>1, <2>2, ExchangeAssumption DEF ExchangeTypes
    <3>2. ASSUME used' PROVE retries + (Window - phase') <= retries + (Window - phase)
      <4>1. \A r, w, p, q \in Int : q >= p => r + (w - q) <= r + (w - p)
        OBVIOUS
      <4>2. Window \in Int /\ retries \in Int
        BY <3>1, ExchangeAssumption
      <4>3. QED
        BY <3>1, <3>2, <4>1, <4>2
    <3>3. ASSUME used', honest PROVE WindowInv'
      <4>1. WindowInv /\ used
        BY <3>1, <3>3
      <4>2. retries + (Window - phase') <= retries + (Window - phase)
        BY <3>2, <3>3
      <4>3. retries + (Window - phase') \in Int /\ retries + (Window - phase) \in Int
        BY <3>1, ExchangeAssumption
      <4>4. where = "post" => retries + (Window - phase') <= RetryCap
        BY <4>1, <4>2, <4>3, ExchangeAssumption DEF WindowInv
      <4>5. where = "wait" => retries + (Window - phase') <= RetryCap + 1
        BY <4>1, <4>2, <4>3, ExchangeAssumption DEF WindowInv
      <4>6. QED
        BY <2>2, <4>4, <4>5 DEF WindowInv
    <3>4. QED
      BY <2>2, <3>3 DEF WindowInv
  <2>4. age \in 0..Life /\ age' \in 0..Life
    BY <2>2, ExchangeAssumption DEF ExchangeTypes
  <2>5. ExchangeTypes'
    BY <2>2, <2>4 DEF ExchangeTypes
  <2>6. PlaceInv' /\ ClockInv' /\ TokenInv' /\ HonestIsServed'
    BY <2>2 DEF PlaceInv, ClockInv, TokenInv, HonestIsServed
  <2>7. QED
    BY <2>3, <2>5, <2>6
<1>3. QED
  BY <1>1, <1>2

\* post_totp_signed, authenticated_request, poll_data_file: for any life of a token and any
\* number of retries that outlasts the window of a code, an honest server serves every request
\* and answers every poll, but for a token that a suspension expired.
THEOREM HonestServed == ExchangeSpec => []HonestIsServed
<1>1. ExchangeInv /\ [ExchangeNext]_exchangeVars => ExchangeInv'
  <2> SUFFICES ASSUME ExchangeInv, [ExchangeNext]_exchangeVars PROVE ExchangeInv'
    OBVIOUS
  <2>1. CASE ExchangeNext
    BY <2>1, PostingKeeps, RequestKeeps, PollKeeps, TimeKeeps DEF ExchangeNext, ClientStep
  <2>2. CASE UNCHANGED exchangeVars
    BY <2>2 DEF exchangeVars, timeVars, callVars, ExchangeInv, ExchangeTypes, PlaceInv, ClockInv, WindowInv,
       TokenInv, HonestIsServed
  <2>3. QED
    BY <2>1, <2>2
<1>2. ExchangeInv => HonestIsServed
  BY DEF ExchangeInv
<1>3. QED
  BY InitExchange, <1>1, <1>2, PTL DEF ExchangeSpec

-----------------------------------------------------------------------------
(* The pools of the parallel sweeps.                                       *)

SweepTypes ==
  /\ module \in {"Uninitialized", "SelfTest", "Operational", "Error"}
  /\ at \in [Threads -> {"out", "testing", "awaiting", "serving"}]
  /\ sweep \in [Threads -> [pool : {"none", "global", "own"}, left : Nat]]

\* One thread runs the self-tests, as long as the module is in them.
TesterInv ==
  /\ \A t \in Threads : at[t] = "testing" => module = "SelfTest"
  /\ module = "SelfTest" => \E t \in Threads : at[t] = "testing"
  /\ \A t, u \in Threads : at[t] = "testing" /\ at[u] = "testing" => t = u

\* No sweep began before the module was operational but those of the self-tests, and those
\* are not in the global pool.
PoolInv ==
  \A t \in Threads :
    /\ sweep[t] # NoSweep => at[t] \in {"testing", "serving"} /\ sweep[t].pool # "none"
    /\ at[t] = "testing" => sweep[t].pool # "global"
    /\ at[t] = "serving" => module \in {"Operational", "Error"}

SweepInv == SweepTypes /\ TesterInv /\ PoolInv

\* What a thread in initialize waits for does not depend on the global pool, whose workers may
\* all be waiting with it: a thread runs the self-tests, and a sweep it is in is in the pool
\* of the self-tests (sweep.rs run).
NobodyWaitsForThePool ==
  \A t \in Threads :
    /\ at[t] = "awaiting" /\ module = "SelfTest" => \E u \in Threads : at[u] = "testing"
    /\ at[t] = "testing" => Before(t) \/ sweep[t].pool = "own"

LEMMA SweepBegins == SweepInit => SweepInv
<1>1. QED
  BY DEF SweepInit, SweepInv, SweepTypes, TesterInv, PoolInv, NoSweep

LEMMA InitializeKeeps ==
  ASSUME SweepInv, NEW t \in Threads, Initialize(t)
  PROVE  SweepInv'
<1>1. at[t] = "out" /\ sweep' = sweep
  BY DEF Initialize
<1>2. CASE module = "Uninitialized" /\ module' = "SelfTest" /\ at' = [at EXCEPT ![t] = "testing"]
  BY <1>1, <1>2 DEF SweepInv, SweepTypes, TesterInv, PoolInv, NoSweep
<1>3. CASE module = "SelfTest" /\ at' = [at EXCEPT ![t] = "awaiting"] /\ module' = module
  BY <1>1, <1>3 DEF SweepInv, SweepTypes, TesterInv, PoolInv, NoSweep
<1>4. QED
  BY <1>2, <1>3 DEF Initialize

LEMMA CallerKeeps ==
  ASSUME SweepInv, NEW t \in Threads, StopAwaiting(t) \/ EnterService(t)
  PROVE  SweepInv'
<1>1. CASE StopAwaiting(t)
  BY <1>1 DEF StopAwaiting, SweepInv, SweepTypes, TesterInv, PoolInv, NoSweep
<1>2. CASE EnterService(t)
  BY <1>2 DEF EnterService, SweepInv, SweepTypes, TesterInv, PoolInv, NoSweep
<1>3. QED
  BY <1>1, <1>2

\* A sweep that begins goes to the pool of the self-tests unless the module is operational,
\* and then no thread runs them.
LEMMA RunSweepKeeps ==
  ASSUME SweepInv, NEW t \in Threads, RunSweep(t)
  PROVE  SweepInv'
<1>1. at[t] \in {"testing", "serving"} /\ sweep[t] = NoSweep
  BY DEF RunSweep, Before
<1>2. CASE module = "Operational" /\ Into(t, "global")
  <2>1. /\ sweep' = [sweep EXCEPT ![t] = [pool |-> "global", left |-> ITEMS]]
        /\ module' = module /\ at' = at
    BY <1>2 DEF Into
  <2>2. at[t] # "testing"
    BY <1>2 DEF SweepInv, TesterInv
  <2>3. QED
    BY <1>1, <2>1, <2>2, SweepAssumption DEF SweepInv, SweepTypes, TesterInv, PoolInv, NoSweep
<1>3. CASE Into(t, "own")
  <2>1. /\ sweep' = [sweep EXCEPT ![t] = [pool |-> "own", left |-> ITEMS]]
        /\ module' = module /\ at' = at
    BY <1>3 DEF Into
  <2>2. QED
    BY <1>1, <2>1, SweepAssumption DEF SweepInv, SweepTypes, TesterInv, PoolInv, NoSweep
<1>4. CASE /\ module' = IF at[t] = "testing" THEN "Error" ELSE module
           /\ at' = [at EXCEPT ![t] = "out"] /\ UNCHANGED sweep
  <2>1. CASE at[t] = "testing"
    BY <1>1, <1>4, <2>1 DEF SweepInv, SweepTypes, TesterInv, PoolInv, NoSweep
  <2>2. CASE at[t] # "testing"
    <3>1. at[t] = "serving" /\ module' = module
      BY <1>1, <1>4, <2>2
    <3>2. QED
      BY <1>1, <1>4, <3>1 DEF SweepInv, SweepTypes, TesterInv, PoolInv, NoSweep
  <2>3. QED
    BY <2>1, <2>2
<1>5. QED
  BY <1>2, <1>3, <1>4 DEF RunSweep

LEMMA ItemKeeps ==
  ASSUME SweepInv, NEW t \in Threads, RunItem(t)
  PROVE  SweepInv'
<1>1. /\ sweep[t].left > 0 /\ sweep' = [sweep EXCEPT ![t].left = @ - 1]
      /\ module' = module /\ at' = at
  BY DEF RunItem
<1>2. sweep[t] # NoSweep /\ sweep[t] \in [pool : {"none", "global", "own"}, left : Nat]
  BY <1>1 DEF NoSweep, SweepInv, SweepTypes
<1>3. sweep'[t] = [pool |-> sweep[t].pool, left |-> sweep[t].left - 1] /\ sweep[t].left - 1 \in Nat
  BY <1>1, <1>2 DEF SweepInv, SweepTypes
<1>4. sweep' \in [Threads -> [pool : {"none", "global", "own"}, left : Nat]]
  BY <1>1, <1>2, <1>3 DEF SweepInv, SweepTypes
<1>5. \A u \in Threads : u # t => sweep'[u] = sweep[u]
  BY <1>1 DEF SweepInv, SweepTypes
<1>6. sweep'[t].pool = sweep[t].pool
  BY <1>3
<1>7. QED
  BY <1>1, <1>2, <1>4, <1>5, <1>6 DEF SweepInv, SweepTypes, TesterInv, PoolInv

LEMMA EndSweepKeeps ==
  ASSUME SweepInv, NEW t \in Threads, EndSweep(t)
  PROVE  SweepInv'
<1>1. /\ sweep[t] # NoSweep /\ sweep' = [sweep EXCEPT ![t] = NoSweep] /\ at' = [at EXCEPT ![t] = "out"]
      /\ module' = IF at[t] = "testing" THEN "Operational" ELSE module
  BY DEF EndSweep
<1>2. at[t] \in {"testing", "serving"}
  BY <1>1 DEF SweepInv, PoolInv
<1>3. CASE at[t] = "testing"
  BY <1>1, <1>3 DEF SweepInv, SweepTypes, TesterInv, PoolInv, NoSweep
<1>4. CASE at[t] = "serving"
  <2>1. module' = module
    BY <1>1, <1>4
  <2>2. QED
    BY <1>1, <1>4, <2>1 DEF SweepInv, SweepTypes, TesterInv, PoolInv, NoSweep
<1>5. QED
  BY <1>2, <1>3, <1>4

\* The deadlock that the second pool is there to prevent cannot come about, for any number of
\* workers of the global pool, of other threads and of parts of a sweep (sweep.rs run).
THEOREM PoolsAreApart == SweepSpec => []NobodyWaitsForThePool
<1>1. SweepInv /\ [SweepNext]_sweepVars => SweepInv'
  <2> SUFFICES ASSUME SweepInv, [SweepNext]_sweepVars PROVE SweepInv'
    OBVIOUS
  <2>1. CASE LatchError
    BY <2>1 DEF LatchError, SweepInv, SweepTypes, TesterInv, PoolInv
  <2>2. CASE UNCHANGED sweepVars
    BY <2>2 DEF sweepVars, SweepInv, SweepTypes, TesterInv, PoolInv
  <2>3. QED
    BY <2>1, <2>2, InitializeKeeps, CallerKeeps, RunSweepKeeps, ItemKeeps, EndSweepKeeps DEF SweepNext
<1>2. SweepInv => NobodyWaitsForThePool
  BY DEF SweepInv, SweepTypes, TesterInv, PoolInv, NobodyWaitsForThePool, Before
<1>3. QED
  BY SweepBegins, <1>1, <1>2, PTL DEF SweepSpec

-----------------------------------------------------------------------------
(* Reduction, rounding and hints of ML-DSA.                                *)

\* The range of a reduced coefficient.
Residues == {r \in Int : 0 <= r /\ r < DSA!Q}
\* Half a rounding bin in the parameter sets of the code: ML-DSA-65 and 87, ML-DSA-44.
LowParts == GAMMA2 \in {(DSA!Q - 1) \div 32, (DSA!Q - 1) \div 88}

\* The numbers these stand for.
LEMMA QIs == DSA!Q \in Int /\ DSA!Q = 8380417
  BY SMT DEF DSA!Q

LEMMA ResidueIs == ASSUME NEW r \in Residues PROVE r \in Int /\ 0 <= r /\ r <= 8380416
  BY SMT, QIs DEF Residues

LEMMA GammaIs == LowParts <=> GAMMA2 = 261888 \/ GAMMA2 = 95232
<1>1. (DSA!Q - 1) \div 32 = 261888 /\ (DSA!Q - 1) \div 88 = 95232
  BY SMT, QIs
<1> QED
  BY SMT, <1>1 DEF LowParts

LEMMA BinsAre == (GAMMA2 = 261888 => DSA!Bins = 16) /\ (GAMMA2 = 95232 => DSA!Bins = 44)
  BY SMT DEF DSA!Bins, DSA!Q

\* The two parts of r: a bin and an offset within half a bin of its middle, the offset -GAMMA2
\* in the first bin only, where the topmost residues wrap to.
Parts(r, d1, d2) ==
  /\ d1 \in Int /\ d2 \in Int /\ 0 <= d1 /\ d1 < DSA!Bins
  /\ -GAMMA2 <= d2 /\ d2 <= GAMMA2
  /\ d2 = -GAMMA2 => d1 = 0
  /\ IF d1 = 0 /\ d2 < 0 THEN r = DSA!Q + d2 ELSE r = d1 * (2 * GAMMA2) + d2

\* The multiplications and shifts that stand for the division, for each size of a bin.
LEMMA Decompose32 ==
  ASSUME NEW r \in Int, 0 <= r, r <= 8380416, GAMMA2 = 261888
  PROVE  Parts(r, DSA!decompose(r)[1], DSA!decompose(r)[2])
<1> DEFINE x == (r + 127) \div 128
           y == (x * 1025 + 2097152) \div 4194304
           r1 == y % 16
           r0 == r - r1 * 2 * GAMMA2
           d2 == IF r0 > 4190208 THEN r0 - 8380417 ELSE r0
<1>1. x \in Int /\ 128 * x <= r + 127 /\ r < 128 * x + 1
  BY SMT
<1> HIDE DEF x
<1>2. y \in Int /\ 4194304 * y <= x * 1025 + 2097152 /\ x * 1025 + 2097152 < 4194304 * y + 4194304
  BY SMT, <1>1
<1> HIDE DEF y
<1>3. /\ 0 <= y /\ y <= 16
      /\ r <= y * 523776 + 261888 /\ y * 523776 - 261888 < r
  BY SMT, <1>1, <1>2
<1>4. DSA!decompose(r) = <<r1, d2>>
  <2>1. (DSA!Q - 1) \div 32 = 261888 /\ (DSA!Q - 1) \div 2 = 4190208
    BY SMT, QIs
  <2> QED
    BY SMT, <2>1, QIs DEF DSA!decompose, DSA!Centered, x, y
<1>5. CASE y = 16
  <2>1. r1 = 0
    BY SMT, <1>5
  <2>2. d2 = r - 8380417
    BY SMT, <2>1, <1>3, <1>5
  <2> QED
    BY SMT, <2>1, <2>2, <1>3, <1>4, <1>5, QIs, BinsAre DEF Parts
<1>6. CASE y # 16
  <2>1. r1 = y
    BY SMT, <1>2, <1>3, <1>6
  <2>2. d2 = r - y * 523776
    BY SMT, <2>1, <1>2, <1>3, <1>6
  <2> QED
    BY SMT, <2>1, <2>2, <1>2, <1>3, <1>4, <1>6, BinsAre DEF Parts
<1> QED
  BY SMT, <1>5, <1>6

LEMMA Decompose88 ==
  ASSUME NEW r \in Int, 0 <= r, r <= 8380416, GAMMA2 = 95232
  PROVE  Parts(r, DSA!decompose(r)[1], DSA!decompose(r)[2])
<1> DEFINE x == (r + 127) \div 128
           y == (x * 11275 + 8388608) \div 16777216
           r1 == IF y > 43 THEN 0 ELSE y
           r0 == r - r1 * 2 * GAMMA2
           d2 == IF r0 > 4190208 THEN r0 - 8380417 ELSE r0
<1>1. x \in Int /\ 128 * x <= r + 127 /\ r < 128 * x + 1
  BY SMT
<1> HIDE DEF x
<1>2. /\ y \in Int /\ 16777216 * y <= x * 11275 + 8388608
      /\ x * 11275 + 8388608 < 16777216 * y + 16777216
  BY SMT, <1>1
<1>3. DSA!decompose(r) = <<r1, d2>>
  <2>1. (DSA!Q - 1) \div 32 # 95232 /\ (DSA!Q - 1) \div 2 = 4190208
    BY SMT, QIs
  <2> QED
    BY SMT, <2>1, QIs DEF DSA!decompose, DSA!Centered, x
<1> HIDE DEF y
<1>4. /\ 0 <= y /\ y <= 44
      /\ r <= y * 190464 + 95232 /\ y * 190464 - 95232 < r
  BY SMT, <1>1, <1>2
<1>5. CASE y > 43
  <2>1. r1 = 0 /\ y = 44
    BY SMT, <1>2, <1>4, <1>5
  <2>2. d2 = r - 8380417
    BY SMT, <2>1, <1>4
  <2> QED
    BY SMT, <2>1, <2>2, <1>3, <1>4, QIs, BinsAre DEF Parts
<1>6. CASE ~(y > 43)
  <2>1. r1 = y
    BY SMT, <1>6
  <2>2. d2 = r - y * 190464
    BY SMT, <2>1, <1>2, <1>4, <1>6
  <2> QED
    BY SMT, <2>1, <2>2, <1>2, <1>3, <1>4, <1>6, BinsAre DEF Parts
<1> QED
  BY SMT, <1>5, <1>6

(***************************************************************************)
(* decompose, for every reduced coefficient and both sizes of a bin: its   *)
(* two parts keep their ranges and put the coefficient together again.     *)
(***************************************************************************)
THEOREM DecomposeExact ==
  ASSUME LowParts
  PROVE  \A r \in Residues : Parts(r, DSA!decompose(r)[1], DSA!decompose(r)[2])
<1> TAKE r \in Residues
<1>1. r \in Int /\ 0 <= r /\ r <= 8380416
  BY SMT, ResidueIs
<1> QED
  BY SMT, <1>1, GammaIs, Decompose32, Decompose88

\* One bin further in the direction of the offset's sign, or none: where a residue lies that is
\* a0 away from the middle of bin a1.
LEMMA HintStep ==
  ASSUME NEW g \in Int, g = 261888 \/ g = 95232, NEW m \in Int, m * (2 * g) = 8380416,
         NEW a1 \in Int, 0 <= a1, a1 < m,
         NEW a0 \in Int, -2 * g < a0, a0 < 2 * g,
         NEW d1 \in Int, 0 <= d1, d1 < m, NEW d2 \in Int, -g <= d2, d2 <= g,
         d2 = -g => d1 = 0,
         NEW r \in Int, r = a1 * (2 * g) + a0 \/ (a1 * (2 * g) + a0 < 0 /\ r = a1 * (2 * g) + a0 + 8380417),
         IF d1 = 0 /\ d2 < 0 THEN r = 8380417 + d2 ELSE r = d1 * (2 * g) + d2
  PROVE  IF a0 < -g \/ a0 > g \/ (a0 = -g /\ a1 # 0)
         THEN IF d2 > 0 THEN a1 = d1 + 1 \/ (a1 = 0 /\ d1 = m - 1)
                        ELSE a1 = d1 - 1 \/ (a1 = m - 1 /\ d1 = 0)
         ELSE d1 = a1
<1>1. CASE g = 261888
  <2>1. m = 16
    BY SMT, <1>1
  <2> QED
    BY SMT, <1>1, <2>1
<1>2. CASE g = 95232
  <2>1. m = 44
    BY SMT, <1>2
  <2> QED
    BY SMT, <1>2, <2>1
<1> QED
  BY SMT, <1>1, <1>2

(***************************************************************************)
(* make_hint and use_hint, for every bin and every offset short of a whole *)
(* bin: the hint leads from the shifted residue back to the bin it was     *)
(* shifted from, across the fences and around q.                           *)
(***************************************************************************)
THEOREM HintsRecovered ==
  ASSUME LowParts
  PROVE  \A w1 \in 0..DSA!Bins - 1 : \A a0 \in Int :
           -2 * GAMMA2 < a0 /\ a0 < 2 * GAMMA2 =>
             DSA!use_hint(DSA!make_hint(a0, w1), (w1 * 2 * GAMMA2 + a0) % DSA!Q) = w1
<1> TAKE w1 \in 0..DSA!Bins - 1
<1> SUFFICES ASSUME NEW a0 \in Int, -2 * GAMMA2 < a0, a0 < 2 * GAMMA2
             PROVE  DSA!use_hint(DSA!make_hint(a0, w1), (w1 * 2 * GAMMA2 + a0) % DSA!Q) = w1
  BY Zenon
<1> DEFINE m == DSA!Bins
           s == w1 * 2 * GAMMA2 + a0
           r == s % DSA!Q
           d1 == DSA!decompose(r)[1]
           d2 == DSA!decompose(r)[2]
           h == DSA!make_hint(a0, w1)
<1>1. /\ GAMMA2 \in Int /\ (GAMMA2 = 261888 \/ GAMMA2 = 95232)
      /\ m \in Int /\ m * (2 * GAMMA2) = 8380416
  BY SMT, GammaIs, BinsAre
<1>2. w1 \in Int /\ 0 <= w1 /\ w1 < m
  BY SMT, <1>1
<1>3. /\ s = w1 * (2 * GAMMA2) + a0
      /\ -8380417 < s /\ s < 8380417
  BY SMT, <1>1, <1>2, BinsAre
<1>4. s \in Int
  BY SMT, <1>1, <1>2
<1> HIDE DEF m, s
<1>5. /\ r \in Int /\ 0 <= r /\ r < 8380417
      /\ r = s \/ (s < 0 /\ r = s + 8380417)
  BY SMT, <1>3, <1>4, QIs
<1> HIDE DEF r
<1>6. Parts(r, d1, d2)
  <2>1. r \in Residues
    BY SMT, <1>5, QIs DEF Residues
  <2> QED
    BY SMT, <2>1, DecomposeExact
<1> HIDE DEF d1, d2
<1>7. /\ d1 \in Int /\ d2 \in Int /\ 0 <= d1 /\ d1 < m /\ -GAMMA2 <= d2 /\ d2 <= GAMMA2
      /\ d2 = -GAMMA2 => d1 = 0
      /\ IF d1 = 0 /\ d2 < 0 THEN r = 8380417 + d2 ELSE r = d1 * (2 * GAMMA2) + d2
  BY SMT, <1>6, QIs DEF Parts, m
<1>8. IF a0 < -GAMMA2 \/ a0 > GAMMA2 \/ (a0 = -GAMMA2 /\ w1 # 0)
      THEN IF d2 > 0 THEN w1 = d1 + 1 \/ (w1 = 0 /\ d1 = m - 1)
                     ELSE w1 = d1 - 1 \/ (w1 = m - 1 /\ d1 = 0)
      ELSE d1 = w1
  BY SMT, <1>1, <1>2, <1>3, <1>5, <1>7, HintStep
<1>9. h = IF a0 < -GAMMA2 \/ a0 > GAMMA2 \/ (a0 = -GAMMA2 /\ w1 # 0) THEN 1 ELSE 0
  BY SMT DEF DSA!make_hint
<1>10. DSA!use_hint(h, r) = IF h = 0 THEN d1 ELSE IF d2 > 0 THEN (d1 + 1) % m ELSE (d1 + m - 1) % m
  BY SMT DEF DSA!use_hint, d1, d2, m
<1> HIDE DEF h
<1>11. m = 16 \/ m = 44
  BY SMT, <1>1, BinsAre DEF m
<1>12. h # 0 /\ d2 > 0 => (d1 + 1) % m = w1
  BY SMT, <1>2, <1>7, <1>8, <1>9, <1>11
<1>13. h # 0 /\ ~(d2 > 0) => (d1 + m - 1) % m = w1
  BY SMT, <1>2, <1>7, <1>8, <1>9, <1>11
<1>14. h = 0 => d1 = w1
  BY SMT, <1>8, <1>9
<1>15. DSA!use_hint(h, r) = w1
  BY SMT, <1>10, <1>12, <1>13, <1>14, Zenon
<1> QED
  BY SMT, <1>15 DEF h, r, s

(***************************************************************************)
(* The counters of the masks of one signature (KAPPA and the column, in 16 *)
(* bits), for the columns of the three parameter sets and its 1000         *)
(* attempts: no two are equal and none wraps.                              *)
(***************************************************************************)
THEOREM MaskCountersDiffer ==
  ASSUME NEW columns \in {4, 5, 7},
         NEW k1 \in Nat, NEW k2 \in Nat, k1 < 1000, k2 < 1000,
         NEW r1 \in Nat, NEW r2 \in Nat, r1 < columns, r2 < columns
  PROVE  /\ 0 <= DSA!MaskCounter(k1, r1, columns) /\ DSA!MaskCounter(k1, r1, columns) < 65536
         /\ DSA!MaskCounter(k1, r1, columns) = DSA!MaskCounter(k2, r2, columns) => k1 = k2 /\ r1 = r2
<1>1. CASE columns = 4
  BY SMT, <1>1 DEF DSA!MaskCounter
<1>2. CASE columns = 5
  BY SMT, <1>2 DEF DSA!MaskCounter
<1>3. CASE columns = 7
  BY SMT, <1>3 DEF DSA!MaskCounter
<1> QED
  BY SMT, <1>1, <1>2, <1>3

\* The 32-bit values reduce32 can add its half to without overflow.
Int32(a) == a \in Int /\ -2147483648 <= a /\ a + 4194304 < 2147483648

(***************************************************************************)
(* reduce32, for every 32-bit value its sum does not overflow, far beyond  *)
(* the (-2q, 2q) its comment asks for: the result is reduced and differs   *)
(* by a multiple of q.                                                     *)
(***************************************************************************)
THEOREM ReductionExact ==
  \A a \in Int : Int32(a) =>
    DSA!reduce32(a) \in Residues /\ \E k \in Int : a = DSA!reduce32(a) + k * DSA!Q
<1> SUFFICES ASSUME NEW a \in Int, Int32(a)
             PROVE  /\ DSA!reduce32(a) \in Residues
                    /\ \E k \in Int : a = DSA!reduce32(a) + k * DSA!Q
  BY SMT
<1> DEFINE k == (a + 4194304) \div 8388608
           r == a - k * 8380417
<1>1. k \in Int /\ 8388608 * k <= a + 4194304 /\ a + 4194304 < 8388608 * k + 8388608
  BY SMT
<1> HIDE DEF k
<1>2. r \in Int /\ -8380417 <= r /\ r < 8380417
  BY SMT, <1>1 DEF Int32
<1>3. DSA!reduce32(a) = IF r < 0 THEN r + 8380417 ELSE r
  BY SMT DEF DSA!reduce32, DSA!Q, k
<1> HIDE DEF r
<1>4. CASE r < 0
  <2>1. DSA!reduce32(a) = r + 8380417
    BY SMT, <1>3, <1>4
  <2>2. a = r + 8380417 + (k - 1) * 8380417 /\ k - 1 \in Int
    BY SMT, <1>1, <1>2 DEF r
  <2> QED
    BY SMT, <2>1, <2>2, <1>2, <1>4, QIs DEF Residues
<1>5. CASE ~(r < 0)
  <2>1. DSA!reduce32(a) = r
    BY SMT, <1>3, <1>5
  <2>2. a = r + k * 8380417
    BY SMT, <1>1, <1>2 DEF r
  <2> QED
    BY SMT, <2>1, <2>2, <1>1, <1>2, <1>5, QIs DEF Residues
<1> QED
  BY SMT, <1>4, <1>5

\* What the two parts of a coefficient of the public key are.
Halves(r, hi, lo) ==
  /\ hi \in Int /\ lo \in Int /\ 0 <= hi /\ hi <= 1023 /\ -4096 < lo /\ lo <= 4096
  /\ r = hi * 8192 + lo

(***************************************************************************)
(* power2round, for every reduced coefficient: ten bits go into the public *)
(* key, the rest is within half of 2^D, and nothing is lost.               *)
(***************************************************************************)
THEOREM Power2RoundExact ==
  \A r \in Residues :
    LET p == DSA!power2round(r)
    IN Halves(r, p[1], p[2])
<1> SUFFICES ASSUME NEW r \in Residues
             PROVE  LET p == DSA!power2round(r)
                    IN Halves(r, p[1], p[2])
  BY SMT
<1> DEFINE r1 == (r + 4095) \div 8192
<1>0. r \in Int /\ 0 <= r /\ r < 8380417
  BY SMT, ResidueIs
<1>1. r1 \in Int /\ 8192 * r1 <= r + 4095 /\ r + 4095 < 8192 * r1 + 8192
  BY SMT, <1>0
<1>2. DSA!power2round(r) = <<r1, r - r1 * 8192>>
  BY SMT DEF DSA!power2round
<1> HIDE DEF r1
<1>3. Halves(r, r1, r - r1 * 8192)
  BY SMT, <1>0, <1>1 DEF Halves
<1> QED
  BY SMT, <1>2, <1>3

\* An integer and its residue differ by a multiple of q.
LEMMA ResidueOf ==
  ASSUME NEW x \in Int
  PROVE  x % DSA!Q \in Residues /\ \E k \in Int : x % DSA!Q = x + k * 8380417
<1> DEFINE y == x % DSA!Q
           k == x \div DSA!Q
<1>1. /\ y \in Int /\ 0 <= y /\ y < 8380417
      /\ k \in Int /\ y = x + (-k) * 8380417
  BY SMT, QIs
<1> HIDE DEF y, k
<1>2. y \in Residues
  BY SMT, <1>1, QIs DEF Residues
<1>3. \E i \in Int : y = x + i * 8380417
  <2>1. -k \in Int
    BY SMT, <1>1
  <2> QED
    BY SMT, <1>1, <2>1
<1> QED
  BY SMT, <1>2, <1>3 DEF y

\* A centered residue is short of half of q, and the only such integer that leaves it.
LEMMA CenteredIs ==
  ASSUME NEW r \in Residues
  PROVE  /\ DSA!Centered(r) \in Int /\ -4190208 <= DSA!Centered(r) /\ DSA!Centered(r) <= 4190208
         /\ \E k \in Int : DSA!Centered(r) = r + k * 8380417
<1>1. r \in Int /\ 0 <= r /\ r <= 8380416
  BY SMT, ResidueIs
<1>2. (DSA!Q - 1) \div 2 = 4190208
  BY SMT, QIs
<1>3. DSA!Centered(r) = IF r > 4190208 THEN r - 8380417 ELSE r
  BY SMT, <1>1, <1>2, QIs DEF DSA!Centered
<1>4. r - 8380417 = r + (-1) * 8380417 /\ r = r + 0 * 8380417
  BY SMT, <1>1
<1> QED
  BY SMT, <1>1, <1>3, <1>4

\* check_norm finds no coefficient at the bound or beyond.
Below(x, bound) == -bound < DSA!Centered(x) /\ DSA!Centered(x) < bound

(***************************************************************************)
(* A coefficient w of the commitment, cs2 and ct0 of the products of the   *)
(* challenge with the secrets, r0 = w0 - cs2: if the signer's norm checks  *)
(* let r0 and ct0 through, the hint it writes leads the verifier from w -  *)
(* cs2 + ct0, which is what A z - c t1 2^D comes to, to the bin the        *)
(* challenge was made from. So a signature the checks let through is       *)
(* verified against the challenge it was made with.                        *)
(***************************************************************************)
THEOREM VerifierFindsTheBin ==
  ASSUME LowParts, BETA \in Nat,
         NEW w \in Residues, NEW cs2 \in Residues, NEW ct0 \in Residues,
         NEW r0, r0 = (DSA!decompose(w)[2] - cs2) % DSA!Q,
         Below(r0, GAMMA2 - BETA), Below(ct0, GAMMA2)
  PROVE  LET w1 == DSA!decompose(w)[1]
             hint == DSA!make_hint(DSA!Centered((r0 + ct0) % DSA!Q), w1)
         IN DSA!use_hint(hint, (w - cs2 + ct0) % DSA!Q) = w1
<1> DEFINE w1 == DSA!decompose(w)[1]
           w0 == DSA!decompose(w)[2]
           a0 == DSA!Centered((r0 + ct0) % DSA!Q)
           x == DSA!Centered(r0)
           y == DSA!Centered(ct0)
<1>1. GAMMA2 \in Int /\ (GAMMA2 = 261888 \/ GAMMA2 = 95232)
  BY SMT, GammaIs
<1>2. Parts(w, w1, w0)
  BY SMT, DecomposeExact
<1> HIDE DEF w1, w0
<1>3. w1 \in Int /\ w0 \in Int /\ w1 \in 0..DSA!Bins - 1
  BY SMT, <1>1, <1>2, BinsAre DEF Parts
<1>4. \E k \in Int : w = w1 * (2 * GAMMA2) + w0 + k * 8380417
  <2>1. w = w1 * (2 * GAMMA2) + w0 + 0 * 8380417 \/ w = w1 * (2 * GAMMA2) + w0 + 1 * 8380417
    BY SMT, <1>1, <1>2, QIs DEF Parts
  <2> QED
    BY SMT, <2>1
<1>5. cs2 \in Int /\ ct0 \in Int /\ w \in Int
  BY SMT, ResidueIs
<1>6. r0 \in Residues /\ \E k \in Int : r0 = w0 - cs2 + k * 8380417
  BY SMT, <1>3, <1>5, ResidueOf DEF w0
<1>7. r0 \in Int
  BY SMT, <1>6, ResidueIs
<1>8. x \in Int /\ \E k \in Int : x = r0 + k * 8380417
  BY SMT, <1>6, CenteredIs
<1>9. y \in Int /\ \E k \in Int : y = ct0 + k * 8380417
  BY SMT, CenteredIs
<1>10. /\ a0 \in Int /\ -4190208 <= a0 /\ a0 <= 4190208
       /\ \E k \in Int : a0 = r0 + ct0 + k * 8380417
  <2> DEFINE s == (r0 + ct0) % DSA!Q
  <2>1. r0 + ct0 \in Int
    BY SMT, <1>5, <1>7
  <2>2. s \in Residues /\ \E k \in Int : s = r0 + ct0 + k * 8380417
    BY SMT, <2>1, ResidueOf
  <2>3. s \in Int
    BY SMT, <2>2, ResidueIs
  <2>4. /\ DSA!Centered(s) \in Int /\ -4190208 <= DSA!Centered(s) /\ DSA!Centered(s) <= 4190208
        /\ \E k \in Int : DSA!Centered(s) = s + k * 8380417
    BY SMT, <2>2, CenteredIs
  <2> HIDE DEF s
  <2>5. PICK k1 \in Int : s = r0 + ct0 + k1 * 8380417
    BY SMT, <2>2
  <2>6. PICK k2 \in Int : DSA!Centered(s) = s + k2 * 8380417
    BY SMT, <2>4
  <2>7. DSA!Centered(s) = r0 + ct0 + (k1 + k2) * 8380417 /\ k1 + k2 \in Int
    BY SMT, <2>1, <2>3, <2>5, <2>6, <1>5, <1>7
  <2>8. \E k \in Int : DSA!Centered(s) = r0 + ct0 + k * 8380417
    <3> DEFINE k3 == k1 + k2
    <3>1. k3 \in Int /\ DSA!Centered(s) = r0 + ct0 + k3 * 8380417
      BY SMT, <2>7
    <3> HIDE DEF k3
    <3> QED
      BY SMT, <3>1
  <2> QED
    BY SMT, <2>4, <2>8 DEF s
<1> HIDE DEF x, y, a0
<1>11. /\ -(GAMMA2 - BETA) < x /\ x < GAMMA2 - BETA
       /\ -GAMMA2 < y /\ y < GAMMA2
  BY SMT DEF Below, x, y
<1>12. PICK k1 \in Int : w = w1 * (2 * GAMMA2) + w0 + k1 * 8380417
  BY SMT, <1>4
<1>13. PICK k2 \in Int : r0 = w0 - cs2 + k2 * 8380417
  BY SMT, <1>6
<1>14. PICK k3 \in Int : x = r0 + k3 * 8380417
  BY SMT, <1>8
<1>15. PICK k4 \in Int : y = ct0 + k4 * 8380417
  BY SMT, <1>9
<1>16. PICK k5 \in Int : a0 = r0 + ct0 + k5 * 8380417
  BY SMT, <1>10
<1>17. a0 = x + y
  BY SMT, <1>1, <1>5, <1>7, <1>8, <1>9, <1>10, <1>11, <1>14, <1>15, <1>16
<1>18. -2 * GAMMA2 < a0 /\ a0 < 2 * GAMMA2
  BY SMT, <1>1, <1>8, <1>9, <1>11, <1>17
<1> DEFINE t == w1 * 2 * GAMMA2
<1>19. t \in Int /\ t = w1 * (2 * GAMMA2)
  BY SMT, <1>1, <1>3
<1> HIDE DEF t
<1>20. w - cs2 + ct0 = (t + a0) + (k1 - k2 - k5) * 8380417
  <2>1. k1 * 8380417 \in Int /\ k2 * 8380417 \in Int /\ k5 * 8380417 \in Int
    BY SMT
  <2>2. (k1 - k2 - k5) * 8380417 = k1 * 8380417 - k2 * 8380417 - k5 * 8380417
    BY SMT
  <2>3. r0 = a0 - ct0 - k5 * 8380417
    BY SMT, <2>1, <1>5, <1>7, <1>10, <1>16
  <2>4. w - cs2 = t + r0 + k1 * 8380417 - k2 * 8380417
    BY SMT, <2>1, <1>3, <1>5, <1>7, <1>12, <1>13, <1>19
  <2> QED
    BY SMT, <2>1, <2>2, <2>3, <2>4, <1>5, <1>7, <1>10, <1>19
<1>21. (w - cs2 + ct0) % DSA!Q = (t + a0) % DSA!Q
  <2> DEFINE u == w - cs2 + ct0
             v == t + a0
             k == k1 - k2 - k5
  <2>1. u \in Int /\ v \in Int /\ k \in Int
    BY SMT, <1>5, <1>10, <1>19
  <2>2. u = v + k * 8380417
    BY SMT, <1>20
  <2> HIDE DEF u, v, k
  <2>3. u % DSA!Q = v % DSA!Q
    BY SMT, <2>1, <2>2, QIs
  <2> QED
    BY SMT, <2>3 DEF u, v
<1>22. DSA!use_hint(DSA!make_hint(a0, w1), (t + a0) % DSA!Q) = w1
  BY SMT, <1>3, <1>10, <1>18, HintsRecovered DEF t
<1> QED
  BY SMT, <1>21, <1>22 DEF a0, w1

-----------------------------------------------------------------------------
(* Addresses of SLH-DSA.                                                   *)

\* The parameters of SLH-DSA, as SlhDsa declares them.
CONSTANTS H_PRIME, LAYERS, A, TREES, CHAINS

SLH == INSTANCE SlhDsa WITH D <- LAYERS, K <- TREES

\* A layer fits the byte that a SHA-2 address keeps of it; the code has 22 at most.
Layers == {l \in Nat : l < 256}

\* What an address is made for: the secret and the chain of a digit, the key of a leaf, a node
\* of a tree; a node, a secret and the roots of a FORS instance, which lies below the lowest layer.
HashUses ==
  [kind : {"secret", "chain"}, layer : Layers, tree : Nat, keypair : Nat, height : Nat, index : {0}]
    \cup [kind : {"key"}, layer : Layers, tree : Nat, keypair : Nat, height : {0}, index : {0}]
    \cup [kind : {"node"}, layer : Layers, tree : Nat, keypair : {0}, height : Nat, index : Nat]
    \cup [kind : {"forsNode"}, layer : {0}, tree : Nat, keypair : Nat, height : Nat, index : Nat]
    \cup [kind : {"forsSecret"}, layer : {0}, tree : Nat, keypair : Nat, height : {0}, index : Nat]
    \cup [kind : {"forsRoots"}, layer : {0}, tree : Nat, keypair : Nat, height : {0}, index : {0}]

\* The address the code makes for it.
AdrsOf(u) ==
  LET leaf == SLH!LeafAdrs(SLH!At(u.layer, u.tree), u.keypair)
      fors == SLH!ForsAdrs([tree_idx |-> u.tree, leaf_idx |-> u.keypair])
  IN CASE u.kind = "secret" -> SLH!ChainSecretAdrs(leaf, u.height)
       [] u.kind = "chain" -> SLH!ChainAdrs(leaf, u.height)
       [] u.kind = "key" -> SLH!SetKindOf(leaf, SLH!WotsPk)
       [] u.kind = "node" -> SLH!TreeAdrs(SLH!At(u.layer, u.tree), u.height, u.index)
       [] u.kind = "forsNode" -> SLH!ForsNodeAdrs(fors, u.height, u.index)
       [] u.kind = "forsSecret" -> SLH!ForsSecretAdrs(fors, u.index)
       [] u.kind = "forsRoots" -> SLH!SetKindOf(fors, SLH!ForsRoots)

\* An address by its words.
Words(layer, tree, type, keypair, height, index) ==
  [layer |-> layer, tree |-> tree, type |-> type, keypair |-> keypair, height |-> height, index |-> index]

\* The type word of each use.
TypeOf(kind) ==
  CASE kind = "secret" -> 5 [] kind = "chain" -> 0 [] kind = "key" -> 1 [] kind = "node" -> 2
    [] kind = "forsNode" -> 3 [] kind = "forsSecret" -> 6 [] kind = "forsRoots" -> 4

\* A record of the six words, each in a set of one.
OneOf(layer, tree, type, keypair, height, index) ==
  [layer : {layer}, tree : {tree}, type : {type}, keypair : {keypair}, height : {height}, index : {index}]

\* There is one such record.
LEMMA TheOne ==
  ASSUME NEW l, NEW t, NEW y, NEW kp, NEW h, NEW i, NEW w \in OneOf(l, t, y, kp, h, i)
  PROVE  w = Words(l, t, y, kp, h, i)
  BY DEF OneOf, Words

\* Words that are set to what they are.
LEMMA StillTheOne ==
  ASSUME NEW l, NEW t, NEW y, NEW kp, NEW h, NEW i, NEW w \in OneOf(l, t, y, kp, h, i)
  PROVE  [w EXCEPT !.layer = l, !.type = y] \in OneOf(l, t, y, kp, h, i)
  BY DEF OneOf

\* The words after each of the setters.
LEMMA FreshIs == ASSUME NEW l, NEW t PROVE SLH!At(l, t) = Words(l, t, 0, 0, 0, 0)
<1>1. SLH!At(l, t) \in OneOf(l, t, 0, 0, 0, 0)
  BY DEF SLH!At, SLH!Zero, OneOf
<1> QED
  BY <1>1, TheOne

LEMMA SetKindIs ==
  ASSUME NEW l, NEW t, NEW y, NEW kp, NEW h, NEW i, NEW type
  PROVE  /\ SLH!SetKind(Words(l, t, y, kp, h, i), type) = Words(l, t, type, 0, 0, 0)
         /\ SLH!SetKindOf(Words(l, t, y, kp, h, i), type) = Words(l, t, type, kp, 0, 0)
<1>1. SLH!SetKind(Words(l, t, y, kp, h, i), type) \in OneOf(l, t, type, 0, 0, 0)
  BY DEF SLH!SetKind, Words, OneOf
<1>2. SLH!SetKind(Words(l, t, y, kp, h, i), type) = Words(l, t, type, 0, 0, 0)
  BY <1>1, TheOne
<1>3. SLH!SetKindOf(Words(l, t, y, kp, h, i), type) \in OneOf(l, t, type, kp, 0, 0)
  <2>1. SLH!SetKindOf(Words(l, t, y, kp, h, i), type) = [Words(l, t, type, 0, 0, 0) EXCEPT !.keypair = kp]
    BY <1>2 DEF SLH!SetKindOf, Words
  <2> QED
    BY <2>1 DEF Words, OneOf
<1> QED
  BY <1>2, <1>3, TheOne

LEMMA SettersAre ==
  ASSUME NEW l, NEW t, NEW y, NEW kp, NEW h, NEW i, NEW a, NEW b
  PROVE  /\ SLH!Keypair(Words(l, t, y, kp, h, i), a) = Words(l, t, y, a, h, i)
         /\ SLH!Node(Words(l, t, y, kp, h, i), a, b) = Words(l, t, y, kp, a, b)
<1>1. SLH!Keypair(Words(l, t, y, kp, h, i), a) \in OneOf(l, t, y, a, h, i)
  BY DEF SLH!Keypair, Words, OneOf
<1>2. SLH!Node(Words(l, t, y, kp, h, i), a, b) \in OneOf(l, t, y, kp, a, b)
  BY DEF SLH!Node, Words, OneOf
<1> QED
  BY <1>1, <1>2, TheOne

\* The two addresses the others are made from.
LEMMA LeafIs ==
  ASSUME NEW l, NEW t, NEW kp
  PROVE  SLH!LeafAdrs(SLH!At(l, t), kp) = Words(l, t, 0, kp, 0, 0)
  BY FreshIs, SetKindIs, SettersAre DEF SLH!LeafAdrs, SLH!WotsHash

LEMMA ForsIs ==
  ASSUME NEW t, NEW kp
  PROVE  SLH!ForsAdrs([tree_idx |-> t, leaf_idx |-> kp]) = Words(0, t, 3, kp, 0, 0)
  BY FreshIs, SetKindIs, SettersAre DEF SLH!ForsAdrs, SLH!ForsTree

\* An address is made of its use and of nothing left in the buffer from the one before.
LEMMA AdrsIs ==
  ASSUME NEW u \in HashUses
  PROVE  AdrsOf(u) = Words(u.layer, u.tree, TypeOf(u.kind), u.keypair, u.height, u.index)
<1> DEFINE leaf == SLH!LeafAdrs(SLH!At(u.layer, u.tree), u.keypair)
           fors == SLH!ForsAdrs([tree_idx |-> u.tree, leaf_idx |-> u.keypair])
<1>1. leaf = Words(u.layer, u.tree, 0, u.keypair, 0, 0)
  BY LeafIs
<1>2. fors = Words(0, u.tree, 3, u.keypair, 0, 0)
  BY ForsIs
<1>3. CASE u.kind = "secret"
  <2>1. u.index = 0 /\ AdrsOf(u) = SLH!ChainSecretAdrs(leaf, u.height)
    BY <1>3 DEF AdrsOf, HashUses
  <2>2. SLH!SetKindOf(leaf, 5) = Words(u.layer, u.tree, 5, u.keypair, 0, 0)
    BY <1>1, SetKindIs
  <2> HIDE DEF leaf
  <2>3. AdrsOf(u) \in OneOf(u.layer, u.tree, 5, u.keypair, u.height, 0)
    BY <2>1, <2>2 DEF SLH!ChainSecretAdrs, SLH!WotsPrf, Words, OneOf
  <2>4. TypeOf(u.kind) = 5
    BY <1>3 DEF TypeOf
  <2> QED
    BY <2>1, <2>3, <2>4, TheOne
<1>4. CASE u.kind = "chain"
  <2>1. u.index = 0 /\ AdrsOf(u) = SLH!ChainAdrs(leaf, u.height)
    BY <1>4 DEF AdrsOf, HashUses
  <2>2. SLH!SetKindOf(leaf, 0) = Words(u.layer, u.tree, 0, u.keypair, 0, 0)
    BY <1>1, SetKindIs
  <2> HIDE DEF leaf
  <2>3. AdrsOf(u) \in OneOf(u.layer, u.tree, 0, u.keypair, u.height, 0)
    BY <2>1, <2>2 DEF SLH!ChainAdrs, SLH!WotsHash, Words, OneOf
  <2>4. TypeOf(u.kind) = 0
    BY <1>4 DEF TypeOf
  <2> QED
    BY <2>1, <2>3, <2>4, TheOne
<1>5. CASE u.kind = "key"
  <2>1. u.height = 0 /\ u.index = 0 /\ AdrsOf(u) = SLH!SetKindOf(leaf, SLH!WotsPk)
    BY <1>5 DEF AdrsOf, HashUses
  <2>2. TypeOf(u.kind) = 1
    BY <1>5 DEF TypeOf
  <2> QED
    BY <1>1, <2>1, <2>2, SetKindIs DEF SLH!WotsPk
<1>6. CASE u.kind = "node"
  <2>1. u.keypair = 0 /\ AdrsOf(u) = SLH!TreeAdrs(SLH!At(u.layer, u.tree), u.height, u.index)
    BY <1>6 DEF AdrsOf, HashUses
  <2>2. TypeOf(u.kind) = 2
    BY <1>6 DEF TypeOf
  <2> QED
    BY <2>1, <2>2, FreshIs, SetKindIs, SettersAre DEF SLH!TreeAdrs, SLH!Tree
<1>7. CASE u.kind = "forsNode"
  <2>1. u.layer = 0 /\ AdrsOf(u) = SLH!ForsNodeAdrs(fors, u.height, u.index)
    BY <1>7 DEF AdrsOf, HashUses
  <2>2. TypeOf(u.kind) = 3
    BY <1>7 DEF TypeOf
  <2> QED
    BY <1>2, <2>1, <2>2, SetKindIs, SettersAre DEF SLH!ForsNodeAdrs, SLH!ForsTree
<1>8. CASE u.kind = "forsSecret"
  <2>1. u.layer = 0 /\ u.height = 0 /\ AdrsOf(u) = SLH!ForsSecretAdrs(fors, u.index)
    BY <1>8 DEF AdrsOf, HashUses
  <2>2. SLH!SetKindOf(fors, 6) = Words(0, u.tree, 6, u.keypair, 0, 0)
    BY <1>2, SetKindIs
  <2> HIDE DEF fors
  <2>3. AdrsOf(u) \in OneOf(0, u.tree, 6, u.keypair, 0, u.index)
    BY <2>1, <2>2 DEF SLH!ForsSecretAdrs, SLH!ForsPrf, Words, OneOf
  <2>4. TypeOf(u.kind) = 6
    BY <1>8 DEF TypeOf
  <2> QED
    BY <2>1, <2>3, <2>4, TheOne
<1>9. CASE u.kind = "forsRoots"
  <2>1. /\ u.layer = 0 /\ u.height = 0 /\ u.index = 0
        /\ AdrsOf(u) = SLH!SetKindOf(fors, SLH!ForsRoots)
    BY <1>9 DEF AdrsOf, HashUses
  <2>2. TypeOf(u.kind) = 4
    BY <1>9 DEF TypeOf
  <2> QED
    BY <1>2, <2>1, <2>2, SetKindIs DEF SLH!ForsRoots
<1> QED
  BY <1>3, <1>4, <1>5, <1>6, <1>7, <1>8, <1>9 DEF HashUses

(***************************************************************************)
(* Two hash calls of a key whose addresses are equal, as SHA-2 gets to see *)
(* them, are the same call: no secret is drawn twice, no chain, node or    *)
(* root of one tree, leaf or FORS instance is taken for another's, in      *)
(* trees of any height and number.                                         *)
(***************************************************************************)
THEOREM AddressesTellApart ==
  \A u, v \in HashUses : SLH!Compress(AdrsOf(u)) = SLH!Compress(AdrsOf(v)) => u = v
<1> SUFFICES ASSUME NEW u \in HashUses, NEW v \in HashUses,
                    SLH!Compress(AdrsOf(u)) = SLH!Compress(AdrsOf(v))
             PROVE  u = v
  OBVIOUS
<1>1. \A w \in HashUses :
        SLH!Compress(AdrsOf(w)) = Words(w.layer, w.tree, TypeOf(w.kind), w.keypair, w.height, w.index)
  <2> TAKE w \in HashUses
  <2>1. AdrsOf(w) = Words(w.layer, w.tree, TypeOf(w.kind), w.keypair, w.height, w.index)
    BY AdrsIs
  <2>2. w.layer \in Int /\ 0 <= w.layer /\ w.layer < 256
    BY DEF HashUses, Layers
  <2>3. TypeOf(w.kind) \in 0..6
    BY DEF HashUses, TypeOf
  <2>4. w.layer % 256 = w.layer /\ TypeOf(w.kind) % 256 = TypeOf(w.kind)
    BY <2>2, <2>3
  <2> DEFINE a == AdrsOf(w)
           c == SLH!Compress(a)
  <2>5. c \in OneOf(w.layer, w.tree, TypeOf(w.kind), w.keypair, w.height, w.index)
    <3>1. a.layer = w.layer /\ a.type = TypeOf(w.kind)
      BY <2>1 DEF Words
    <3>2. a \in OneOf(w.layer, w.tree, TypeOf(w.kind), w.keypair, w.height, w.index)
      BY <2>1 DEF Words, OneOf
    <3> HIDE DEF a
    <3>3. c = [a EXCEPT !.layer = a.layer % 256, !.type = a.type % 256]
      BY DEF SLH!Compress
    <3> HIDE DEF c
    <3>4. c = [a EXCEPT !.layer = w.layer, !.type = TypeOf(w.kind)]
      BY <2>4, <3>1, <3>3, Zenon
    <3>5. [a EXCEPT !.layer = w.layer, !.type = TypeOf(w.kind)]
            \in OneOf(w.layer, w.tree, TypeOf(w.kind), w.keypair, w.height, w.index)
      BY <3>2, StillTheOne, Zenon
    <3> QED
      BY <3>4, <3>5, Zenon
  <2> QED
    BY <2>5, TheOne
<1>2. /\ u.layer = v.layer /\ u.tree = v.tree /\ TypeOf(u.kind) = TypeOf(v.kind)
      /\ u.keypair = v.keypair /\ u.height = v.height /\ u.index = v.index
  BY <1>1 DEF Words
<1>3. u.kind = v.kind
  BY <1>2 DEF TypeOf, HashUses
<1>4. \A w \in HashUses :
        w = [kind |-> w.kind, layer |-> w.layer, tree |-> w.tree, keypair |-> w.keypair,
             height |-> w.height, index |-> w.index]
  BY DEF HashUses
<1> QED
  BY <1>2, <1>3, <1>4

-----------------------------------------------------------------------------
(* The calls of the algorithm crates.                                      *)

LIB == INSTANCE LibraryCalls
PROFILE == INSTANCE ServiceProfile

\* Some numbers have a first.
LEMMA FirstOfThem == ASSUME NEW T, T \subseteq Nat, T # {} PROVE \E x \in T : \A y \in T : x <= y
<1> DEFINE Less == {p \in Nat \X Nat : p[1] < p[2]}
<1>1. OpToRel(<, Nat) = Less
  BY DEF OpToRel
<1>2. IsWellFoundedOn(Less, Nat)
  BY <1>1, NatLessThanWellFounded
<1>3. PICK x \in T : \A y \in T : ~(<<y, x>> \in Less)
  <2> HIDE DEF Less
  <2> QED
    BY <1>2, WFMin
<1>4. ASSUME NEW y \in T PROVE x <= y
  <2>1. x \in Nat /\ y \in Nat
    OBVIOUS
  <2>2. <<y, x>> \in Nat \X Nat /\ <<y, x>>[1] = y /\ <<y, x>>[2] = x
    BY <2>1
  <2>3. ~(y < x)
    BY <1>3, <2>2, Zenon
  <2> QED
    BY <2>1, <2>3
<1> QED
  BY <1>4

\* The world a step is taken in, and what ends the call there.
WorldAt(world, fails, i) == IF i > fails THEN [world EXCEPT !.state = "Error"] ELSE world
Ends(c, world, bad, fails, i) ==
  LIB!Refuses(WorldAt(world, fails, i), c.steps[i]) \/ (i = bad /\ c.steps[i].ask = "input")

\* The call goes to its end; it ends at its first refused step, with that step's answer.
NeverRefused(c, world, bad, fails) ==
  /\ \A i \in 1..Len(c.steps) : ~Ends(c, world, bad, fails, i)
  /\ LIB!Follow(c, world, bad, fails) = [answer |-> "Ok", left |-> "nothing"]
RefusedAt(c, world, bad, fails, stop) ==
  /\ Ends(c, world, bad, fails, stop)
  /\ \A i \in 1..Len(c.steps) : Ends(c, world, bad, fails, i) => stop <= i
  /\ LIB!Follow(c, world, bad, fails)
       = [answer |-> LIB!AnswerOf(c.steps[stop]),
          left |-> IF (\A i \in 1..stop - 1 : c.steps[i] # LIB!Emit) \/ c.wipes
                   THEN "nothing" ELSE "part"]

\* A call is followed to the first step that is refused, or to its end.
LEMMA FollowedToRefusal ==
  ASSUME NEW c, Len(c.steps) \in Nat, NEW world, NEW bad, NEW fails
  PROVE  \/ NeverRefused(c, world, bad, fails)
         \/ \E stop \in 1..Len(c.steps) : RefusedAt(c, world, bad, fails, stop)
<1> DEFINE n == Len(c.steps)
           R == {i \in 1..n : \/ LIB!Refuses(IF i > fails THEN [world EXCEPT !.state = "Error"] ELSE world,
                                             c.steps[i])
                              \/ i = bad /\ c.steps[i].ask = "input"}
           stop == IF R = {} THEN n + 1 ELSE CHOOSE i \in R : \A j \in R : i <= j
           written == \E i \in 1..stop - 1 : c.steps[i] = LIB!Emit
           end == LIB!Follow(c, world, bad, fails)
<1>1. end = [answer |-> IF stop > n THEN "Ok" ELSE LIB!AnswerOf(c.steps[stop]),
             left |-> IF stop > n \/ ~written \/ c.wipes THEN "nothing" ELSE "part"]
  BY DEF LIB!Follow
<1>2. R = {i \in 1..n : Ends(c, world, bad, fails, i)}
  BY DEF Ends, WorldAt
<1> HIDE DEF R, end
<1>3. CASE R = {}
  <2>1. stop = n + 1 /\ stop > n
    BY <1>3
  <2>2. \A i \in 1..n : ~Ends(c, world, bad, fails, i)
    BY <1>2, <1>3, Zenon
  <2> HIDE DEF stop, written
  <2>3. end = [answer |-> "Ok", left |-> "nothing"]
    BY <1>1, <2>1
  <2> QED
    BY <2>2, <2>3 DEF end, NeverRefused
<1>4. CASE R # {}
  <2>1. R \subseteq Nat
    BY <1>2
  <2>2. \E i \in R : \A j \in R : i <= j
    BY <1>4, <2>1, FirstOfThem
  <2>3. stop \in R /\ \A j \in R : stop <= j
    BY <1>4, <2>2, Zenon
  <2> HIDE DEF stop
  <2>4. stop \in 1..n /\ Ends(c, world, bad, fails, stop)
    BY <1>2, <2>3
  <2>5. ~(stop > n)
    BY <2>4
  <2>6. \A i \in 1..n : Ends(c, world, bad, fails, i) => stop <= i
    BY <1>2, <2>3
  <2>7. ~written <=> \A i \in 1..stop - 1 : c.steps[i] # LIB!Emit
    OBVIOUS
  <2> HIDE DEF written
  <2>8. end = [answer |-> LIB!AnswerOf(c.steps[stop]),
               left |-> IF ~written \/ c.wipes THEN "nothing" ELSE "part"]
    BY <1>1, <2>5, Zenon
  <2> QED
    BY <2>4, <2>6, <2>7, <2>8, Zenon DEF end, RefusedAt
<1> QED
  BY <1>3, <1>4, Zenon

\* What a call may do: ask of the module, look at an argument, write a part of its output.
CallSteps ==
  {LIB!Operational, LIB!Started, LIB!Emit} \cup {LIB!Input(a) : a \in STRING}
    \cup {LIB!Allowed(<<s.block, PROFILE!Item(s)>>) : s \in PROFILE!Service}
CallsOfAnyLength ==
  [from : {"caller", "object", "library", "router"}, wipes : BOOLEAN,
   drbg : {<<>>, <<"HmacDrbg", "Sha256">>}, steps : Seq(CallSteps)]

\* What a step of a call answers when it is refused.
LEMMA Refusals ==
  ASSUME NEW step \in CallSteps
  PROVE  /\ step.ask \in {"operational", "started", "emit", "input", "allowed"}
         /\ step = LIB!Emit <=> step.ask = "emit"
         /\ step.ask \in {"operational", "started"} => LIB!AnswerOf(step) = "NotOperational"
         /\ step.ask = "allowed" => LIB!AnswerOf(step) = "AlgorithmRestricted"
         /\ \A world : LIB!Refuses(world, step) =>
              \/ step.ask = "operational" /\ ~LIB!Serving(world)
              \/ step.ask = "started" /\ ~LIB!Working(world)
              \/ step.ask = "allowed"
BY DEF CallSteps, LIB!Operational, LIB!Started, LIB!Emit, LIB!Input, LIB!Allowed, LIB!AnswerOf, LIB!Refuses

\* The same of the steps of a call, and the two questions.
LEMMA StepsOfCalls ==
  ASSUME NEW c \in CallsOfAnyLength
  PROVE  Len(c.steps) \in Nat /\ \A i \in 1..Len(c.steps) : c.steps[i] \in CallSteps
BY DEF CallsOfAnyLength
LEMMA Questions ==
  /\ LIB!Operational.ask = "operational" /\ LIB!Started.ask = "started"
  /\ \A world : LIB!Refuses(world, LIB!Operational) <=> ~LIB!Serving(world)
  /\ \A world : LIB!Refuses(world, LIB!Started) <=> ~LIB!Working(world)
BY DEF LIB!Operational, LIB!Started, LIB!Refuses

(***************************************************************************)
(* A call of the algorithm crates, whatever it does and however long it    *)
(* is: one that asks first answers nothing but NotOperational when the     *)
(* module does not serve, whatever its arguments, and the booting thread   *)
(* passes to the calls of the known answers alone.                         *)
(***************************************************************************)
THEOREM AskingFirstRefuses ==
  \A c \in CallsOfAnyLength : LIB!AsksFirst(c) => LIB!RefusedOutOfService(c)
<1> SUFFICES ASSUME NEW c \in CallsOfAnyLength, LIB!AsksFirst(c),
                    NEW world \in LIB!Worlds, ~LIB!Serving(world),
                    NEW bad \in {0} \cup (IF c.from = "router" THEN {} ELSE LIB!Inputs(c))
             PROVE  LET end == LIB!Follow(c, world, bad, Len(c.steps)) IN
                    IF LIB!Working(world) /\ c.from \in {"library", "object"}
                    THEN bad = 0 => end.answer = "Ok"
                    ELSE end = [answer |-> "NotOperational", left |-> "nothing"]
  BY Zenon DEF LIB!RefusedOutOfService
<1> DEFINE n == Len(c.steps)
           end == LIB!Follow(c, world, bad, n)
           ends(i) == Ends(c, world, bad, n, i)
<1>1. n \in Nat /\ \A i \in 1..n : c.steps[i] \in CallSteps
  BY StepsOfCalls
<1>2. \A i \in 1..n : WorldAt(world, n, i) = world
  BY <1>1 DEF WorldAt
<1>3. \/ (\A i \in 1..n : ~ends(i)) /\ end = [answer |-> "Ok", left |-> "nothing"]
      \/ \E stop \in 1..n :
           /\ ends(stop) /\ \A i \in 1..n : ends(i) => stop <= i
           /\ end = [answer |-> LIB!AnswerOf(c.steps[stop]),
                     left |-> IF (\A i \in 1..stop - 1 : c.steps[i] # LIB!Emit) \/ c.wipes
                              THEN "nothing" ELSE "part"]
  <2>1. \/ NeverRefused(c, world, bad, n)
        \/ \E stop \in 1..n : RefusedAt(c, world, bad, n, stop)
    BY <1>1, FollowedToRefusal
  <2> QED
    BY <2>1, Zenon DEF NeverRefused, RefusedAt
<1>4. \A i \in 1..n : ends(i) <=> (LIB!Refuses(world, c.steps[i]) \/ (i = bad /\ c.steps[i].ask = "input"))
  BY <1>2, Zenon DEF Ends
<1> HIDE DEF n, end, ends
<1>5. CASE LIB!Working(world) /\ c.from \in {"library", "object"}
  <2>1. \A i \in 1..n : c.steps[i].ask \in {"started", "input", "emit"}
    BY <1>5, Zenon DEF LIB!AsksFirst, n
  <2>2. bad = 0 => \A i \in 1..n : ~ends(i)
    BY <1>1, <1>4, <1>5, <2>1, Refusals
  <2>3. bad = 0 => end.answer = "Ok"
    BY <1>3, <2>2
  <2> QED
    BY <1>5, <2>3, Zenon DEF end, n
<1>6. CASE ~(LIB!Working(world) /\ c.from \in {"library", "object"})
  <2>1. PICK k \in 1..n :
          /\ LIB!Refuses(world, c.steps[k])
          /\ c.steps[k].ask \in {"operational", "started"}
          /\ \A i \in 1..k - 1 : c.steps[i].ask = "input" /\ bad = 0
    <3>1. CASE c.from \in {"object", "library"}
      <4>1. n > 0 /\ c.steps[1] = LIB!Started
        BY <3>1 DEF LIB!AsksFirst, n
      <4>2. 1 \in 1..n /\ 1..1 - 1 = {}
        BY <1>1, <4>1
      <4> QED
        BY <1>6, <3>1, <4>1, <4>2, Questions
    <3>2. CASE c.from \in {"caller", "router"}
      <4>1. PICK k \in 1..n : /\ c.steps[k] = LIB!Operational
                              /\ \A i \in 1..k - 1 : c.steps[i].ask = "input"
                              /\ c.from = "caller" => k = 1
        BY <3>2 DEF LIB!AsksFirst, n
      <4>2. c.from = "router" => bad = 0
        OBVIOUS
      <4>3. c.from = "caller" => 1..k - 1 = {}
        BY <4>1
      <4> QED
        BY <3>2, <4>1, <4>2, <4>3, Questions
    <3> QED
      BY <3>1, <3>2 DEF CallsOfAnyLength
  <2>2. ends(k)
    BY <1>4, <2>1
  <2>3. \A i \in 1..k - 1 : i \in 1..n /\ ~ends(i) /\ c.steps[i] # LIB!Emit
    BY <1>1, <1>4, <2>1, Refusals
  <2>4. PICK stop \in 1..n :
          /\ ends(stop) /\ \A i \in 1..n : ends(i) => stop <= i
          /\ end = [answer |-> LIB!AnswerOf(c.steps[stop]),
                    left |-> IF (\A i \in 1..stop - 1 : c.steps[i] # LIB!Emit) \/ c.wipes
                             THEN "nothing" ELSE "part"]
    BY <1>3, <2>2
  <2>5. stop = k
    <3>1. stop <= k
      BY <2>2, <2>4
    <3>2. ~(stop \in 1..k - 1)
      BY <2>3, <2>4
    <3> QED
      BY <1>1, <3>1, <3>2
  <2>6. LIB!AnswerOf(c.steps[k]) = "NotOperational"
    BY <1>1, <2>1, Refusals
  <2>7. end = [answer |-> "NotOperational", left |-> "nothing"]
    BY <2>3, <2>4, <2>5, <2>6, Zenon
  <2> QED
    BY <1>6, <2>7, Zenon DEF end, n
<1> QED
  BY <1>5, <1>6

(***************************************************************************)
(* And wherever such a call fails, in service, on the way or for its       *)
(* arguments, no part of its output stays with the caller if it zeroes the *)
(* output or writes it last, as derivations of any number of blocks do; a  *)
(* module that failed under it is not told as a bad argument.              *)
(***************************************************************************)
THEOREM FailuresLeaveNothing ==
  \A c \in CallsOfAnyLength : LIB!AsksFirst(c) /\ LIB!WritesLast(c) => LIB!FailureIsContained(c)
<1> SUFFICES ASSUME NEW c \in CallsOfAnyLength, LIB!AsksFirst(c), LIB!WritesLast(c),
                    NEW profile, NEW bad \in {0} \cup LIB!Inputs(c),
                    NEW fails \in 0..Len(c.steps)
             PROVE  LET end == LIB!Follow(c, [state |-> "Operational", tester |-> FALSE, profile |-> profile],
                                          bad, fails) IN
                    /\ end.left = "nothing"
                    /\ bad = 0 => end.answer \in {"Ok", "NotOperational", "AlgorithmRestricted"}
                    /\ fails = 0 /\ c.from = "caller" => end.answer = "NotOperational"
  BY Zenon DEF LIB!FailureIsContained
<1> DEFINE n == Len(c.steps)
           world == [state |-> "Operational", tester |-> FALSE, profile |-> profile]
           end == LIB!Follow(c, world, bad, fails)
           ends(i) == Ends(c, world, bad, fails, i)
<1>1. n \in Nat /\ \A i \in 1..n : c.steps[i] \in CallSteps
  BY StepsOfCalls
<1>2. \/ (\A i \in 1..n : ~ends(i)) /\ end = [answer |-> "Ok", left |-> "nothing"]
      \/ \E stop \in 1..n :
           /\ ends(stop) /\ \A i \in 1..n : ends(i) => stop <= i
           /\ end = [answer |-> LIB!AnswerOf(c.steps[stop]),
                     left |-> IF (\A i \in 1..stop - 1 : c.steps[i] # LIB!Emit) \/ c.wipes
                              THEN "nothing" ELSE "part"]
  <2>1. \/ NeverRefused(c, world, bad, fails)
        \/ \E stop \in 1..n : RefusedAt(c, world, bad, fails, stop)
    BY <1>1, FollowedToRefusal
  <2> QED
    BY <2>1, Zenon DEF NeverRefused, RefusedAt
<1>3. \A i \in 1..n : ends(i) <=> \/ LIB!Refuses(WorldAt(world, fails, i), c.steps[i])
                                  \/ i = bad /\ c.steps[i].ask = "input"
  BY Zenon DEF Ends
<1>4. WorldAt(world, 0, 1).state = "Error"
  BY DEF WorldAt
<1> HIDE DEF n, world, end, ends
<1>5. \A stop \in 1..n : ends(stop) => \/ c.wipes
                                       \/ \A i \in 1..stop - 1 : c.steps[i] # LIB!Emit
  <2> SUFFICES ASSUME NEW stop \in 1..n, ends(stop), ~c.wipes,
                      NEW i \in 1..stop - 1, c.steps[i] = LIB!Emit
               PROVE  FALSE
    BY Zenon
  <2>1. i \in 1..n /\ i < stop
    BY <1>1
  <2>2. c.steps[stop] = LIB!Emit
    BY <2>1, Zenon DEF LIB!WritesLast, n
  <2> QED
    BY <1>1, <1>3, <2>2, Refusals
<1>6. end.left = "nothing"
  BY <1>2, <1>5
<1>7. bad = 0 => end.answer \in {"Ok", "NotOperational", "AlgorithmRestricted"}
  <2>1. bad = 0 => \A stop \in 1..n : ends(stop) =>
          LIB!AnswerOf(c.steps[stop]) \in {"NotOperational", "AlgorithmRestricted"}
    BY <1>1, <1>3, Refusals
  <2> QED
    BY <1>2, <2>1
<1>8. fails = 0 /\ c.from = "caller" => end.answer = "NotOperational"
  <2> SUFFICES ASSUME fails = 0, c.from = "caller"
               PROVE  end.answer = "NotOperational"
    OBVIOUS
  <2>1. 1 \in 1..n /\ c.steps[1] = LIB!Operational
    BY DEF LIB!AsksFirst, n
  <2>2. ~LIB!Serving(WorldAt(world, 0, 1))
    BY <1>4 DEF LIB!Serving
  <2>3. ends(1)
    BY <1>3, <2>1, <2>2, Questions, Zenon
  <2>4. \A stop \in 1..n : stop <= 1 => stop = 1
    BY <1>1
  <2>5. LIB!AnswerOf(c.steps[1]) = "NotOperational"
    BY <1>1, <2>1, Questions, Refusals
  <2>6. end = [answer |-> LIB!AnswerOf(c.steps[1]), left |-> end.left]
    BY <1>2, <2>1, <2>3, <2>4
  <2> QED
    BY <2>5, <2>6
<1> QED
  BY <1>6, <1>7, <1>8 DEF end, world

=============================================================================

----------------------------- MODULE EcdsaHandle -----------------------------
(***************************************************************************)
(* Key generation, import and use of the elliptic-curve handles            *)
(* (oxicrypt-ecdsa, both curves alike, and oxicrypt-eddsa) and the key     *)
(* pairs of oxicrypt-ecdh and oxicrypt-dh: what is drawn again, and what a *)
(* pairwise consistency test lets through, while another thread may shut   *)
(* the module between any two guarded steps.                               *)
(*                                                                         *)
(* Curve arithmetic is ideal: a signature verifies under the public key of *)
(* the scalar that made it and under no other, and a shared secret is an   *)
(* x-coordinate, which a point and its negative have in common.            *)
(***************************************************************************)
EXTENDS Naturals, Sequences

CONSTANTS
  MAX_SAMPLE_ATTEMPTS, \* candidates tried for one scalar (128)
  MAX_SIGN_RETRIES,    \* nonces tried for one signature (8)
  MaxFaults            \* bound: transient faults in a behaviour

VARIABLES
  admits,   \* the guards of the module admit the caller
  pair,     \* the key pair the application holds: its scheme and its point
  call,     \* the call in progress
  verdicts, \* history: what the probes of the last call's test answered
  answer,   \* what the last call returned
  faults    \* faults that have struck

handleVars == <<admits, pair, call, verdicts, answer, faults>>

\* The guarded steps of each call.
EcdsaPlan ==
  [generate |-> <<"scalar", "derive", "nonce", "sign", "verify">>,
   import |-> <<"derive", "nonce", "sign", "verify">>,
   use |-> <<"nonce", "sign">>]

EddsaPlan ==
  [generate |-> <<"seed", "derive", "sign", "verify">>,
   import |-> <<"derive", "sign", "verify">>,
   use |-> <<"sign">>]

EcdhPlan == [generate |-> <<"scalar", "derive", "agree", "agreeBack">>]

DhPlan == [generate |-> <<"scalar", "derive">>]

Plan == [ecdsa |-> EcdsaPlan, eddsa |-> EddsaPlan, ecdh |-> EcdhPlan, dh |-> DhPlan]

NoPair == [scheme |-> "none", q |-> "none"]
Idle == [scheme |-> "none", op |-> "none", todo |-> <<>>, q |-> "none", sig |-> "none",
         attempts |-> 0, tries |-> 0]

HandleInit ==
  /\ admits = TRUE /\ pair = NoPair /\ call = Idle
  /\ verdicts = <<>> /\ answer = "none" /\ faults = 0

Busy == call # Idle

\* The two gates of a public entry; a use takes the pair the application holds.
CallPair(scheme, op) ==
  /\ ~Busy
  /\ op = "use" => pair.scheme = scheme
  /\ verdicts' = <<>>
  /\ IF admits
     THEN /\ answer' = "none"
          /\ call' = [Idle EXCEPT !.scheme = scheme, !.op = op, !.todo = Plan[scheme][op],
                                  !.q = IF op = "use" THEN pair.q ELSE "none"]
     ELSE answer' = "NotOperational" /\ UNCHANGED call
  /\ UNCHANGED <<admits, pair, faults>>

At(step) == Busy /\ Head(call.todo) = step

\* The call ends with an error: the handle under construction is dropped.
FailWith(error) ==
  /\ answer' = error /\ call' = Idle
  /\ UNCHANGED pair

\* A step is done; after the last one the call returns, a pair with it.
Proceed(c) ==
  IF Len(c.todo) > 1
  THEN call' = [c EXCEPT !.todo = Tail(c.todo)] /\ UNCHANGED <<pair, answer>>
  ELSE /\ call' = Idle /\ answer' = "ok"
       /\ pair' = IF c.op = "use" THEN pair ELSE [scheme |-> c.scheme, q |-> c.q]

\* The guard of the step's internal, or of the DRBG or hash it runs, refuses.  DH derives
\* its value under the guard that admitted the draw.
RefuseAt ==
  /\ Busy /\ ~admits
  /\ ~(call.scheme = "dh" /\ At("derive"))
  /\ FailWith("NotOperational")
  /\ UNCHANGED <<admits, verdicts, faults>>

\* sample_scalar_internal, one candidate: out of range, it is drawn again.
DrawScalar ==
  /\ admits
  /\ At("scalar") \/ At("nonce")
  /\ \/ FailWith("InvalidInput") \* the DRBG fails
     \/ Proceed([call EXCEPT !.attempts = 0])
     \/ IF call.attempts + 1 < MAX_SAMPLE_ATTEMPTS
        THEN call' = [call EXCEPT !.attempts = @ + 1] /\ UNCHANGED <<pair, answer>>
        ELSE FailWith("InvalidInput")
  /\ UNCHANGED <<admits, verdicts, faults>>

\* An Ed25519 seed is one draw, never rejected.
DrawSeed ==
  /\ admits /\ At("seed")
  /\ FailWith("InvalidInput") \/ Proceed(call)
  /\ UNCHANGED <<admits, verdicts, faults>>

\* The public value.  An imported ECDSA scalar may be out of range; a fault leaves
\* another point, or the negative one.
DerivePoint ==
  /\ At("derive")
  /\ admits \/ call.scheme = "dh"
  /\ \/ Proceed([call EXCEPT !.q = "ofD"]) /\ UNCHANGED faults
     \/ /\ faults < MaxFaults /\ faults' = faults + 1
        /\ \E q \in {"negative", "other"} : Proceed([call EXCEPT !.q = q])
     \/ call.op = "import" /\ call.scheme = "ecdsa" /\ FailWith("InvalidInput") /\ UNCHANGED faults
  /\ UNCHANGED <<admits, verdicts>>

\* Another nonce is drawn, unless MAX_SIGN_RETRIES were.
Again(steps) ==
  IF call.tries + 1 < MAX_SIGN_RETRIES
  THEN /\ call' = [call EXCEPT !.tries = @ + 1, !.todo = steps \o @]
       /\ UNCHANGED <<pair, answer>>
  ELSE FailWith("InvalidInput")

\* sign_with_k_internal: a zero r or s asks for another nonce; Ed25519 has no such case.
SignOnce ==
  /\ admits /\ At("sign")
  /\ \/ Proceed([call EXCEPT !.sig = "ofD"]) /\ UNCHANGED faults
     \/ /\ faults < MaxFaults /\ faults' = faults + 1
        /\ Proceed([call EXCEPT !.sig = "wrong"])
     \/ call.scheme = "ecdsa" /\ Again(<<"nonce">>) /\ UNCHANGED faults
  /\ UNCHANGED <<admits, verdicts>>

\* Fault: the error of a failed verification is retried, as that of a zero r is.
VerifyProbe_Retries ==
  /\ admits /\ At("verify")
  /\ verdicts' = Append(verdicts, call.sig = call.q)
  /\ IF call.sig = call.q THEN Proceed(call) ELSE Again(<<"nonce", "sign">>)
  /\ UNCHANGED <<admits, faults>>

\* run_pct: the probe's signature is verified under the handle's own point.
VerifyProbe ==
  /\ admits /\ At("verify")
  /\ verdicts' = Append(verdicts, call.sig = call.q)
  /\ IF call.sig = call.q THEN Proceed(call) ELSE FailWith("InvalidInput")
  /\ UNCHANGED <<admits, faults>>

\* The two shared secrets with the fixed peer; only the second one uses the new point.
Agree ==
  /\ admits /\ At("agree")
  /\ Proceed(call)
  /\ UNCHANGED <<admits, verdicts, faults>>

AgreeBack ==
  /\ admits /\ At("agreeBack")
  /\ verdicts' = Append(verdicts, call.q \in {"ofD", "negative"})
  /\ IF call.q \in {"ofD", "negative"} THEN Proceed(call) ELSE FailWith("InvalidInput")
  /\ UNCHANGED <<admits, faults>>

\* Another thread latches Error.
ShutModule ==
  /\ admits /\ admits' = FALSE
  /\ UNCHANGED <<pair, call, verdicts, answer, faults>>

HandleNext ==
  \/ \E scheme \in DOMAIN Plan : \E op \in DOMAIN Plan[scheme] : CallPair(scheme, op)
  \/ DrawScalar \/ DrawSeed \/ DerivePoint \/ SignOnce \/ VerifyProbe
  \/ Agree \/ AgreeBack \/ RefuseAt \/ ShutModule

-----------------------------------------------------------------------------

\* A pair that was handed out belongs together although faults strike the derivation and
\* the probe, and a test that failed was not run again until it passed (run_pct).  The test
\* of ECDH cannot see the sign of a point, and DH has no test.
PairsAreTested ==
  /\ \/ pair.q \in {"none", "ofD"}
     \/ pair.scheme = "ecdh" /\ pair.q = "negative"
     \/ pair.scheme = "dh"
  /\ answer = "ok" => \A i \in DOMAIN verdicts : verdicts[i]
=============================================================================

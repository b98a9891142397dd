-------------------------------- MODULE Drbg --------------------------------
(***************************************************************************)
(* One DRBG instance of oxicrypt-drbg (CTR_DRBG with and without the       *)
(* derivation function, Hash_DRBG, HMAC_DRBG), its caller, and the module  *)
(* boundary that other threads may shut at any time.                       *)
(*                                                                         *)
(* The working state is two halves: Key and V, or V and C for Hash_DRBG.   *)
(* The primitives are ideal: each write of a half gives it a value never   *)
(* seen before, here a stamp of a clock, and zeroizing gives it stamp 0.   *)
(* An operation is a script of passes; the module guard is evaluated       *)
(* before each pass, so a refusal may fall between any two.                *)
(***************************************************************************)
EXTENDS Integers, Sequences, FiniteSets, SequencesExt

CONSTANTS
  Mechanisms,      \* of "ctr_no_df", "ctr_df", "hash", "hmac"
  Clients,         \* who calls: the "application", a KAT ("selfTest"), or the "health" test
  RESEED_INTERVAL, \* requests served between two (re)seeds; 2^48 in the code, at least 1
  MaxBlocks,       \* blocks of the longest request
  MaxEntropy       \* bound: entropy inputs an instance ever absorbs

VARIABLES
  moduleState,  \* STATE as the module reports it
  owner,        \* the owner of SelfTest, NoBoot when there is none
  permitted,    \* is_allowed(active_profile(), DRBG_SERVICE) once Operational
  mech, client,
  first,        \* Key, or V of Hash_DRBG
  second,       \* V, or C of Hash_DRBG
  counter,      \* reseed_counter
  instantiated,
  call,         \* the operation in progress
  todo,         \* its passes still to run
  output,       \* the blocks it has written to the caller's buffer
  answer,       \* what the last operation returned
  script,       \* what is left of the health test
  clock,        \* the last stamp given
  born,         \* history: the clock when the last instantiate passed its gate
  entropyTaken, \* history: entropy inputs taken
  settled,      \* history: the halves when an operation last completed
  delivered,    \* history: the blocks ever returned
  served        \* history: requests served since the last (re)seed

boundaryVars == <<moduleState, owner>>
envVars == <<permitted, mech, client>>
stateVars == <<first, second, counter, instantiated>>
historyVars == <<born, entropyTaken, settled, delivered, served>>
drbgVars == <<boundaryVars, envVars, stateVars, call, todo, output, answer, script, clock, historyVars>>

ModuleBoundary == INSTANCE ModuleLifecycle WITH
  OsIds <- {"boot"}, NoOwner <- "nobody",
  Profiles <- {"any"}, DefaultProfile <- "any", inForce <- "any", phase <- moduleState

Errors == {"Uninstantiated", "ReseedRequired", "InputTooLong", "InvalidSeedLength",
           "EntropyInputTooShort", "NonceTooShort", "RequestTooLong", "InvalidInput",
           "AlgorithmRestricted", "Module"}

NoCall == [op |-> "none", blocks |-> 0, since |-> 0, pr |-> FALSE]

\* require_self_test_started: the self-test clients run on the booting thread.
GuardAdmits == moduleState = "Operational" \/ (moduleState = "SelfTest" /\ client # "application")

-----------------------------------------------------------------------------
(* The passes of each operation: which halves a pass writes, and whether    *)
(* it writes a block of output.                                             *)

Guard == {}                    \* a derivation into a local buffer
Both == {"first", "second"}
First == {"first"}
Second == {"second"}

\* CTR_DRBG: update passes one guard, then writes both halves.
CtrUpdate == <<Both>>

BlockCipherDf == IF mech = "ctr_df" THEN <<Guard>> ELSE <<>>

CtrSeeding == BlockCipherDf \o CtrUpdate

\* One guard for the whole request; V counts.
GenerateBlocks(n) == IF n = 0 THEN <<Guard>> ELSE <<Second \cup {"out"}>>

\* Fault: a request without additional input skips the last update.
CtrGeneration_Shortcut(n, additional) ==
  IF additional THEN CtrSeeding \o GenerateBlocks(n) \o CtrUpdate ELSE GenerateBlocks(n)

\* Additional input, if any, is mixed in before the output and again after it.
CtrGeneration(n, additional) ==
  (IF additional THEN CtrSeeding ELSE <<>>) \o GenerateBlocks(n) \o CtrUpdate

\* Hash_DRBG: Hash_df writes its target digest by digest (two at least).
HashDf(half) == <<half, half>>

\* V from the seed, then C from V.
HashSeeding == HashDf(First) \o HashDf(Second)

\* Hashgen counts on a copy of V.
Hashgen(n) == [i \in 1..n |-> {"out"}]

HashGeneration(n, additional) ==
  (IF additional THEN <<First>> ELSE <<>>) \o Hashgen(n) \o <<First>>

\* HMAC_DRBG: update(provided_data), Null or not.
HmacUpdate(provided) ==
  IF provided THEN <<First, Second, First, Second>> ELSE <<First, Second>>

HmacSeeding == HmacUpdate(TRUE)

\* V advances block by block, and each value of it is output.
HmacGeneration(n, additional) ==
  (IF additional THEN HmacUpdate(TRUE) ELSE <<>>)
    \o [i \in 1..n |-> Second \cup {"out"}] \o HmacUpdate(additional)

Seeding ==
  IF mech = "hash" THEN HashSeeding ELSE IF mech = "hmac" THEN HmacSeeding ELSE CtrSeeding

Generation(n, additional) ==
  IF mech = "hash" THEN HashGeneration(n, additional)
  ELSE IF mech = "hmac" THEN HmacGeneration(n, additional) ELSE CtrGeneration(n, additional)

-----------------------------------------------------------------------------
(* Argument checks, in the order of the code.                              *)

SeedArguments == {"ok", "tooLong", "shortEntropy", "shortNonce"}

\* instantiate reports an overlong input as InvalidInput; without a derivation
\* function seed material has exactly one legal length.
InstantiateCheck(seed) ==
  IF seed = "ok" THEN "ok"
  ELSE IF mech = "ctr_no_df" \/ seed = "tooLong" THEN "InvalidInput"
  ELSE IF seed = "shortEntropy" THEN "EntropyInputTooShort" ELSE "NonceTooShort"

ReseedCheck(seed) ==
  IF ~instantiated THEN "Uninstantiated"
  ELSE IF seed = "ok" THEN "ok"
  ELSE IF mech = "ctr_no_df" THEN "InvalidSeedLength"
  ELSE IF seed = "tooLong" THEN "InputTooLong" ELSE "EntropyInputTooShort"

\* Fault: the ceiling is tested after one request too many.
GenerateCheck_OneMore(c, n, input) ==
  IF ~instantiated THEN "Uninstantiated"
  ELSE IF n > MaxBlocks THEN "RequestTooLong"
  ELSE IF c > RESEED_INTERVAL + 1 THEN "ReseedRequired"
  ELSE IF input # "tooLong" THEN "ok"
  ELSE IF mech = "ctr_no_df" THEN "InvalidSeedLength" ELSE "InputTooLong"

\* c is reseed_counter, n the blocks asked for, input the additional input.
GenerateCheck(c, n, input) ==
  IF ~instantiated THEN "Uninstantiated"
  ELSE IF n > MaxBlocks THEN "RequestTooLong"
  ELSE IF c > RESEED_INTERVAL THEN "ReseedRequired"
  ELSE IF input # "tooLong" THEN "ok"
  ELSE IF mech = "ctr_no_df" THEN "InvalidSeedLength" ELSE "InputTooLong"

-----------------------------------------------------------------------------

\* run_*_drbg_health: what each call must return.
HealthTest ==
  <<[op |-> "generate", expect |-> "Uninstantiated"], [op |-> "instantiate", expect |-> "ok"],
    [op |-> "generate", expect |-> "ok"], [op |-> "force", expect |-> "ok"],
    [op |-> "generate", expect |-> "ReseedRequired"], [op |-> "uninstantiate", expect |-> "ok"],
    [op |-> "generate", expect |-> "Uninstantiated"]>>

\* new().
DrbgInit ==
  /\ ModuleBoundary!Init
  /\ permitted \in BOOLEAN /\ mech \in Mechanisms /\ client \in Clients
  /\ first = 0 /\ second = 0 /\ counter = 0 /\ instantiated = FALSE
  /\ call = NoCall /\ todo = <<>> /\ output = <<>> /\ answer = "none"
  /\ script = IF client = "health" THEN HealthTest ELSE <<>>
  /\ clock = 0 /\ born = 0 /\ entropyTaken = 0
  /\ settled = <<0, 0>> /\ delivered = {} /\ served = 0

\* The caller is free to make this call; the health test follows its script.
MayCall(op) ==
  /\ call = NoCall
  /\ client = "health" =>
       moduleState # "PowerOff" /\ answer = "none" /\ script # <<>> /\ Head(script).op = op

\* An operation returns before its first pass.
ReturnEarly(r) ==
  /\ answer' = r /\ output' = <<>>
  /\ UNCHANGED <<call, todo, clock>>

\* An operation passes its checks and starts on its passes.
Begin(op, n, pr, passes) ==
  /\ call' = [op |-> op, blocks |-> n, since |-> clock, pr |-> pr]
  /\ todo' = passes
  /\ output' = <<>> /\ answer' = "none"
  /\ UNCHANGED clock

\* Key, V and C are zeroized.
Zeroize ==
  /\ first' = 0 /\ second' = 0 /\ counter' = 0 /\ instantiated' = FALSE
  /\ settled' = <<0, 0>>

\* The public entry points: require_operational, then require_allowed; a KAT
\* calls the internal ones.
Gate ==
  IF client # "application" THEN "ok"
  ELSE IF moduleState # "Operational" THEN "Module"
  ELSE IF ~permitted THEN "AlgorithmRestricted" ELSE "ok"

RefuseInstantiate ==
  /\ MayCall("instantiate")
  /\ Gate # "ok"
  /\ ReturnEarly(Gate)
  /\ UNCHANGED <<boundaryVars, envVars, stateVars, script, historyVars>>

\* The old instantiation goes first, whatever becomes of the new one.
Instantiate(seed) ==
  /\ MayCall("instantiate")
  /\ Gate = "ok"
  /\ entropyTaken < MaxEntropy
  /\ entropyTaken' = entropyTaken + 1 /\ born' = clock
  /\ Zeroize
  /\ IF InstantiateCheck(seed) = "ok"
     THEN Begin("instantiate", 0, FALSE, Seeding)
     ELSE ReturnEarly(InstantiateCheck(seed))
  /\ UNCHANGED <<boundaryVars, envVars, script, delivered, served>>

Reseed(seed) ==
  /\ MayCall("reseed")
  /\ entropyTaken < MaxEntropy
  /\ entropyTaken' = entropyTaken + 1
  /\ IF ReseedCheck(seed) = "ok"
     THEN Begin("reseed", 0, FALSE, Seeding)
     ELSE ReturnEarly(ReseedCheck(seed))
  /\ UNCHANGED <<boundaryVars, envVars, stateVars, script, born, settled, delivered, served>>

Generate(n, input) ==
  /\ MayCall("generate")
  /\ LET check == GenerateCheck(counter, n, input)
     IN IF check = "ok"
        THEN Begin("generate", n, FALSE, Generation(n, input = "ok"))
        ELSE ReturnEarly(check)
  /\ UNCHANGED <<boundaryVars, envVars, stateVars, script, historyVars>>

\* Fault: prediction resistance generates first and reseeds for the next time.
GeneratePr_Late(seed, n) ==
  /\ MayCall("pr")
  /\ entropyTaken < MaxEntropy
  /\ entropyTaken' = entropyTaken + 1
  /\ LET check == IF ReseedCheck(seed) # "ok" THEN ReseedCheck(seed)
                  ELSE GenerateCheck(counter, n, "none")
     IN IF check = "ok"
        THEN Begin("generate", n, TRUE, Generation(n, FALSE))
        ELSE ReturnEarly(check)
  /\ UNCHANGED <<boundaryVars, envVars, stateVars, script, born, settled, delivered, served>>

\* generate_pr: a reseed, then (ContinuePr) a generate without additional input.
GeneratePr(seed, n) ==
  /\ MayCall("pr")
  /\ entropyTaken < MaxEntropy
  /\ entropyTaken' = entropyTaken + 1
  /\ IF ReseedCheck(seed) = "ok"
     THEN Begin("reseed", n, TRUE, Seeding)
     ELSE ReturnEarly(ReseedCheck(seed))
  /\ UNCHANGED <<boundaryVars, envVars, stateVars, script, born, settled, delivered, served>>

Uninstantiate ==
  /\ MayCall("uninstantiate")
  /\ Zeroize
  /\ ReturnEarly("ok")
  /\ UNCHANGED <<boundaryVars, envVars, script, born, entropyTaken, delivered, served>>

\* debug_force_reseed_ceiling, used by the health test only.
ForceReseedCeiling ==
  /\ client = "health" /\ MayCall("force")
  /\ counter' = RESEED_INTERVAL + 1
  /\ ReturnEarly("ok")
  /\ UNCHANGED <<boundaryVars, envVars, first, second, instantiated, script, historyVars>>

-----------------------------------------------------------------------------
(* The passes.                                                             *)

\* What a block of output is computed from: Hashgen counts from V, the others
\* encrypt or hash V under Key.
Source == IF mech = "hash" THEN <<first, 0, Len(output)>> ELSE <<first, second, 0>>

\* The guard admits the next pass, which writes what it writes.
Pass ==
  /\ todo # <<>>
  /\ GuardAdmits
  /\ LET pass == Head(todo) IN
       /\ clock' = IF pass \cap Both = {} THEN clock ELSE clock + 1
       /\ first' = IF "first" \in pass THEN clock' ELSE first
       /\ second' = IF "second" \in pass THEN clock' ELSE second
       /\ output' = IF "out" \in pass THEN Append(output, Source) ELSE output
  /\ todo' = Tail(todo)
  /\ UNCHANGED <<boundaryVars, envVars, counter, instantiated, call, answer, script, historyVars>>

\* Fault: the body of generate returns to the caller without the wipe.
RefusePass_Unwiped ==
  /\ todo # <<>>
  /\ ~GuardAdmits
  /\ call' = NoCall /\ todo' = <<>> /\ answer' = "Module"
  /\ UNCHANGED <<output, boundaryVars, envVars, stateVars, script, clock, historyVars>>

\* The guard refuses: the halves stay as the earlier passes left them, and
\* generate wipes what it has written to the caller's buffer.
RefusePass ==
  /\ todo # <<>>
  /\ ~GuardAdmits
  /\ call' = NoCall /\ todo' = <<>> /\ answer' = "Module"
  /\ output' = IF call.op = "generate" THEN <<>> ELSE output
  /\ UNCHANGED <<boundaryVars, envVars, stateVars, script, clock, historyVars>>

Finished(op) == call.op = op /\ todo = <<>>

FinishInstantiate ==
  /\ Finished("instantiate")
  /\ counter' = 1 /\ instantiated' = TRUE
  /\ settled' = <<first, second>> /\ served' = 0
  /\ call' = NoCall /\ answer' = "ok"
  /\ UNCHANGED <<boundaryVars, envVars, first, second, todo, output, script, clock,
                 born, entropyTaken, delivered>>

FinishReseed ==
  /\ Finished("reseed") /\ ~call.pr
  /\ counter' = 1
  /\ settled' = <<first, second>> /\ served' = 0
  /\ call' = NoCall /\ answer' = "ok"
  /\ UNCHANGED <<boundaryVars, envVars, first, second, instantiated, todo, output, script, clock,
                 born, entropyTaken, delivered>>

\* The reseed of generate_pr is done; the generate that follows may still refuse.
ContinuePr ==
  /\ Finished("reseed") /\ call.pr
  /\ counter' = 1
  /\ settled' = <<first, second>> /\ served' = 0
  /\ LET check == GenerateCheck(1, call.blocks, "none")
     IN IF check = "ok"
        THEN /\ call' = [call EXCEPT !.op = "generate"]
             /\ todo' = Generation(call.blocks, FALSE)
             /\ UNCHANGED answer
        ELSE call' = NoCall /\ answer' = check /\ UNCHANGED todo
  /\ UNCHANGED <<boundaryVars, envVars, first, second, instantiated, output, script, clock,
                 born, entropyTaken, delivered>>

FinishGenerate ==
  /\ Finished("generate")
  /\ counter' = counter + 1
  /\ settled' = <<first, second>> /\ served' = served + 1
  /\ delivered' = delivered \cup Range(output)
  /\ call' = NoCall /\ answer' = "ok"
  /\ UNCHANGED <<boundaryVars, envVars, first, second, instantiated, todo, output, script, clock,
                 born, entropyTaken>>

-----------------------------------------------------------------------------
(* The module around the instance.                                         *)

instanceVars == <<envVars, stateVars, call, todo, output, clock, historyVars>>

Boot == ModuleBoundary!Start /\ UNCHANGED <<instanceVars, answer, script>>

\* The booting thread returns from its self-tests before the module opens.
LeaveBoot ==
  /\ ModuleBoundary!Open \/ ModuleBoundary!Decline
  /\ client # "application" => call = NoCall /\ script = <<>>
  /\ UNCHANGED <<instanceVars, answer, script>>

\* enter_error_state, from any thread.
Latch == ModuleBoundary!Latch /\ UNCHANGED <<instanceVars, answer, script>>

\* The health test compares: another answer fails the self-tests.
JudgeHealth ==
  /\ client = "health" /\ call = NoCall /\ answer # "none" /\ script # <<>>
  /\ IF answer = Head(script).expect
     THEN script' = Tail(script) /\ UNCHANGED boundaryVars
     ELSE script' = <<>> /\ IF moduleState = "SelfTest" THEN ModuleBoundary!Latch ELSE UNCHANGED boundaryVars
  /\ answer' = "none"
  /\ UNCHANGED instanceVars

Requests == IF client = "health" THEN {1} ELSE 0..(MaxBlocks + 1)
Inputs == IF client = "health" THEN {"none"} ELSE {"none", "ok", "tooLong"}
Seeds == IF client = "health" THEN {"ok"} ELSE SeedArguments

DrbgNext ==
  \/ \E s \in Seeds : Instantiate(s)
  \/ \E s \in Seeds \ {"shortNonce"} : Reseed(s) \/ (\E n \in Requests : GeneratePr(s, n))
  \/ \E n \in Requests, i \in Inputs : Generate(n, i)
  \/ RefuseInstantiate \/ Uninstantiate \/ ForceReseedCeiling
  \/ Pass \/ RefusePass
  \/ FinishInstantiate \/ FinishReseed \/ ContinuePr \/ FinishGenerate
  \/ Boot \/ LeaveBoot \/ Latch \/ JudgeHealth

DrbgSpec == DrbgInit /\ [][DrbgNext]_drbgVars

-----------------------------------------------------------------------------
(* What an instance promises.                                              *)

\* The instance is between operations.
Idle == call = NoCall

\* A refusal half-way through a call leaves nothing usable: the state no operation completed
\* is never used again, for the guard that refused was shut for good, and nothing generated
\* stays in the caller's buffer, also when generate is the second half of generate_pr.
RefusalIsContained ==
  Idle => /\ instantiated /\ <<first, second>> # settled => moduleState = "Error"
          /\ answer \in Errors => output = <<>>

\* Between two seeds exactly RESEED_INTERVAL requests are served: not one more,
\* and none of them is refused for the ceiling.
Ceiling ==
  /\ served <= RESEED_INTERVAL
  /\ answer = "ReseedRequired" /\ client # "health" => served = RESEED_INTERVAL

\* The blocks a step returns to the caller.
Returned == delivered' \ delivered

\* Output comes from the seed given last: an instantiate that fails does not leave the
\* earlier one usable; and with prediction resistance, from the entropy of the same call.
OutputOfLatestSeed ==
  [][LET seed == IF call.pr THEN call.since ELSE born
     IN \A b \in Returned : b[1] > seed /\ (mech # "hash" => b[2] > seed)]_drbgVars

\* When output is returned the state it came from is gone, in both halves that
\* would give it back.
BacktrackingResistance ==
  [][\A b \in Returned : first' > b[1] /\ (mech # "hash" => second' > b[2])]_drbgVars
=============================================================================

---------------------------- MODULE IntegrityBoot ----------------------------
(***************************************************************************)
(* The pre-operational integrity test of oxicrypt-integrity and the two    *)
(* algorithm self-tests (CASTs) it depends on: the pass flag of each CAST, *)
(* the latched status, the detail text and the key fingerprint, as the     *)
(* boot thread, a self-test of its own and unrelated threads run them.     *)
(*                                                                         *)
(* The module boundary is its promise, ModuleLifecycle (which ModuleState  *)
(* implements): threads that are alive together have different ids, so the *)
(* owner is the thread itself.  Every action is one access of a shared     *)
(* atomic, or the work between two of them.                                *)
(***************************************************************************)
EXTENDS Sequences, FiniteSets

CONSTANTS
  Threads,  \* threads that may call the crate
  NoThread,
  Groups,   \* the entry lists an application passes to initialize
  Artifacts \* what the loaded image may be

Casts == {"ml_dsa_cast", "sha256_cast"}
Tests == {"integrity_self_test", "verify_loaded_image"}
Entry == Casts \cup Tests \cup {"other"}

ASSUME BootAssumption ==
  /\ NoThread \notin Threads
  /\ Groups \subseteq Seq(Entry) \ {<<>>}
  /\ Artifacts \subseteq
       {"signed", "altered", "otherKey", "unsigned", "damaged", "noKey"}

VARIABLES
  phase,       \* STATE as oxicrypt_module::state() reports it
  owner,       \* the thread that owns SelfTest
  artifact,    \* the loaded image; nothing changes it while the process runs
  group,       \* the entries of the initialize call that won
  next,        \* those it has not run yet
  booting,     \* the thread inside that call
  pc,          \* where each thread stands
  running,     \* the entry it is running
  outcome,     \* the result of its integrity test, as the status it maps to
  passed,      \* ML_DSA_CAST_PASSED, SHA256_CAST_PASSED
  tested,      \* history: the CASTs whose known-answer test ever passed
  status,      \* LAST_STATUS
  detail,      \* DETAIL, as the status whose text it is
  fingerprint  \* FINGERPRINT has been set

boundaryVars == <<phase, owner>>
bootVars == <<artifact, group, next, booting>>
castVars == <<passed, tested>>
recordVars == <<status, detail, fingerprint>>
vars == <<boundaryVars, bootVars, pc, running, outcome, castVars, recordVars>>

Boundary == INSTANCE ModuleLifecycle WITH
  OsIds <- Threads, NoOwner <- NoThread,
  Profiles <- {"Unrestricted"}, DefaultProfile <- "Unrestricted",
  inForce <- "Unrestricted"

\* IntegrityStatus, without the value that is never written.
Statuses == {"NotRun", "Passed", "SignatureInvalid", "SlotInvalid", "Unreadable",
             "CastNotRun", "Refused", "NoVerifyKey", "KeyMismatch", "SlotDamaged"}
Failures == Statuses \ {"NotRun", "Passed"}

-----------------------------------------------------------------------------
(* The boundary as this crate uses it.                                     *)

\* require_self_test_started.
Admits(t) == phase = "Operational" \/ (phase = "SelfTest" /\ owner = t)

\* enter_error_state.
LatchError == Boundary!Latch

\* The settle of a failed initialisation: only on this call's own claim.
Settle(t) ==
  IF phase = "SelfTest" /\ owner = t THEN LatchError ELSE UNCHANGED boundaryVars

Goto(t, from, to) == pc[t] = from /\ pc' = [pc EXCEPT ![t] = to]

\* A call of an entry by thread t returns: to the boot sequence that ran it, or
\* to the application.
Done(t, from, ok) ==
  /\ Goto(t, from, IF booting # t THEN "idle" ELSE IF ok THEN "boot" ELSE "bootFailed")
  /\ running' = [running EXCEPT ![t] = "other"]
  /\ outcome' = [outcome EXCEPT ![t] = "NotRun"]

Init ==
  /\ Boundary!Init
  /\ artifact \in Artifacts
  /\ group = <<>> /\ next = <<>> /\ booting = NoThread
  /\ pc = [t \in Threads |-> "idle"]
  /\ running = [t \in Threads |-> "other"]
  /\ outcome = [t \in Threads |-> "NotRun"]
  /\ passed = [c \in Casts |-> FALSE]
  /\ tested = {}
  /\ status = "NotRun" /\ detail = "NotRun" /\ fingerprint = FALSE

-----------------------------------------------------------------------------
(* The boot sequence: initialize(integrity, tests).                        *)

\* Fault: the image test is left out of the boot, to be run on demand.
StartBoot_DefersTest(t) ==
  /\ Goto(t, "idle", "boot")
  /\ Boundary!Start /\ owner' = t
  /\ booting' = t
  /\ \E g \in Groups : group' = g /\ next' = SelectSeq(g, LAMBDA e : e \notin Tests)
  /\ UNCHANGED <<artifact, running, outcome, castVars, recordVars>>

StartBoot(t) ==
  /\ Goto(t, "idle", "boot")
  /\ Boundary!Start /\ owner' = t
  /\ booting' = t
  /\ \E g \in Groups : group' = g /\ next' = g
  /\ UNCHANGED <<artifact, running, outcome, castVars, recordVars>>

RunEntry(t) ==
  /\ next # <<>>
  /\ Goto(t, "boot", IF Head(next) = "other" THEN "boot" ELSE "guard")
  /\ running' = [running EXCEPT ![t] = Head(next)]
  /\ next' = Tail(next)
  /\ UNCHANGED <<boundaryVars, artifact, group, booting, outcome, castVars, recordVars>>

\* An entry returned SelfTestFailure.
FailBoot(t) ==
  /\ Goto(t, "bootFailed", "idle")
  /\ Settle(t)
  /\ booting' = NoThread
  /\ UNCHANGED <<artifact, group, next, running, outcome, castVars, recordVars>>

\* Every entry passed; the opening exchange fails if Error was latched.
FinishBoot(t) ==
  /\ next = <<>>
  /\ Goto(t, "boot", "idle")
  /\ IF phase = "SelfTest" /\ owner = t THEN Boundary!Open ELSE UNCHANGED boundaryVars
  /\ booting' = NoThread
  /\ UNCHANGED <<artifact, group, next, running, outcome, castVars, recordVars>>

\* The application calls a public entry directly, from any thread, at any time.
CallDirectly(t) ==
  /\ booting # t
  /\ Goto(t, "idle", "guard")
  /\ \E e \in Casts \cup Tests : running' = [running EXCEPT ![t] = e]
  /\ UNCHANGED <<boundaryVars, bootVars, outcome, castVars, recordVars>>

\* Another test fails somewhere in the process.
OtherFailure(t) ==
  /\ pc[t] = "idle"
  /\ LatchError
  /\ UNCHANGED <<bootVars, pc, running, outcome, castVars, recordVars>>

-----------------------------------------------------------------------------
(* run_cast.                                                               *)

\* The module refuses the caller: nothing runs, nothing changes.
RefuseCast(t) ==
  /\ running[t] \in Casts
  /\ ~Admits(t)
  /\ Done(t, "guard", FALSE)
  /\ UNCHANGED <<boundaryVars, bootVars, castVars, recordVars>>

AdmitCast(t) ==
  /\ running[t] \in Casts
  /\ Admits(t)
  /\ Goto(t, "guard", "kat")
  /\ UNCHANGED <<boundaryVars, bootVars, running, outcome, castVars, recordVars>>

\* The known-answer test passes.  It runs guarded internals, so it can only
\* pass while the module admits the thread.
KatPasses(t) ==
  /\ Admits(t)
  /\ Goto(t, "kat", "castPassed")
  /\ tested' = tested \cup {running[t]}
  /\ UNCHANGED <<boundaryVars, bootVars, running, outcome, passed, recordVars>>

StorePass(t) ==
  /\ Done(t, "castPassed", TRUE)
  /\ passed' = [passed EXCEPT ![running[t]] = TRUE]
  /\ UNCHANGED <<boundaryVars, bootVars, tested, recordVars>>

\* It fails: the pass is withdrawn first, then Error is latched.
KatFails(t) ==
  /\ Goto(t, "kat", "castFailed")
  /\ passed' = [passed EXCEPT ![running[t]] = FALSE]
  /\ UNCHANGED <<boundaryVars, bootVars, running, outcome, tested, recordVars>>

LatchCastFailure(t) ==
  /\ LatchError
  /\ Done(t, "castFailed", FALSE)
  /\ UNCHANGED <<bootVars, castVars, recordVars>>

-----------------------------------------------------------------------------
(* verify_loaded_image and integrity_self_test (boot_test).                *)

\* admit, first half: a refusal runs nothing and records nothing.
RefuseTest(t) ==
  /\ running[t] \in Tests
  /\ ~Admits(t)
  /\ Done(t, "guard", FALSE)
  /\ UNCHANGED <<boundaryVars, bootVars, castVars, recordVars>>

PassGuard(t) ==
  /\ running[t] \in Tests
  /\ Admits(t)
  /\ Goto(t, "guard", "admit")
  /\ UNCHANGED <<boundaryVars, bootVars, running, outcome, castVars, recordVars>>

\* admit, second half: is_operational is another load of STATE.
RefuseOperational(t) ==
  /\ phase = "Operational"
  /\ Done(t, "admit", FALSE)
  /\ UNCHANGED <<boundaryVars, bootVars, castVars, recordVars>>

\* Fault: the test is run for any thread the guard admits.
AdmitTest_OnDemand(t) ==
  /\ Goto(t, "admit", "casts")
  /\ UNCHANGED <<boundaryVars, bootVars, running, outcome, castVars, recordVars>>

AdmitTest(t) ==
  /\ phase # "Operational"
  /\ Goto(t, "admit", "casts")
  /\ UNCHANGED <<boundaryVars, bootVars, running, outcome, castVars, recordVars>>

CastsPassed == \A c \in Casts : passed[c]

\* run_admitted: with o, the test is over; its fingerprint goes to the cell.
Conclude(t, from, o, known) ==
  /\ Goto(t, from, "conclude")
  /\ outcome' = [outcome EXCEPT ![t] = o]
  /\ fingerprint' = (fingerprint \/ known)

CheckCasts(t) ==
  /\ IF CastsPassed
     THEN Goto(t, "casts", "key") /\ UNCHANGED <<outcome, fingerprint>>
     ELSE Conclude(t, "casts", "CastNotRun", FALSE)
  /\ UNCHANGED <<boundaryVars, bootVars, running, castVars, status, detail>>

\* verify: the key record is read first, then hashed by a guarded internal.
ReadKey(t) ==
  /\ \/ Conclude(t, "key", "Unreadable", FALSE)
     \/ artifact = "noKey" /\ Conclude(t, "key", "NoVerifyKey", FALSE)
     \/ artifact = "damaged" /\ Conclude(t, "key", "SlotDamaged", FALSE)
     \/ artifact # "noKey" /\ ~Admits(t) /\ Conclude(t, "key", "Refused", FALSE)
     \/ /\ artifact # "noKey" /\ Admits(t)
        /\ Goto(t, "key", "image")
        /\ UNCHANGED <<outcome, fingerprint>>
  /\ UNCHANGED <<boundaryVars, bootVars, running, castVars, status, detail>>

\* What the slot and the image say before the signature is checked; the slot
\* is not authenticated yet, so an altered one can report damage too.
ReadImage(t) ==
  /\ \/ Conclude(t, "image", "Unreadable", TRUE)
     \/ artifact = "unsigned" /\ Conclude(t, "image", "SlotInvalid", TRUE)
     \/ artifact = "otherKey" /\ Conclude(t, "image", "KeyMismatch", TRUE)
     \/ artifact \in {"damaged", "altered"} /\ Conclude(t, "image", "SlotDamaged", TRUE)
     \/ artifact = "altered" /\ Conclude(t, "image", "SignatureInvalid", TRUE)
     \/ /\ artifact \in {"signed", "altered"}
        /\ Goto(t, "image", "signature")
        /\ UNCHANGED <<outcome, fingerprint>>
  /\ UNCHANGED <<boundaryVars, bootVars, running, castVars, status, detail>>

\* verify_internal of ML-DSA-87, a guarded internal, over the assembled input.
CheckSignature(t) ==
  /\ Conclude(t, "signature",
       IF ~Admits(t) THEN "Refused"
       ELSE IF artifact = "signed" THEN "Passed" ELSE "SignatureInvalid", TRUE)
  /\ UNCHANGED <<boundaryVars, bootVars, running, castVars, status, detail>>

\* run_admitted: every failure of a test that ran latches Error.
LatchTestFailure(t) ==
  /\ Goto(t, "conclude", "detail")
  /\ IF outcome[t] = "Passed" THEN UNCHANGED boundaryVars ELSE LatchError
  /\ UNCHANGED <<bootVars, running, outcome, castVars, recordVars>>

\* verify_loaded_image on its own records nothing more.
ReturnUnrecorded(t) ==
  /\ running[t] = "verify_loaded_image"
  /\ Done(t, "detail", outcome[t] = "Passed")
  /\ UNCHANGED <<boundaryVars, bootVars, castVars, recordVars>>

\* boot_test: the first failure's text, before the status.
RecordDetail(t) ==
  /\ running[t] = "integrity_self_test"
  /\ Goto(t, "detail", "status")
  /\ detail' = IF outcome[t] \in Failures /\ detail = "NotRun" THEN outcome[t] ELSE detail
  /\ UNCHANGED <<boundaryVars, bootVars, running, outcome, castVars, status, fingerprint>>

\* latch_outcome: NotRun -> outcome, once.
RecordStatus(t) ==
  /\ status' = IF status = "NotRun" THEN outcome[t] ELSE status
  /\ Done(t, "status", outcome[t] = "Passed")
  /\ UNCHANGED <<boundaryVars, bootVars, castVars, detail, fingerprint>>

-----------------------------------------------------------------------------

Step(t) ==
  \/ StartBoot(t) \/ RunEntry(t) \/ FailBoot(t) \/ FinishBoot(t)
  \/ CallDirectly(t) \/ OtherFailure(t)
  \/ RefuseCast(t) \/ AdmitCast(t) \/ KatPasses(t) \/ StorePass(t)
  \/ KatFails(t) \/ LatchCastFailure(t)
  \/ RefuseTest(t) \/ PassGuard(t) \/ RefuseOperational(t) \/ AdmitTest(t)
  \/ CheckCasts(t) \/ ReadKey(t) \/ ReadImage(t) \/ CheckSignature(t)
  \/ LatchTestFailure(t) \/ ReturnUnrecorded(t) \/ RecordDetail(t) \/ RecordStatus(t)

Next == \E t \in Threads : Step(t)

Spec == Init /\ [][Next]_vars
-----------------------------------------------------------------------------
(* What the integrity test promises.                                       *)

Listed(e) == \E i \in DOMAIN group : group[i] = e

\* A module that is Operational, and whose group holds the integrity test in
\* either form, is running the image that was signed for its own key, knows that
\* key's fingerprint, and says Passed if the boot entry was listed: no order of
\* the group, failure or concurrent call opens it otherwise.  And the test uses a
\* primitive only after the known-answer tests of both passed in this process,
\* whatever order a group lists them in (AS10.20).
OpenedVerified ==
  /\ phase = "Operational" /\ (\E e \in Tests : Listed(e)) => artifact = "signed" /\ fingerprint
  /\ phase = "Operational" /\ Listed("integrity_self_test") => status = "Passed"
  /\ \A t \in Threads : pc[t] \in {"key", "image", "signature"} => tested = Casts

\* The status that a reader polls is true.  A failed one finds the module in Error and a
\* detail text beside it: both are written before it.  Passed is only ever said of the signed
\* image, by the boot's own run, after both CASTs; a test that runs for another thread finds
\* Error and cannot pass.
StatusIsTrue ==
  /\ status \in Failures => phase = "Error" /\ detail # "NotRun"
  /\ status = "Passed" => artifact = "signed" /\ tested = Casts /\ fingerprint
  /\ \A t \in Threads :
       pc[t] \in {"casts", "key", "image", "signature", "conclude", "detail", "status"} =>
         \/ booting = t
         \/ phase = "Error" /\ outcome[t] # "Passed"

=============================================================================

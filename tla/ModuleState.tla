----------------------------- MODULE ModuleState -----------------------------
(***************************************************************************)
(* The FIPS module boundary of oxicrypt-module: one atomic STATE word, one *)
(* atomic PROFILE byte, and the threads of the process that initialise the *)
(* module, pass its gates, run its guarded internals and latch its Error   *)
(* state.  Every step of an action is one atomic access of STATE or        *)
(* PROFILE together with the thread-local work around it, so the model     *)
(* interleaves the threads wherever the code can be preempted between two  *)
(* accesses.                                                               *)
(*                                                                         *)
(* A thread is a slot: it is spawned with an operating-system id, exits,   *)
(* and the slot (and the id) may be used again by a later thread, because  *)
(* the code compares ids and an operating system hands them out again.     *)
(***************************************************************************)
EXTENDS Integers

CONSTANTS
  Threads,        \* thread slots of the process
  OsIds,          \* what the platform may answer when asked for a thread id
  Recordable,     \* those the 56-bit owner field can hold (owner_id filter)
  NoOwner,        \* the zero owner field of a word nobody owns
  Profiles,       \* algorithm profiles
  DefaultProfile, \* AlgorithmProfile::Unrestricted
  Services,       \* approved services
  Permitted,      \* is_allowed: the services each profile permits
  MaxEntries,     \* bound: entries of a self-test group
  NoCall          \* no initialisation call / no opening call yet

ASSUME ModuleAssumption ==
  /\ Recordable \subseteq OsIds
  /\ NoOwner \notin OsIds
  /\ DefaultProfile \in Profiles
  /\ Permitted \in [Profiles -> SUBSET Services]
  /\ MaxEntries \in Nat
  /\ NoCall \notin [integrity : 0..MaxEntries, tests : 0..MaxEntries,
                    profile : Profiles, passed : 0..(2 * MaxEntries)]

VARIABLES
  word,    \* STATE: the State and the id of the thread that owns SelfTest
  policy,  \* PROFILE
  pc,      \* where each thread stands
  id,      \* the operating-system id of each live thread
  call,    \* the arguments of the initialisation call a thread is in
  done,    \* how many self-test entries of that call have passed
  seen,    \* the STATE word a losing call last loaded
  nested,  \* what the re-entrant call of the current entry was told
  answer,  \* what the thread's last initialisation call returned
  serving, \* the service a thread is performing
  opened   \* history: the call that made the module Operational

vars == <<word, policy, pc, id, call, done, seen, nested, answer, serving, opened>>
threadVars == <<id, call, done, seen, nested, answer, serving>>

-----------------------------------------------------------------------------
(* State words.                                                            *)

States == {"PowerOff", "SelfTest", "Operational", "Error", "IntegrityUnverified"}

Words == [state : States, owner : OsIds \cup {NoOwner}]

\* A word without an owner.
Plain(s) == [state |-> s, owner |-> NoOwner]

\* self_test_word: SelfTest owned by the thread whose id is i.
SelfTestWord(i) == [state |-> "SelfTest", owner |-> i]

\* decode: an owner in any other state, or SelfTest without one, is Error.
Decode(w) ==
  IF (w.state = "SelfTest") <=> (w.owner # NoOwner) THEN w.state ELSE "Error"

\* owner_id(os_thread_id()) is None for a thread whose id cannot be recorded.
HasOwnerId(t) == id[t] \in Recordable

\* What initialize_as puts in the word to claim the SelfTest phase.
ClaimWord(t) == IF HasOwnerId(t) THEN SelfTestWord(id[t]) ELSE Plain("Error")

\* compare_exchange(expected, new): the word the exchange leaves behind.
Exchange(expected, new) == word' = IF word = expected THEN new ELSE word

\* settle: move this call's SelfTest word, and no other, to a failed state.
Settle(t, s) == Exchange(ClaimWord(t), Plain(s))

-----------------------------------------------------------------------------
(* Answers.                                                                *)

Ok                 == <<"Ok", "none">>
SelfTestFailed     == <<"SelfTestFailed", "none">>
ThreadIdCheck      == <<"SelfTestFailed", "THREAD_ID_CHECK">>
IntegrityNotAttested == <<"IntegrityNotAttested", "none">>
AlreadyInitialized == <<"AlreadyInitialized", "none">>
AlreadyFailed      == <<"AlreadyFailed", "none">>
NotOperational(s)  == <<"NotOperational", s>>
Unwound            == <<"Unwound", "none">>      \* the self-test's panic
Unanswered         == <<"Unanswered", "none">>   \* no answer yet
Spin               == <<"Spin", "none">>         \* keep waiting

Answers ==
  {Ok, SelfTestFailed, ThreadIdCheck, IntegrityNotAttested, AlreadyInitialized,
   AlreadyFailed, Unwound, Unanswered} \cup {NotOperational(s) : s \in States}

\* Fault: a loser does not wait.
Verdict_Impatient(observed, claim) ==
  CASE observed = claim                    -> NotOperational("SelfTest")
    [] Decode(observed) = "Operational"    -> AlreadyInitialized
    [] OTHER                               -> AlreadyFailed

\* Fault: a re-entrant call waits like any other loser.
Verdict_WaitsOnItself(observed, claim) ==
  CASE Decode(observed) = "SelfTest"       -> Spin
    [] Decode(observed) = "Operational"    -> AlreadyInitialized
    [] OTHER                               -> AlreadyFailed

\* already_left_power_off: what a call that lost the claim does with the word
\* it observed.  It waits only on a SelfTest that is not its own.
Verdict(observed, claim) ==
  IF Decode(observed) = "SelfTest"
  THEN IF observed = claim THEN NotOperational("SelfTest") ELSE Spin
  ELSE IF Decode(observed) = "Operational" THEN AlreadyInitialized ELSE AlreadyFailed

-----------------------------------------------------------------------------
(* Threads.                                                                *)

Calls == [integrity : 0..MaxEntries, tests : 0..MaxEntries, profile : Profiles]

Openings == [integrity : 0..MaxEntries, tests : 0..MaxEntries,
             profile : Profiles, passed : 0..(2 * MaxEntries)]

Entries(c) == c.integrity + c.tests

PCs == {"gone", "idle", "claim", "wait", "run", "reentered", "commit",
        "rollback", "report", "drop", "gated", "serving", "internal"}

\* Inside initialize_as after a winning claim, until the UnwindToError guard
\* has been dropped.
Running == {"run", "reentered", "commit", "rollback", "report", "drop"}

Goto(t, from, to) == pc[t] = from /\ pc' = [pc EXCEPT ![t] = to]

\* The locals of an initialisation call go with its frame.
EndCall(t) ==
  /\ call' = [call EXCEPT ![t] = NoCall]
  /\ done' = [done EXCEPT ![t] = 0]
  /\ seen' = [seen EXCEPT ![t] = Plain("PowerOff")]
  /\ nested' = [nested EXCEPT ![t] = Unanswered]

\* A thread leaves initialisation with answer a, through the unwind guard.
Return(t, from, a) ==
  /\ Goto(t, from, "drop")
  /\ answer' = [answer EXCEPT ![t] = a]

Init ==
  /\ word = Plain("PowerOff")
  /\ policy = DefaultProfile
  /\ pc = [t \in Threads |-> "gone"]
  /\ id = [t \in Threads |-> NoOwner]
  /\ call = [t \in Threads |-> NoCall]
  /\ done = [t \in Threads |-> 0]
  /\ seen = [t \in Threads |-> Plain("PowerOff")]
  /\ nested = [t \in Threads |-> Unanswered]
  /\ answer = [t \in Threads |-> Unanswered]
  /\ serving = [t \in Threads |-> NoCall]
  /\ opened = NoCall

\* The process starts a thread; the system gives it an id no live thread has.
Spawn(t) ==
  /\ Goto(t, "gone", "idle")
  /\ \E i \in OsIds \ {id[u] : u \in Threads} : id' = [id EXCEPT ![t] = i]
  /\ UNCHANGED <<word, policy, call, done, seen, nested, answer, serving, opened>>

\* A thread outside the module ends, and its id may be given out again.
Exit(t) ==
  /\ Goto(t, "idle", "gone")
  /\ id' = [id EXCEPT ![t] = NoOwner]
  /\ answer' = [answer EXCEPT ![t] = Unanswered]
  /\ UNCHANGED <<word, policy, call, done, seen, nested, serving, opened>>

-----------------------------------------------------------------------------
(* Initialisation.                                                         *)

\* initialize_with_tests or initialize_with_profile is called.
CallInitialize(t) ==
  /\ Goto(t, "idle", "claim")
  /\ \E c \in Calls : call' = [call EXCEPT ![t] = c]
  /\ answer' = [answer EXCEPT ![t] = Unanswered]
  /\ UNCHANGED <<word, policy, id, done, seen, nested, serving, opened>>

\* The PowerOff -> SelfTest exchange succeeds and the tests begin.
WinClaim(t) ==
  /\ HasOwnerId(t)
  /\ word = Plain("PowerOff")
  /\ Goto(t, "claim", "run")
  /\ Exchange(Plain("PowerOff"), ClaimWord(t))
  /\ UNCHANGED <<policy, threadVars, opened>>

\* It succeeds for a thread with no id to record: the claim is Error itself,
\* and the call returns before the unwind guard exists.
ClaimWithoutId(t) ==
  /\ ~HasOwnerId(t)
  /\ word = Plain("PowerOff")
  /\ Goto(t, "claim", "idle")
  /\ Exchange(Plain("PowerOff"), ClaimWord(t))
  /\ answer' = [answer EXCEPT ![t] = ThreadIdCheck]
  /\ EndCall(t)
  /\ UNCHANGED <<policy, id, serving, opened>>

\* It fails, and reports the word it found.
LoseClaim(t) ==
  /\ word # Plain("PowerOff")
  /\ Goto(t, "claim", "wait")
  /\ seen' = [seen EXCEPT ![t] = word]
  /\ UNCHANGED <<word, policy, id, call, done, nested, answer, serving, opened>>

\* One turn of the spin loop of a loser, or of a re-entrant call.
SpinOnce(t) ==
  /\ pc[t] \in {"wait", "reentered"}
  /\ Verdict(seen[t], ClaimWord(t)) = Spin
  /\ seen' = [seen EXCEPT ![t] = word]
  /\ UNCHANGED <<word, policy, pc, id, call, done, nested, answer, serving, opened>>

AnswerLoser(t) ==
  /\ Verdict(seen[t], ClaimWord(t)) # Spin
  /\ Goto(t, "wait", "idle")
  /\ answer' = [answer EXCEPT ![t] = Verdict(seen[t], ClaimWord(t))]
  /\ EndCall(t)
  /\ UNCHANGED <<word, policy, id, serving, opened>>

\* An empty integrity group: nothing is run.
RefuseEmptyGroup(t) ==
  /\ Return(t, "run", IntegrityNotAttested)
  /\ call[t].integrity = 0
  /\ Settle(t, "IntegrityUnverified")
  /\ UNCHANGED <<policy, id, call, done, seen, nested, serving, opened>>

Testing(t) == pc[t] = "run" /\ call[t].integrity > 0 /\ done[t] < Entries(call[t])

\* One entry of integrity.iter().chain(tests) runs and passes.
PassEntry(t) ==
  /\ Testing(t)
  /\ done' = [done EXCEPT ![t] = @ + 1]
  /\ nested' = [nested EXCEPT ![t] = Unanswered]
  /\ UNCHANGED <<word, policy, pc, id, call, seen, answer, serving, opened>>

FailEntry(t) ==
  /\ Testing(t)
  /\ Return(t, "run", SelfTestFailed)
  /\ Settle(t, "Error")
  /\ UNCHANGED <<policy, id, call, done, seen, nested, serving, opened>>

\* An entry unwinds out of initialize; UnwindToError is dropped next.
UnwindEntry(t) ==
  /\ Testing(t)
  /\ Return(t, "run", Unwound)
  /\ UNCHANGED <<word, policy, id, call, done, seen, nested, serving, opened>>

\* An entry calls initialize on the owning thread; its exchange must fail.
\* Bound: one such call per entry.
Reenter(t) ==
  /\ Testing(t)
  /\ nested[t] = Unanswered
  /\ word # Plain("PowerOff")
  /\ Goto(t, "run", "reentered")
  /\ seen' = [seen EXCEPT ![t] = word]
  /\ UNCHANGED <<word, policy, id, call, done, nested, answer, serving, opened>>

AnswerReentrant(t) ==
  /\ Verdict(seen[t], ClaimWord(t)) # Spin
  /\ Goto(t, "reentered", "run")
  /\ nested' = [nested EXCEPT ![t] = Verdict(seen[t], ClaimWord(t))]
  /\ seen' = [seen EXCEPT ![t] = Plain("PowerOff")]
  /\ UNCHANGED <<word, policy, id, call, done, answer, serving, opened>>

\* Fault: the loop ends with the integrity group.
PublishProfile_SkipsTests(t) ==
  /\ Goto(t, "run", "commit")
  /\ call[t].integrity > 0
  /\ done[t] = call[t].integrity
  /\ policy' = call[t].profile
  /\ UNCHANGED <<word, id, call, done, seen, nested, answer, serving, opened>>

\* The loop is over: PROFILE.store comes before the exchange that opens.
PublishProfile(t) ==
  /\ Goto(t, "run", "commit")
  /\ call[t].integrity > 0
  /\ done[t] = Entries(call[t])
  /\ policy' = call[t].profile
  /\ UNCHANGED <<word, id, call, done, seen, nested, answer, serving, opened>>

\* Fault: Operational is stored, not exchanged for the claim.
Commit_Store(t) ==
  /\ Return(t, "commit", Ok)
  /\ word' = Plain("Operational")
  /\ opened' = [integrity |-> call[t].integrity, tests |-> call[t].tests,
                profile |-> call[t].profile, passed |-> done[t]]
  /\ UNCHANGED <<policy, id, call, done, seen, nested, serving>>

\* The SelfTest -> Operational exchange, on this call's own claim.
Commit(t) ==
  /\ word = ClaimWord(t)
  /\ Return(t, "commit", Ok)
  /\ Exchange(ClaimWord(t), Plain("Operational"))
  /\ opened' = [integrity |-> call[t].integrity, tests |-> call[t].tests,
                profile |-> call[t].profile, passed |-> done[t]]
  /\ UNCHANGED <<policy, id, call, done, seen, nested, serving>>

\* It fails: Error was latched while the tests ran.
CommitRefused(t) ==
  /\ word # ClaimWord(t)
  /\ Goto(t, "commit", "rollback")
  /\ UNCHANGED <<word, policy, threadVars, opened>>

RollBackProfile(t) ==
  /\ Goto(t, "rollback", "report")
  /\ policy' = DefaultProfile
  /\ UNCHANGED <<word, threadVars, opened>>

ReportState(t) ==
  /\ Return(t, "report", NotOperational(Decode(word)))
  /\ UNCHANGED <<word, policy, id, call, done, seen, nested, serving, opened>>

\* Fault: no unwind guard.
DropGuard_Nothing(t) ==
  /\ Goto(t, "drop", "idle")
  /\ EndCall(t)
  /\ UNCHANGED <<word, policy, id, answer, serving, opened>>

\* UnwindToError::drop, on every way out of a winning call.
DropGuard(t) ==
  /\ Goto(t, "drop", "idle")
  /\ Settle(t, "Error")
  /\ EndCall(t)
  /\ UNCHANGED <<policy, id, answer, serving, opened>>

-----------------------------------------------------------------------------
(* The gates, the guard and the latch.                                     *)

\* require_operational admits the call.
PassGate(t) ==
  /\ word = Plain("Operational")
  /\ Goto(t, "idle", "gated")
  /\ UNCHANGED <<word, policy, threadVars, opened>>

\* Fault: the profile alone admits a call, whether or not the module is open.
PassProfile_OneGate(t) ==
  /\ \E s \in Permitted[policy] : serving' = [serving EXCEPT ![t] = s]
  /\ pc[t] \in {"idle", "gated"} /\ pc' = [pc EXCEPT ![t] = "serving"]
  /\ UNCHANGED <<word, policy, id, call, done, seen, nested, answer, opened>>

\* require_allowed(s), the second gate: a separate load.
PassProfile(t) ==
  /\ \E s \in Permitted[policy] : serving' = [serving EXCEPT ![t] = s]
  /\ Goto(t, "gated", "serving")
  /\ UNCHANGED <<word, policy, id, call, done, seen, nested, answer, opened>>

RefuseProfile(t) ==
  /\ \E s \in Services : s \notin Permitted[policy]
  /\ Goto(t, "gated", "idle")
  /\ UNCHANGED <<word, policy, threadVars, opened>>

\* The service delivers its output; nothing re-reads STATE or PROFILE.
Deliver(t) ==
  /\ Goto(t, "serving", "idle")
  /\ serving' = [serving EXCEPT ![t] = NoCall]
  /\ UNCHANGED <<word, policy, id, call, done, seen, nested, answer, opened>>

\* The guard of every *_internal function: Operational, or this thread's own
\* SelfTest word.
GuardAdmits(t) ==
  \/ word = Plain("Operational")
  \/ Decode(word) = "SelfTest" /\ HasOwnerId(t) /\ word = SelfTestWord(id[t])

EnterInternal(t) ==
  /\ GuardAdmits(t)
  /\ Goto(t, "idle", "internal")
  /\ UNCHANGED <<word, policy, threadVars, opened>>

LeaveInternal(t) ==
  /\ Goto(t, "internal", "idle")
  /\ UNCHANGED <<word, policy, threadVars, opened>>

\* enter_error_state: public, unguarded, an unconditional store.  A thread
\* calls it from outside the module, from an internal, or from a self-test.
EnterErrorState(t) ==
  /\ pc[t] \in {"idle", "internal"} \/ Testing(t)
  /\ word' = Plain("Error")
  /\ UNCHANGED <<policy, pc, threadVars, opened>>

-----------------------------------------------------------------------------

\* The steps a call that has started takes by itself.
Progress(t) ==
  \/ WinClaim(t) \/ ClaimWithoutId(t) \/ LoseClaim(t)
  \/ SpinOnce(t) \/ AnswerLoser(t)
  \/ RefuseEmptyGroup(t) \/ PassEntry(t) \/ FailEntry(t) \/ UnwindEntry(t)
  \/ AnswerReentrant(t) \/ PublishProfile(t)
  \/ Commit(t) \/ CommitRefused(t) \/ RollBackProfile(t) \/ ReportState(t)
  \/ DropGuard(t)

\* What the application chooses to do.
Application(t) ==
  \/ Spawn(t) \/ Exit(t) \/ CallInitialize(t) \/ Reenter(t)
  \/ PassGate(t) \/ PassProfile(t) \/ RefuseProfile(t) \/ Deliver(t)
  \/ EnterInternal(t) \/ LeaveInternal(t) \/ EnterErrorState(t)

Next == \E t \in Threads : Progress(t) \/ Application(t)

Spec == Init /\ [][Next]_vars
-----------------------------------------------------------------------------
(* What the module boundary promises.                                      *)

\* Every variable holds a value of its type; in particular STATE is always a
\* word this module writes, and a call never passes more entries than it has.
TypeOK ==
  /\ word \in Words
  /\ policy \in Profiles
  /\ pc \in [Threads -> PCs]
  /\ id \in [Threads -> OsIds \cup {NoOwner}]
  /\ call \in [Threads -> Calls \cup {NoCall}]
  /\ done \in [Threads -> 0..(2 * MaxEntries)]
  /\ seen \in [Threads -> Words]
  /\ nested \in [Threads -> Answers]
  /\ answer \in [Threads -> Answers]
  /\ serving \in [Threads -> Services \cup {NoCall}]
  /\ opened \in Openings \cup {NoCall}

\* A SelfTest word always names a live thread that is inside its winning call:
\* it never outlives that call, so no later thread that is handed the same
\* operating-system id can be taken for the owner (UnwindToError).  And at most
\* one thread is ever between a winning claim and the end of that call.
SelfTestHasRunner ==
  /\ Decode(word) = "SelfTest" =>
       \E t \in Threads : pc[t] \in Running /\ word = SelfTestWord(id[t])
  /\ \A t, u \in Threads :
       pc[t] \in Running /\ pc[u] \in Running => t = u

\* The module is, or ever was, Operational only through a call whose integrity
\* group was not empty and all of whose entries passed, in that call.
OpenedByTests ==
  /\ Decode(word) = "Operational" => opened # NoCall
  /\ opened # NoCall =>
       opened.integrity > 0 /\ opened.passed = opened.integrity + opened.tests

\* A thread past both gates performs a service the opening call's profile
\* permits, whichever other calls are racing or rolling back their own.
ServedWithinProfile ==
  \A t \in Threads :
    /\ pc[t] \in {"gated", "serving"} => opened # NoCall /\ policy = opened.profile
    /\ pc[t] = "serving" => serving[t] \in Permitted[opened.profile]

\* A module that never opened has the default profile again as soon as the call
\* that failed has returned.
FailureKeepsDefault ==
  opened = NoCall /\ (\A t \in Threads : pc[t] \notin Running) => policy = DefaultProfile

\* What a returned call told its caller is still true: success means the module
\* opened, a failure of the winning call means it never will, a loser is told of
\* a failure only when no service is offered, and nobody but a re-entrant call
\* is told of the transient SelfTest.
Failed(t) == answer[t] \in {SelfTestFailed, ThreadIdCheck, IntegrityNotAttested, Unwound}
AnswersHold ==
  \A t \in Threads :
    /\ pc[t] \notin Running /\ answer[t] \in {Ok, AlreadyInitialized} => opened # NoCall
    /\ pc[t] \notin Running /\ Failed(t) =>
         opened = NoCall /\ Decode(word) \in {"Error", "IntegrityUnverified"}
    /\ answer[t] = AlreadyFailed => Decode(word) \in {"Error", "IntegrityUnverified"}
    /\ \A s \in States : answer[t] = NotOperational(s) => s = "Error" /\ Decode(word) = "Error"
    /\ nested[t] \in {Unanswered, NotOperational("SelfTest"), AlreadyFailed}

\* The state only moves along the documented machine: Error is never left, and
\* nothing but a latch leaves IntegrityUnverified.
Moves ==
  {<<"PowerOff", "SelfTest">>, <<"SelfTest", "Operational">>,
   <<"SelfTest", "IntegrityUnverified">>} \cup {<<s, "Error">> : s \in States}
StateMovesForward ==
  [][Decode(word') # Decode(word) => <<Decode(word), Decode(word')>> \in Moves]_word

\* The guard of the internals admits a thread that is not running the
\* self-tests only in Operational, whatever ids the system hands out.
GuardOnlyForRunner ==
  [][\A t \in Threads :
       pc[t] = "idle" /\ pc'[t] = "internal" => Decode(word) = "Operational"]_vars

\* The unwind guard acts only on an unwinding self-test: every return path has
\* settled the claim before it drops.
GuardActsOnUnwind ==
  [][\A t \in Threads : pc[t] = "drop" /\ pc'[t] = "idle" /\ word' # word
       => answer[t] = Unwound]_vars

\* Seen without its threads, the module is the one-shot lifecycle: the profile in
\* force changes with the opening and with the latch only, although PROFILE
\* itself is stored one access before the exchange that opens.
Lifecycle == INSTANCE ModuleLifecycle WITH
  phase <- Decode(word),
  owner <- word.owner,
  inForce <- IF Decode(word) = "Operational" THEN policy ELSE DefaultProfile
LifecycleSpec == Lifecycle!Spec

\* Every initialisation call returns: a loser does not wait for ever, and a
\* re-entrant call does not wait on itself.
EveryCallReturns ==
  \A t \in Threads : pc[t] \in Running \cup {"claim", "wait"} ~> pc[t] = "idle"

=============================================================================

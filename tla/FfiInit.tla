------------------------------- MODULE FfiInit -------------------------------
(***************************************************************************)
(* Initialisation as an application meets it.  A program that links the    *)
(* Rust crates does everything ModuleState lets it do.  A program that     *)
(* loads the C library reaches the module through oxi_init alone: its      *)
(* self-tests are fixed, they cannot unwind (the library aborts on panic)  *)
(* and call nothing back, and only a failing one latches Error.  On top of *)
(* oxi_init sits Module::init of the Rust bindings, which looks at the     *)
(* module again before it hands out a Module.                              *)
(***************************************************************************)
EXTENDS ModuleState

CONSTANTS
  Bindings    \* how a call comes in: "c" (oxi_init) or "rust" (Module::init)

ASSUME FfiAssumption ==
  /\ Bindings \subseteq {"c", "rust"}
  /\ MaxEntries \in Nat \ {0}

VARIABLES
  linked,   \* how the program reaches the module
  frame,    \* the oxi_init or Module::init call each thread is in
  codes,    \* history: what oxi_init returned
  modules   \* history: the profiles of the Module values handed out

ffiVars == <<linked, frame, codes, modules>>
allVars == <<vars, ffiVars>>

Idle == [at |-> "none", want |-> NoCall, via |-> "c"]

At(t, place) == frame' = [frame EXCEPT ![t].at = place]
Leave(t) == frame' = [frame EXCEPT ![t] = Idle]

FfiInitial ==
  /\ Init
  /\ linked \in {"native", "cdylib"}
  /\ frame = [t \in Threads |-> Idle]
  /\ codes = {}
  /\ modules = {}

-----------------------------------------------------------------------------
(* oxi_init.                                                               *)

\* power_up_set: the integrity test, then the self-tests of every algorithm.
PowerUpSet == [integrity |-> 1, tests |-> MaxEntries]

\* status_module of the error initialize_with_profile returned.
Code(a) ==
  CASE a \in {Ok, AlreadyInitialized}       -> "Ok"
    [] a = AlreadyFailed                    -> "NotOperational"
    [] a = IntegrityNotAttested             -> "IntegrityUnverified"
    [] a \in {SelfTestFailed, ThreadIdCheck} -> "SelfTestFailed"
    [] OTHER                                -> "NotOperational"

\* The code reaches a C caller as it is; Module::init goes on after Ok.
ReturnCode(t, code) ==
  /\ codes' = codes \cup {code}
  /\ IF code = "Ok" /\ frame[t].via = "rust" THEN At(t, "ready") ELSE Leave(t)

\* oxi_init is entered with a selector it knows; any other is refused before the
\* module is looked at, and changes nothing.
OxiInit(t) ==
  /\ linked = "cdylib" /\ pc[t] = "idle" /\ frame[t].at = "none"
  /\ \E p \in Profiles, b \in Bindings :
       frame' = [frame EXCEPT ![t] = [at |-> "fast", want |-> p, via |-> b]]
  /\ UNCHANGED <<vars, linked, codes, modules>>

\* One load of STATE: an operational module is not initialised again.
FastPath(t) ==
  /\ frame[t].at = "fast"
  /\ IF word = Plain("Operational")
     THEN ReturnCode(t, "Ok")
     ELSE At(t, "collect") /\ UNCHANGED codes
  /\ UNCHANGED <<vars, linked, modules>>

\* initialize_with_profile(integrity, &tests, p).
Initialize(t) ==
  /\ frame[t].at = "collect"
  /\ CallInitialize(t)
  /\ call'[t] = [integrity |-> PowerUpSet.integrity, tests |-> PowerUpSet.tests,
                 profile |-> frame[t].want]
  /\ At(t, "module")
  /\ UNCHANGED <<linked, codes, modules>>

\* The module answers, and the answer becomes a code.
AfterInitialize(t) ==
  /\ frame[t].at = "module" /\ pc[t] = "idle"
  /\ ReturnCode(t, Code(answer[t]))
  /\ UNCHANGED <<vars, linked, modules>>

-----------------------------------------------------------------------------
(* Module::init, after oxi_init returned 0.                                *)

\* oxi_is_operational: another load, refused if the module has failed since.
CheckReady(t) ==
  /\ frame[t].at = "ready"
  /\ IF word = Plain("Operational") THEN At(t, "indicator") ELSE Leave(t)
  /\ UNCHANGED <<vars, linked, codes, modules>>

\* oxi_integrity_status: Passed is recorded by the boot that opened the module
\* (IntegrityBoot, OpenedVerified) and never changes.  The library's ABI and
\* its signer's fingerprint are checked by now as well: they are constants of
\* the loaded file.
CheckIndicator(t) ==
  /\ frame[t].at = "indicator"
  /\ IF opened # NoCall THEN At(t, "profile") ELSE Leave(t)
  /\ UNCHANGED <<vars, linked, codes, modules>>

\* Fault: the profile in force is not compared with the one asked for.
CheckProfile_Trusting(t) ==
  /\ frame[t].at = "profile"
  /\ modules' = modules \cup {frame[t].want}
  /\ Leave(t)
  /\ UNCHANGED <<vars, linked, codes>>

\* oxi_active_profile is PROFILE as it reads now.
CheckProfile(t) ==
  /\ frame[t].at = "profile"
  /\ modules' = IF policy = frame[t].want THEN modules \cup {policy} ELSE modules
  /\ Leave(t)
  /\ UNCHANGED <<vars, linked, codes>>

-----------------------------------------------------------------------------

FfiStep(t) ==
  \/ FastPath(t) \/ Initialize(t) \/ AfterInitialize(t)
  \/ CheckReady(t) \/ CheckIndicator(t) \/ CheckProfile(t)

\* The module's own steps; behind the C interface no self-test unwinds, and none
\* passes after it latched Error.
ModuleStep(t) ==
  /\ Progress(t)
  /\ linked = "cdylib" =>
       /\ answer'[t] # Unwound
       /\ word = Plain("Error") => done'[t] <= done[t]
  /\ UNCHANGED ffiVars

\* A self-test of the library that fails may latch Error itself (run_cast,
\* run_admitted) before the boot sequence reports the failure.
LatchingTest(t) ==
  /\ linked = "cdylib"
  /\ Testing(t)
  /\ EnterErrorState(t)
  /\ UNCHANGED ffiVars

\* A thread inside an oxi_init call makes no other call.
ThreadStep(t) ==
  /\ linked = "cdylib" /\ frame[t].at = "none"
  /\ \/ Spawn(t) \/ Exit(t) \/ PassGate(t) \/ PassProfile(t) \/ RefuseProfile(t) \/ Deliver(t)
  /\ UNCHANGED ffiVars

\* A native program is free to make every call.
NativeStep(t) ==
  /\ linked = "native"
  /\ Application(t)
  /\ UNCHANGED ffiVars

FfiNext == \E t \in Threads :
  \/ OxiInit(t) \/ FfiStep(t)
  \/ ModuleStep(t) \/ LatchingTest(t) \/ ThreadStep(t) \/ NativeStep(t)

\* As ModuleState's fairness; the steps of oxi_init and Module::init around the
\* call are straight-line code of the same running thread.
FfiFairness ==
  \A t \in Threads : WF_allVars(ModuleStep(t)) /\ WF_allVars(FfiStep(t))

FfiSpec == FfiInitial /\ [][FfiNext]_allVars /\ FfiFairness
-----------------------------------------------------------------------------
(* What initialisation promises its callers.                               *)

\* The first call's outcome is authoritative: whichever threads race, and
\* whether a caller won, waited, or came by the fast path, all of them are told
\* that the module is ready or all of them are told that it is not.
OutcomeIsShared == "Ok" \in codes => codes = {"Ok"}

\* A Module is handed out only by an opened module and only for the profile the
\* opening call selected, although readiness, the indicator and the profile are
\* three separate reads and another call may have asked for another profile.
ModuleHasProfile ==
  \A p \in modules : opened # NoCall /\ opened.profile = p

\* What the callers are told and handed agrees, with each other and with the module (oxi_init
\* of the C library, Module::init_with of the bindings).
CallersAgree == OutcomeIsShared /\ ModuleHasProfile

\* Every call of initialize, oxi_init and Module::init returns: nobody waits for
\* ever on another thread's self-tests or on its own, and nothing around the call
\* goes round in circles.
InitReturns ==
  /\ EveryCallReturns
  /\ \A t \in Threads : frame[t].at # "none" ~> frame[t].at = "none"
=============================================================================

------------------------------ MODULE SweepPool ------------------------------
(***************************************************************************)
(* The pools a parallel sweep of SLH-DSA runs in (sweep.rs), while threads *)
(* of rayon's global pool wait in initialize for the self-tests that need  *)
(* the sweep.                                                              *)
(***************************************************************************)
EXTENDS Naturals

CONSTANTS
  GlobalWorkers, \* the threads of rayon's global pool
  OtherThreads,  \* the application's other threads
  ITEMS          \* parts of one sweep

VARIABLES
  module,  \* the state of the module
  at,      \* where each thread is
  sweep,   \* the sweep each thread waits for: its pool and the parts left
  SELF_TEST_POOL

ASSUME SweepAssumption == ITEMS \in Nat \ {0}

sweepVars == <<module, at, sweep, SELF_TEST_POOL>>

Threads == GlobalWorkers \cup OtherThreads

NoSweep == [pool |-> "none", left |-> 0]

SweepInit ==
  /\ module = "Uninitialized" /\ SELF_TEST_POOL = "unbuilt"
  /\ at = [t \in Threads |-> "out"] /\ sweep = [t \in Threads |-> NoSweep]

\* initialize: the first caller runs the self-tests, one that comes while they run waits.
Initialize(t) ==
  /\ at[t] = "out"
  /\ \/ /\ module = "Uninitialized" /\ module' = "SelfTest"
        /\ at' = [at EXCEPT ![t] = "testing"]
     \/ /\ module = "SelfTest" /\ at' = [at EXCEPT ![t] = "awaiting"]
        /\ UNCHANGED module
  /\ UNCHANGED <<sweep, SELF_TEST_POOL>>

StopAwaiting(t) ==
  /\ at[t] = "awaiting" /\ module # "SelfTest"
  /\ at' = [at EXCEPT ![t] = "out"]
  /\ UNCHANGED <<module, sweep, SELF_TEST_POOL>>

\* A signing or key generation call that the gate of the module let in.
EnterService(t) ==
  /\ at[t] = "out" /\ module = "Operational"
  /\ at' = [at EXCEPT ![t] = "serving"]
  /\ UNCHANGED <<module, sweep, SELF_TEST_POOL>>

Into(t, pool) ==
  /\ sweep' = [sweep EXCEPT ![t] = [pool |-> pool, left |-> ITEMS]]
  /\ UNCHANGED <<module, at>>

Before(t) == at[t] \in {"testing", "serving"} /\ sweep[t] = NoSweep

\* Fault: every sweep goes to the global pool.
RunSweep_Global(t) ==
  /\ Before(t)
  /\ Into(t, "global") /\ UNCHANGED SELF_TEST_POOL

\* run: the global pool once the module is operational, the self-test pool otherwise,
\* built at its first use.  That it could not be built is remembered: the sweep fails,
\* and with it the self-test that asked for it.
RunSweep(t) ==
  /\ Before(t)
  /\ IF module = "Operational"
     THEN Into(t, "global") /\ UNCHANGED SELF_TEST_POOL
     ELSE \/ SELF_TEST_POOL # "failed" /\ SELF_TEST_POOL' = "built" /\ Into(t, "own")
          \/ /\ SELF_TEST_POOL # "built" /\ SELF_TEST_POOL' = "failed"
             /\ module' = IF at[t] = "testing" THEN "Error" ELSE module
             /\ at' = [at EXCEPT ![t] = "out"] /\ UNCHANGED sweep

\* A worker takes parts of any sweep in its pool when it has nothing to do or waits for a
\* sweep itself; one that is blocked in initialize takes none.
RunItem(t) ==
  /\ sweep[t].left > 0
  /\ sweep[t].pool = "own" \/ \E w \in GlobalWorkers : at[w] = "out" \/ sweep[w] # NoSweep
  /\ sweep' = [sweep EXCEPT ![t].left = @ - 1]
  /\ UNCHANGED <<module, at, SELF_TEST_POOL>>

EndSweep(t) ==
  /\ sweep[t] # NoSweep /\ sweep[t].left = 0
  /\ sweep' = [sweep EXCEPT ![t] = NoSweep]
  /\ at' = [at EXCEPT ![t] = "out"]
  /\ module' = IF at[t] = "testing" THEN "Operational" ELSE module
  /\ UNCHANGED SELF_TEST_POOL

\* Another self-test fails, or a service latches the error state.
LatchError ==
  /\ module = "Operational" /\ module' = "Error"
  /\ UNCHANGED <<at, sweep, SELF_TEST_POOL>>

SweepNext ==
  \/ LatchError
  \/ \E t \in Threads :
       \/ Initialize(t) \/ StopAwaiting(t) \/ EnterService(t)
       \/ RunSweep(t) \/ RunItem(t) \/ EndSweep(t)

\* Threads run, and a pool with a free worker works.
SweepFairness ==
  \A t \in Threads :
    WF_sweepVars(StopAwaiting(t)) /\ WF_sweepVars(RunSweep(t))
    /\ WF_sweepVars(RunItem(t)) /\ WF_sweepVars(EndSweep(t))

SweepSpec == SweepInit /\ [][SweepNext]_sweepVars /\ SweepFairness

-----------------------------------------------------------------------------

\* initialize returns to the thread that runs the self-tests and to those that wait for it,
\* although every worker of the global pool may be among them while a self-test sweeps.
InitializeReturns ==
  \A t \in Threads : at[t] \in {"testing", "awaiting"} ~> at[t] = "out"
=============================================================================

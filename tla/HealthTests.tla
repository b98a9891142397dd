----------------------------- MODULE HealthTests -----------------------------
(***************************************************************************)
(* The continuous health tests of oxicrypt-entropy: the repetition count   *)
(* test (RCT) and the adaptive proportion test (APT) as the incremental    *)
(* state machines the code runs, one sample at a time, and as the property *)
(* of a whole sample sequence each of them stands for.                     *)
(***************************************************************************)
EXTENDS Integers, Sequences, FiniteSets

CONSTANTS
  Samples,   \* the values a source may emit
  NoSample,  \* Option::None where a sample is expected
  RctCutoff, \* C of the RCT
  AptCutoff, \* C of the APT
  AptWindow  \* W of the APT

ASSUME HealthAssumption ==
  /\ NoSample \notin Samples
  /\ RctCutoff \in Nat \ {0, 1}
  /\ AptWindow \in Nat \ {0, 1} /\ AptCutoff \in 2..AptWindow

-----------------------------------------------------------------------------
(* The tests as they run.                                                  *)

FreshMonitor ==
  [last |-> NoSample, run |-> 0,
   reference |-> NoSample, count |-> 0, pos |-> 0, poisoned |-> FALSE]

\* The repetition count once sample s is in.
RunWith(m, s) == IF m.last = s THEN m.run + 1 ELSE 1

\* The occurrences of the reference in its window once sample s is in: the first
\* sample of a window is its reference.
CountWith(m, s) ==
  IF m.reference = NoSample THEN 1
  ELSE IF m.reference = s THEN m.count + 1 ELSE m.count

\* What feeding s reports: both tests see the sample, the RCT is asked first.
Verdict(m, s) ==
  IF m.poisoned THEN "Poisoned"
  ELSE IF RunWith(m, s) >= RctCutoff THEN "Rct"
  ELSE IF CountWith(m, s) >= AptCutoff THEN "Apt" ELSE "ok"

\* The monitor after sample s. A window that ends without a failure is forgotten.
Fed(m, s) ==
  IF m.poisoned THEN m
  ELSE
    LET over == CountWith(m, s) < AptCutoff /\ m.pos + 1 >= AptWindow
    IN [last |-> s, run |-> RunWith(m, s),
        reference |-> IF over THEN NoSample
                      ELSE IF m.reference = NoSample THEN s ELSE m.reference,
        count |-> IF over THEN 0 ELSE CountWith(m, s),
        pos |-> IF over THEN 0 ELSE m.pos + 1,
        poisoned |-> Verdict(m, s) # "ok"]

-----------------------------------------------------------------------------
(* The tests as properties of the sequence h of samples fed so far.        *)

\* The last RctCutoff samples up to the i-th are one value.
Repeats(h, i) ==
  i >= RctCutoff /\ \A j \in i - RctCutoff + 1 .. i : h[j] = h[i]

\* Windows follow one another from the first sample on.
WindowStart(i) == ((i - 1) \div AptWindow) * AptWindow + 1

\* The value that opens the window of the i-th sample has come up AptCutoff times.
Dominates(h, i) ==
  Cardinality({j \in WindowStart(i) .. i : h[j] = h[WindowStart(i)]}) >= AptCutoff

Tripped(h) == \E i \in DOMAIN h : Repeats(h, i) \/ Dominates(h, i)
=============================================================================

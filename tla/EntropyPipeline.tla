--------------------------- MODULE EntropyPipeline ---------------------------
(***************************************************************************)
(* EntropyPipeline of oxicrypt-entropy: a noise source, the continuous     *)
(* health tests over every sample, startup and on-demand batteries, and    *)
(* the SHA-256 conditioner, in a module that starts and may fail at any    *)
(* time.                                                                   *)
(*                                                                         *)
(* A sample is named by its place in the sequence the source emits, so the *)
(* model can say which samples a test has heard and which ones a call      *)
(* gives out.                                                              *)
(***************************************************************************)
EXTENDS HealthTests

CONSTANTS
  StartupMin,      \* STARTUP_MIN_SAMPLES
  SamplesPerBlock, \* Conditioner::samples_per_block
  MaxDrawn         \* bound: samples the source ever emits

ASSUME PipelineAssumption ==
  StartupMin \in Nat \ {0} /\ SamplesPerBlock \in Nat \ {0} /\ MaxDrawn \in Nat

VARIABLES
  phase,    \* STATE as the module reports it
  onBoot,   \* the pipeline runs on the thread that runs the self-tests
  state,    \* the pipeline's own lifecycle
  monitor,  \* the continuous monitor
  at,       \* the loop of the call in progress, or "idle"
  fresh,    \* the monitor of the battery in progress
  absorbed, \* the samples the hash of the block in progress has absorbed
  result,   \* what the last call returned
  out,      \* the samples the last call gave out, as themselves or conditioned
  drawn,    \* history: the values the source has emitted
  since,    \* history: how many it had emitted when the last call began
  heard,    \* history: the samples the continuous monitor was fed
  tested,   \* history: the samples the last battery's monitor was fed
  katBroken \* history: the conditioning known-answer test has failed

localVars == <<at, fresh, absorbed>>
returned == <<result, out>>
vars == <<phase, onBoot, state, monitor, localVars, returned, drawn, since, heard, tested,
          katBroken>>

Boundary == INSTANCE ModuleLifecycle WITH
  OsIds <- {"boot"}, NoOwner <- "nobody",
  owner <- IF phase = "SelfTest" THEN "boot" ELSE "nobody",
  Profiles <- {"any"}, DefaultProfile <- "any", inForce <- "any"

\* require_self_test_started, the guard of the conditioning hash.
Admits == phase = "Operational" \/ (phase = "SelfTest" /\ onBoot)

Init ==
  /\ Boundary!Init
  /\ onBoot \in BOOLEAN
  /\ state = "AwaitingStartup"
  /\ monitor = FreshMonitor
  /\ at = "idle" /\ fresh = FreshMonitor /\ absorbed = <<>>
  /\ result = "none" /\ out = <<>>
  /\ drawn = <<>> /\ since = 0 /\ heard = <<>> /\ tested = <<>>
  /\ katBroken = FALSE

-----------------------------------------------------------------------------
(* Calls.                                                                  *)

\* Fault: a block only asks whether startup is over.
ReadyFor_NotStarted(c) ==
  \/ c = "run_startup" /\ state = "AwaitingStartup"
  \/ c = "conditioned_block" /\ state # "AwaitingStartup"
  \/ c \notin {"run_startup", "conditioned_block"} /\ state = "Operational"

\* The state each call matches on first.
ReadyFor(c) ==
  IF c = "run_startup" THEN state = "AwaitingStartup" ELSE state = "Operational"

Calls == {"run_startup", "on_demand_test", "sample", "conditioned_block"}

\* Fault: an aborted block leaves its hash behind for the next one.
Return_KeepsHash(r, o) ==
  /\ at' = "idle" /\ fresh' = FreshMonitor
  /\ absorbed' = IF r = "ok" THEN <<>> ELSE absorbed
  /\ result' = r /\ out' = o
  /\ UNCHANGED <<phase, onBoot>>

\* A call returns; the monitor of a battery and the hash of a block go with it.
Return(r, o) ==
  /\ at' = "idle" /\ fresh' = FreshMonitor /\ absorbed' = <<>>
  /\ result' = r /\ out' = o
  /\ UNCHANGED <<phase, onBoot>>

\* A call goes into the loop w.
Enter(w) ==
  /\ at' = w /\ since' = Len(drawn)
  /\ result' = "none" /\ out' = <<>>
  /\ UNCHANGED <<phase, onBoot, state, monitor, absorbed, drawn, heard, katBroken>>

NotReady(c) ==
  /\ at = "idle" /\ ~ReadyFor(c)
  /\ Return("NotReady", <<>>)
  /\ UNCHANGED <<state, monitor, drawn, since, heard, tested, katBroken>>

\* The module refuses the hash of the known-answer test or of the block.
ModuleRefuses(c) ==
  /\ at = "idle" /\ c \in {"run_startup", "conditioned_block"} /\ ReadyFor(c)
  /\ ~Admits
  /\ Return("Module", <<>>)
  /\ UNCHANGED <<state, monitor, drawn, since, heard, tested, katBroken>>

\* The known-answer test of the conditioner gives another digest.
KatFails ==
  /\ at = "idle" /\ ReadyFor("run_startup") /\ Admits
  /\ state' = "Poisoned" /\ katBroken' = TRUE
  /\ Return("ConditionerKat", <<>>)
  /\ UNCHANGED <<monitor, drawn, since, heard, tested>>

-----------------------------------------------------------------------------
(* A battery.                                                              *)

StartBattery(c) ==
  /\ at = "idle" /\ ReadyFor(c)
  /\ \/ c = "run_startup" /\ Admits
     \/ c = "on_demand_test"
  /\ Enter("battery")
  /\ fresh' = FreshMonitor /\ tested' = <<>>

\* The source emits s.
Emit(s) ==
  /\ Len(drawn) < MaxDrawn
  /\ drawn' = Append(drawn, s)

ThisSample == Len(drawn) + 1

Testing == at = "battery" /\ Len(tested) < StartupMin

TestSample(s) ==
  /\ Testing
  /\ Emit(s) /\ tested' = Append(tested, ThisSample)
  /\ fresh' = Fed(fresh, s)
  /\ Verdict(fresh, s) = "ok"
  /\ UNCHANGED <<phase, onBoot, state, monitor, at, absorbed, returned, since, heard,
                 katBroken>>

BatteryTrips(s) ==
  /\ Testing
  /\ Emit(s) /\ tested' = Append(tested, ThisSample)
  /\ Verdict(fresh, s) # "ok"
  /\ state' = "Poisoned"
  /\ Return(Verdict(fresh, s), <<>>)
  /\ UNCHANGED <<monitor, since, heard, katBroken>>

\* Fault: the window of the APT carries over into the fresh monitor.
BatteryPasses_CarriesWindow ==
  /\ at = "battery" /\ Len(tested) = StartupMin
  /\ monitor' = [fresh EXCEPT !.reference = monitor.reference, !.count = monitor.count,
                              !.pos = monitor.pos]
  /\ heard' = tested
  /\ state' = "Operational"
  /\ Return("ok", <<>>)
  /\ UNCHANGED <<drawn, since, tested, katBroken>>

\* The fresh monitor becomes the continuous one; none of its samples is kept.
BatteryPasses ==
  /\ at = "battery" /\ Len(tested) = StartupMin
  /\ monitor' = fresh /\ heard' = tested
  /\ state' = "Operational"
  /\ Return("ok", <<>>)
  /\ UNCHANGED <<drawn, since, tested, katBroken>>

-----------------------------------------------------------------------------
(* Samples and blocks.                                                     *)

\* sample() draws, for its caller or for a block.
Sampling ==
  \/ at = "idle" /\ ReadyFor("sample")
  \/ at = "block" /\ Len(absorbed) < SamplesPerBlock

\* The continuous monitor hears s.
Hear(s) ==
  /\ Emit(s) /\ heard' = Append(heard, ThisSample)
  /\ monitor' = Fed(monitor, s)

Sample(s) ==
  /\ at = "idle" /\ ReadyFor("sample")
  /\ Hear(s) /\ Verdict(monitor, s) = "ok"
  /\ since' = Len(drawn)
  /\ Return("ok", <<ThisSample>>)
  /\ UNCHANGED <<state, tested, katBroken>>

\* The failing sample is withheld, and with it the block it was drawn for.
SampleTrips(s) ==
  /\ Sampling
  /\ Hear(s) /\ Verdict(monitor, s) # "ok"
  /\ state' = "Poisoned"
  /\ since' = IF at = "idle" THEN Len(drawn) ELSE since
  /\ Return(Verdict(monitor, s), <<>>)
  /\ UNCHANGED <<tested, katBroken>>

BeginBlock ==
  /\ at = "idle" /\ ReadyFor("conditioned_block") /\ Admits
  /\ Enter("block")
  /\ UNCHANGED <<fresh, tested>>

Absorb(s) ==
  /\ at = "block" /\ Len(absorbed) < SamplesPerBlock
  /\ Hear(s) /\ Verdict(monitor, s) = "ok"
  /\ absorbed' = Append(absorbed, ThisSample)
  /\ UNCHANGED <<phase, onBoot, state, at, fresh, returned, since, tested, katBroken>>

FinishBlock ==
  /\ at = "block" /\ Len(absorbed) = SamplesPerBlock
  /\ IF Admits THEN Return("ok", absorbed) ELSE Return("Module", <<>>)
  /\ UNCHANGED <<state, monitor, drawn, since, heard, tested, katBroken>>

\* The source fails wherever a sample is drawn: the call ends, nothing is poisoned,
\* and the continuous monitor stays.
SourceFails ==
  /\ Sampling \/ Testing
  /\ Return("Source", <<>>)
  /\ UNCHANGED <<state, monitor, drawn, since, heard, tested, katBroken>>

-----------------------------------------------------------------------------

\* The module boots, and may be shut for good, between any two steps.
Lifecycle ==
  /\ Boundary!Next
  /\ UNCHANGED <<onBoot, state, monitor, localVars, returned, drawn, since, heard, tested,
                 katBroken>>

PipelineStep ==
  \/ \E c \in Calls : NotReady(c) \/ ModuleRefuses(c) \/ StartBattery(c)
  \/ KatFails \/ BatteryPasses \/ BeginBlock \/ FinishBlock \/ SourceFails
  \/ \E s \in Samples :
       TestSample(s) \/ BatteryTrips(s) \/ Sample(s) \/ SampleTrips(s) \/ Absorb(s)

Next == PipelineStep \/ Lifecycle

Spec == Init /\ [][Next]_vars

-----------------------------------------------------------------------------
(* What a pipeline promises.                                               *)

\* The values of the samples named ids.
Values(ids) == [k \in DOMAIN ids |-> drawn[ids[k]]]

\* The n samples that follow the k-th.
Following(k, n) == [i \in 1..n |-> k + i]

\* What the pipeline says of its source was heard. It is poisoned exactly when the conditioner
\* failed its known-answer test or a monitor has heard a sequence that fails a test of
\* SP 800-90B: no failure is missed, none is made up, none is forgotten. And when it is in
\* operation its monitor's first StartupMin samples came from the source without a gap, and
\* none of them was ever given out.
StateIsHeard ==
  /\ (state = "Poisoned") <=> (katBroken \/ Tripped(Values(heard)) \/ Tripped(Values(tested)))
  /\ state = "Operational" =>
       /\ Len(heard) >= StartupMin
       /\ SubSeq(heard, 1, StartupMin) = Following(heard[1] - 1, StartupMin)
       /\ \A i \in DOMAIN out : out[i] > heard[StartupMin]

\* What a call gives out was drawn in that call, all of it and in order, and was
\* heard by the monitor in force: nothing of a battery, of an aborted block or of
\* an earlier call is left in it.
OutputIsFresh ==
  out # <<>> =>
    /\ out = Following(since, Len(drawn) - since)
    /\ SubSeq(heard, Len(heard) - Len(out) + 1, Len(heard)) = out

=============================================================================

---------------------------- MODULE RawCollection ----------------------------
(***************************************************************************)
(* The collection of raw data sets (collection.rs of oxicrypt-entropy): a  *)
(* command that writes, for each of two boundaries, the files of a plan, a *)
(* manifest over all of them and a checkpoint of what is complete, so that *)
(* it can be run again.  A certification plan writes raw.bin, restart.bin  *)
(* and metadata.json; a characterization plan one capture and its          *)
(* metadata.json.  Files are created in place, and the process may end     *)
(* between and within the writes.                                          *)
(*                                                                         *)
(* One operational environment and one timer; a plan is what the content   *)
(* hash of a data set tells apart: its samples and its claim.  The path    *)
(* tells less: all plans share the directories, and all of one kind their  *)
(* files.                                                                  *)
(***************************************************************************)
EXTENDS Integers

CONSTANTS
  Samples,   \* [plans -> Nat]: the samples of a plan's capture, 0 for certification
  Scenarios, \* what may happen: [plans : SUBSET of the plans, failures : Nat]
  Rounds,    \* restart_rounds
  MaxRuns    \* bound: runs of the command

VARIABLES
  files,    \* of each boundary: what raw.bin, restart.bin, the capture and metadata.json hold
  manifest, \* what the files were when manifest.sha256 was written, if it is not cut short
  session,  \* the data sets collection-session.json lists: none when it is cut short
  place,    \* where the command is, "none" when it does not run
  plan,     \* its plan
  boundary, \* the boundary in hand
  done,     \* SessionStore.done
  summary,  \* StreamSummary: whether the run in hand tripped
  rounds,   \* restart rounds written
  outcomes, \* DatasetOutcome of each boundary
  ending,   \* what the last command ended with
  scenario, runs, failures \* bounds: what may happen, runs and failures still to come

ASSUME CollectionAssumption ==
  /\ Samples \in [DOMAIN Samples -> Nat] /\ DOMAIN Samples # {}
  /\ \A s \in Scenarios : s.plans \subseteq DOMAIN Samples /\ s.failures \in Nat
  /\ Rounds \in Nat \ {0} /\ MaxRuns \in Nat

collected == <<files, manifest, session>>
collecting == <<place, plan, boundary, done, summary, rounds, outcomes, ending>>
collectVars == <<collected, collecting, scenario, runs, failures>>

Plans == DOMAIN Samples
Boundaries == {"lower", "upper"}
Characterization(p) == Samples[p] > 0

\* A file that is not there, and one a process was writing when it ended.
Absent == [state |-> "absent"]
Cut(p) == [state |-> "cut", plan |-> p]

\* A stream of n samples of a plan, and whether a health test tripped on them.
Stream(p, n, tripped) == [state |-> "samples", plan |-> p, length |-> n, tripped |-> tripped]
Restarts(p, n) == [state |-> "restarts", plan |-> p, length |-> n]
Metadata(p, tripped, n) == [state |-> "metadata", plan |-> p, tripped |-> tripped, restarts |-> n]

NoDataset == [raw |-> Absent, restart |-> Absent, capture |-> Absent, metadata |-> Absent]
NoManifest == [state |-> "cut"]
ManifestOf(f) == [state |-> "whole", of |-> f]
NoOutcomes == [b \in Boundaries |-> [state |-> "none"]]

CollectInit ==
  /\ files = [b \in Boundaries |-> NoDataset] /\ manifest = NoManifest /\ session = {}
  /\ place = "none" /\ boundary = "lower" /\ done = {} /\ summary = FALSE /\ rounds = 0
  /\ plan = CHOOSE p \in Plans : TRUE
  /\ outcomes = NoOutcomes /\ ending = "none"
  /\ scenario \in Scenarios /\ runs = MaxRuns /\ failures = scenario.failures

Here == files[boundary]
Hash == <<plan, boundary>>

Put(file, content) == files' = [files EXCEPT ![boundary][file] = content]

-----------------------------------------------------------------------------
(* collect_oe.                                                             *)

\* The checkpoint is read, if there is one.
RunCommand ==
  /\ place = "none" /\ runs > 0 /\ runs' = runs - 1
  /\ plan' \in scenario.plans
  /\ done' = session
  /\ boundary' = "lower" /\ place' = "boundary"
  /\ summary' = FALSE /\ rounds' = 0
  /\ outcomes' = NoOutcomes /\ ending' = "running"
  /\ UNCHANGED <<collected, scenario, failures>>

\* A command that fails reports nothing.
End(how) == place' = "none" /\ ending' = how /\ summary' = FALSE /\ rounds' = 0

\* The data set in hand is settled: the next one, or the end.
Settle(skipped, submission, tripFree) ==
  /\ outcomes' = [outcomes EXCEPT ![boundary] =
       [state |-> "settled", skipped |-> skipped, submission |-> submission, trip_free |-> tripFree]]
  /\ IF boundary = "lower" THEN boundary' = "upper" /\ place' = "boundary" /\ UNCHANGED ending
     ELSE place' = "none" /\ ending' = "ok" /\ UNCHANGED boundary

-----------------------------------------------------------------------------
(* collect_one_boundary.                                                   *)

\* Fault: a characterization is skipped whatever its file holds.
Complete_Unchecked == Hash \in done

\* A data set that is listed is skipped; a characterization only when its file is as long
\* as the plan asks.
Complete ==
  /\ Hash \in done
  /\ Characterization(plan) => Here.capture.state = "samples" /\ Here.capture.length = Samples[plan]

\* guard_no_conflicting_mode: the directory holds a file of the other mode.
Conflict ==
  IF Characterization(plan) THEN Here.raw # Absent \/ Here.restart # Absent
  ELSE Here.capture # Absent

Skip ==
  /\ place = "boundary" /\ Complete
  /\ Settle(TRUE, ~Characterization(plan), "unknown")
  /\ UNCHANGED <<collected, plan, done, summary, rounds, scenario, runs, failures>>

Refuse ==
  /\ place = "boundary" /\ ~Complete /\ Conflict
  /\ End("conflict") /\ outcomes' = NoOutcomes
  /\ UNCHANGED <<collected, plan, boundary, done, scenario, runs, failures>>

MoveTo(label) == place' = label /\ UNCHANGED <<plan, boundary, done, outcomes, ending>>
Quiet == UNCHANGED <<scenario, runs, failures>>

\* The file of the plan's samples.
File == IF Characterization(plan) THEN "capture" ELSE "raw"
Count == IF Characterization(plan) THEN Samples[plan] ELSE 1

\* collect_raw, collect_characterization: a fresh source passes its startup test before
\* the file is created, which empties it.
Create ==
  /\ place = "boundary" /\ ~Complete /\ ~Conflict
  /\ Put(File, Stream(plan, 0, FALSE))
  /\ MoveTo("stream")
  /\ UNCHANGED <<manifest, session, summary, rounds>> /\ Quiet

\* The samples are streamed; a trip is noted and nothing is dropped.
StreamSamples ==
  /\ place = "stream"
  /\ summary' \in BOOLEAN
  /\ Put(File, Stream(plan, Count, summary'))
  /\ MoveTo(IF Characterization(plan) THEN "metadata" ELSE "restart")
  /\ UNCHANGED <<manifest, session, rounds>> /\ Quiet

\* collect_restart: the file is created before the first source is built.
CreateRestart ==
  /\ place = "restart"
  /\ Put("restart", Restarts(plan, 0)) /\ rounds' = 0
  /\ MoveTo("round")
  /\ UNCHANGED <<manifest, session, summary>> /\ Quiet

\* A round has a source and a startup test of its own.
RestartRound ==
  /\ place = "round" /\ rounds < Rounds
  /\ rounds' = rounds + 1
  /\ Put("restart", Restarts(plan, rounds'))
  /\ MoveTo(IF rounds' = Rounds THEN "metadata" ELSE "round")
  /\ UNCHANGED <<manifest, session, summary>> /\ Quiet

WriteMetadata ==
  /\ place = "metadata"
  /\ Put("metadata", Metadata(plan, summary, rounds))
  /\ MoveTo("manifest")
  /\ UNCHANGED <<manifest, session, summary, rounds>> /\ Quiet

\* write_manifest: the files of every directory as they are now.
WriteManifest ==
  /\ place = "manifest"
  /\ manifest' = ManifestOf(files)
  /\ MoveTo("mark")
  /\ UNCHANGED <<files, session, summary, rounds>> /\ Quiet

\* What the checkpoint lists from now on: a capture only when no test tripped.
Marked == IF Characterization(plan) /\ summary THEN done ELSE done \cup {Hash}

\* mark_done.
MarkDone ==
  /\ place = "mark"
  /\ done' = Marked
  /\ session' = IF Characterization(plan) /\ summary THEN session ELSE Marked
  /\ rounds' = 0 /\ summary' = FALSE
  /\ Settle(FALSE, ~Characterization(plan) /\ ~summary, IF summary THEN "no" ELSE "yes")
  /\ UNCHANGED <<files, manifest, plan, scenario, runs, failures>>

-----------------------------------------------------------------------------
(* Faults: the source or the file system fails, or the process dies.       *)

\* What the step in hand may leave of the file it writes.
Leaves ==
  \/ UNCHANGED collected
  \/ /\ place = "stream"
     /\ \E n \in 0 .. Count - 1, tripped \in BOOLEAN : Put(File, Stream(plan, n, tripped))
     /\ UNCHANGED <<manifest, session>>
  \/ place = "round" /\ Put("restart", Cut(plan)) /\ UNCHANGED <<manifest, session>>
  \/ place = "metadata" /\ Put("metadata", Cut(plan)) /\ UNCHANGED <<manifest, session>>
  \/ place = "manifest" /\ manifest' = NoManifest /\ UNCHANGED <<files, session>>
  \/ place = "mark" /\ session' \in (IF Marked = done THEN {session} ELSE {{}, Marked}) /\ UNCHANGED <<files, manifest>>

Fail ==
  /\ place # "none" /\ failures > 0 /\ failures' = failures - 1
  /\ Leaves
  /\ End("failed") /\ outcomes' = NoOutcomes /\ done' = {}
  /\ UNCHANGED <<plan, boundary, scenario, runs>>

-----------------------------------------------------------------------------

CollectNext ==
  \/ RunCommand \/ Skip \/ Refuse \/ Create \/ StreamSamples \/ CreateRestart \/ RestartRound
  \/ WriteMetadata \/ WriteManifest \/ MarkDone \/ Fail

CollectSpec == CollectInit /\ [][CollectNext]_collectVars

-----------------------------------------------------------------------------
(* What a data set promises.                                               *)

\* The files of boundary b are those of a whole run of plan p: all samples, all restart
\* rounds, and metadata of the same run.
WholeSet(b, p) ==
  LET f == files[b]
      samples == IF Characterization(p) THEN f.capture ELSE f.raw
  IN /\ samples.state = "samples" /\ samples.plan = p
     /\ samples.length = IF Characterization(p) THEN Samples[p] ELSE 1
     /\ f.metadata.state = "metadata" /\ f.metadata.plan = p
     /\ f.metadata.tripped = samples.tripped
     /\ Characterization(p) => f.raw = Absent /\ f.restart = Absent
     /\ ~Characterization(p) =>
          /\ f.restart = Restarts(p, Rounds) /\ f.metadata.restarts = Rounds
          /\ f.capture = Absent

\* Another plan shares the files of plan p, and what it writes can pass for p's: it asks for
\* as many samples, or a command can fail, and so leave a capture of another length cut short
\* at p's or one of p's length beside the metadata and the manifest of another run.
Confused(p) ==
  \E q \in scenario.plans \ {p} :
    /\ Characterization(q) <=> Characterization(p)
    /\ Samples[q] = Samples[p] \/ scenario.failures > 0

\* A command that ends well leaves, at both boundaries, the whole data set of its plan and
\* no other, as the manifest has it, whether it was collected now or skipped; and whether
\* a test tripped on a capture made now is reported as it is.  Except for a boundary that
\* was skipped when the plan is confused with another one (SkippedIsComplete).
CompletedIsWhole ==
  ending = "ok" =>
    \A b \in Boundaries : ~(outcomes[b].skipped /\ Confused(plan)) =>
      /\ WholeSet(b, plan)
      /\ manifest.state = "whole" /\ manifest.of[b] = files[b]
      /\ Characterization(plan) /\ ~outcomes[b].skipped =>
           (outcomes[b].trip_free = "yes" <=> ~files[b].capture.tripped)

\* The comment on the resume of a characterization: a capture written under a different
\* length at the shared path is not accepted as this one's, so one that is skipped as
\* complete is the whole data set of its plan.
SkippedIsComplete ==
  ending = "ok" =>
    \A b \in Boundaries :
      Characterization(plan) /\ outcomes[b].skipped => WholeSet(b, plan)

\* What is reported fit for submission is a certification run on which no test tripped.
SubmissionIsTripFree ==
  \A b \in Boundaries :
    ending = "ok" /\ outcomes[b].submission => ~files[b].raw.tripped
=============================================================================

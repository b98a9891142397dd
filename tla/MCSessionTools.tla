---------------------------- MODULE MCSessionTools ----------------------------
(***************************************************************************)
(* Instances of the three tools that keep a session on disk: the ESV       *)
(* submission log, the ACVP client and the collection of raw data sets.    *)
(* They share no file and no process, so a behaviour is one of one of      *)
(* them, and the others stay as they begin.                                *)
(*                                                                         *)
(* ESV: an upload, and two supporting documents of one type, whose         *)
(* outcomes cannot be told apart.  ACVP: two vector sets.  Collection:     *)
(* two certifications that differ in their claim and two                   *)
(* characterizations that differ in their length, over each other with no  *)
(* failure, and each pair of them with failures.                           *)
(***************************************************************************)
EXTENDS EsvSession, AcvpSession, RawCollection, TLC

VARIABLE tool \* the tool this behaviour is of: "esv", "acvp" or "collect"

MCSamples ==
  ("certification" :> 0) @@ ("otherClaim" :> 0) @@ ("two" :> 2) @@ ("three" :> 3)

MCScenarios == {[plans |-> {"certification", "two", "three"}, failures |-> 0],
                [plans |-> {"certification", "three"}, failures |-> 2],
                [plans |-> {"two", "three"}, failures |-> 2],
                [plans |-> {"certification", "otherClaim"}, failures |-> 1]}

\* A session of two characterizations in which one command fails.
StaleScenarios == {[plans |-> {"two", "three"}, failures |-> 0],
                   [plans |-> {"two", "three"}, failures |-> 1]}

MCTarget == [op \in Ops |-> IF op = "upload" THEN "file" ELSE "doc"]

\* A tool that is not the one looked at begins in one way only.
ToolsInit ==
  /\ tool \in {"esv", "acvp", "collect"}
  /\ Init /\ AcvpInit /\ CollectInit
  /\ tool # "esv" => regime = CHOOSE r \in Regimes : TRUE
  /\ tool # "acvp" => backend = "curl"
  /\ tool # "collect" => scenario.failures = 0

toolsVars == <<tool, vars, acvpVars, collectVars>>

EsvStep == tool = "esv" /\ Next /\ UNCHANGED <<tool, acvpVars, collectVars>>
AcvpStep == tool = "acvp" /\ AcvpNext /\ UNCHANGED <<tool, vars, collectVars>>
CollectStep == tool = "collect" /\ CollectNext /\ UNCHANGED <<tool, vars, acvpVars>>

ToolsNext == EsvStep \/ AcvpStep \/ CollectStep

ToolsSpec == ToolsInit /\ [][ToolsNext]_toolsVars
===============================================================================

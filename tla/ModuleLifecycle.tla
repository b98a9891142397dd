--------------------------- MODULE ModuleLifecycle ---------------------------
(***************************************************************************)
(* The one-shot lifecycle oxicrypt-module promises, without threads in the *)
(* middle of a step: the phase, the id that owns the SelfTest phase, and   *)
(* the profile in force, which is the default unless services are offered. *)
(***************************************************************************)
CONSTANTS OsIds, NoOwner, Profiles, DefaultProfile

VARIABLES phase, owner, inForce

lifecycleVars == <<phase, owner, inForce>>

Init ==
  /\ phase = "PowerOff"
  /\ owner = NoOwner
  /\ inForce = DefaultProfile

\* Once per process, one thread starts the self-tests.
Start ==
  /\ phase = "PowerOff"
  /\ phase' = "SelfTest"
  /\ owner' \in OsIds
  /\ UNCHANGED inForce

\* The tests end well: a profile comes into force together with the services.
Open ==
  /\ phase = "SelfTest"
  /\ phase' = "Operational"
  /\ owner' = NoOwner
  /\ inForce' \in Profiles

\* There was no integrity test to run.
Decline ==
  /\ phase = "SelfTest"
  /\ phase' = "IntegrityUnverified"
  /\ owner' = NoOwner
  /\ UNCHANGED inForce

\* A test failed, before, during or after the pre-operational sequence.
Latch ==
  /\ phase' = "Error"
  /\ owner' = NoOwner
  /\ inForce' = DefaultProfile

Next == Start \/ Open \/ Decline \/ Latch

Spec == Init /\ [][Next]_lifecycleVars
=============================================================================

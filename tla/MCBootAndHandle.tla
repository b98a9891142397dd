---------------------------- MODULE MCBootAndHandle ----------------------------
(***************************************************************************)
(* Instances of two clients of the module boundary: the integrity test as  *)
(* a process boots, and the RSA private-key handle in a process of its     *)
(* own.  A behaviour is one of one of them, each with a phase of its own,  *)
(* and the other stays as it begins.                                       *)
(*                                                                         *)
(* The lists of the boot: the crate's own KATS, alone and followed by      *)
(* another test, the same list out of order or with a CAST missing, a      *)
(* self-test that calls the verifier before the boot entry, a front end    *)
(* that lists the boot entry twice, and a stand-in group.                  *)
(***************************************************************************)
EXTENDS IntegrityBoot, RsaHandle, TLC

VARIABLE client \* the one this behaviour is of: "boot" or "handle"

Kats == <<"ml_dsa_cast", "sha256_cast", "integrity_self_test">>

MCGroups ==
  {Kats, Append(Kats, "other"), Append(Kats, "integrity_self_test"),
   <<"integrity_self_test", "ml_dsa_cast", "sha256_cast">>,
   <<"ml_dsa_cast", "integrity_self_test">>,
   <<"ml_dsa_cast", "sha256_cast", "verify_loaded_image", "integrity_self_test">>,
   <<"other">>}

ThreadSymmetry == Permutations(Threads)

clientsVars == <<client, vars, handleVars>>

\* The one that is not looked at begins in one way only.
ClientsInit ==
  /\ client \in {"boot", "handle"}
  /\ Init /\ RsaInit
  /\ client # "boot" => artifact = "signed"
  /\ client # "handle" => permitted

BootStep == client = "boot" /\ Next /\ UNCHANGED <<client, handleVars>>
HandleStep == client = "handle" /\ RsaNext /\ UNCHANGED <<client, vars>>

ClientsNext == BootStep \/ HandleStep

ClientsSpec == ClientsInit /\ [][ClientsNext]_clientsVars
================================================================================

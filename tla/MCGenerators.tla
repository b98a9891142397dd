----------------------------- MODULE MCGenerators -----------------------------
(***************************************************************************)
(* The two generators: EntropyRng over a source of two values, which one   *)
(* being which makes no difference to a test, and an instance of a DRBG.   *)
(* The library couples them nowhere (a caller carries the bytes across),   *)
(* so a behaviour is one of one of them, and the other stays as it begins. *)
(***************************************************************************)
EXTENDS EntropyRng, Drbg, TLC

VARIABLE generator  \* the one this behaviour is of

Symmetry == Permutations(Samples)

generatorVars == <<generator, allVars, drbgVars>>

\* The generator that is not looked at begins in one way only.
GeneratorsInit ==
  /\ generator \in {"rng", "drbg"}
  /\ RngInit /\ DrbgInit
  /\ generator # "rng" => onBoot
  /\ generator # "drbg" => mech = "hmac" /\ client = "application" /\ permitted

RngStep == generator = "rng" /\ RngNext /\ UNCHANGED <<generator, drbgVars>>
DrbgStep == generator = "drbg" /\ DrbgNext /\ UNCHANGED <<generator, allVars>>

GeneratorsNext == RngStep \/ DrbgStep

GeneratorsSpec == GeneratorsInit /\ [][GeneratorsNext]_generatorVars
===============================================================================

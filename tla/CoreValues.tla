------------------------------ MODULE CoreValues ------------------------------
(***************************************************************************)
(* Values that the decisions of msgriver-core share.  A result is a        *)
(* sequence: <<value>>, or <<>> for a rejection or a case the crate leaves *)
(* undecided.                                                              *)
(***************************************************************************)
EXTENDS Integers, Sequences

CONSTANT GenerationMax   \* u64::MAX

ASSUME GenerationAssumption == GenerationMax \in Nat

Err == <<>>
IsOk(result) == result # Err

Least(S) == CHOOSE x \in S : \A y \in S : x <= y
Most(S) == CHOOSE x \in S : \A y \in S : x >= y

increment_generation(generation) ==
  IF generation = GenerationMax THEN Err ELSE <<generation + 1>>

\* Safe time.
proven_expired(boundary, high_water) == boundary <= high_water
=============================================================================

------------------------------ MODULE MCStarting ------------------------------
(***************************************************************************)
(* How a process comes up, one component at a time: in a behaviour one of  *)
(* Parts moves and the others stay in an initial state.                    *)
(***************************************************************************)
EXTENDS StartUp, Migrations, Bootstrap, TLC

CONSTANT Parts

\* Envelopes: two keys for the six, documents in one block or two, in either
\* order, with a wrong value, a further key, and too long.
A == <<"state_root", 1>>
B == <<"version", 1>>
X == <<"unknown", 1>>
MCKeys == {"state_root", "version"}
MCContents ==
  {<<{A}, {B}>>, <<{B}, {A}>>, <<{A, B}>>, <<{A}, {<<"version", 0>>}>>, <<{A}, {B, X}>>, <<{A}, {B}, {X}>>}

VARIABLE part   \* the component that moves

Init ==
  /\ part \in Parts
  /\ StartInit /\ MigrationInit /\ BootstrapInit
  /\ part # "start" => ~dir[2].private
  /\ part # "migrations" => db = Blank
  /\ part # "bootstrap" => kind = "envelope" /\ owned /\ named.trusted /\ named.blocks = <<{A, B}>>

Next ==
  /\ UNCHANGED part
  /\ \/ part = "start" /\ StartNext /\ UNCHANGED <<migrationVars, bootstrapVars>>
     \/ part = "migrations" /\ MigrationNext /\ UNCHANGED <<startVars, bootstrapVars>>
     \/ part = "bootstrap" /\ BootstrapNext /\ UNCHANGED <<startVars, migrationVars>>

Spec == Init /\ [][Next]_<<part, startVars, migrationVars, bootstrapVars>>

Symmetry == Permutations(Processes) \cup Permutations(Files)
=============================================================================

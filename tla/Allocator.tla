------------------------------- MODULE Allocator -------------------------------
(***************************************************************************)
(* Incarnations of the resources of fixed roots.  A root has a namespace   *)
(* of its own and a serial high water; an allocating command burns one     *)
(* serial with the intent it publishes, and finds that intent again after  *)
(* a crash.  msgriver-core decides; the coordinator that publishes what it *)
(* decides is external.                                                    *)
(*                                                                         *)
(* An incarnation is <<namespace, serial>>.                                *)
(***************************************************************************)
EXTENDS CoreValues, FiniteSets

CONSTANTS
  Roots,           \* fixed roots, each with its own journal key
  Commands,        \* command digests
  SerialMax,       \* u64::MAX of branch serials
  MaxEnded         \* bound: intents ended per root

ASSUME AllocatorAssumption == {SerialMax, MaxEnded} \subseteq Nat /\ SerialMax > 0

VARIABLES
  root,      \* root |-> header, retained intent, selected incarnation, generation, history
  facts,     \* what the coordinator finds: holds, clock, capacity, conflicts
  issued,    \* every fresh allocation: root, command and number, incarnation
  answers    \* root, command and number |-> the targets a command was told

allocatorVars == <<root, facts, issued, answers>>

None == <<>>

-----------------------------------------------------------------------------
\* Serials and generations.
\* Mutant: the serial saturates.
saturating_serial(high_water) == <<IF high_water = SerialMax THEN high_water ELSE high_water + 1>>

next_branch_serial(high_water) ==
  IF high_water = SerialMax THEN Err ELSE <<high_water + 1>>

\* derive_owner_namespace: one namespace per journal key.
derive_owner_namespace(r) == r

compose_incarnation(namespace, serial) == <<namespace, serial>>

initialize_allocator_header(r) ==
  [namespace |-> derive_owner_namespace(r), high_water |-> 0]

-----------------------------------------------------------------------------
\* Decisions.
Allocating == {"BootstrapCreate", "RestoreCreate", "UpgradeRollback"}
Continuations == {"ConfigurationActivate", "StateKeyRotate", "StateKeyRetire", "UpgradeMigrate",
                  "UpgradeActivate", "ForwardRepair"}

classify_transition(operation) ==
  CASE operation \in Allocating -> "Allocating"
    [] operation \in Continuations -> "Continuation"
    [] OTHER -> "NonAllocator"

operation_admissible_under_exhaustion(operation) == classify_transition(operation) # "Allocating"

\* Mutant: a serial above the high water is believed.
believes_any_serial(source, incarnation, header) ==
  CASE source \in {"ForeignAuthenticatedAncestry", "ImportedKeyOrigin"} -> "ForeignAncestry"
    [] source = "Local" -> IF incarnation[1] = header.namespace /\ incarnation[2] # 0
                           THEN "LocalWitness" ELSE "Corrupt"
    [] source = "Unknown" -> "Corrupt"

classify_witness(source, incarnation, header) ==
  CASE source \in {"ForeignAuthenticatedAncestry", "ImportedKeyOrigin"} -> "ForeignAncestry"
    [] source = "Local" -> IF /\ incarnation[1] = header.namespace
                              /\ incarnation[2] \in 1..header.high_water
                           THEN "LocalWitness" ELSE "Corrupt"
    [] source = "Unknown" -> "Corrupt"

pre_staging_collision(views, target) == \E view \in views : target \in view

validate_target(collision, source_matches, serial_matches) ==
  CASE collision -> "Collision"
    [] ~collision /\ ~source_matches -> "SourceMismatch"
    [] ~collision /\ source_matches /\ ~serial_matches -> "TargetSerialMismatch"
    [] ~collision /\ source_matches /\ serial_matches -> "Ok"

\* Mutant: a hold on the clock stops nothing.
clock_passed_over(recovery, exhausted, f) ==
  IF recovery THEN "ExactRecovery"
  ELSE IF f.forbidding_hold THEN "ForbiddenHold"
  ELSE IF exhausted THEN "IncarnationUnavailable"
  ELSE IF ~f.capacity THEN "ControlCapacity"
  ELSE IF f.conflict THEN "AdmissionDrainOrCoordinatorConflict"
  ELSE "PublishAndBurnAuthorized"

allocator_hold_precedence(recovery, exhausted, f) ==
  IF recovery THEN "ExactRecovery"
  ELSE IF f.forbidding_hold THEN "ForbiddenHold"
  ELSE IF exhausted THEN "IncarnationUnavailable"
  ELSE IF f.clock_hold THEN "ClockHold"
  ELSE IF ~f.capacity THEN "ControlCapacity"
  ELSE IF f.conflict THEN "AdmissionDrainOrCoordinatorConflict"
  ELSE "PublishAndBurnAuthorized"

\* Mutant: a retained intent is replayed for whatever command comes.
replay_any(retained, command, high_water) ==
  IF retained # None THEN <<[kind |-> "Reuse", intent |-> retained[1]]>>
  ELSE IF IsOk(next_branch_serial(high_water))
       THEN <<[kind |-> "Fresh", serial |-> next_branch_serial(high_water)[1]]>> ELSE Err

replay_allocation(retained, command, high_water) ==
  IF retained # None
  THEN IF retained[1].command = command
       THEN <<[kind |-> "Reuse", intent |-> retained[1]]>>
       ELSE <<[kind |-> "CommandCollision"]>>
  ELSE IF IsOk(next_branch_serial(high_water))
       THEN <<[kind |-> "Fresh", serial |-> next_branch_serial(high_water)[1]]>> ELSE Err

burn_next_serial(header) ==
  [header EXCEPT !.high_water = next_branch_serial(@)[1]]

exhaustion_recovery_admissibility(blank, artifact, rekeys) == blank /\ artifact /\ ~rekeys

restore_serial_one(namespace) == compose_incarnation(namespace, 1)

readiness_reason(high_water, generation) ==
  IF high_water = SerialMax THEN "IncarnationExhausted"
  ELSE IF generation = GenerationMax THEN "GenerationExhausted" ELSE "Ready"

-----------------------------------------------------------------------------
\* The coordinator (external).
Blank(r) ==
  [header |-> initialize_allocator_header(r), retained |-> None, selected |-> None,
   generation |-> 0, history |-> {}, ended |-> 0]

AllocatorInit ==
  /\ root = [r \in Roots |-> Blank(r)]
  /\ facts = [forbidding_hold |-> FALSE, clock_hold |-> FALSE, capacity |-> TRUE, conflict |-> FALSE]
  /\ issued = {}
  /\ answers = {}

Number(r) == root[r].ended + 1

\* Holds come and go.
Change ==
  /\ \E f \in DOMAIN facts : facts' = [facts EXCEPT ![f] = ~@]
  /\ UNCHANGED <<root, issued, answers>>

\* The views a target is looked up in before it is staged.
Views(r) == {{root[r].selected[i] : i \in DOMAIN root[r].selected}, root[r].history}

Answer(r, c, target) == answers' = answers \cup {[root |-> r, number |-> Number(r), command |-> c, target |-> target]}

\* A command asks for an incarnation, for the first time or again after a crash.
Allocate ==
  \E r \in Roots, c \in Commands, op \in Allocating :
    LET me == root[r]
        recovery == me.retained # None /\ me.retained[1].command = c
        exhausted == ~IsOk(next_branch_serial(me.header.high_water))
        decision == allocator_hold_precedence(recovery, exhausted, facts)
        replay == replay_allocation(me.retained, c, me.header.high_water)
    IN /\ classify_transition(op) = "Allocating"
       /\ decision \in {"ExactRecovery", "PublishAndBurnAuthorized"}
       /\ me.ended < MaxEnded
       /\ IsOk(replay)
       /\ \/ /\ replay[1].kind = "Reuse"
             /\ Answer(r, c, replay[1].intent.target)
             /\ UNCHANGED <<root, facts, issued>>
          \/ /\ replay[1].kind = "Fresh"
             /\ LET target == compose_incarnation(me.header.namespace, replay[1].serial)
                IN /\ validate_target(pre_staging_collision(Views(r), target), TRUE, TRUE) = "Ok"
                   /\ root' = [root EXCEPT
                        ![r].header = burn_next_serial(@),
                        ![r].retained = <<[command |-> c, target |-> target]>>]
                   /\ issued' = issued \cup {[root |-> r, number |-> Number(r), target |-> target]}
                   /\ Answer(r, c, target)
                   /\ UNCHANGED facts

\* The target becomes the selected state, under the next guarded generation.
Select ==
  \E r \in Roots :
    LET me == root[r] IN
    /\ me.retained # None
    /\ IsOk(increment_generation(me.generation))
    /\ root' = [root EXCEPT
         ![r].selected = <<me.retained[1].target>>,
         ![r].generation = increment_generation(@)[1],
         ![r].history = @ \cup {me.retained[1].target},
         ![r].retained = None,
         ![r].ended = @ + 1]
    /\ UNCHANGED <<facts, issued, answers>>

\* The intent is given up; its serial stays burned.
Abandon ==
  \E r \in Roots :
    /\ root[r].retained # None
    /\ root' = [root EXCEPT ![r].retained = None, ![r].ended = @ + 1]
    /\ UNCHANGED <<facts, issued, answers>>

\* A continuation keeps the allocator's image, also when it is exhausted.
Continue ==
  \E r \in Roots, op \in Continuations :
    /\ operation_admissible_under_exhaustion(op)
    /\ root[r].selected # None
    /\ IsOk(increment_generation(root[r].generation))
    /\ root' = [root EXCEPT ![r].generation = increment_generation(@)[1]]
    /\ UNCHANGED <<facts, issued, answers>>

\* An exhausted root's state moves to a blank root with a key of its own.
Recover ==
  \E r \in Roots : \E to \in Roots \ {r} :
    /\ readiness_reason(root[r].header.high_water, root[r].generation) = "IncarnationExhausted"
    /\ exhaustion_recovery_admissibility(root[to] = Blank(to), root[r].selected # None, FALSE)
    /\ LET target == restore_serial_one(root[to].header.namespace)
       IN /\ root' = [root EXCEPT ![to].header = burn_next_serial(@), ![to].selected = <<target>>,
                                  ![to].history = {target}, ![to].ended = 1]
          /\ issued' = issued \cup {[root |-> to, number |-> Number(to), target |-> target]}
    /\ UNCHANGED <<facts, answers>>

AllocatorNext == Change \/ Allocate \/ Select \/ Abandon \/ Continue \/ Recover

AllocatorSpec == AllocatorInit /\ [][AllocatorNext]_allocatorVars

-----------------------------------------------------------------------------
\* next_branch_serial and burn_next_serial: an incarnation is issued once, over
\* all roots, crashes, abandoned intents and exhaustion.
IssuedOnce == \A i, j \in issued : i.target = j.target => i = j

\* replay_allocation: a command that asks again is told the target it was told
\* before, and two commands of one root are never told the same target.
OneTargetPerCommand ==
  \A a, b \in answers :
    (a.root = b.root /\ a.number = b.number) => (a.command = b.command /\ a.target = b.target)

\* classify_witness: everything a root selected, retains or remembers is its own
\* and within its high water; what another root issued is never taken for its own.
WitnessesLocal ==
  \A r \in Roots :
    LET me == root[r]
        own == me.history \cup {me.retained[i].target : i \in DOMAIN me.retained}
    IN /\ \A t \in own : classify_witness("Local", t, me.header) = "LocalWitness"
       /\ \A i \in issued : i.root # r => classify_witness("Local", i.target, me.header) = "Corrupt"
       /\ \A s \in 0..SerialMax :
            classify_witness("Local", compose_incarnation(me.header.namespace, s), me.header) = "LocalWitness"
            => \E i \in issued : i.target = compose_incarnation(me.header.namespace, s)

\* allocator_hold_precedence: a serial is burned for a new command only while
\* nothing holds it back; a command that only recovers is never held back.
BurnIsFree ==
  \A r \in Roots :
    (root'[r].header # root[r].header /\ root'[r].retained # None) =>
      facts = [forbidding_hold |-> FALSE, clock_hold |-> FALSE, capacity |-> TRUE, conflict |-> FALSE]

\* The allocator: an incarnation is issued once, over all roots, crashes,
\* abandoned intents and exhaustion (next_branch_serial, burn_next_serial); a
\* command that asks again is told the target it was told before, and two
\* commands of one root never the same one (replay_allocation); everything a
\* root selected, retains or remembers is its own and within its high water
\* (classify_witness).
AllocatorSafety == IssuedOnce /\ OneTargetPerCommand /\ WitnessesLocal

-----------------------------------------------------------------------------
(***************************************************************************)
(* The inductive invariant.  What was issued for a root is exactly its     *)
(* namespace up to the high water, and an answer belongs to an intent that *)
(* ended or to the one that is retained.                                   *)
(***************************************************************************)
Incarnations == Roots \X (1..SerialMax)
RetainedIntents == [command : Commands, target : Incarnations]
RootStates ==
  [header : [namespace : Roots, high_water : 0..SerialMax],
   retained : {None} \cup {<<i>> : i \in RetainedIntents},
   selected : {None} \cup {<<t>> : t \in Incarnations},
   generation : 0..GenerationMax, history : SUBSET Incarnations, ended : Nat]

FactsOK ==
  facts \in [forbidding_hold : BOOLEAN, clock_hold : BOOLEAN, capacity : BOOLEAN, conflict : BOOLEAN]

AllocatorTypeOK ==
  /\ root \in [Roots -> RootStates]
  /\ issued \subseteq [root : Roots, number : Nat, target : Incarnations]
  /\ answers \subseteq [root : Roots, number : Nat, command : Commands, target : Incarnations]

Burned(r) == 1..root[r].header.high_water

OwnNamespace ==
  \A r \in Roots :
    LET me == root[r] IN
    /\ me.header.namespace = r
    /\ \A t \in me.history : t[1] = r /\ t[2] \in Burned(r)
    /\ me.retained # None => me.retained[1].target[1] = r /\ me.retained[1].target[2] \in Burned(r)

IssuedInv ==
  /\ \A i \in issued : i.target[1] = i.root /\ i.target[2] \in Burned(i.root)
  /\ \A r \in Roots : \A s \in Burned(r) : \E i \in issued : i.target = <<r, s>>

AnswersInv ==
  \A a \in answers :
    LET me == root[a.root] IN
    /\ a.number <= me.ended + 1
    /\ a.number = me.ended + 1 =>
         me.retained = <<[command |-> a.command, target |-> a.target]>>

AllocatorInv ==
  AllocatorTypeOK /\ OwnNamespace /\ IssuedInv /\ IssuedOnce /\ AnswersInv /\ OneTargetPerCommand
=============================================================================

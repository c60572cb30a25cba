------------------------------- MODULE SafeTime -------------------------------
(***************************************************************************)
(* Safe time across checkpoints, branches and restarts.  The fixed root    *)
(* and each state branch keep an authenticated marker; msgriver-core       *)
(* decides how they combine.  The clocks and the writer of the markers are *)
(* external: a checkpoint writes the fixed root first and the selected     *)
(* branch second, and may stop between the two.                            *)
(***************************************************************************)
EXTENDS CoreValues

CONSTANTS
  Branches,          \* states that may be selected
  NoBranch,          \* before bootstrap
  Instants,          \* instants, in steps of the threshold
  Threshold,         \* CLOCK_STEP_THRESHOLD_MILLIS, in the same steps
  InstantMax,        \* i64::MAX
  MaxBudget          \* bound: time passed

ASSUME SafeTimeConstants ==
  /\ NoBranch \notin Branches
  /\ Instants \subseteq Int
  /\ Threshold \in Nat

VARIABLES
  fixed,      \* marker of the fixed root
  marker,     \* branch |-> marker
  selected,   \* the selected branch
  half,       \* a checkpoint that reached the fixed root only: its marker, or -1
  wall, mono, \* clocks at the latest accepted observation
  gone,       \* command boundaries found expired
  budget      \* monotonic time passed, and a threshold per observation

safeTimeVars == <<fixed, marker, selected, half, wall, mono, gone, budget>>

-----------------------------------------------------------------------------
\* Mutant: the selected state's marker alone counts.
selected_marker_only(fixed_root, selected_markers) ==
  IF selected_markers = {} THEN fixed_root ELSE Most(selected_markers)

effective_high_water(fixed_root, selected_markers) == Most({fixed_root} \cup selected_markers)

carry_forward_high_water(markers) == Most(markers)

advance_high_water(current, candidate) == Most({current, candidate})

\* Mutant: a jump ahead is not a step.
backward_steps_only(wall_delta, monotonic_delta) ==
  monotonic_delta - wall_delta > Threshold

\* A difference that overflows holds as well.
clock_step_holds(wall_delta, monotonic_delta) ==
  LET difference == wall_delta - monotonic_delta
  IN \/ difference > InstantMax \/ difference < -InstantMax
     \/ difference > Threshold \/ -difference > Threshold

validate_transition(prior, new) == new >= prior

-----------------------------------------------------------------------------
SelectedMarkers == IF selected = NoBranch THEN {} ELSE {marker[selected]}
Effective == effective_high_water(fixed, SelectedMarkers)

SafeTimeInit ==
  /\ fixed = 0
  /\ marker = [b \in Branches |-> 0]
  /\ selected = NoBranch
  /\ half = -1
  /\ wall = 0 /\ mono = 0
  /\ gone = {}
  /\ budget = 0

\* Mutant: the selected branch is written before the fixed root.
ObserveBranchFirst ==
  \E w \in Instants, m \in Instants :
    /\ half = -1 /\ m > mono
    /\ ~clock_step_holds(w - wall, m - mono)
    /\ wall' = w /\ mono' = m
    /\ half' = advance_high_water(Effective, w)
    /\ validate_transition(Effective, half')
    /\ marker' = IF selected = NoBranch THEN marker ELSE [marker EXCEPT ![selected] = half']
    /\ budget' = budget + (m - mono) + Threshold /\ budget' <= MaxBudget
    /\ UNCHANGED <<fixed, selected, gone>>

\* An observation of both clocks; a step holds and nothing is written.
Observe ==
  \E w \in Instants, m \in Instants :
    /\ half = -1 /\ m > mono
    /\ ~clock_step_holds(w - wall, m - mono)
    /\ wall' = w /\ mono' = m
    /\ half' = advance_high_water(Effective, w)
    /\ validate_transition(Effective, half')
    /\ fixed' = half'
    /\ budget' = budget + (m - mono) + Threshold /\ budget' <= MaxBudget
    /\ UNCHANGED <<marker, selected, gone>>

\* The second half of the checkpoint.
WriteSelected ==
  /\ half # -1
  /\ marker' = IF selected = NoBranch THEN marker ELSE [marker EXCEPT ![selected] = half]
  /\ half' = -1
  /\ UNCHANGED <<fixed, selected, wall, mono, gone, budget>>

\* A restart: a half checkpoint stays half, the clocks may read anything near.
Restart ==
  \E w \in Instants :
    /\ half' = -1
    /\ mono' = 0 /\ wall' = w
    /\ ~clock_step_holds(w - Effective, 0)
    /\ budget' = budget + Threshold /\ budget' <= MaxBudget
    /\ UNCHANGED <<fixed, marker, selected, gone>>

\* A copy of the selected state, or the first state, becomes selected.
Branch ==
  \E b \in Branches \ {selected} :
    /\ half = -1
    /\ marker' = [marker EXCEPT ![b] = carry_forward_high_water({fixed} \cup SelectedMarkers)]
    /\ selected' = b
    /\ UNCHANGED <<fixed, half, wall, mono, gone, budget>>

\* A rollback selects a retained state with the marker it had.
Rollback ==
  \E b \in Branches \ {selected} :
    /\ half = -1 /\ selected # NoBranch
    /\ selected' = b
    /\ UNCHANGED <<fixed, marker, half, wall, mono, gone, budget>>

\* Commands whose boundary has passed are dropped from view.
Prune ==
  /\ gone' = gone \cup {b \in Instants : proven_expired(b, Effective)}
  /\ gone' # gone
  /\ UNCHANGED <<fixed, marker, selected, half, wall, mono, budget>>

SafeTimeNext == Observe \/ WriteSelected \/ Restart \/ Branch \/ Rollback \/ Prune

SafeTimeSpec == SafeTimeInit /\ [][SafeTimeNext]_safeTimeVars

-----------------------------------------------------------------------------
\* effective_high_water: a command once found expired is expired for ever,
\* whatever branch is selected, copied or rolled back to, and however far a
\* checkpoint got.
ExpiredStaysExpired == \A b \in gone : proven_expired(b, Effective)

\* clock_step_holds: safe time runs ahead of the monotonic clock by no more
\* than one threshold for each observation and each restart.
NoLeap == Effective <= budget

\* Why both hold, as one inductive invariant: the fixed root is written first,
\* so its marker is never behind a branch, a half checkpoint or a boundary that
\* was found expired; and neither it nor the wall clock is ahead of the budget.
ClockInv ==
  /\ fixed \in Nat /\ half \in Int /\ wall \in Int /\ mono \in Int /\ budget \in Int
  /\ marker \in [Branches -> Int]
  /\ selected \in Branches \cup {NoBranch}
  /\ gone \subseteq Int
  /\ half <= fixed
  /\ \A b \in Branches : marker[b] <= fixed
  /\ \A b \in gone : b <= fixed
  /\ fixed <= budget /\ wall <= budget
=============================================================================

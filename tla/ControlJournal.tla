---------------------------- MODULE ControlJournal ----------------------------
(***************************************************************************)
(* The control journal of one fixed root as its owner drives it: clock     *)
(* checkpoints, hold entries, acknowledgements and shutdowns, each one     *)
(* image after the other, across process restarts.  Publication on disk is *)
(* JournalPublication's.                                                   *)
(*                                                                         *)
(* The owner's side of the contract (external): hold generations strictly  *)
(* increase and process instances are never reused.                        *)
(*                                                                         *)
(* History: newest, the latest hold entered.                               *)
(***************************************************************************)
EXTENDS JournalImage

CONSTANTS
  Times,          \* wall and safe times
  Reasons,        \* of a checkpoint outside a hold
  HoldLimit,      \* bound: holds entered
  Observations,   \* observation digests of a hold
  Processes,      \* process instances
  SelectedHeads,  \* sequences of the selected state's transactions
  Members,        \* what the other owners of a checkpoint install in it:
                  \* [pointer, ring, commands]
  MaxSequence,    \* bound: records
  MaxGeneration   \* bound: checkpoints

\* A hold is told from none; every journal begins with a checkpoint.
ASSUME OwnerConstants ==
  /\ Reasons \subseteq {"Periodic", "ExpiryProof", "CleanShutdown"}
  /\ Times \subseteq Int
  /\ {HoldLimit, MaxSequence} \subseteq Nat /\ MaxGeneration \in Nat \ {0}
  /\ \A g \in 1..HoldLimit, o \in Observations : Hold(g, o) # Absent

VARIABLES
  image,      \* the journal
  projection, \* what its tail replays to
  process,    \* the current process instance
  stopped,    \* process instances that are gone
  newest

ownerVars == <<image, projection, process, stopped, newest>>

clock == projection.clock

\* The genesis image: its safe time is the first accepted observation.
fresh_control_journal_header == [high_water |-> 0]

GenesisImage(wall) == Image(fresh_control_journal_header.high_water, GenesisCheckpoint(wall), <<>>)

OwnerInit ==
  /\ \E wall \in Times : image = GenesisImage(wall)
  /\ projection = image.checkpoint
  /\ process \in Processes
  /\ stopped = {}
  /\ newest = 0

-----------------------------------------------------------------------------
Becomes(result) ==
  /\ projection.covered_head.sequence < MaxSequence
  /\ projection.generation < MaxGeneration
  /\ \E next \in {result} \ {Invalid} :
       image' = next.image /\ projection' = next.projection

Origins == {Absent} \cup ({projection.pointer} \ {Absent})

\* A clock checkpoint outside a hold.
ObserveClock ==
  /\ \E reason \in Reasons, wall \in Times, origin \in Origins :
       Becomes(append_clock_checkpoint(image, projection,
                 ClockBody(reason, wall, clock.safe_time, Absent, origin)))
  /\ UNCHANGED <<process, stopped, newest>>

\* A hold settles by itself.
AutomaticSettlement ==
  /\ \E wall \in Times, origin \in Origins :
       Becomes(append_clock_checkpoint(image, projection,
                 ClockBody("AutomaticSettlement", wall, clock.safe_time, clock.hold, origin)))
  /\ UNCHANGED <<process, stopped, newest>>

\* The owner publishes the clock authority of a new hold, or of the current
\* one again, at start-up and whenever the clock guard sees an anomaly.
EnterHold ==
  /\ newest < HoldLimit
  /\ \E time \in Times, observation \in Observations :
       Becomes(publish_addressed_authority(image, projection,
                 [clock EXCEPT !.safe_time = time, !.hold = Hold(newest + 1, observation)],
                 process))
  /\ newest' = newest + 1
  /\ UNCHANGED <<process, stopped>>

PublishAuthority ==
  /\ \E time \in Times :
       Becomes(publish_addressed_authority(image, projection, [clock EXCEPT !.safe_time = time], process))
  /\ UNCHANGED <<process, stopped, newest>>

\* The mirror a request owes: none without selected state.
Mirrors ==
  IF projection.pointer = Absent THEN {NoMirror}
  ELSE {PendingMirror(projection.pointer, pre) : pre \in SelectedHeads}

Acknowledge ==
  /\ clock.hold # Absent
  /\ \E wall \in Times, mirror \in Mirrors :
     \E selected \in IF mirror = NoMirror THEN {Absent} ELSE Times :
       Becomes(append_addressed_action(image, projection,
                 [kind |-> "ack", action |-> "request",
                  value |-> AckValue(clock.hold, clock.safe_time, selected, wall, mirror)],
                 process, FALSE))
  /\ UNCHANGED <<process, stopped, newest>>

RequestShutdown ==
  /\ \E mirror \in Mirrors :
       Becomes(append_addressed_action(image, projection,
                 [kind |-> "shutdown", action |-> "request", value |-> ShutdownValue(process, mirror)],
                 process, FALSE))
  /\ UNCHANGED <<process, stopped, newest>>

PhaseRecord(op, phase, reason) ==
  [kind |-> op, action |-> "phase", phase |-> phase, reason |-> reason]

\* Phase 4 is reported with one of four reasons, which nothing distinguishes.
PublishPhase(op, recovery) ==
  /\ \E phase \in 2..4 :
       Becomes(append_addressed_action(image, projection,
                 PhaseRecord(op, phase, IF phase = 4 THEN 1 ELSE 0), process, recovery))
  /\ UNCHANGED <<process, stopped, newest>>

CommitMirror(op, recovery) ==
  /\ \E post \in SelectedHeads :
       Becomes(append_addressed_action(image, projection,
                 [kind |-> op, action |-> "commit", post |-> post], process, recovery))
  /\ UNCHANGED <<process, stopped, newest>>

Fold ==
  /\ Becomes(fold_control_journal_image(image, projection))
  /\ UNCHANGED <<process, stopped, newest>>

\* Another owner composes an image with its own members: a pointer to a newly
\* allocated origin, a recovery ring, a set of commands.
Install ==
  /\ \E members \in Members :
       Becomes(Checkpointed(
         MaxTime(image.high_water, IF members.pointer = Absent THEN 0 ELSE members.pointer),
         [projection EXCEPT !.pointer = members.pointer, !.ring = members.ring,
                            !.commands = members.commands]))
  /\ UNCHANGED <<process, stopped, newest>>

\* The process ends, gracefully or not, and a new one starts.
StartProcess ==
  /\ stopped' = stopped \cup {process}
  /\ process' \in Processes \ stopped'
  /\ UNCHANGED <<image, projection, newest>>

OwnerNext ==
  \/ ObserveClock \/ AutomaticSettlement \/ EnterHold \/ PublishAuthority
  \/ Acknowledge \/ RequestShutdown
  \/ \E op \in Operations, recovery \in BOOLEAN : PublishPhase(op, recovery)
  \/ \E op \in Operations, recovery \in BOOLEAN : CommitMirror(op, recovery)
  \/ Fold \/ Install \/ StartProcess

OwnerSpec == OwnerInit /\ [][OwnerNext]_ownerVars

-----------------------------------------------------------------------------
\* The journal is a checkpoint of this root with a bounded tail.
OwnerTypeOK ==
  /\ image.checkpoint.generation \in 1..MaxGeneration
  /\ Len(image.tail) <= TailCountLimit
  /\ clock.safe_time \in Times
  /\ process \in Processes \ stopped
  /\ newest \in 0..HoldLimit

\* Reopening loses nothing: whatever mix of appends, folds and superseded
\* results made the image, its decoder accepts it and replays its tail to
\* exactly the projection the owner last acted on.
ReopensAsLeft == replay_tail(image) = projection

\* Once a newer hold is durable the completion of an older one is never
\* disclosed again: not after the newer one clears, not after a fold.
CompletionIsOfNewestHold ==
  \A g \in 1..HoldLimit, o \in Observations :
    addressed_completion(projection, "ack", Hold(g, o), process) => g = newest

\* Reopening the control journal loses nothing: the image is a checkpoint of
\* this root with a bounded tail; whatever mix of appends, folds and superseded
\* results made it, its decoder accepts it and replays the tail to exactly the
\* projection the owner last acted on; and once a newer hold is durable the
\* completion of an older one is never disclosed again.
JournalReopens == OwnerTypeOK /\ ReopensAsLeft /\ CompletionIsOfNewestHold

\* A hold goes away only by a record that settles that hold, and a pending
\* acknowledgement of it is completed by the same record, with the safe time
\* at its target and no mirror left owing.
ClearedBySettling(before, after) ==
  LET ack == before.cells["ack"].current
  IN before.clock.hold # Absent /\ after.clock.hold = Absent =>
       /\ after.covered_head.sequence = before.covered_head.sequence + 1
       /\ ack # Absent /\ ack.address = before.clock.hold =>
            /\ after.cells["ack"].current = Absent
            /\ after.cells["ack"].last.address = before.clock.hold
            /\ after.cells["ack"].last.mirror.state # "Pending"
            /\ ack.mirror.state = "Pending" =>
                 after.cells["ack"].last.mirror.state = "Committed"
            /\ after.clock.safe_time >= ack.target_safe_time

\* An obligation (a request that is not terminal, or one whose mirror is owed)
\* survives folds, hold entries, installs and restarts unchanged, moves only
\* forward, and leaves only by a record of the journal.
ObligationsKept(before, after) ==
  \A op \in Operations :
    LET was == before.cells[op].current
        is == after.cells[op].current
        recorded == after.covered_head.sequence = before.covered_head.sequence + 1
    IN was # Absent =>
         \/ /\ is # Absent
            /\ is.address = was.address
            /\ is.mirror = was.mirror
            /\ is.phase >= was.phase
            /\ is.phase # was.phase => recorded
         \/ is = Absent /\ recorded

\* A shutdown is never reported graceful for a process that did not report it
\* itself: once a process is gone, its request can only end ungracefully.
EndsUngracefully(before, after, gone) ==
  LET was == before.cells["shutdown"].current
  IN /\ was # Absent /\ was.address \in gone /\ was.phase < 3
     /\ after.cells["shutdown"].current # was
     => \A v \in Present(after, "shutdown") : v.address = was.address => v.phase = 4

\* What one record of the control journal may not do: lower the safe-time
\* high-water, on whichever path raised it last (checkpoint, hold entry or the
\* second phase of an acknowledgement); clear a hold it does not settle, or settle
\* it and leave its pending acknowledgement or mirror owing; change, take back or
\* drop an obligation; report a shutdown graceful for a process that is gone.
RecordKeeps(before, after, gone) ==
  /\ after.clock.safe_time >= before.clock.safe_time
  /\ ClearedBySettling(before, after)
  /\ ObligationsKept(before, after)
  /\ EndsUngracefully(before, after, gone)

JournalSteps == [][RecordKeeps(projection, projection', stopped)]_ownerVars

-----------------------------------------------------------------------------
\* Inductive invariant.  Every update of a checkpoint and of its cells finds the
\* members it names; what the journal replays to has passed the decoder's
\* validation; the hold that is set and the one whose acknowledgement is complete
\* are the newest one entered.
ValueShape(op, value) ==
  /\ DOMAIN value = {"address", "phase", "reason", "prior_fixed_safe_time", "target_safe_time",
                     "selected", "mirror", "application", "publication"}
  /\ DOMAIN value.mirror = {"state", "origin", "pre", "post"}
  /\ value.phase \in Nat
  /\ op = "ack" => value.target_safe_time \in Times

CellsShape(cells) ==
  /\ DOMAIN cells = Operations
  /\ \A op \in Operations :
       /\ DOMAIN cells[op] = {"current", "last"}
       /\ cells[op].current # Absent => ValueShape(op, cells[op].current)
       /\ cells[op].last # Absent => ValueShape(op, cells[op].last)

ProjectionShape(checkpoint) ==
  /\ CheckpointShape(checkpoint)
  /\ CellsShape(checkpoint.cells)
  /\ checkpoint.clock.safe_time \in Times

NewestHold(checkpoint, hold) ==
  LET last == checkpoint.cells["ack"].last IN
  /\ checkpoint.clock.hold # Absent => checkpoint.clock.hold.generation = hold
  /\ last # Absent => last.address.generation = hold

OwnerInv ==
  /\ OwnerTypeOK /\ ReopensAsLeft
  /\ ImageShape(image) /\ image.checkpoint.generation = projection.generation
  /\ ProjectionShape(projection) /\ validate_checkpoint(projection)
  /\ NewestHold(projection, newest)

-----------------------------------------------------------------------------
\* Violation: "Acknowledgement failure leaves the prior phase recoverable".
\* A pending acknowledgement has some record that moves it on.
AckRecoverable ==
  projection.cells["ack"].current # Absent =>
    \/ \E phase \in 2..3 :
         append_addressed_action(image, projection, PhaseRecord("ack", phase, 0), process, FALSE) # Invalid
    \/ \E post \in SelectedHeads :
         append_addressed_action(image, projection,
           [kind |-> "ack", action |-> "commit", post |-> post], process, FALSE) # Invalid
=============================================================================

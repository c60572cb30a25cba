----------------------------- MODULE JournalImage -----------------------------
(***************************************************************************)
(* The complete control-journal image of a fixed root, as a value: one     *)
(* header, one checkpoint and a bounded tail of records that chain from    *)
(* the checkpoint's covered head.  Replaying the tail over the checkpoint  *)
(* gives the projection the root is in; folding stores that projection as  *)
(* the next checkpoint.                                                    *)
(*                                                                         *)
(* The wire codecs are authenticated and canonical: an image on disk is    *)
(* either exactly one encoded value or is refused.  What is kept of them   *)
(* is which values they refuse.  Actors, grace budgets, ticks and runtime  *)
(* modes are data no decision here reads.  A tail of TailCountLimit frames *)
(* of the largest record stays under the byte limit of the tail, so only   *)
(* the count can fill it.                                                  *)
(***************************************************************************)
EXTENDS Integers, Sequences, FiniteSets, SequencesExt

CONSTANTS
  TailCountLimit,    \* records in a tail before it is folded
  CommandLimit,      \* ORDINARY_COMMAND_ENTRY_LIMIT
  RingLimit,         \* entries of the recovery ring
  Digest(_, _),      \* the digest of a record after a prior head
  Absent             \* an option that is None

ASSUME JournalConstants == {TailCountLimit, CommandLimit, RingLimit} \subseteq Nat

\* INVALID: a refusal, told from every checkpoint by its generation.
Invalid == [generation |-> 0]

MaxTime(a, b) == IF a > b THEN a ELSE b

-----------------------------------------------------------------------------
\* Heads and the chain.
Genesis == [sequence |-> 0, digest |-> <<>>]

NextHead(prior, record) ==
  [sequence |-> prior.sequence + 1, digest |-> Digest(prior, record)]

validate_head(head) == (head.sequence = 0) = (head.digest = <<>>)

-----------------------------------------------------------------------------
\* The clock authority: the safe-time high-water, the hold that stops every
\* attempt while it is set, and the last clean shutdown that was observed.
Hold(generation, observation) == [generation |-> generation, observation |-> observation]

clock_authority_projection(clock) ==
  clock.hold # Absent => clock.hold.generation > 0

addressed_hold_matches(clock, address) == clock.hold # Absent /\ clock.hold = address

\* A clock checkpoint: the new safe time is computed from the body, and a
\* hold is named exactly by an automatic settlement.
ClockBody(reason, wall, prior, hold, origin) ==
  [kind |-> "clock", reason |-> reason, wall |-> wall, prior_safe_time |-> prior,
   new_safe_time |-> MaxTime(prior, wall), hold |-> hold, pre_mirror |-> origin]

validate_body(body) ==
  /\ body.new_safe_time = MaxTime(body.prior_safe_time, body.wall)
  /\ (body.reason = "AutomaticSettlement") = (body.hold # Absent)

-----------------------------------------------------------------------------
\* The other members of a checkpoint.  A command is its sort key (operation,
\* actor and lookup tag), phase, retention and safe result.
Operations == {"ack", "shutdown"}

NoCells == [op \in Operations |-> [current |-> Absent, last |-> Absent]]

validate_manifest(ring) ==
  /\ Len(ring) <= RingLimit
  /\ \A i \in DOMAIN ring : ring[i].generation > 0
  /\ \A i, j \in DOMAIN ring : i < j => ring[i].generation < ring[j].generation
  /\ \A phase \in {"Active", "PendingEscrow"} :
       Cardinality({i \in DOMAIN ring : ring[i].phase = phase}) <= 1

command_projection_key(command) == command.key

\* A phase says whether the command continues (no retention) or is terminal; that
\* one has a result and expires after its terminal time.
command_projection(command) ==
  IF command.phase \in {1, 2}
  THEN command.retention = Absent
  ELSE /\ command.phase \in {3, 4}
       /\ command.retention # Absent
       /\ command.retention.expires_at > command.retention.terminal_time
       /\ command.safe_result # Absent

command_member(commands) ==
  /\ Len(commands) <= CommandLimit
  /\ \A i \in DOMAIN commands : command_projection(commands[i])
  /\ \A i, j \in DOMAIN commands :
       i < j => command_projection_key(commands[i]) < command_projection_key(commands[j])

-----------------------------------------------------------------------------
\* Addressed operations.  A cell value carries the address it is about (a hold
\* or a process), its phase, the mirror obligation towards the selected state,
\* and the heads of the records that produced and last published it.
NoMirror == [state |-> "NotApplicable", origin |-> 0, pre |-> 0, post |-> 0]
PendingMirror(origin, pre) == [state |-> "Pending", origin |-> origin, pre |-> pre, post |-> 0]

addressed_complete(value) == value.phase >= 3 /\ value.mirror.state # "Pending"

\* An acknowledgement carries the safe time it settles at; a shutdown the
\* reason it ended ungracefully, 0 for none.
AckValue(address, prior, selected, wall, mirror) ==
  [address |-> address, phase |-> 1, reason |-> 0,
   prior_fixed_safe_time |-> prior,
   target_safe_time |-> MaxTime(MaxTime(prior, wall), IF selected = Absent THEN prior ELSE selected),
   selected |-> selected, mirror |-> mirror, application |-> Genesis, publication |-> Genesis]

ShutdownValue(process, mirror) ==
  [address |-> process, phase |-> 1, reason |-> 0, prior_fixed_safe_time |-> 0,
   target_safe_time |-> 0, selected |-> Absent,
   mirror |-> mirror, application |-> Genesis, publication |-> Genesis]

\* Whether the mirror member agrees with the operation and its phase.
valid_mirror(op, value) ==
  /\ op = "ack" => (value.selected = Absent) = (value.mirror.state = "NotApplicable")
  /\ value.mirror.state # "NotApplicable" => value.mirror.origin > 0
  /\ value.mirror.state = "Committed" =>
       value.phase >= 3 /\ value.mirror.post > value.mirror.pre
  /\ value.mirror.state = "Pending" /\ op = "ack" => value.phase # 3

\* Only the receipt of a shutdown's mirror publishes a phase it did not produce.
valid_heads(op, value) ==
  /\ value.application.sequence > 0
  /\ IF op = "shutdown" /\ value.mirror.state = "Committed"
     THEN value.application.sequence < value.publication.sequence
     ELSE value.application = value.publication

validate_addressed_value(op, value) ==
  /\ IF op = "ack" THEN value.phase \in 1..3 /\ value.address.generation > 0
                   ELSE value.phase \in 1..4 /\ (value.phase = 4) = (value.reason \in 1..4)
  /\ valid_mirror(op, value)
  /\ valid_heads(op, value)

Present(checkpoint, op) ==
  {v \in {checkpoint.cells[op].current, checkpoint.cells[op].last} : v # Absent}

Sequences(value) == {value.application.sequence, value.publication.sequence}

\* What an acknowledgement cell and the clock authority say of each other.
ack_agrees(checkpoint, value, current) ==
  LET clock == checkpoint.clock IN
  /\ value.phase >= 2 => clock.safe_time >= value.target_safe_time
  /\ clock.hold # Absent =>
       /\ value.address.generation <= clock.hold.generation
       /\ ~current \/ value.address.generation = clock.hold.generation
            => addressed_hold_matches(clock, value.address)

validate_addressed_cells(checkpoint) ==
  /\ \A op \in Operations :
       LET cell == checkpoint.cells[op] IN
       /\ cell.current = Absent \/ cell.last = Absent
       /\ cell.current # Absent => ~addressed_complete(cell.current)
       /\ cell.last # Absent => addressed_complete(cell.last)
       /\ \A v \in Present(checkpoint, op) :
            /\ validate_addressed_value(op, v)
            /\ \A head \in {v.application, v.publication} :
                 /\ head.sequence <= checkpoint.covered_head.sequence
                 /\ head.sequence = checkpoint.covered_head.sequence
                      => head = checkpoint.covered_head
  /\ \A a \in Present(checkpoint, "ack"), s \in Present(checkpoint, "shutdown") :
       Sequences(a) \cap Sequences(s) = {}
  /\ \A v \in Present(checkpoint, "ack") :
       ack_agrees(checkpoint, v, v = checkpoint.cells["ack"].current)

validate_checkpoint(checkpoint) ==
  /\ checkpoint.generation > 0
  /\ validate_head(checkpoint.covered_head)
  /\ clock_authority_projection(checkpoint.clock)
  /\ validate_addressed_cells(checkpoint)
  /\ validate_manifest(checkpoint.ring)
  /\ command_member(checkpoint.commands)

\* The first checkpoint: nothing but the safe time it was made at.
GenesisCheckpoint(time) ==
  [generation |-> 1, covered_head |-> Genesis,
   clock |-> [safe_time |-> time, hold |-> Absent, last_shutdown |-> Absent],
   pointer |-> Absent, ring |-> <<>>, commands |-> <<>>, cells |-> NoCells]

\* Origins a checkpoint names were allocated by this root, and generation one
\* is the initialized checkpoint and nothing else.
validate_image_bindings(image) ==
  LET checkpoint == image.checkpoint
      mirrored == {v \in Present(checkpoint, "ack") \cup Present(checkpoint, "shutdown") :
                     v.mirror.state # "NotApplicable"}
  IN /\ checkpoint.pointer # Absent => checkpoint.pointer \in 1..image.high_water
     /\ \A v \in mirrored : v.mirror.origin \in 1..image.high_water
     /\ checkpoint.generation = 1 =>
          /\ checkpoint.covered_head.sequence = 0
          /\ checkpoint.clock.hold = Absent
          /\ checkpoint.clock.last_shutdown = Absent
          /\ checkpoint.pointer = Absent
          /\ checkpoint.ring = <<>>

-----------------------------------------------------------------------------
\* Records of the tail, replayed over a checkpoint.
clock_legal(checkpoint, body) ==
  /\ validate_body(body)
  /\ body.prior_safe_time = checkpoint.clock.safe_time
  /\ body.hold = checkpoint.clock.hold
  /\ body.pre_mirror # Absent => body.pre_mirror = checkpoint.pointer

replay_clock(checkpoint, body) ==
  [checkpoint EXCEPT
     !.clock.safe_time = body.new_safe_time,
     !.clock.hold = IF body.reason = "AutomaticSettlement" THEN Absent ELSE @,
     !.clock.last_shutdown = IF body.reason = "CleanShutdown" THEN body.wall ELSE @]

\* Mutant: a settlement leaves the acknowledgement of its hold pending.
leave_acknowledge(checkpoint, body, head) == replay_clock(checkpoint, body)

\* A settlement finalizes the acknowledgement of the hold it clears, and is
\* refused while that one still owes a mirror or has not raised the safe time.
replay_clock_at(checkpoint, body, head) ==
  LET value == checkpoint.cells["ack"].current
      next == replay_clock(checkpoint, body)
      settled == [value EXCEPT !.phase = 3, !.application = head, !.publication = head]
  IN IF body.reason # "AutomaticSettlement" \/ value = Absent
     THEN next
     ELSE IF ~addressed_hold_matches(checkpoint.clock, value.address) THEN next
     ELSE IF \/ value.mirror.state # "NotApplicable"
             \/ value.phase # 2
             \/ next.clock.safe_time < value.target_safe_time
          THEN Invalid
     ELSE [next EXCEPT !.cells["ack"] = [current |-> Absent, last |-> settled]]

\* Mutant: a late completion is kept and clears whatever hold is set.
complete_any_hold(checkpoint, value) ==
  [checkpoint EXCEPT !.clock.hold = Absent,
                     !.cells["ack"] = [current |-> Absent, last |-> value]]

\* Only the exact hold is cleared; the completion of an older one is dropped.
complete_acknowledge(checkpoint, value) ==
  IF addressed_hold_matches(checkpoint.clock, value.address)
  THEN [checkpoint EXCEPT !.clock.hold = Absent,
                          !.cells["ack"] = [current |-> Absent, last |-> value]]
  ELSE [checkpoint EXCEPT !.cells["ack"].current = Absent]

Settle(checkpoint, op, value) ==
  IF ~addressed_complete(value)
  THEN [checkpoint EXCEPT !.cells[op].current = value]
  ELSE IF op = "ack" THEN complete_acknowledge(checkpoint, value)
  ELSE [checkpoint EXCEPT !.cells[op] = [current |-> Absent, last |-> value]]

Validated(checkpoint, op, value) ==
  IF validate_addressed_value(op, value) THEN Settle(checkpoint, op, value) ELSE Invalid

request_legal(checkpoint, op, value) ==
  LET cell == checkpoint.cells[op] IN
  /\ cell.current = Absent
  /\ IF checkpoint.pointer = Absent
     THEN value.mirror.state = "NotApplicable"
     ELSE value.mirror.state = "Pending" /\ value.mirror.origin = checkpoint.pointer
  /\ op = "ack" =>
       /\ addressed_hold_matches(checkpoint.clock, value.address)
       /\ value.prior_fixed_safe_time = checkpoint.clock.safe_time
  /\ cell.last # Absent => cell.last.address # value.address

\* A request of a new process makes the completion of the last one ineligible.
publish_request(checkpoint, op, value, head) ==
  LET installed == [value EXCEPT !.application = head, !.publication = head]
      cleared == IF op = "shutdown"
                 THEN [checkpoint EXCEPT !.cells[op].last = Absent] ELSE checkpoint
  IN IF request_legal(checkpoint, op, value) THEN Validated(cleared, op, installed) ELSE Invalid

\* Mutant: an acknowledgement may lower the safe time to its target.
phase_unguarded(checkpoint, op, value, phase) ==
  /\ value.mirror.state # "Committed"
  /\ IF op = "ack"
     THEN \/ value.phase = 1 /\ phase = 2 /\ addressed_hold_matches(checkpoint.clock, value.address)
          \/ value.phase = 2 /\ phase = 3 /\ value.mirror.state = "NotApplicable"
     ELSE <<value.phase, phase>> \in {<<1, 2>>, <<1, 4>>, <<2, 3>>, <<2, 4>>}

phase_legal(checkpoint, op, value, phase) ==
  /\ value.mirror.state # "Committed"
  /\ IF op = "ack"
     THEN \/ /\ value.phase = 1 /\ phase = 2
             /\ addressed_hold_matches(checkpoint.clock, value.address)
             /\ value.target_safe_time >= checkpoint.clock.safe_time
          \/ value.phase = 2 /\ phase = 3 /\ value.mirror.state = "NotApplicable"
     ELSE <<value.phase, phase>> \in {<<1, 2>>, <<1, 4>>, <<2, 3>>, <<2, 4>>}

\* The second phase of an acknowledgement raises the safe time, hold retained.
publish_phase(checkpoint, op, phase, reason, head) ==
  LET value == checkpoint.cells[op].current
      moved == [value EXCEPT !.phase = phase, !.reason = reason,
                             !.application = head, !.publication = head]
      raised == IF op = "ack" /\ phase = 2
                THEN [checkpoint EXCEPT !.clock.safe_time = value.target_safe_time]
                ELSE checkpoint
  IN IF value = Absent THEN Invalid
     ELSE IF phase_legal(checkpoint, op, value, phase)
     THEN Validated(raised, op, moved) ELSE Invalid

\* The receipt of the selected state: it completes an acknowledgement, and is
\* only recorded beside the terminal phase of a shutdown.
commit_mirror(checkpoint, op, post, head) ==
  LET value == checkpoint.cells[op].current
      received == [value EXCEPT !.mirror.state = "Committed", !.mirror.post = post,
                                !.publication = head]
      completed == IF op = "ack"
                   THEN [received EXCEPT !.phase = 3, !.application = head] ELSE received
  IN IF value = Absent THEN Invalid
     ELSE IF /\ value.mirror.state = "Pending"
             /\ IF op = "ack" THEN value.phase = 2 ELSE value.phase \in {3, 4}
             /\ post > value.mirror.pre
     THEN Validated(checkpoint, op, completed) ELSE Invalid

replay_addressed(checkpoint, record, head) ==
  CASE record.action = "request" -> publish_request(checkpoint, record.kind, record.value, head)
    [] record.action = "phase" ->
         publish_phase(checkpoint, record.kind, record.phase, record.reason, head)
    [] record.action = "commit" -> commit_mirror(checkpoint, record.kind, record.post, head)

Replayed(checkpoint, record) ==
  LET head == NextHead(checkpoint.covered_head, record)
      next == IF record.kind # "clock" THEN replay_addressed(checkpoint, record, head)
              ELSE IF clock_legal(checkpoint, record)
              THEN replay_clock_at(checkpoint, record, head) ELSE Invalid
  IN IF next = Invalid THEN Invalid ELSE [next EXCEPT !.covered_head = head]

Checked(checkpoint) ==
  IF checkpoint # Invalid /\ validate_checkpoint(checkpoint) THEN checkpoint ELSE Invalid

\* Each frame is replayed over the last one's checkpoint and checked.  (The
\* singletons have TLC compute each checkpoint once.)
ReplayRecord(checkpoint, record) ==
  CHOOSE after \in {Checked(next) : next \in
    {IF prior = Invalid THEN Invalid ELSE Replayed(prior, record) : prior \in {checkpoint}}} : TRUE

Replay(checkpoint, tail) ==
  LET after[i \in 0..Len(tail)] ==
        IF i = 0 THEN checkpoint ELSE ReplayRecord(after[i - 1], tail[i])
  IN after[Len(tail)]

\* The projection an image is in, or Invalid: what decoding, every append and
\* every publication begin with.
replay_tail(image) ==
  IF /\ validate_image_bindings(image)
     /\ validate_checkpoint(image.checkpoint)
     /\ Len(image.tail) <= TailCountLimit
  THEN Replay(image.checkpoint, image.tail)
  ELSE Invalid

-----------------------------------------------------------------------------
\* The operations on an image.  Each starts from its projection and returns the
\* next image with its projection, or Invalid.
Image(high_water, checkpoint, tail) ==
  [high_water |-> high_water, checkpoint |-> checkpoint, tail |-> tail]

encode_control_journal_image(image, projection) ==
  IF validate_image_bindings(image) /\ validate_checkpoint(projection)
  THEN [image |-> image, projection |-> projection] ELSE Invalid

Checkpointed(high_water, checkpoint) ==
  LET next == [checkpoint EXCEPT !.generation = @ + 1]
  IN encode_control_journal_image(Image(high_water, next, <<>>), next)

fold_control_journal_image(image, projection) == Checkpointed(image.high_water, projection)

\* Mutant: a full tail is folded without the record that did not fit.
fold_before_append(image, projection, record, next) ==
  IF Len(image.tail) = TailCountLimit
  THEN [image |-> Image(image.high_water, [projection EXCEPT !.generation = @ + 1], <<>>),
        projection |-> [next EXCEPT !.generation = @ + 1]]
  ELSE encode_control_journal_image([image EXCEPT !.tail = Append(@, record)], next)

\* Mutant: the tail is never folded.
append_past_limit(image, projection, record, next) ==
  encode_control_journal_image([image EXCEPT !.tail = Append(@, record)], next)

\* A full tail is folded together with the record that does not fit.
Appended(image, projection, record, next) ==
  IF Len(image.tail) = TailCountLimit
  THEN Checkpointed(image.high_water, next)
  ELSE encode_control_journal_image([image EXCEPT !.tail = Append(@, record)], next)

append_clock_checkpoint(image, projection, body) ==
  LET next == ReplayRecord(projection, body) IN
  IF next = Invalid THEN Invalid ELSE Appended(image, projection, body, next)

\* Mutant: any process may publish the phases of a shutdown.
any_process_phase(projection, record, process, recovery) ==
  record.action = "request" => record.value.address = process

\* Who may publish a shutdown: its own process, or recovery, which may only
\* end it ungracefully; and only recovery ends a request that was never begun.
shutdown_authorized(projection, record, process, recovery) ==
  LET value == IF record.action = "request" THEN record.value
               ELSE projection.cells["shutdown"].current
      active == value.address = process
  IN /\ value # Absent
     /\ CASE record.action = "request" -> active
          [] record.action = "phase" ->
               /\ active \/ (recovery /\ record.phase = 4)
               /\ value.phase = 1 /\ record.phase = 4 => recovery
          [] record.action = "commit" -> active \/ recovery

\* The record that completes the shutdown of a process that is no longer
\* current folds at once, and its result is dropped.
append_addressed_action(image, projection, record, process, recovery) ==
  LET next == ReplayRecord(projection, record)
      last == next.cells["shutdown"].last
      superseded == record.kind = "shutdown" /\ last # Absent /\ last.address # process
  IN IF record.kind = "shutdown" /\ ~shutdown_authorized(projection, record, process, recovery)
     THEN Invalid
     ELSE IF next = Invalid THEN Invalid
     ELSE IF superseded
     THEN Checkpointed(image.high_water, [next EXCEPT !.cells["shutdown"].last = Absent])
     ELSE Appended(image, projection, record, next)

\* A hold may only be entered, kept, or replaced by a newer one here.
\* Clearing it needs the settlement publication and its barrier.
authority_advances(prior, clock) ==
  /\ clock.safe_time >= prior.safe_time
  /\ prior.hold # Absent =>
       /\ clock.hold # Absent
       /\ clock.hold.generation >= prior.hold.generation
       /\ clock.hold.generation = prior.hold.generation => clock.hold = prior.hold

stale_acknowledge(clock, last) == last # Absent /\ clock.hold # Absent /\ clock.hold # last.address

\* Mutant: entering a hold drops the acknowledgement that is still pending.
authority_drops_pending(image, projection, clock, process) ==
  IF ~authority_advances(projection.clock, clock) THEN Invalid
  ELSE Checkpointed(image.high_water, [projection EXCEPT !.clock = clock, !.cells = NoCells])

\* Full-image hold entry and startup publication.
publish_addressed_authority(image, projection, clock, process) ==
  LET ack == projection.cells["ack"].last
      shutdown == projection.cells["shutdown"].last
      stale == stale_acknowledge(clock, ack)
  IN IF \/ ~authority_advances(projection.clock, clock)
        \/ stale /\ clock.hold.generation <= ack.address.generation
     THEN Invalid
     ELSE Checkpointed(image.high_water,
            [projection EXCEPT
               !.clock = clock,
               !.cells["ack"].last = IF stale THEN Absent ELSE @,
               !.cells["shutdown"].last =
                  IF shutdown # Absent /\ shutdown.address # process THEN Absent ELSE @])

\* A completed result is disclosed for its own address only, and only while
\* that address is the newest one.
addressed_completion(checkpoint, op, address, process) ==
  LET last == checkpoint.cells[op].last
      eligible == IF op = "ack"
                  THEN \/ checkpoint.clock.hold = Absent
                       \/ addressed_hold_matches(checkpoint.clock, address)
                  ELSE address = process
  IN /\ eligible
     /\ last # Absent
     /\ last.address = address
     /\ addressed_complete(last)

-----------------------------------------------------------------------------
\* The members of an image and of a checkpoint, as far as comparisons and updates
\* rely on them.
ImageShape(image) ==
  /\ DOMAIN image = {"high_water", "checkpoint", "tail"}
  /\ image.tail \in Seq(Range(image.tail))

CheckpointShape(checkpoint) ==
  /\ DOMAIN checkpoint =
       {"generation", "covered_head", "clock", "pointer", "ring", "commands", "cells"}
  /\ DOMAIN checkpoint.clock = {"safe_time", "hold", "last_shutdown"}
  /\ checkpoint.generation \in Nat
  /\ checkpoint.covered_head.sequence \in Nat
  /\ checkpoint.clock.safe_time \in Int
=============================================================================

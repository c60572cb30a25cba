---------------------------- MODULE JournalProofs ----------------------------
(***************************************************************************)
(* Proofs about what outlives its process: the control journal of one root *)
(* for any limits and digest, what one record makes of a checkpoint and    *)
(* what the steps of its owner keep; then the snapshot that the workers of *)
(* the reference loop share.                                               *)
(***************************************************************************)
EXTENDS ControlJournal, ReferenceLoop, ImageProofs, SequenceTheorems, TLAPS

\* What one record makes of a checkpoint: the properties of a step, the shape it keeps,
\* and that only the hold it finds can go or be completed.
Outcome(before, after) ==
  /\ ProjectionShape(after) /\ after.generation = before.generation
  /\ after.clock.safe_time >= before.clock.safe_time
  /\ ClearedBySettling(before, after)
  /\ ObligationsKept(before, after)
  /\ after.clock.hold \in {before.clock.hold, Absent}
  /\ LET last == after.cells["ack"].last
     IN \/ last \in {Absent, before.cells["ack"].last}
        \/ before.clock.hold # Absent /\ last.address = before.clock.hold

\* Then the hold that is set and the one that is complete stay the newest.
LEMMA OutcomeIsNewest ==
  ASSUME NEW before, NEW after, NEW hold, NewestHold(before, hold), Outcome(before, after)
  PROVE  NewestHold(after, hold)
  BY DEF NewestHold, Outcome

\* Settle: the record's value takes the cell, or completes it.
LEMMA Settled ==
  ASSUME NEW base, ProjectionShape(base), NEW op \in Operations, NEW value, ValueShape(op, value)
  PROVE  LET next == Settle(base, op, value)
             cell == next.cells[op]
         IN /\ ProjectionShape(next) /\ next.generation = base.generation
            /\ next.covered_head = base.covered_head
            /\ next.clock.safe_time = base.clock.safe_time
            /\ \A other \in Operations : other # op => next.cells[other] = base.cells[other]
            /\ \/ /\ ~addressed_complete(value) /\ next.clock = base.clock
                  /\ cell.current = value /\ cell.last = base.cells[op].last
               \/ /\ addressed_complete(value) /\ cell.current = Absent /\ cell.last = value
                  /\ IF op = "ack"
                     THEN base.clock.hold # Absent /\ base.clock.hold = value.address /\ next.clock.hold = Absent
                     ELSE next.clock = base.clock
               \/ /\ addressed_complete(value) /\ op = "ack" /\ next.clock = base.clock
                  /\ ~(base.clock.hold # Absent /\ base.clock.hold = value.address)
                  /\ cell.current = Absent /\ cell.last = base.cells[op].last
  <1> DEFINE next == Settle(base, op, value)
             done == [current |-> Absent, last |-> value]
  <1>1. /\ CheckpointShape(base) /\ CellsShape(base.cells) /\ base.clock.safe_time \in Times
        /\ DOMAIN base.cells = Operations /\ DOMAIN base.cells[op] = {"current", "last"}
    BY DEF ProjectionShape, CellsShape
  <1>2. DOMAIN done = {"current", "last"} /\ done.current = Absent /\ done.last = value
    OBVIOUS
  <1> HIDE DEF done
  <1>3. CASE ~addressed_complete(value)
    <2> DEFINE cell == [base.cells[op] EXCEPT !.current = value]
               cells == [base.cells EXCEPT ![op] = cell]
    <2>1. next = [base EXCEPT !.cells = cells]
      BY <1>3 DEF Settle
    <2>2. DOMAIN cell = {"current", "last"} /\ cell.current = value /\ cell.last = base.cells[op].last
      BY <1>1
    <2> HIDE DEF cell
    <2>3. DOMAIN cells = Operations /\ cells[op] = cell /\ \A other \in Operations : other # op => cells[other] = base.cells[other]
      BY <1>1
    <2> HIDE DEF cells
    <2>4. CellsShape(cells)
      BY <1>1, <2>2, <2>3 DEF CellsShape
    <2>5. /\ CheckpointShape(next) /\ next.cells = cells /\ next.clock = base.clock
          /\ next.generation = base.generation /\ next.covered_head = base.covered_head
      BY <1>1, <2>1 DEF CheckpointShape
    <2> HIDE DEF next
    <2>6. ProjectionShape(next)
      BY <1>1, <2>4, <2>5 DEF ProjectionShape
    <2>7. QED BY <1>3, <2>2, <2>3, <2>5, <2>6 DEF next
  <1>4. CASE addressed_complete(value) /\ (op = "ack" => addressed_hold_matches(base.clock, value.address))
    <2> DEFINE cells == [base.cells EXCEPT ![op] = done]
               clk == IF op = "ack" THEN [base.clock EXCEPT !.hold = Absent] ELSE base.clock
    <2>1. next = [base EXCEPT !.clock = clk, !.cells = cells]
      <3>1. CASE op = "ack"
        BY <1>1, <1>4, <3>1 DEF Settle, complete_acknowledge, done, CheckpointShape
      <3>2. CASE op # "ack"
        <4>1. next = [base EXCEPT !.cells = cells]
          BY <1>4, <3>2 DEF Settle, done
        <4>2. clk = base.clock
          BY <3>2
        <4> HIDE DEF cells, next, clk
        <4>3. QED BY <1>1, <4>1, <4>2 DEF CheckpointShape
      <3>3. QED BY <3>1, <3>2
    <2>2. /\ DOMAIN clk = {"safe_time", "hold", "last_shutdown"} /\ clk.safe_time = base.clock.safe_time
          /\ IF op = "ack" THEN clk.hold = Absent ELSE clk = base.clock
      BY <1>1 DEF CheckpointShape
    <2>3. DOMAIN cells = Operations /\ cells[op] = done /\ \A other \in Operations : other # op => cells[other] = base.cells[other]
      BY <1>1
    <2> HIDE DEF cells, clk
    <2>4. CellsShape(cells)
      BY <1>1, <1>2, <2>3 DEF CellsShape
    <2>5. /\ CheckpointShape(next) /\ next.cells = cells /\ next.clock = clk
          /\ next.generation = base.generation /\ next.covered_head = base.covered_head
      BY <1>1, <2>1, <2>2 DEF CheckpointShape
    <2> HIDE DEF next
    <2>6. ProjectionShape(next)
      BY <1>1, <2>2, <2>4, <2>5 DEF ProjectionShape
    <2>7. QED BY <1>2, <1>4, <2>2, <2>3, <2>5, <2>6 DEF next, addressed_hold_matches
  <1>5. CASE addressed_complete(value) /\ op = "ack" /\ ~addressed_hold_matches(base.clock, value.address)
    <2> DEFINE cell == [base.cells[op] EXCEPT !.current = Absent]
               cells == [base.cells EXCEPT ![op] = cell]
    <2>1. next = [base EXCEPT !.cells = cells]
      BY <1>5 DEF Settle, complete_acknowledge
    <2>2. DOMAIN cell = {"current", "last"} /\ cell.current = Absent /\ cell.last = base.cells[op].last
      BY <1>1
    <2> HIDE DEF cell
    <2>3. DOMAIN cells = Operations /\ cells[op] = cell /\ \A other \in Operations : other # op => cells[other] = base.cells[other]
      BY <1>1
    <2> HIDE DEF cells
    <2>4. CellsShape(cells)
      BY <1>1, <2>2, <2>3 DEF CellsShape
    <2>5. /\ CheckpointShape(next) /\ next.cells = cells /\ next.clock = base.clock
          /\ next.generation = base.generation /\ next.covered_head = base.covered_head
      BY <1>1, <2>1 DEF CheckpointShape
    <2> HIDE DEF next
    <2>6. ProjectionShape(next)
      BY <1>1, <2>4, <2>5 DEF ProjectionShape
    <2>7. QED BY <1>5, <2>2, <2>3, <2>5, <2>6 DEF next, addressed_hold_matches
  <1>6. QED BY <1>3, <1>4, <1>5

\* The record that was replayed is the next of the chain; the rest is as it made it.
LEMMA Recorded ==
  ASSUME NEW before, ProjectionShape(before), NEW next, ProjectionShape(next), NEW head,
         head.sequence = before.covered_head.sequence + 1
  PROVE  LET after == [next EXCEPT !.covered_head = head]
         IN /\ ProjectionShape(after) /\ after.generation = next.generation /\ after.clock = next.clock
            /\ after.cells = next.cells
            /\ after.covered_head.sequence = before.covered_head.sequence + 1
  <1> DEFINE after == [next EXCEPT !.covered_head = head]
  <1>1. CheckpointShape(next) /\ CheckpointShape(before) /\ CellsShape(next.cells) /\ next.clock.safe_time \in Times
    BY DEF ProjectionShape
  <1>2. /\ after.generation = next.generation /\ after.clock = next.clock /\ after.cells = next.cells
        /\ after.covered_head = head /\ DOMAIN after = DOMAIN next
    BY <1>1 DEF CheckpointShape
  <1> HIDE DEF after
  <1>3. CheckpointShape(after)
    BY <1>1, <1>2 DEF CheckpointShape
  <1>4. ProjectionShape(after)
    BY <1>1, <1>2, <1>3 DEF ProjectionShape
  <1>5. QED BY <1>2, <1>4 DEF after

\* A shutdown cell that did not change ended nothing.
LEMMA ShutdownStays ==
  ASSUME NEW before, NEW after, NEW gone, after.cells["shutdown"] = before.cells["shutdown"]
  PROVE  EndsUngracefully(before, after, gone)
  BY DEF EndsUngracefully

\* A clock record: at most the hold it names goes, with its acknowledgement.
LEMMA ClockOutcome ==
  ASSUME NEW before, ProjectionShape(before), NEW reason, NEW wall \in Times, NEW hold, NEW origin,
         NEW body, body = ClockBody(reason, wall, before.clock.safe_time, hold, origin),
         ReplayRecord(before, body) # Invalid, NEW gone
  PROVE  /\ Outcome(before, ReplayRecord(before, body))
         /\ EndsUngracefully(before, ReplayRecord(before, body), gone)
  <1> DEFINE head == NextHead(before.covered_head, body)
             value == before.cells["ack"].current
             plain == replay_clock(before, body)
             next == replay_clock_at(before, body, head)
             after == [next EXCEPT !.covered_head = head]
  <1>1. /\ CheckpointShape(before) /\ CellsShape(before.cells) /\ before.clock.safe_time \in Times
        /\ before.clock.safe_time \in Int /\ wall \in Int
    BY OwnerConstants DEF ProjectionShape
  <1>2. /\ body.kind = "clock" /\ body.reason = reason /\ body.hold = hold
        /\ body.new_safe_time \in Times /\ body.new_safe_time >= before.clock.safe_time
    BY <1>1 DEF ClockBody, MaxTime
  <1>3. /\ ReplayRecord(before, body) = after /\ next # Invalid
        /\ clock_legal(before, body)
    <2>1. Replayed(before, body) # Invalid /\ ReplayRecord(before, body) = Replayed(before, body)
      BY ReplayedAndChecked
    <2>2. QED BY <1>2, <2>1 DEF Replayed
  <1>4. head.sequence = before.covered_head.sequence + 1
    BY DEF NextHead
  <1> HIDE DEF head
  <1> DEFINE clk == plain.clock
  <1>5. /\ ProjectionShape(plain) /\ plain.generation = before.generation /\ plain.cells = before.cells
        /\ clk.safe_time = body.new_safe_time
        /\ clk.hold = IF reason = "AutomaticSettlement" THEN Absent ELSE before.clock.hold
    <2>1. /\ DOMAIN plain = DOMAIN before /\ DOMAIN clk = DOMAIN before.clock
          /\ plain.generation = before.generation /\ plain.cells = before.cells
          /\ plain.covered_head = before.covered_head
          /\ clk.safe_time = body.new_safe_time
          /\ clk.hold = IF reason = "AutomaticSettlement" THEN Absent ELSE before.clock.hold
      BY <1>1, <1>2 DEF replay_clock, CheckpointShape
    <2> HIDE DEF plain
    <2>2. CheckpointShape(plain)
      BY <1>1, <1>2, <2>1, OwnerConstants DEF CheckpointShape
    <2>3. QED BY <1>1, <1>2, <2>1, <2>2 DEF ProjectionShape
  <1> HIDE DEF plain
  <1> DEFINE settled == [value EXCEPT !.phase = 3, !.application = head, !.publication = head]
             done == [current |-> Absent, last |-> settled]
             mine == value # Absent /\ before.clock.hold # Absent /\ before.clock.hold = value.address
  <1>6. CASE reason # "AutomaticSettlement" \/ ~mine
    <2>1. next = plain
      BY <1>2, <1>6 DEF replay_clock_at, addressed_hold_matches, plain
    <2> HIDE DEF next
    <2>2. /\ ProjectionShape(after) /\ after.generation = plain.generation /\ after.clock = plain.clock
          /\ after.cells = plain.cells /\ after.covered_head.sequence = before.covered_head.sequence + 1
      BY <1>4, <1>5, <2>1, Recorded
    <2> HIDE DEF after, clk
    <2>3. ClearedBySettling(before, after)
      BY <1>5, <1>6, <2>2 DEF ClearedBySettling, clk
    <2>4. ObligationsKept(before, after)
      <3>1. ASSUME NEW op \in Operations, before.cells[op].current # Absent
            PROVE  before.cells[op].current.phase >= before.cells[op].current.phase
        BY <1>1, <3>1 DEF CellsShape, ValueShape
      <3>2. QED BY <1>5, <2>2, <3>1 DEF ObligationsKept
    <2>5. Outcome(before, after)
      BY <1>2, <1>5, <2>2, <2>3, <2>4 DEF Outcome, clk
    <2>6. QED BY <1>3, <1>5, <2>2, <2>5, ShutdownStays
  <1>7. CASE reason = "AutomaticSettlement" /\ mine
    <2> DEFINE cells == [before.cells EXCEPT !["ack"] = done]
    <2>1. /\ next = [plain EXCEPT !.cells["ack"] = done] /\ value.mirror.state = "NotApplicable"
          /\ plain.clock.safe_time >= value.target_safe_time
      <3>1. /\ value.mirror.state = "NotApplicable" /\ value.phase = 2
            /\ ~(plain.clock.safe_time < value.target_safe_time)
            /\ next = [plain EXCEPT !.cells["ack"] = done]
        BY <1>2, <1>3, <1>7 DEF replay_clock_at, addressed_hold_matches, plain
      <3>2. value.target_safe_time \in Int /\ plain.clock.safe_time \in Int
        BY <1>1, <1>2, <1>5, <1>7, OwnerConstants DEF CellsShape, ValueShape, Operations
      <3> HIDE DEF next, value
      <3>3. QED BY <3>1, <3>2
    <2>2. next = [plain EXCEPT !.cells = cells]
      BY <1>5, <2>1
    <2> HIDE DEF next
    <2>3. ValueShape("ack", value) /\ DOMAIN before.cells = Operations
      BY <1>1, <1>7 DEF CellsShape, Operations
    <2>4. /\ ValueShape("ack", settled) /\ settled.mirror = value.mirror /\ settled.address = value.address
      BY <2>3 DEF ValueShape
    <2> HIDE DEF settled
    <2>5. DOMAIN done = {"current", "last"} /\ done.current = Absent /\ done.last = settled
      OBVIOUS
    <2> HIDE DEF done
    <2>6. DOMAIN cells = Operations /\ cells["ack"] = done /\ cells["shutdown"] = before.cells["shutdown"]
      BY <2>3 DEF Operations
    <2> HIDE DEF cells
    <2>7. CellsShape(cells)
      BY <1>1, <2>4, <2>5, <2>6 DEF CellsShape, Operations
    <2>8. /\ ProjectionShape(next) /\ next.generation = plain.generation /\ next.clock = plain.clock
          /\ next.cells = cells
      <3>1. CheckpointShape(plain) /\ plain.clock.safe_time \in Times
        BY <1>5 DEF ProjectionShape
      <3>2. /\ CheckpointShape(next) /\ next.generation = plain.generation /\ next.clock = plain.clock
            /\ next.cells = cells
        BY <2>2, <3>1 DEF CheckpointShape
      <3>3. QED BY <2>7, <3>1, <3>2 DEF ProjectionShape
    <2>9. /\ ProjectionShape(after) /\ after.generation = plain.generation /\ after.clock = plain.clock
          /\ after.cells = cells /\ after.covered_head.sequence = before.covered_head.sequence + 1
      BY <1>4, <2>8, Recorded
    <2> HIDE DEF after, clk
    <2>10. ClearedBySettling(before, after)
      BY <1>7, <2>1, <2>4, <2>5, <2>6, <2>9 DEF ClearedBySettling
    <2>11. ObligationsKept(before, after)
      <3>1. ASSUME before.cells["shutdown"].current # Absent
            PROVE  before.cells["shutdown"].current.phase >= before.cells["shutdown"].current.phase
        BY <1>1, <3>1 DEF CellsShape, ValueShape, Operations
      <3>2. QED BY <2>5, <2>6, <2>9, <3>1 DEF ObligationsKept, Operations
    <2>12. Outcome(before, after)
      BY <1>2, <1>5, <1>7, <2>4, <2>5, <2>6, <2>9, <2>10, <2>11 DEF Outcome, clk
    <2>13. QED BY <1>3, <2>6, <2>9, <2>12, ShutdownStays
  <1>8. QED BY <1>6, <1>7

\* What validate_checkpoint says of the cells: one value at most, and the second
\* phase of an acknowledgement has raised the safe time.
LEMMA ValidCells ==
  ASSUME NEW checkpoint, validate_checkpoint(checkpoint)
  PROVE  /\ \A op \in Operations : checkpoint.cells[op].current = Absent \/ checkpoint.cells[op].last = Absent
         /\ LET value == checkpoint.cells["ack"].current
            IN value # Absent /\ value.phase >= 2 => checkpoint.clock.safe_time >= value.target_safe_time
  <1>1. validate_addressed_cells(checkpoint)
    BY DEF validate_checkpoint
  <1>2. \A op \in Operations : checkpoint.cells[op].current = Absent \/ checkpoint.cells[op].last = Absent
    BY <1>1 DEF validate_addressed_cells
  <1> DEFINE value == checkpoint.cells["ack"].current
  <1>3. ASSUME value # Absent PROVE ack_agrees(checkpoint, value, TRUE)
    <2>1. value \in Present(checkpoint, "ack")
      BY <1>3 DEF Present
    <2>2. ack_agrees(checkpoint, value, value = checkpoint.cells["ack"].current)
      BY <1>1, <2>1 DEF validate_addressed_cells
    <2>3. (value = checkpoint.cells["ack"].current) = TRUE
      OBVIOUS
    <2>4. QED BY <2>2, <2>3
  <1>4. QED BY <1>2, <1>3 DEF ack_agrees

\* An addressed record that replays was legal, and is the next of the chain.
LEMMA AddressedReplayed ==
  ASSUME NEW before, NEW record, record.kind \in Operations, ReplayRecord(before, record) # Invalid
  PROVE  LET head == NextHead(before.covered_head, record)
             next == replay_addressed(before, record, head)
         IN /\ ReplayRecord(before, record) = [next EXCEPT !.covered_head = head]
            /\ next # Invalid
            /\ head.sequence = before.covered_head.sequence + 1
  <1>1. Replayed(before, record) # Invalid /\ ReplayRecord(before, record) = Replayed(before, record)
    BY ReplayedAndChecked
  <1>2. record.kind # "clock"
    BY DEF Operations
  <1>3. NextHead(before.covered_head, record).sequence = before.covered_head.sequence + 1
    BY DEF NextHead
  <1>4. QED BY <1>1, <1>2, <1>3 DEF Replayed

\* A request takes a free cell and leaves the clock alone.
LEMMA RequestOutcome ==
  ASSUME NEW before, ProjectionShape(before), NEW op \in Operations, NEW value, ValueShape(op, value),
         value.phase = 1, NEW record, record = [kind |-> op, action |-> "request", value |-> value],
         ReplayRecord(before, record) # Invalid, NEW gone
  PROVE  /\ Outcome(before, ReplayRecord(before, record))
         /\ EndsUngracefully(before, ReplayRecord(before, record), gone)
  <1> DEFINE head == NextHead(before.covered_head, record)
             installed == [value EXCEPT !.application = head, !.publication = head]
             cleared == IF op = "shutdown" THEN [before EXCEPT !.cells[op].last = Absent] ELSE before
             next == Settle(cleared, op, installed)
             after == [next EXCEPT !.covered_head = head]
  <1>1. /\ after = ReplayRecord(before, record) /\ before.cells[op].current = Absent
        /\ head.sequence = before.covered_head.sequence + 1
    <2>1. record.kind = op /\ record.action = "request" /\ record.value = value
      OBVIOUS
    <2>2. /\ ReplayRecord(before, record) = [replay_addressed(before, record, head) EXCEPT !.covered_head = head]
          /\ replay_addressed(before, record, head) # Invalid
          /\ head.sequence = before.covered_head.sequence + 1
      BY <2>1, AddressedReplayed
    <2> HIDE DEF head
    <2>3. replay_addressed(before, record, head) = publish_request(before, op, value, head)
      BY <2>1 DEF replay_addressed
    <2>4. request_legal(before, op, value) /\ publish_request(before, op, value, head) = next
      BY <2>2, <2>3 DEF publish_request, Validated
    <2>5. before.cells[op].current = Absent
      BY <2>4 DEF request_legal
    <2> HIDE DEF next
    <2>6. QED BY <2>2, <2>3, <2>4, <2>5
  <1> HIDE DEF head
  <1>2. /\ CheckpointShape(before) /\ CellsShape(before.cells) /\ before.clock.safe_time \in Times
        /\ DOMAIN before.cells = Operations /\ \A o \in Operations : DOMAIN before.cells[o] = {"current", "last"}
    BY DEF ProjectionShape, CellsShape
  <1>3. ValueShape(op, installed) /\ ~addressed_complete(installed)
    BY DEF ValueShape, addressed_complete
  <1> HIDE DEF installed
  <1>4. /\ ProjectionShape(cleared) /\ cleared.generation = before.generation /\ cleared.clock = before.clock
        /\ cleared.covered_head = before.covered_head
        /\ \A o \in Operations : o # op => cleared.cells[o] = before.cells[o]
        /\ cleared.cells["ack"].last = before.cells["ack"].last
    <2>1. CASE op # "shutdown"
      BY <2>1
    <2>2. CASE op = "shutdown"
      <3> DEFINE cell == [before.cells[op] EXCEPT !.last = Absent]
                 cells == [before.cells EXCEPT ![op] = cell]
      <3>1. cleared = [before EXCEPT !.cells = cells]
        BY <2>2
      <3> HIDE DEF cleared
      <3>2. DOMAIN cell = {"current", "last"} /\ cell.current = before.cells[op].current /\ cell.last = Absent
        BY <1>2
      <3> HIDE DEF cell
      <3>3. DOMAIN cells = Operations /\ cells[op] = cell /\ \A o \in Operations : o # op => cells[o] = before.cells[o]
        BY <1>2
      <3> HIDE DEF cells
      <3>4. CellsShape(cells)
        BY <1>2, <3>2, <3>3 DEF CellsShape
      <3>5. /\ CheckpointShape(cleared) /\ cleared.cells = cells /\ cleared.clock = before.clock
            /\ cleared.generation = before.generation /\ cleared.covered_head = before.covered_head
        BY <1>2, <3>1 DEF CheckpointShape
      <3>6. ProjectionShape(cleared)
        BY <1>2, <3>4, <3>5 DEF ProjectionShape
      <3>7. QED BY <2>2, <3>3, <3>5, <3>6 DEF Operations
    <2>3. QED BY <2>1, <2>2
  <1> HIDE DEF cleared
  <1>5. /\ ProjectionShape(next) /\ next.generation = cleared.generation /\ next.clock = cleared.clock
        /\ \A o \in Operations : o # op => next.cells[o] = cleared.cells[o]
        /\ next.cells[op].current = installed /\ next.cells[op].last = cleared.cells[op].last
    BY <1>3, <1>4, Settled
  <1> HIDE DEF next
  <1>6. /\ ProjectionShape(after) /\ after.generation = next.generation /\ after.clock = next.clock
        /\ after.cells = next.cells /\ after.covered_head.sequence = before.covered_head.sequence + 1
    BY <1>1, <1>5, Recorded
  <1> HIDE DEF after
  <1>7. ClearedBySettling(before, after)
    BY <1>4, <1>5, <1>6 DEF ClearedBySettling
  <1>8. ObligationsKept(before, after)
    <2>1. ASSUME NEW o \in Operations, before.cells[o].current # Absent
          PROVE  /\ before.cells[o].current.phase >= before.cells[o].current.phase
                 /\ after.cells[o].current = before.cells[o].current
      BY <1>1, <1>2, <1>4, <1>5, <1>6, <2>1 DEF CellsShape, ValueShape
    <2>2. QED BY <2>1 DEF ObligationsKept
  <1>9. Outcome(before, after)
    <2>1. after.clock.safe_time >= before.clock.safe_time
      BY <1>2, <1>4, <1>5, <1>6 DEF CheckpointShape
    <2>2. after.cells["ack"].last = before.cells["ack"].last
      BY <1>4, <1>5, <1>6 DEF Operations
    <2>3. QED BY <1>4, <1>5, <1>6, <1>7, <1>8, <2>1, <2>2 DEF Outcome
  <1>10. EndsUngracefully(before, after, gone)
    <2>1. CASE op = "shutdown"
      BY <1>1, <2>1 DEF EndsUngracefully
    <2>2. CASE op # "shutdown"
      BY <1>4, <1>5, <1>6, <2>2, ShutdownStays DEF Operations
    <2>3. QED BY <2>1, <2>2
  <1>11. QED BY <1>1, <1>9, <1>10

\* What phases and receipts do to a cell: the value stays with its address, or the
\* record completes it.
LEMMA Completes ==
  ASSUME NEW before, ProjectionShape(before), validate_checkpoint(before), NEW op \in Operations,
         NEW value, value = before.cells[op].current, value # Absent,
         NEW base, ProjectionShape(base), base.generation = before.generation, base.cells = before.cells,
         base.clock.hold = before.clock.hold, base.clock.safe_time >= before.clock.safe_time,
         NEW moved, ValueShape(op, moved), moved.address = value.address, moved.phase >= value.phase,
         \/ moved.mirror = value.mirror
         \/ addressed_complete(moved) /\ value.mirror.state = "Pending" /\ moved.mirror.state = "Committed",
         op = "ack" /\ addressed_complete(moved) => value.phase >= 2,
         NEW head, head.sequence = before.covered_head.sequence + 1
  PROVE  Outcome(before, [Settle(base, op, moved) EXCEPT !.covered_head = head])
  <1> DEFINE next == Settle(base, op, moved)
             after == [next EXCEPT !.covered_head = head]
             matches == base.clock.hold # Absent /\ base.clock.hold = moved.address
  <1>1. /\ ProjectionShape(next) /\ next.generation = base.generation
        /\ next.clock.safe_time = base.clock.safe_time
        /\ \A o \in Operations : o # op => next.cells[o] = base.cells[o]
        /\ \/ /\ ~addressed_complete(moved) /\ next.clock = base.clock
              /\ next.cells[op].current = moved /\ next.cells[op].last = base.cells[op].last
           \/ /\ addressed_complete(moved) /\ next.cells[op].current = Absent /\ next.cells[op].last = moved
              /\ IF op = "ack" THEN matches /\ next.clock.hold = Absent ELSE next.clock = base.clock
           \/ /\ addressed_complete(moved) /\ op = "ack" /\ next.clock = base.clock /\ ~matches
              /\ next.cells[op].current = Absent /\ next.cells[op].last = base.cells[op].last
    BY Settled
  <1> HIDE DEF next
  <1>2. /\ ProjectionShape(after) /\ after.generation = next.generation /\ after.clock = next.clock
        /\ after.cells = next.cells /\ after.covered_head.sequence = before.covered_head.sequence + 1
    BY <1>1, Recorded
  <1> HIDE DEF after
  <1>3. /\ CheckpointShape(before) /\ CellsShape(before.cells) /\ before.clock.safe_time \in Int
        /\ base.clock.safe_time \in Int
    BY DEF ProjectionShape, CheckpointShape
  <1>4. ClearedBySettling(before, after)
    <2>1. SUFFICES ASSUME before.clock.hold # Absent, after.clock.hold = Absent
                   PROVE  LET ack == before.cells["ack"].current
                          IN ack # Absent /\ ack.address = before.clock.hold =>
                               /\ after.cells["ack"].current = Absent
                               /\ after.cells["ack"].last.address = before.clock.hold
                               /\ after.cells["ack"].last.mirror.state # "Pending"
                               /\ ack.mirror.state = "Pending" => after.cells["ack"].last.mirror.state = "Committed"
                               /\ after.clock.safe_time >= ack.target_safe_time
      BY <1>2 DEF ClearedBySettling
    <2>2. /\ op = "ack" /\ addressed_complete(moved) /\ next.cells[op].current = Absent
          /\ next.cells[op].last = moved
      BY <1>1, <1>2, <2>1
    <2>3. moved.mirror.state # "Pending" /\ (value.mirror.state = "Pending" => moved.mirror.state = "Committed")
      BY <2>2 DEF addressed_complete
    <2>4. before.clock.safe_time >= value.target_safe_time /\ value.target_safe_time \in Int
      <3>1. value.phase >= 2 /\ value.target_safe_time \in Int
        BY <1>3, <2>2, OwnerConstants DEF CellsShape, ValueShape
      <3>2. QED BY <2>2, <3>1, ValidCells
    <2>5. after.clock.safe_time >= value.target_safe_time
      BY <1>1, <1>2, <1>3, <2>4
    <2>6. QED BY <1>2, <2>1, <2>2, <2>3, <2>5
  <1>5. ObligationsKept(before, after)
    <2>1. ASSUME NEW o \in Operations, o # op, before.cells[o].current # Absent
          PROVE  /\ before.cells[o].current.phase >= before.cells[o].current.phase
                 /\ after.cells[o].current = before.cells[o].current
      BY <1>1, <1>2, <1>3, <2>1 DEF CellsShape, ValueShape
    <2>2. \/ after.cells[op].current = Absent
          \/ after.cells[op].current = moved /\ moved.mirror = value.mirror
      BY <1>1, <1>2
    <2>3. QED BY <1>2, <2>1, <2>2 DEF ObligationsKept
  <1>6. after.clock.safe_time >= before.clock.safe_time
    BY <1>1, <1>2, <1>3
  <1>7. after.clock.hold \in {before.clock.hold, Absent}
    BY <1>1, <1>2
  <1>8. \/ after.cells["ack"].last = before.cells["ack"].last
        \/ before.clock.hold # Absent /\ after.cells["ack"].last.address = before.clock.hold
    <2>1. CASE op = "ack"
      BY <1>1, <1>2, <2>1
    <2>2. CASE op # "ack"
      BY <1>1, <1>2, <2>2 DEF Operations
    <2>3. QED BY <2>1, <2>2
  <1>9. Outcome(before, after)
    BY <1>1, <1>2, <1>4, <1>5, <1>6, <1>7, <1>8 DEF Outcome
  <1>10. QED BY <1>9 DEF after, next

\* A phase moves forward; the second one of an acknowledgement raises the safe time,
\* the third clears exactly its hold.
LEMMA PhaseOutcome ==
  ASSUME NEW before, ProjectionShape(before), validate_checkpoint(before), NEW op \in Operations,
         NEW phase \in 2..4, NEW reason, NEW record, record = PhaseRecord(op, phase, reason),
         ReplayRecord(before, record) # Invalid,
         NEW gone, op = "shutdown" /\ before.cells[op].current.address \in gone => phase = 4
  PROVE  /\ Outcome(before, ReplayRecord(before, record))
         /\ EndsUngracefully(before, ReplayRecord(before, record), gone)
  <1> DEFINE head == NextHead(before.covered_head, record)
             value == before.cells[op].current
             moved == [value EXCEPT !.phase = phase, !.reason = reason,
                                    !.application = head, !.publication = head]
             raised == IF op = "ack" /\ phase = 2
                       THEN [before EXCEPT !.clock.safe_time = value.target_safe_time]
                       ELSE before
             next == Settle(raised, op, moved)
             after == [next EXCEPT !.covered_head = head]
  <1>1. /\ after = ReplayRecord(before, record) /\ value # Absent /\ phase_legal(before, op, value, phase)
        /\ head.sequence = before.covered_head.sequence + 1
    <2>1. record.kind = op /\ record.action = "phase" /\ record.phase = phase /\ record.reason = reason
      BY DEF PhaseRecord
    <2>2. /\ ReplayRecord(before, record) = [replay_addressed(before, record, head) EXCEPT !.covered_head = head]
          /\ replay_addressed(before, record, head) # Invalid
          /\ head.sequence = before.covered_head.sequence + 1
      BY <2>1, AddressedReplayed
    <2> HIDE DEF head
    <2>3. replay_addressed(before, record, head) = publish_phase(before, op, phase, reason, head)
      BY <2>1 DEF replay_addressed
    <2>4. /\ value # Absent /\ phase_legal(before, op, value, phase)
          /\ publish_phase(before, op, phase, reason, head) = next
      BY <2>2, <2>3 DEF publish_phase, Validated
    <2> HIDE DEF next, value
    <2>5. QED BY <2>2, <2>3, <2>4
  <1> HIDE DEF head
  <1>2. /\ CheckpointShape(before) /\ CellsShape(before.cells) /\ before.clock.safe_time \in Times
        /\ ValueShape(op, value) /\ value.phase \in Nat
    BY <1>1 DEF ProjectionShape, CellsShape, ValueShape
  <1> HIDE DEF value
  <1>3. /\ ValueShape(op, moved) /\ moved.phase = phase /\ moved.address = value.address
        /\ moved.mirror = value.mirror
    BY <1>2 DEF ValueShape
  <1> HIDE DEF moved
  <1>4. /\ moved.phase >= value.phase
        /\ op = "ack" /\ addressed_complete(moved) => value.phase >= 2
    BY <1>1, <1>2, <1>3 DEF phase_legal, addressed_complete, Operations
  <1>5. /\ ProjectionShape(raised) /\ raised.generation = before.generation /\ raised.cells = before.cells
        /\ raised.clock.hold = before.clock.hold /\ raised.clock.safe_time >= before.clock.safe_time
    <2>1. CASE op = "ack" /\ phase = 2
      <3>1. /\ value.target_safe_time \in Times /\ value.target_safe_time >= before.clock.safe_time
            /\ value.target_safe_time \in Int
        BY <1>1, <1>2, <2>1, OwnerConstants DEF ValueShape, phase_legal
      <3>2. raised = [before EXCEPT !.clock.safe_time = value.target_safe_time]
        BY <2>1
      <3> HIDE DEF raised
      <3>3. /\ DOMAIN raised = DOMAIN before /\ DOMAIN raised.clock = DOMAIN before.clock
            /\ raised.generation = before.generation /\ raised.cells = before.cells
            /\ raised.covered_head = before.covered_head
            /\ raised.clock.hold = before.clock.hold /\ raised.clock.safe_time = value.target_safe_time
        BY <1>2, <3>2 DEF CheckpointShape
      <3>4. CheckpointShape(raised)
        BY <1>2, <3>1, <3>3 DEF CheckpointShape
      <3>5. QED BY <1>2, <3>1, <3>3, <3>4 DEF ProjectionShape
    <2>2. CASE ~(op = "ack" /\ phase = 2)
      <3>1. raised = before
        BY <2>2
      <3>2. before.clock.safe_time >= before.clock.safe_time
        BY <1>2 DEF CheckpointShape
      <3>3. QED BY <3>1, <3>2
    <2>3. QED BY <2>1, <2>2
  <1> HIDE DEF raised
  <1>6. Outcome(before, after)
    BY <1>1, <1>3, <1>4, <1>5, Completes DEF value
  <1>7. EndsUngracefully(before, after, gone)
    <2>1. /\ ProjectionShape(next)
          /\ \A o \in Operations : o # op => next.cells[o] = raised.cells[o]
          /\ \/ next.cells[op].current = moved /\ next.cells[op].last = raised.cells[op].last
             \/ next.cells[op].current = Absent /\ next.cells[op].last = moved
             \/ op = "ack"
      BY <1>3, <1>5, Settled
    <2> HIDE DEF next
    <2>2. after.cells = next.cells
      BY <1>1, <2>1, Recorded
    <2> HIDE DEF after
    <2>3. CASE op = "shutdown"
      <3>1. before.cells[op].last = Absent
        BY <1>1, ValidCells DEF value
      <3>2. Present(after, "shutdown") \subseteq {moved}
        BY <1>5, <2>1, <2>2, <2>3, <3>1 DEF Present
      <3>3. QED BY <1>3, <2>3, <3>2 DEF EndsUngracefully, value
    <2>4. CASE op # "shutdown"
      BY <1>5, <2>1, <2>2, <2>4, ShutdownStays DEF Operations
    <2>5. QED BY <2>3, <2>4
  <1>8. QED BY <1>1, <1>6, <1>7

\* The receipt of the selected state completes what owed it.
LEMMA CommitOutcome ==
  ASSUME NEW before, ProjectionShape(before), validate_checkpoint(before), NEW op \in Operations,
         NEW post, NEW record, record = [kind |-> op, action |-> "commit", post |-> post],
         ReplayRecord(before, record) # Invalid, NEW gone
  PROVE  /\ Outcome(before, ReplayRecord(before, record))
         /\ EndsUngracefully(before, ReplayRecord(before, record), gone)
  <1> DEFINE head == NextHead(before.covered_head, record)
             value == before.cells[op].current
             received == [value EXCEPT !.mirror.state = "Committed", !.mirror.post = post,
                                       !.publication = head]
             moved == IF op = "ack" THEN [received EXCEPT !.phase = 3, !.application = head] ELSE received
             next == Settle(before, op, moved)
             after == [next EXCEPT !.covered_head = head]
  <1>1. /\ after = ReplayRecord(before, record) /\ value # Absent /\ value.mirror.state = "Pending"
        /\ IF op = "ack" THEN value.phase = 2 ELSE value.phase \in {3, 4}
        /\ head.sequence = before.covered_head.sequence + 1
    <2>1. record.kind = op /\ record.action = "commit" /\ record.post = post
      OBVIOUS
    <2>2. /\ ReplayRecord(before, record) = [replay_addressed(before, record, head) EXCEPT !.covered_head = head]
          /\ replay_addressed(before, record, head) # Invalid
          /\ head.sequence = before.covered_head.sequence + 1
      BY <2>1, AddressedReplayed
    <2> HIDE DEF head
    <2>3. replay_addressed(before, record, head) = commit_mirror(before, op, post, head)
      BY <2>1 DEF replay_addressed
    <2>4. /\ value # Absent /\ value.mirror.state = "Pending"
          /\ IF op = "ack" THEN value.phase = 2 ELSE value.phase \in {3, 4}
          /\ commit_mirror(before, op, post, head) = next
      BY <2>2, <2>3 DEF commit_mirror, Validated
    <2> HIDE DEF next, value
    <2>5. QED BY <2>2, <2>3, <2>4
  <1> HIDE DEF head
  <1>2. ValueShape(op, value) /\ value.phase \in Nat
    BY <1>1 DEF ProjectionShape, CellsShape, ValueShape
  <1> HIDE DEF value
  <1>3. /\ ValueShape(op, received) /\ received.phase = value.phase /\ received.address = value.address
        /\ received.mirror.state = "Committed"
    BY <1>2 DEF ValueShape
  <1> HIDE DEF received
  <1>4. /\ ValueShape(op, moved) /\ moved.address = value.address /\ moved.mirror.state = "Committed"
        /\ moved.phase >= value.phase /\ moved.phase >= 3
    <2>1. CASE op = "ack"
      BY <1>1, <1>2, <1>3, <2>1 DEF ValueShape
    <2>2. CASE op # "ack"
      BY <1>1, <1>2, <1>3, <2>2
    <2>3. QED BY <2>1, <2>2
  <1> HIDE DEF moved
  <1>5. addressed_complete(moved) /\ (op = "ack" => value.phase >= 2)
    BY <1>1, <1>4 DEF addressed_complete
  <1>6. before.clock.safe_time >= before.clock.safe_time
    BY DEF ProjectionShape, CheckpointShape
  <1>7. Outcome(before, after)
    BY <1>1, <1>4, <1>5, <1>6, Completes DEF value
  <1>8. EndsUngracefully(before, after, gone)
    <2>1. CASE op = "shutdown"
      BY <1>1, <2>1 DEF EndsUngracefully, value
    <2>2. CASE op # "shutdown"
      <3>1. ProjectionShape(next) /\ \A o \in Operations : o # op => next.cells[o] = before.cells[o]
        BY <1>4, Settled
      <3> HIDE DEF next
      <3>2. after.cells = next.cells
        BY <1>1, <3>1, Recorded
      <3>3. QED BY <2>2, <3>1, <3>2, ShutdownStays DEF Operations
    <2>3. QED BY <2>1, <2>2
  <1>9. QED BY <1>1, <1>7, <1>8

\* The image that is written reopens as the projection that is kept with it.
ImageFollows ==
  /\ ImageShape(image') /\ replay_tail(image') = projection' /\ validate_checkpoint(projection')
  /\ image'.checkpoint.generation = projection'.generation

\* append: with room in the tail or folded in, the image replays to what the record made.
LEMMA RecordTaken ==
  ASSUME OwnerInv, NEW record, NEW next, next = ReplayRecord(projection, record), next # Invalid,
         Outcome(projection, next), Becomes(Appended(image, projection, record, next))
  PROVE  ImageFollows /\ projection' \in {next, [next EXCEPT !.generation = @ + 1]}
  <1> DEFINE result == Appended(image, projection, record, next)
             folded == [next EXCEPT !.generation = @ + 1]
  <1>1. result # Invalid /\ image' = result.image /\ projection' = result.projection
    BY DEF Becomes
  <1>2. ImageShape(image) /\ projection = replay_tail(image)
    BY DEF OwnerInv, ReopensAsLeft
  <1>3. projection # Invalid
    BY ValidIsAccepted DEF OwnerInv
  <1>4. /\ ImageShape(result.image) /\ replay_tail(result.image) = result.projection
        /\ validate_checkpoint(result.projection)
        /\ \/ result.projection = next /\ result.image.checkpoint = image.checkpoint
           \/ result.projection = folded /\ result.image.checkpoint = folded
    BY <1>1, <1>2, <1>3, AppendReplays
  <1>5. next.generation = projection.generation /\ image.checkpoint.generation = projection.generation
    BY DEF Outcome, OwnerInv
  <1> HIDE DEF result, folded
  <1>6. projection' \in {next, folded} /\ image'.checkpoint.generation = projection'.generation
    BY <1>1, <1>4, <1>5
  <1>7. QED BY <1>1, <1>4, <1>6 DEF ImageFollows, folded

\* A fold writes a checkpoint and nothing else.
LEMMA FoldTaken ==
  ASSUME NEW high_water, NEW next, Becomes(Checkpointed(high_water, next))
  PROVE  ImageFollows /\ projection' = [next EXCEPT !.generation = @ + 1]
  <1> DEFINE result == Checkpointed(high_water, next)
             folded == [next EXCEPT !.generation = @ + 1]
  <1>1. result # Invalid /\ image' = result.image /\ projection' = result.projection
    BY DEF Becomes
  <1>2. /\ result.image = Image(high_water, folded, <<>>) /\ result.projection = folded
        /\ ImageShape(result.image) /\ replay_tail(result.image) = folded
    BY <1>1, FoldReplays
  <1>3. validate_checkpoint(folded)
    BY <1>1, EncodedImage DEF Checkpointed
  <1> HIDE DEF result, folded
  <1>4. image'.checkpoint = folded
    BY <1>1, <1>2 DEF Image
  <1>5. QED BY <1>1, <1>2, <1>3, <1>4 DEF ImageFollows, folded

\* The generation is not what a step's properties are about.
LEMMA GenerationOnly ==
  ASSUME NEW before, NEW next, ProjectionShape(next), NEW gone, RecordKeeps(before, next, gone),
         NEW hold, NewestHold(next, hold)
  PROVE  LET after == [next EXCEPT !.generation = @ + 1]
         IN /\ ProjectionShape(after) /\ after.generation = next.generation + 1
            /\ RecordKeeps(before, after, gone) /\ NewestHold(after, hold)
  <1> DEFINE after == [next EXCEPT !.generation = @ + 1]
  <1>1. CheckpointShape(next)
    BY DEF ProjectionShape
  <1>2. /\ CheckpointShape(after) /\ after.generation = next.generation + 1
        /\ after.covered_head = next.covered_head /\ after.clock = next.clock /\ after.cells = next.cells
    BY <1>1, FoldedShape
  <1> HIDE DEF after
  <1>3. ProjectionShape(after)
    BY <1>2 DEF ProjectionShape
  <1>4. NewestHold(after, hold)
    BY <1>2 DEF NewestHold
  <1>5. ClearedBySettling(before, after)
    BY <1>2 DEF RecordKeeps, ClearedBySettling
  <1>6. ObligationsKept(before, after)
    BY <1>2 DEF RecordKeeps, ObligationsKept
  <1>7. Present(after, "shutdown") = Present(next, "shutdown")
    BY <1>2 DEF Present
  <1>8. EndsUngracefully(before, after, gone)
    BY <1>2, <1>7 DEF RecordKeeps, EndsUngracefully
  <1>9. RecordKeeps(before, after, gone)
    BY <1>2, <1>5, <1>6, <1>8 DEF RecordKeeps
  <1>10. QED BY <1>2, <1>3, <1>4, <1>9 DEF after

\* From the projection a step computed, the invariant and the step's properties.
LEMMA StepKeeps ==
  ASSUME OwnerInv, projection.generation < MaxGeneration, NEW next, ProjectionShape(next),
         next.generation = projection.generation, RecordKeeps(projection, next, stopped),
         ImageFollows, projection' \in {next, [next EXCEPT !.generation = @ + 1]},
         NewestHold(next, newest'), newest' \in 0..HoldLimit, UNCHANGED <<process, stopped>>
  PROVE  OwnerInv' /\ RecordKeeps(projection, projection', stopped)
  <1> DEFINE folded == [next EXCEPT !.generation = @ + 1]
  <1>1. /\ ProjectionShape(folded) /\ folded.generation = next.generation + 1
        /\ RecordKeeps(projection, folded, stopped) /\ NewestHold(folded, newest')
    BY GenerationOnly
  <1>2. projection.generation \in 1..MaxGeneration /\ MaxGeneration \in Nat
    BY OwnerConstants DEF OwnerInv, OwnerTypeOK
  <1> HIDE DEF folded
  <1>3. projection' = next \/ projection' = folded
    BY DEF folded
  <1>4. /\ ProjectionShape(projection') /\ projection'.generation \in 1..MaxGeneration
        /\ RecordKeeps(projection, projection', stopped) /\ NewestHold(projection', newest')
    BY <1>1, <1>2, <1>3
  <1>5. Len(image'.tail) <= TailCountLimit
    <2>1. projection' # Invalid
      BY ValidIsAccepted DEF ImageFollows
    <2>2. QED BY <2>1 DEF ImageFollows, replay_tail
  <1>6. process' \in Processes \ stopped'
    BY DEF OwnerInv, OwnerTypeOK
  <1>7. OwnerTypeOK'
    BY <1>4, <1>5, <1>6 DEF OwnerTypeOK, ImageFollows, ProjectionShape, clock
  <1>8. OwnerInv'
    BY <1>4, <1>7 DEF OwnerInv, ImageFollows, ReopensAsLeft
  <1>9. QED BY <1>4, <1>8

\* A record that is appended, or folded in with a full tail.
LEMMA RecordStep ==
  ASSUME OwnerInv, NEW record, NEW next, next = ReplayRecord(projection, record), next # Invalid,
         Outcome(projection, next), EndsUngracefully(projection, next, stopped),
         Becomes(Appended(image, projection, record, next)), UNCHANGED <<process, stopped, newest>>
  PROVE  OwnerInv' /\ RecordKeeps(projection, projection', stopped)
  <1>1. ImageFollows /\ projection' \in {next, [next EXCEPT !.generation = @ + 1]}
    BY RecordTaken
  <1>2. /\ ProjectionShape(next) /\ next.generation = projection.generation
        /\ RecordKeeps(projection, next, stopped)
    BY DEF Outcome, RecordKeeps
  <1>3. NewestHold(next, newest')
    BY OutcomeIsNewest DEF OwnerInv
  <1>4. newest' \in 0..HoldLimit /\ projection.generation < MaxGeneration
    BY DEF OwnerInv, OwnerTypeOK, Becomes
  <1>5. QED BY <1>1, <1>2, <1>3, <1>4, StepKeeps

\* append_clock_checkpoint, with or without a settlement.
LEMMA ClockStep ==
  ASSUME OwnerInv, NEW reason, NEW wall \in Times, NEW hold, NEW origin,
         Becomes(append_clock_checkpoint(image, projection, ClockBody(reason, wall, clock.safe_time, hold, origin))),
         UNCHANGED <<process, stopped, newest>>
  PROVE  OwnerInv' /\ RecordKeeps(projection, projection', stopped)
  <1> DEFINE body == ClockBody(reason, wall, projection.clock.safe_time, hold, origin)
             next == ReplayRecord(projection, body)
  <1>1. next # Invalid /\ Becomes(Appended(image, projection, body, next))
    <2>1. Becomes(append_clock_checkpoint(image, projection, body))
      BY DEF clock
    <2> HIDE DEF body
    <2>2. QED BY <2>1 DEF append_clock_checkpoint, Becomes
  <1>2. ProjectionShape(projection)
    BY DEF OwnerInv
  <1>3. body = ClockBody(reason, wall, projection.clock.safe_time, hold, origin)
    OBVIOUS
  <1> HIDE DEF body
  <1>4. Outcome(projection, next) /\ EndsUngracefully(projection, next, stopped)
    BY <1>1, <1>2, <1>3, ClockOutcome
  <1> HIDE DEF next
  <1>5. QED BY <1>1, <1>4, RecordStep DEF next

\* An addressed record, appended, or folded at once without a superseded result.
LEMMA ActionStep ==
  ASSUME OwnerInv, NEW record, NEW recovery,
         Becomes(append_addressed_action(image, projection, record, process, recovery)),
         NEW next, next = ReplayRecord(projection, record), next # Invalid,
         Outcome(projection, next), EndsUngracefully(projection, next, stopped),
         UNCHANGED <<process, stopped, newest>>
  PROVE  OwnerInv' /\ RecordKeeps(projection, projection', stopped)
  <1> DEFINE dropped == [next EXCEPT !.cells["shutdown"].last = Absent]
  <1>1. \/ Becomes(Appended(image, projection, record, next))
        \/ Becomes(Checkpointed(image.high_water, dropped))
    BY DEF append_addressed_action, Becomes
  <1>2. CASE Becomes(Appended(image, projection, record, next))
    BY <1>2, RecordStep
  <1>3. CASE Becomes(Checkpointed(image.high_water, dropped))
    <2>1. ImageFollows /\ projection' = [dropped EXCEPT !.generation = @ + 1]
      BY <1>3, FoldTaken
    <2>2. /\ ProjectionShape(next) /\ CheckpointShape(next) /\ CellsShape(next.cells)
          /\ next.clock.safe_time \in Times /\ DOMAIN next.cells = Operations
          /\ \A o \in Operations : DOMAIN next.cells[o] = {"current", "last"}
      BY DEF Outcome, ProjectionShape, CellsShape
    <2> DEFINE cell == [next.cells["shutdown"] EXCEPT !.last = Absent]
               cells == [next.cells EXCEPT !["shutdown"] = cell]
    <2>3. dropped = [next EXCEPT !.cells = cells]
      OBVIOUS
    <2> HIDE DEF dropped
    <2>4. DOMAIN cell = {"current", "last"} /\ cell.current = next.cells["shutdown"].current /\ cell.last = Absent
      BY <2>2 DEF Operations
    <2> HIDE DEF cell
    <2>5. DOMAIN cells = Operations /\ cells["shutdown"] = cell /\ cells["ack"] = next.cells["ack"]
      BY <2>2 DEF Operations
    <2> HIDE DEF cells
    <2>6. CellsShape(cells)
      BY <2>2, <2>4, <2>5 DEF CellsShape, Operations
    <2>7. /\ CheckpointShape(dropped) /\ dropped.cells = cells /\ dropped.clock = next.clock
          /\ dropped.generation = next.generation /\ dropped.covered_head = next.covered_head
      BY <2>2, <2>3 DEF CheckpointShape
    <2>8. ProjectionShape(dropped)
      BY <2>2, <2>6, <2>7 DEF ProjectionShape
    <2>9. \A op \in Operations : dropped.cells[op].current = next.cells[op].current
      BY <2>4, <2>5, <2>7 DEF Operations
    <2>10. ClearedBySettling(projection, dropped)
      BY <2>5, <2>7 DEF Outcome, ClearedBySettling
    <2>11. ObligationsKept(projection, dropped)
      BY <2>7, <2>9 DEF Outcome, ObligationsKept
    <2>12. EndsUngracefully(projection, dropped, stopped)
      <3>1. Present(dropped, "shutdown") \subseteq Present(next, "shutdown")
        BY <2>4, <2>5, <2>7 DEF Present
      <3>2. dropped.cells["shutdown"].current = next.cells["shutdown"].current
        BY <2>4, <2>5, <2>7
      <3>3. QED BY <3>1, <3>2 DEF EndsUngracefully
    <2>13. RecordKeeps(projection, dropped, stopped)
      BY <2>7, <2>10, <2>11, <2>12 DEF RecordKeeps, Outcome
    <2>14. NewestHold(dropped, newest')
      <3>1. NewestHold(next, newest')
        BY OutcomeIsNewest DEF OwnerInv
      <3>2. QED BY <2>5, <2>7, <3>1 DEF NewestHold
    <2>15. /\ newest' \in 0..HoldLimit /\ projection.generation < MaxGeneration
           /\ dropped.generation = projection.generation
      BY <2>7 DEF OwnerInv, OwnerTypeOK, Becomes, Outcome
    <2>16. QED BY <2>1, <2>8, <2>13, <2>14, <2>15, StepKeeps
  <1>4. QED BY <1>1, <1>2, <1>3

\* A refused record changes nothing: an action that is taken was authorized and legal.
LEMMA ActionTaken ==
  ASSUME NEW record, NEW recovery,
         Becomes(append_addressed_action(image, projection, record, process, recovery))
  PROVE  /\ ReplayRecord(projection, record) # Invalid
         /\ record.kind = "shutdown" => shutdown_authorized(projection, record, process, recovery)
  BY DEF Becomes, append_addressed_action

\* The request of an acknowledgement: its target is one of the times.
LEMMA AcknowledgeStep ==
  ASSUME OwnerInv, Acknowledge
  PROVE  OwnerInv' /\ RecordKeeps(projection, projection', stopped)
  <1>1. UNCHANGED <<process, stopped, newest>>
    BY DEF Acknowledge
  <1>2. PICK wall \in Times, mirror \in Mirrors : \E selected \in IF mirror = NoMirror THEN {Absent} ELSE Times :
          Becomes(append_addressed_action(image, projection,
                 [kind |-> "ack", action |-> "request",
                  value |-> AckValue(clock.hold, clock.safe_time, selected, wall, mirror)],
                 process, FALSE))
    BY DEF Acknowledge
  <1>3. PICK selected \in IF mirror = NoMirror THEN {Absent} ELSE Times :
          Becomes(append_addressed_action(image, projection,
                 [kind |-> "ack", action |-> "request",
                  value |-> AckValue(clock.hold, clock.safe_time, selected, wall, mirror)],
                 process, FALSE))
    BY <1>2
  <1> DEFINE value == AckValue(clock.hold, clock.safe_time, selected, wall, mirror)
             record == [kind |-> "ack", action |-> "request", value |-> value]
  <1>4. ProjectionShape(projection) /\ clock.safe_time \in Times
    BY DEF OwnerInv, ProjectionShape, clock
  <1>5. DOMAIN mirror = {"state", "origin", "pre", "post"}
    BY DEF Mirrors, NoMirror, PendingMirror
  <1>6. selected # Absent => selected \in Times
    BY <1>3
  <1>7. ValueShape("ack", value) /\ value.phase = 1
    <2> DEFINE prior == clock.safe_time
               target == MaxTime(MaxTime(prior, wall), IF selected = Absent THEN prior ELSE selected)
    <2>1. prior \in Times /\ wall \in Times
      BY <1>4
    <2> HIDE DEF prior
    <2>2. target \in Times
      BY <1>6, <2>1 DEF MaxTime
    <2>3. value.target_safe_time = target
      BY DEF AckValue, prior
    <2> HIDE DEF target
    <2>4. QED BY <1>5, <2>2, <2>3 DEF ValueShape, AckValue
  <1> HIDE DEF value
  <1>8. Becomes(append_addressed_action(image, projection, record, process, FALSE))
    BY <1>3 DEF value
  <1>9. record = [kind |-> "ack", action |-> "request", value |-> value] /\ "ack" \in Operations
    BY DEF Operations
  <1> HIDE DEF record
  <1>10. ReplayRecord(projection, record) # Invalid
    BY <1>8, ActionTaken
  <1>11. /\ Outcome(projection, ReplayRecord(projection, record))
         /\ EndsUngracefully(projection, ReplayRecord(projection, record), stopped)
    BY <1>4, <1>7, <1>9, <1>10, RequestOutcome
  <1>12. QED BY <1>1, <1>8, <1>10, <1>11, ActionStep

\* The request of a shutdown by the process itself.
LEMMA RequestShutdownStep ==
  ASSUME OwnerInv, RequestShutdown
  PROVE  OwnerInv' /\ RecordKeeps(projection, projection', stopped)
  <1>1. UNCHANGED <<process, stopped, newest>>
    BY DEF RequestShutdown
  <1>2. PICK mirror \in Mirrors :
          Becomes(append_addressed_action(image, projection,
                 [kind |-> "shutdown", action |-> "request", value |-> ShutdownValue(process, mirror)],
                 process, FALSE))
    BY DEF RequestShutdown
  <1> DEFINE value == ShutdownValue(process, mirror)
             record == [kind |-> "shutdown", action |-> "request", value |-> value]
  <1>3. ProjectionShape(projection)
    BY DEF OwnerInv
  <1>4. DOMAIN mirror = {"state", "origin", "pre", "post"}
    BY DEF Mirrors, NoMirror, PendingMirror
  <1>5. ValueShape("shutdown", value) /\ value.phase = 1
    BY <1>4 DEF ValueShape, ShutdownValue
  <1> HIDE DEF value
  <1>6. Becomes(append_addressed_action(image, projection, record, process, FALSE))
    BY <1>2 DEF value
  <1>7. record = [kind |-> "shutdown", action |-> "request", value |-> value] /\ "shutdown" \in Operations
    BY DEF Operations
  <1> HIDE DEF record
  <1>8. ReplayRecord(projection, record) # Invalid
    BY <1>6, ActionTaken
  <1>9. /\ Outcome(projection, ReplayRecord(projection, record))
        /\ EndsUngracefully(projection, ReplayRecord(projection, record), stopped)
    BY <1>3, <1>5, <1>7, <1>8, RequestOutcome
  <1>10. QED BY <1>1, <1>6, <1>8, <1>9, ActionStep

\* Another process may report only the ungraceful end.
LEMMA PublishPhaseStep ==
  ASSUME OwnerInv, NEW op \in Operations, NEW recovery \in BOOLEAN, PublishPhase(op, recovery)
  PROVE  OwnerInv' /\ RecordKeeps(projection, projection', stopped)
  <1>1. UNCHANGED <<process, stopped, newest>>
    BY DEF PublishPhase
  <1>2. PICK phase \in 2..4 :
          Becomes(append_addressed_action(image, projection,
                 PhaseRecord(op, phase, IF phase = 4 THEN 1 ELSE 0), process, recovery))
    BY DEF PublishPhase
  <1> DEFINE reason == IF phase = 4 THEN 1 ELSE 0
             record == PhaseRecord(op, phase, reason)
  <1>3. Becomes(append_addressed_action(image, projection, record, process, recovery))
    BY <1>2
  <1>4. /\ ReplayRecord(projection, record) # Invalid
        /\ record.kind = "shutdown" => shutdown_authorized(projection, record, process, recovery)
    BY <1>3, ActionTaken
  <1>5. record.kind = op /\ record.action = "phase" /\ record.phase = phase
    BY DEF PhaseRecord
  <1> HIDE DEF reason
  <1>6. record = PhaseRecord(op, phase, reason)
    OBVIOUS
  <1> HIDE DEF record
  <1>7. process \notin stopped
    BY DEF OwnerInv, OwnerTypeOK
  <1>8. op = "shutdown" /\ projection.cells[op].current.address \in stopped => phase = 4
    BY <1>4, <1>5, <1>7 DEF shutdown_authorized
  <1>9. ProjectionShape(projection) /\ validate_checkpoint(projection)
    BY DEF OwnerInv
  <1>10. /\ Outcome(projection, ReplayRecord(projection, record))
         /\ EndsUngracefully(projection, ReplayRecord(projection, record), stopped)
    BY <1>4, <1>6, <1>8, <1>9, PhaseOutcome
  <1>11. QED BY <1>1, <1>3, <1>4, <1>10, ActionStep

\* The receipt of the selected state.
LEMMA CommitMirrorStep ==
  ASSUME OwnerInv, NEW op \in Operations, NEW recovery \in BOOLEAN, CommitMirror(op, recovery)
  PROVE  OwnerInv' /\ RecordKeeps(projection, projection', stopped)
  <1>1. UNCHANGED <<process, stopped, newest>>
    BY DEF CommitMirror
  <1>2. PICK post \in SelectedHeads :
          Becomes(append_addressed_action(image, projection,
                 [kind |-> op, action |-> "commit", post |-> post], process, recovery))
    BY DEF CommitMirror
  <1> DEFINE record == [kind |-> op, action |-> "commit", post |-> post]
  <1>3. record = [kind |-> op, action |-> "commit", post |-> post]
    OBVIOUS
  <1>4. Becomes(append_addressed_action(image, projection, record, process, recovery))
    BY <1>2
  <1> HIDE DEF record
  <1>5. ReplayRecord(projection, record) # Invalid
    BY <1>4, ActionTaken
  <1>6. ProjectionShape(projection) /\ validate_checkpoint(projection)
    BY DEF OwnerInv
  <1>7. /\ Outcome(projection, ReplayRecord(projection, record))
        /\ EndsUngracefully(projection, ReplayRecord(projection, record), stopped)
    BY <1>3, <1>5, <1>6, CommitOutcome
  <1>8. QED BY <1>1, <1>4, <1>5, <1>7, ActionStep

\* A checkpoint with the same clock, head and pending requests keeps everything.
LEMMA SameKeeps ==
  ASSUME NEW before, ProjectionShape(before), NEW after, NEW gone,
         after.clock.safe_time >= before.clock.safe_time,
         before.clock.hold # Absent => after.clock.hold # Absent,
         \A op \in Operations : after.cells[op].current = before.cells[op].current
  PROVE  RecordKeeps(before, after, gone)
  <1>1. ClearedBySettling(before, after)
    BY DEF ClearedBySettling
  <1>2. ObligationsKept(before, after)
    <2>1. \A op \in Operations : before.cells[op].current # Absent =>
            before.cells[op].current.phase >= before.cells[op].current.phase
      BY DEF ProjectionShape, CellsShape, ValueShape
    <2>2. QED BY <2>1 DEF ObligationsKept
  <1>3. EndsUngracefully(before, after, gone)
    BY DEF EndsUngracefully, Operations
  <1>4. QED BY <1>1, <1>2, <1>3 DEF RecordKeeps

\* A clock authority that advances, with the results it makes stale dropped.
LEMMA AuthorityStep ==
  ASSUME OwnerInv, NEW authority, DOMAIN authority = {"safe_time", "hold", "last_shutdown"},
         authority.safe_time \in Times,
         Becomes(publish_addressed_authority(image, projection, authority, process)),
         UNCHANGED <<process, stopped>>, newest' \in 0..HoldLimit,
         authority.hold # Absent => authority.hold.generation = newest',
         newest' # newest => authority.hold # Absent
  PROVE  OwnerInv' /\ RecordKeeps(projection, projection', stopped)
  <1> DEFINE ack == projection.cells["ack"].last
             shutdown == projection.cells["shutdown"].last
             stale == stale_acknowledge(authority, ack)
             keptAck == IF stale THEN Absent ELSE ack
             keptShutdown == IF shutdown # Absent /\ shutdown.address # process THEN Absent ELSE shutdown
             next == [projection EXCEPT !.clock = authority, !.cells["ack"].last = keptAck,
                                        !.cells["shutdown"].last = keptShutdown]
  <1>1. /\ authority_advances(projection.clock, authority)
        /\ Becomes(Checkpointed(image.high_water, next))
    BY DEF publish_addressed_authority, Becomes
  <1>2. ImageFollows /\ projection' = [next EXCEPT !.generation = @ + 1]
    BY <1>1, FoldTaken
  <1>3. /\ ProjectionShape(projection) /\ CheckpointShape(projection) /\ CellsShape(projection.cells)
        /\ DOMAIN projection.cells = Operations
        /\ \A o \in Operations : DOMAIN projection.cells[o] = {"current", "last"}
    BY DEF OwnerInv, ProjectionShape, CellsShape
  <1>4. keptAck \in {Absent, ack} /\ keptShutdown \in {Absent, shutdown}
        /\ (keptAck # Absent => ~stale)
    OBVIOUS
  <1> HIDE DEF keptAck, keptShutdown
  <1> DEFINE ackCell == [projection.cells["ack"] EXCEPT !.last = keptAck]
             shutdownCell == [projection.cells["shutdown"] EXCEPT !.last = keptShutdown]
             cells == [projection.cells EXCEPT !["ack"] = ackCell, !["shutdown"] = shutdownCell]
  <1>5. next = [projection EXCEPT !.clock = authority, !.cells = cells]
    BY <1>3 DEF CheckpointShape, Operations
  <1> HIDE DEF next
  <1>6. /\ DOMAIN ackCell = {"current", "last"} /\ ackCell.last = keptAck
        /\ ackCell.current = projection.cells["ack"].current
        /\ DOMAIN shutdownCell = {"current", "last"} /\ shutdownCell.last = keptShutdown
        /\ shutdownCell.current = projection.cells["shutdown"].current
    BY <1>3 DEF Operations
  <1> HIDE DEF ackCell, shutdownCell
  <1>7. DOMAIN cells = Operations /\ cells["ack"] = ackCell /\ cells["shutdown"] = shutdownCell
    BY <1>3 DEF Operations
  <1> HIDE DEF cells
  <1>8. CellsShape(cells)
    BY <1>3, <1>4, <1>6, <1>7 DEF CellsShape, Operations
  <1>9. /\ CheckpointShape(next) /\ next.cells = cells /\ next.clock = authority
        /\ next.generation = projection.generation /\ next.covered_head = projection.covered_head
    <2>1. authority.safe_time \in Int
      BY OwnerConstants
    <2>2. QED BY <1>3, <1>5, <2>1 DEF CheckpointShape
  <1>10. ProjectionShape(next)
    BY <1>8, <1>9 DEF ProjectionShape
  <1>11. RecordKeeps(projection, next, stopped)
    <2>1. /\ next.clock.safe_time >= projection.clock.safe_time
          /\ projection.clock.hold # Absent => next.clock.hold # Absent
      BY <1>1, <1>9 DEF authority_advances
    <2>2. \A op \in Operations : next.cells[op].current = projection.cells[op].current
      BY <1>6, <1>7, <1>9 DEF Operations
    <2>3. QED BY <1>3, <2>1, <2>2, SameKeeps
  <1>12. NewestHold(next, newest')
    <2>1. next.cells["ack"].last = keptAck /\ next.clock.hold = authority.hold
      BY <1>6, <1>7, <1>9
    <2>2. ASSUME keptAck # Absent PROVE keptAck.address.generation = newest'
      <3>1. keptAck = ack /\ ~stale /\ ack # Absent
        BY <1>4, <2>2
      <3>2. authority.hold = Absent \/ authority.hold = ack.address
        BY <3>1 DEF stale_acknowledge
      <3>3. ack.address.generation = newest
        BY <3>1 DEF OwnerInv, NewestHold
      <3> HIDE DEF ack
      <3>4. QED BY <3>1, <3>2, <3>3
    <2>3. QED BY <2>1, <2>2 DEF NewestHold
  <1>13. projection.generation < MaxGeneration
    BY <1>1 DEF Becomes
  <1>14. QED BY <1>2, <1>9, <1>10, <1>11, <1>12, <1>13, StepKeeps

\* A newer hold: a completion of an older one is stale and goes.
LEMMA EnterHoldStep ==
  ASSUME OwnerInv, EnterHold
  PROVE  OwnerInv' /\ RecordKeeps(projection, projection', stopped)
  <1>1. newest < HoldLimit /\ newest' = newest + 1 /\ UNCHANGED <<process, stopped>>
    BY DEF EnterHold
  <1>2. PICK time \in Times, observation \in Observations :
          Becomes(publish_addressed_authority(image, projection,
                 [clock EXCEPT !.safe_time = time, !.hold = Hold(newest + 1, observation)], process))
    BY DEF EnterHold
  <1> DEFINE entered == Hold(newest + 1, observation)
             authority == [clock EXCEPT !.safe_time = time, !.hold = entered]
  <1>3. newest \in 0..HoldLimit /\ HoldLimit \in Nat
    BY OwnerConstants DEF OwnerInv, OwnerTypeOK
  <1>4. newest' \in 0..HoldLimit /\ newest + 1 \in 1..HoldLimit /\ newest' # newest
    BY <1>1, <1>3
  <1>5. entered # Absent
    BY <1>4, OwnerConstants
  <1>6. entered.generation = newest'
    BY <1>1 DEF Hold
  <1>7. DOMAIN clock = {"safe_time", "hold", "last_shutdown"}
    BY DEF OwnerInv, ProjectionShape, CheckpointShape, clock
  <1> HIDE DEF entered
  <1>8. /\ DOMAIN authority = {"safe_time", "hold", "last_shutdown"} /\ authority.safe_time = time
        /\ authority.hold = entered
    BY <1>7
  <1> HIDE DEF authority
  <1>9. Becomes(publish_addressed_authority(image, projection, authority, process))
    BY <1>2 DEF authority, entered
  <1>10. QED BY <1>1, <1>4, <1>5, <1>6, <1>8, <1>9, AuthorityStep

\* The authority of the current hold again, or of none.
LEMMA PublishAuthorityStep ==
  ASSUME OwnerInv, PublishAuthority
  PROVE  OwnerInv' /\ RecordKeeps(projection, projection', stopped)
  <1>1. UNCHANGED <<process, stopped, newest>>
    BY DEF PublishAuthority
  <1>2. PICK time \in Times :
          Becomes(publish_addressed_authority(image, projection, [clock EXCEPT !.safe_time = time], process))
    BY DEF PublishAuthority
  <1> DEFINE authority == [clock EXCEPT !.safe_time = time]
  <1>3. /\ newest \in 0..HoldLimit /\ DOMAIN clock = {"safe_time", "hold", "last_shutdown"}
        /\ clock.hold # Absent => clock.hold.generation = newest
    BY DEF OwnerInv, OwnerTypeOK, ProjectionShape, CheckpointShape, NewestHold, clock
  <1>4. /\ DOMAIN authority = {"safe_time", "hold", "last_shutdown"} /\ authority.safe_time = time
        /\ authority.hold = clock.hold
    BY <1>3
  <1> HIDE DEF authority
  <1>5. Becomes(publish_addressed_authority(image, projection, authority, process))
    BY <1>2 DEF authority
  <1>6. QED BY <1>1, <1>3, <1>4, <1>5, AuthorityStep

\* Folding, with other owners' members installed or not, changes no clock and no cell.
LEMMA InstalledStep ==
  ASSUME OwnerInv, NEW high_water, NEW next,
         DOMAIN next = DOMAIN projection, next.generation = projection.generation,
         next.covered_head = projection.covered_head, next.clock = projection.clock,
         next.cells = projection.cells,
         Becomes(Checkpointed(high_water, next)), UNCHANGED <<process, stopped, newest>>
  PROVE  OwnerInv' /\ RecordKeeps(projection, projection', stopped)
  <1>1. ImageFollows /\ projection' = [next EXCEPT !.generation = @ + 1]
    BY FoldTaken
  <1>2. ProjectionShape(projection) /\ CheckpointShape(projection)
    BY DEF OwnerInv, ProjectionShape
  <1>3. ProjectionShape(next)
    BY <1>2 DEF ProjectionShape, CheckpointShape
  <1>4. RecordKeeps(projection, next, stopped)
    <2>1. next.clock.safe_time >= projection.clock.safe_time
      BY <1>2 DEF CheckpointShape
    <2>2. QED BY <1>2, <2>1, SameKeeps
  <1>5. NewestHold(next, newest')
    BY DEF OwnerInv, NewestHold
  <1>6. newest' \in 0..HoldLimit /\ projection.generation < MaxGeneration
    BY DEF OwnerInv, OwnerTypeOK, Becomes
  <1>7. QED BY <1>1, <1>3, <1>4, <1>5, <1>6, StepKeeps

\* fold_control_journal_image.
LEMMA FoldStep ==
  ASSUME OwnerInv, Fold
  PROVE  OwnerInv' /\ RecordKeeps(projection, projection', stopped)
  <1>1. Becomes(Checkpointed(image.high_water, projection)) /\ UNCHANGED <<process, stopped, newest>>
    BY DEF Fold, fold_control_journal_image
  <1>2. QED BY <1>1, InstalledStep

\* Another owner's pointer, ring and commands.
LEMMA InstallStep ==
  ASSUME OwnerInv, Install
  PROVE  OwnerInv' /\ RecordKeeps(projection, projection', stopped)
  <1>1. UNCHANGED <<process, stopped, newest>>
    BY DEF Install
  <1>2. PICK members \in Members :
          Becomes(Checkpointed(
            MaxTime(image.high_water, IF members.pointer = Absent THEN 0 ELSE members.pointer),
            [projection EXCEPT !.pointer = members.pointer, !.ring = members.ring,
                               !.commands = members.commands]))
    BY DEF Install
  <1> DEFINE next == [projection EXCEPT !.pointer = members.pointer, !.ring = members.ring,
                                        !.commands = members.commands]
             water == MaxTime(image.high_water, IF members.pointer = Absent THEN 0 ELSE members.pointer)
  <1>3. CheckpointShape(projection)
    BY DEF OwnerInv, ProjectionShape
  <1>4. /\ DOMAIN next = DOMAIN projection /\ next.generation = projection.generation
        /\ next.covered_head = projection.covered_head /\ next.clock = projection.clock
        /\ next.cells = projection.cells
    BY <1>3 DEF CheckpointShape
  <1> HIDE DEF next, water
  <1>5. Becomes(Checkpointed(water, next))
    BY <1>2 DEF next, water
  <1>6. QED BY <1>1, <1>4, <1>5, InstalledStep

\* A step that leaves the journal alone.
LEMMA StartProcessStep ==
  ASSUME OwnerInv, UNCHANGED <<image, projection, newest>>, process' \in Processes \ stopped'
  PROVE  OwnerInv' /\ RecordKeeps(projection, projection', stopped)
  <1>1. OwnerInv'
    BY DEF OwnerInv, OwnerTypeOK, ReopensAsLeft, clock
  <1>2. ProjectionShape(projection) /\ projection.clock.safe_time >= projection.clock.safe_time
    BY DEF OwnerInv, ProjectionShape, CheckpointShape
  <1>3. RecordKeeps(projection, projection, stopped)
    BY <1>2, SameKeeps
  <1>4. QED BY <1>1, <1>3

\* Every step of the owner keeps the invariant and the properties of a step.
LEMMA OwnerStep ==
  ASSUME OwnerInv, [OwnerNext]_ownerVars
  PROVE  OwnerInv' /\ RecordKeeps(projection, projection', stopped)
  <1>1. CASE ObserveClock
    BY <1>1, ClockStep DEF ObserveClock
  <1>2. CASE AutomaticSettlement
    BY <1>2, ClockStep DEF AutomaticSettlement
  <1>3. CASE EnterHold \/ PublishAuthority
    BY <1>3, EnterHoldStep, PublishAuthorityStep
  <1>4. CASE Acknowledge \/ RequestShutdown
    BY <1>4, AcknowledgeStep, RequestShutdownStep
  <1>5. CASE \E op \in Operations, recovery \in BOOLEAN : PublishPhase(op, recovery)
    BY <1>5, PublishPhaseStep
  <1>6. CASE \E op \in Operations, recovery \in BOOLEAN : CommitMirror(op, recovery)
    BY <1>6, CommitMirrorStep
  <1>7. CASE Fold \/ Install
    BY <1>7, FoldStep, InstallStep
  <1>8. CASE StartProcess
    BY <1>8, StartProcessStep DEF StartProcess
  <1>9. CASE UNCHANGED ownerVars
    <2>1. process' \in Processes \ stopped' /\ UNCHANGED <<image, projection, newest>>
      BY <1>9 DEF ownerVars, OwnerInv, OwnerTypeOK
    <2>2. QED BY <2>1, StartProcessStep
  <1>10. QED BY <1>1, <1>2, <1>3, <1>4, <1>5, <1>6, <1>7, <1>8, <1>9 DEF OwnerNext

\* A fresh root satisfies it.
LEMMA OwnerStart == ASSUME OwnerInit PROVE OwnerInv
  <1>1. PICK wall \in Times : image = Image(0, GenesisCheckpoint(wall), <<>>)
    BY DEF OwnerInit, GenesisImage, fresh_control_journal_header
  <1>2. projection = image.checkpoint /\ process \in Processes /\ stopped = {} /\ newest = 0
    BY DEF OwnerInit
  <1>3. wall \in Int
    BY OwnerConstants
  <1>4. /\ ImageShape(image) /\ projection = GenesisCheckpoint(wall) /\ replay_tail(image) = projection
        /\ CheckpointShape(projection) /\ validate_checkpoint(projection)
    BY <1>1, <1>2, <1>3, GenesisReplays
  <1>5. /\ projection.generation = 1 /\ projection.clock.safe_time = wall /\ projection.clock.hold = Absent
        /\ projection.cells = NoCells
    BY <1>4 DEF GenesisCheckpoint
  <1>6. CellsShape(projection.cells) /\ projection.cells["ack"].last = Absent
    BY <1>5 DEF CellsShape, NoCells, Operations
  <1>7. ProjectionShape(projection) /\ NewestHold(projection, newest)
    BY <1>4, <1>5, <1>6 DEF ProjectionShape, NewestHold
  <1>8. OwnerTypeOK
    <2>1. Len(image.tail) <= TailCountLimit
      <3>1. projection # Invalid
        BY <1>4, ValidIsAccepted
      <3>2. QED BY <1>4, <3>1 DEF replay_tail
    <2>2. QED BY <1>2, <1>5, <2>1, OwnerConstants DEF OwnerTypeOK, clock
  <1>9. QED BY <1>2, <1>4, <1>7, <1>8 DEF OwnerInv, ReopensAsLeft

\* It implies what the run checks: a completion that is disclosed is the newest hold's.
LEMMA OwnerCoherent == ASSUME OwnerInv PROVE JournalReopens
  <1>1. CompletionIsOfNewestHold
    <2>1. SUFFICES ASSUME NEW g \in 1..HoldLimit, NEW o \in Observations,
                          addressed_completion(projection, "ack", Hold(g, o), process)
                   PROVE  g = newest
      BY DEF CompletionIsOfNewestHold
    <2> DEFINE last == projection.cells["ack"].last
    <2>2. last # Absent /\ last.address = Hold(g, o)
      BY <2>1 DEF addressed_completion
    <2>3. last.address.generation = newest
      BY <2>2 DEF OwnerInv, NewestHold
    <2>4. QED BY <2>2, <2>3 DEF Hold
  <1>2. QED BY <1>1 DEF OwnerInv, JournalReopens

\* JournalReopens: whatever the owner and its successors publish, the image in hand
\* decodes and replays to the projection that was acted on, its tail stays within
\* the limit, and only the completion of the newest hold is disclosed.
THEOREM Reopening == OwnerSpec => []JournalReopens
  <1>1. OwnerInit => OwnerInv
    BY OwnerStart
  <1>2. OwnerInv /\ [OwnerNext]_ownerVars => OwnerInv'
    BY OwnerStep
  <1>3. OwnerInv => JournalReopens
    BY OwnerCoherent
  <1>4. QED BY <1>1, <1>2, <1>3, PTL DEF OwnerSpec

\* JournalSteps: no record lowers the safe time, clears a hold it does not settle,
\* takes an obligation back, or reports a gone process's shutdown graceful.
THEOREM Records == OwnerSpec => JournalSteps
  <1>1. OwnerInit => OwnerInv
    BY OwnerStart
  <1>2. OwnerInv /\ [OwnerNext]_ownerVars => OwnerInv'
    BY OwnerStep
  <1>3. OwnerInv /\ [OwnerNext]_ownerVars => [RecordKeeps(projection, projection', stopped)]_ownerVars
    BY OwnerStep
  <1>4. QED BY <1>1, <1>2, <1>3, PTL DEF OwnerSpec, JournalSteps

-----------------------------------------------------------------------------
(***************************************************************************)
(* The reference loop.  First the selection of candidates, the growth of   *)
(* tables and their counts; then snapshots, the steps of the workers, and  *)
(* the theorems.                                                           *)
(***************************************************************************)
\* t holds the elements of the first n of s that are in kept; e says where each was.
Picks(t, e, s, kept, n) ==
  /\ Len(t) \in Nat /\ DOMAIN t = 1..Len(t)
  /\ e \in [1..Len(t) -> 1..n]
  /\ \A j, k \in 1..Len(t) : e[j] = e[k] => j = k
  /\ \A k \in 1..Len(t) : t[k] = s[e[k]] /\ s[e[k]] \in kept
  /\ \A i \in 1..n : s[i] \in kept => \E k \in 1..Len(t) : e[k] = i

\* One element more of s is picked or not.
LEMMA PicksOneMore ==
  ASSUME NEW S, NEW t \in Seq(S), NEW e, NEW s, NEW kept, NEW n \in Nat, s[n + 1] \in S,
         Picks(t, e, s, kept, n)
  PROVE  IF s[n + 1] \in kept THEN \E f : Picks(Append(t, s[n + 1]), f, s, kept, n + 1)
         ELSE \E f : Picks(t, f, s, kept, n + 1)
  <1> DEFINE m == Len(t)
  <1>0. m \in Nat /\ DOMAIN t = 1..m
    OBVIOUS
  <1>1. CASE s[n + 1] \notin kept
    <2>1. e \in [1..m -> 1..(n + 1)]
      BY DEF Picks
    <2>2. \A i \in 1..(n + 1) : s[i] \in kept => i \in 1..n
      BY <1>1
    <2>3. Picks(t, e, s, kept, n + 1)
      BY <2>1, <2>2 DEF Picks
    <2>4. QED BY <1>1, <2>3
  <1>2. CASE s[n + 1] \in kept
    <2> DEFINE x == s[n + 1]
               u == Append(t, x)
               f == [k \in 1..(m + 1) |-> IF k = m + 1 THEN n + 1 ELSE e[k]]
    <2>1. Len(u) = m + 1 /\ DOMAIN u = 1..(m + 1) /\ u[m + 1] = x /\ \A k \in 1..m : u[k] = t[k]
      OBVIOUS
    <2>a. \A k \in 1..m : e[k] \in 1..n
      BY DEF Picks
    <2>b. \A k \in 1..(m + 1) : k = m + 1 \/ k \in 1..m
      BY <1>0
    <2>c. n + 1 \in 1..(n + 1) /\ m + 1 \in 1..(m + 1) /\ \A k \in 1..n : k \in 1..(n + 1)
      BY <1>0
    <2>d. \A k \in 1..m : k \in 1..(m + 1) /\ k # m + 1
      BY <1>0
    <2>2. f \in [1..(m + 1) -> 1..(n + 1)] /\ f[m + 1] = n + 1 /\ \A k \in 1..m : f[k] = e[k] /\ e[k] \in 1..n
      <3> HIDE DEF m
      <3>1. QED BY <2>a, <2>b, <2>c, <2>d
    <2> HIDE DEF u, f
    <2>3. \A j, k \in 1..(m + 1) : f[j] = f[k] => j = k
      BY <1>0, <2>2 DEF Picks
    <2>4. \A k \in 1..(m + 1) : u[k] = s[f[k]] /\ s[f[k]] \in kept
      <3>1. \A k \in 1..m : t[k] = s[e[k]] /\ s[e[k]] \in kept
        BY DEF Picks
      <3> HIDE DEF m
      <3>2. QED BY <1>2, <2>1, <2>2, <2>b, <3>1
    <2>5. \A i \in 1..(n + 1) : s[i] \in kept => \E k \in 1..(m + 1) : f[k] = i
      <3> SUFFICES ASSUME NEW i \in 1..(n + 1), s[i] \in kept
                   PROVE  \E k \in 1..(m + 1) : f[k] = i
        OBVIOUS
      <3>1. CASE i = n + 1
        BY <1>0, <2>2, <3>1
      <3>2. CASE i # n + 1
        <4>1. i \in 1..n
          BY <3>2
        <4>2. PICK k \in 1..m : e[k] = i
          BY <4>1 DEF Picks
        <4>3. k \in 1..(m + 1)
          BY <1>0
        <4>4. QED BY <2>2, <4>2, <4>3
      <3>3. QED BY <3>1, <3>2
    <2>6. Picks(u, f, s, kept, n + 1)
      BY <1>0, <2>1, <2>2, <2>3, <2>4, <2>5 DEF Picks
    <2>7. QED BY <1>2, <2>6 DEF u
  <1>3. QED BY <1>1, <1>2

\* What the recursion of Those runs through.
Selecting(f, s, kept, n) ==
  /\ f[0] = <<>>
  /\ \A i \in 1..n : f[i] = IF s[i] \in kept THEN Append(f[i - 1], s[i]) ELSE f[i - 1]

\* The selection is defined for every length.
LEMMA ThoseRuns ==
  ASSUME NEW s, NEW kept, NEW n \in Nat
  PROVE  \E f : Selecting(f, s, kept, n)
  <1> DEFINE S == {m \in Nat : \E f : Selecting(f, s, kept, m)}
  <1>1. 0 \in S
    <2>1. Selecting([i \in {0} |-> <<>>], s, kept, 0)
      BY DEF Selecting
    <2>2. QED BY <2>1
  <1>2. ASSUME NEW m \in S PROVE m + 1 \in S
    <2>1. m \in Nat
      OBVIOUS
    <2>2. PICK f : Selecting(f, s, kept, m)
      OBVIOUS
    <2> DEFINE last == IF s[m + 1] \in kept THEN Append(f[m], s[m + 1]) ELSE f[m]
               g == [i \in 0..m + 1 |-> IF i = m + 1 THEN last ELSE f[i]]
    <2>3. g[m + 1] = last /\ \A i \in 0..m : g[i] = f[i]
      BY <2>1
    <2> HIDE DEF g
    <2>4. ASSUME NEW i \in 1..m + 1
          PROVE  g[i] = IF s[i] \in kept THEN Append(g[i - 1], s[i]) ELSE g[i - 1]
      <3>1. CASE i = m + 1
        <4>1. m \in 0..m /\ i - 1 = m
          BY <2>1, <3>1
        <4>2. g[i - 1] = f[m]
          BY <2>3, <4>1
        <4>3. QED BY <2>3, <3>1, <4>2
      <3>2. CASE i # m + 1
        <4>1. i \in 1..m /\ i \in 0..m /\ i - 1 \in 0..m
          BY <2>1, <3>2
        <4>2. g[i] = f[i] /\ g[i - 1] = f[i - 1]
          BY <2>3, <4>1
        <4>3. QED BY <2>2, <4>1, <4>2 DEF Selecting
      <3>3. QED BY <3>1, <3>2
    <2>5. g[0] = <<>>
      BY <2>1, <2>2, <2>3 DEF Selecting
    <2>6. Selecting(g, s, kept, m + 1)
      BY <2>4, <2>5 DEF Selecting
    <2>7. QED BY <2>1, <2>6
  <1> HIDE DEF S
  <1>3. S \subseteq Nat
    BY DEF S
  <1>4. S = Nat
    BY <1>1, <1>2, <1>3, SetInduction
  <1>5. QED BY <1>4 DEF S

\* Those picks what is kept: each element once, none beside it.
LEMMA ThosePick ==
  ASSUME NEW S, NEW s \in Seq(S), NEW kept
  PROVE  /\ Those(s, kept) \in Seq(S)
         /\ \E e : Picks(Those(s, kept), e, s, kept, Len(s))
  <1> DEFINE n == Len(s)
             Follows(e) == e = [i \in 0..n |-> IF i = 0 THEN <<>>
                                ELSE IF s[i] \in kept THEN Append(e[i - 1], s[i]) ELSE e[i - 1]]
             g == CHOOSE e : Follows(e)
  <1>1. n \in Nat
    OBVIOUS
  <1>2. Those(s, kept) = g[n]
    BY DEF Those
  <1>3. PICK f : Selecting(f, s, kept, n)
    BY <1>1, ThoseRuns
  <1> DEFINE h == [i \in 0..n |-> f[i]]
  <1>4. Follows(h)
    <2>1. \A i \in 0..n : h[i] = f[i]
      OBVIOUS
    <2>2. ASSUME NEW i \in 0..n
          PROVE  f[i] = IF i = 0 THEN <<>>
                        ELSE IF s[i] \in kept THEN Append(h[i - 1], s[i]) ELSE h[i - 1]
      <3>1. CASE i = 0
        BY <1>3, <3>1 DEF Selecting
      <3>2. CASE i # 0
        <4>1. i \in 1..n /\ i - 1 \in 0..n
          BY <1>1, <3>2
        <4>2. h[i - 1] = f[i - 1]
          BY <2>1, <4>1
        <4> HIDE DEF h
        <4>3. QED BY <1>3, <3>2, <4>1, <4>2 DEF Selecting
      <3>3. QED BY <3>1, <3>2
    <2>3. QED BY <2>2
  <1> HIDE DEF h
  <1>5. Follows(g)
    BY <1>4
  <1> HIDE DEF g
  <1>6. Selecting(g, s, kept, n)
    <2>1. \A i \in 0..n : g[i] = IF i = 0 THEN <<>>
                                ELSE IF s[i] \in kept THEN Append(g[i - 1], s[i]) ELSE g[i - 1]
      BY <1>5
    <2> HIDE DEF Follows
    <2>2. 0 \in 0..n /\ \A i \in 1..n : i \in 0..n /\ i # 0
      BY <1>1
    <2>3. QED BY <2>1, <2>2 DEF Selecting
  <1> HIDE DEF Follows, n
  <1>7. \A i \in 1..n : s[i] \in S
    BY DEF n
  <1> DEFINE T == {m \in Nat : m <= n => g[m] \in Seq(S) /\ \E e : Picks(g[m], e, s, kept, m)}
  <1>8. 0 \in T
    <2> DEFINE none == <<>>
               e == [i \in 1..0 |-> 0]
    <2>1. Len(none) = 0 /\ DOMAIN none = 1..0 /\ e \in [1..0 -> 1..0] /\ none \in Seq(S)
      OBVIOUS
    <2>2. \A i \in 1..0 : FALSE
      OBVIOUS
    <2>3. g[0] = none
      BY <1>6 DEF Selecting
    <2> HIDE DEF none, e
    <2>4. Picks(none, e, s, kept, 0)
      BY <2>1, <2>2 DEF Picks
    <2>5. QED BY <2>1, <2>3, <2>4
  <1>9. ASSUME NEW m \in T PROVE m + 1 \in T
    <2>1. m \in Nat
      OBVIOUS
    <2>2. SUFFICES ASSUME m + 1 <= n
                   PROVE  g[m + 1] \in Seq(S) /\ \E e : Picks(g[m + 1], e, s, kept, m + 1)
      BY <2>1
    <2>3. m <= n /\ m + 1 \in 1..n /\ (m + 1) - 1 = m
      BY <1>1, <2>1, <2>2 DEF n
    <2>4. g[m] \in Seq(S) /\ \E e : Picks(g[m], e, s, kept, m)
      BY <2>3
    <2>5. PICK e : Picks(g[m], e, s, kept, m)
      BY <2>4
    <2>6. s[m + 1] \in S
      BY <1>7, <2>3
    <2>7. g[m + 1] = IF s[m + 1] \in kept THEN Append(g[m], s[m + 1]) ELSE g[m]
      BY <1>6, <2>3 DEF Selecting
    <2>8. g[m + 1] \in Seq(S)
      BY <2>4, <2>6, <2>7
    <2>9. IF s[m + 1] \in kept THEN \E f1 : Picks(Append(g[m], s[m + 1]), f1, s, kept, m + 1)
          ELSE \E f1 : Picks(g[m], f1, s, kept, m + 1)
      BY <2>1, <2>4, <2>5, <2>6, PicksOneMore
    <2>10. QED BY <2>7, <2>8, <2>9
  <1> HIDE DEF T
  <1>10. T \subseteq Nat
    BY DEF T
  <1>11. T = Nat
    BY <1>8, <1>9, <1>10, SetInduction
  <1>12. g[n] \in Seq(S) /\ \E e : Picks(g[n], e, s, kept, n)
    BY <1>1, <1>11 DEF T, n
  <1>13. QED BY <1>2, <1>12 DEF n

-----------------------------------------------------------------------------
\* t is s or goes on from it.
Longer(s, t) == Len(s) <= Len(t) /\ \A i \in 1..Len(s) : t[i] = s[i]

\* A sequence that goes on keeps what it had, as a prefix and as a set.
LEMMA LongerPrefix ==
  ASSUME NEW S, NEW s \in Seq(S), NEW t \in Seq(S), Longer(s, t)
  PROVE  IsPrefix(s, t) /\ Range(s) \subseteq Range(t)
  <1> DEFINE n == Len(s)
  <1>1. n \in Nat /\ Len(t) \in Nat /\ n <= Len(t) /\ DOMAIN s = 1..n /\ DOMAIN t = 1..Len(t)
    BY DEF Longer
  <1>2. SubSeq(s, 1, n) = SubSeq(t, 1, n)
    <2>1. \A i \in 1..n : s[i] \in S /\ t[i] \in S /\ t[i] = s[i]
      BY <1>1 DEF Longer
    <2>2. SubSeq(s, 1, n) \in Seq(S) /\ SubSeq(t, 1, n) \in Seq(S)
      BY <1>1, <2>1, SubSeqProperties
    <2>3. Len(SubSeq(s, 1, n)) = n /\ Len(SubSeq(t, 1, n)) = n
      BY <1>1, <2>1, SubSeqProperties
    <2>4. \A i \in 1..n : SubSeq(s, 1, n)[i] = s[i] /\ SubSeq(t, 1, n)[i] = t[i]
      BY <1>1, <2>1, SubSeqProperties
    <2> DEFINE a == SubSeq(s, 1, n)
               b == SubSeq(t, 1, n)
    <2> HIDE DEF a, b, n
    <2>5. a \in Seq(S) /\ b \in Seq(S) /\ Len(a) = n /\ Len(b) = n /\ \A i \in 1..n : a[i] = b[i]
      BY <2>1, <2>2, <2>3, <2>4 DEF a, b
    <2>6. a = b
      BY <2>5, SeqEqual
    <2>7. QED BY <2>6 DEF a, b
  <1>3. IsPrefix(s, t)
    BY <1>1, <1>2 DEF IsPrefix
  <1>4. Range(s) \subseteq Range(t)
    BY <1>1 DEF Longer, Range
  <1>5. QED BY <1>3, <1>4

\* A sequence goes on from itself.
LEMMA LongerSelf ==
  ASSUME NEW S, NEW s \in Seq(S)
  PROVE  Longer(s, s)
  BY DEF Longer

\* An element more.
LEMMA LongerByOne ==
  ASSUME NEW S, NEW s \in Seq(S), NEW x \in S
  PROVE  /\ Append(s, x) \in Seq(S) /\ Longer(s, Append(s, x))
         /\ Len(Append(s, x)) = Len(s) + 1 /\ Range(Append(s, x)) \subseteq Range(s) \cup {x}
  <1>1. /\ Append(s, x) \in Seq(S) /\ Len(Append(s, x)) = Len(s) + 1 /\ Append(s, x)[Len(s) + 1] = x
        /\ \A i \in 1..Len(s) : Append(s, x)[i] = s[i]
    OBVIOUS
  <1> DEFINE t == Append(s, x)
  <1> HIDE DEF t
  <1>2. /\ t \in Seq(S) /\ Len(t) = Len(s) + 1 /\ t[Len(s) + 1] = x
        /\ \A i \in 1..Len(s) : t[i] = s[i]
    BY <1>1 DEF t
  <1>3. Len(s) \in Nat /\ DOMAIN t = 1..Len(t) /\ DOMAIN s = 1..Len(s)
    BY <1>2
  <1>4. Longer(s, t)
    BY <1>2, <1>3 DEF Longer
  <1>5. \A i \in DOMAIN t : i = Len(s) + 1 \/ i \in DOMAIN s
    BY <1>2, <1>3
  <1>6. Range(t) \subseteq Range(s) \cup {x}
    BY <1>2, <1>3, <1>5 DEF Range
  <1>7. QED BY <1>2, <1>4, <1>6 DEF t

\* t is s and then u.
Continued(s, u, t) ==
  /\ Longer(s, t)
  /\ DOMAIN t = 1..(Len(s) + Len(u))
  /\ \A k \in 1..Len(u) : Len(s) + k \in 1..(Len(s) + Len(u)) /\ t[Len(s) + k] = u[k]
  /\ \A i \in 1..(Len(s) + Len(u)) : i \in 1..Len(s) \/ \E k \in 1..Len(u) : i = Len(s) + k

\* A whole sequence more.
LEMMA LongerByMore ==
  ASSUME NEW S, NEW s \in Seq(S), NEW u \in Seq(S), NEW t, t = s \o u
  PROVE  t \in Seq(S) /\ Continued(s, u, t)
  <1>1. /\ t \in Seq(S) /\ Len(t) = Len(s) + Len(u)
        /\ \A i \in 1..(Len(s) + Len(u)) : t[i] = IF i <= Len(s) THEN s[i] ELSE u[i - Len(s)]
    BY ConcatProperties
  <1>2. Len(s) \in Nat /\ Len(u) \in Nat
    OBVIOUS
  <1>3. DOMAIN t = 1..(Len(s) + Len(u))
    BY <1>1
  <1>4. Longer(s, t)
    BY <1>1, <1>2 DEF Longer
  <1>5. \A k \in 1..Len(u) : Len(s) + k \in 1..(Len(s) + Len(u)) /\ t[Len(s) + k] = u[k]
    <2> SUFFICES ASSUME NEW k \in 1..Len(u)
                 PROVE  Len(s) + k \in 1..(Len(s) + Len(u)) /\ t[Len(s) + k] = u[k]
      OBVIOUS
    <2>1. Len(s) + k \in 1..(Len(s) + Len(u)) /\ ~(Len(s) + k <= Len(s)) /\ (Len(s) + k) - Len(s) = k
      BY <1>2
    <2>2. QED BY <1>1, <2>1
  <1>6. \A i \in 1..(Len(s) + Len(u)) : i \in 1..Len(s) \/ \E k \in 1..Len(u) : i = Len(s) + k
    <2> SUFFICES ASSUME NEW i \in 1..(Len(s) + Len(u)), i \notin 1..Len(s)
                 PROVE  \E k \in 1..Len(u) : i = Len(s) + k
      OBVIOUS
    <2>1. i - Len(s) \in 1..Len(u) /\ i = Len(s) + (i - Len(s))
      BY <1>2
    <2>2. QED BY <2>1
  <1>7. QED BY <1>1, <1>3, <1>4, <1>5, <1>6 DEF Continued

\* A set that maps into a finite one, never twice to the same, is no larger.
LEMMA Injected ==
  ASSUME NEW A, NEW B, IsFiniteSet(B), NEW f \in [A -> B], \A x, y \in A : f[x] = f[y] => x = y
  PROVE  IsFiniteSet(A) /\ Cardinality(A) <= Cardinality(B)
  <1>1. f \in Injection(A, B)
    BY DEF Injection, IsInjective
  <1>2. QED BY <1>1, FS_Injection

-----------------------------------------------------------------------------
\* The same tables under a revision.
At(d, r) == [d EXCEPT !.revision = r]
Edited(d, i, x) == [d EXCEPT !.outbox[i] = x]

\* Snapshots, field by field.
LEMMA SnapshotFields ==
  ASSUME NEW d \in Snapshots
  PROVE  /\ d.receipts \in Seq(ReceiptRow) /\ d.bindings \in Seq(BindingRow) /\ d.pins \in Seq(PinRow)
         /\ d.events \in Seq(EventRow) /\ d.outbox \in Seq(IntentRow) /\ d.history \in Seq(HistoryRow)
         /\ d.sensitive \in SensitiveRow \cup {Nothing} /\ d.windows \in Seq(WindowRow)
         /\ d.revision \in 0..MaxRevision
  BY DEF Snapshots

\* A change of the other tables keeps a snapshot sound.
LEMMA SoundBeside ==
  ASSUME NEW d, Sound(d), NEW e \in Snapshots, e.receipts = d.receipts, e.outbox = d.outbox,
         d.revision <= e.revision, Items(e) <= MaxItems, Retained(e)
  PROVE  Sound(e)
  <1>1. WellFormed(e)
    BY DEF Sound, WellFormed
  <1>2. LeasesCounted(e)
    <2>1. LeasesCounted(d) /\ d \in Snapshots
      BY DEF Sound, WellFormed
    <2>2. d.revision \in Int /\ e.revision \in Int /\ d.outbox \in Seq(IntentRow)
      BY <2>1, SnapshotFields, LoopAssumption DEF LoopConstants
    <2>3. \A i \in DOMAIN d.outbox : d.outbox[i].fence \in Int
      <3>1. \A i \in DOMAIN d.outbox : d.outbox[i] \in IntentRow
        BY <2>2
      <3>2. QED BY <3>1 DEF IntentRow
    <2>4. QED BY <2>1, <2>2, <2>3 DEF LeasesCounted
  <1>3. \A id : ReceiptsOf(e, id) = ReceiptsOf(d, id) /\ IntentsOf(e, id) = IntentsOf(d, id)
    BY DEF ReceiptsOf, IntentsOf
  <1>4. Verified(e) /\ Alerted(e) /\ Receipted(e) /\ \A id \in AllIdentities : OneBody(e, id)
    BY <1>3 DEF Sound, Verified, Alerted, Receipted, OneBody
  <1>5. QED BY <1>1, <1>2, <1>4 DEF Sound

\* So does an edit of one intent that keeps what the intent is of.
LEMMA SoundEdited ==
  ASSUME NEW d, Sound(d), NEW i \in DOMAIN d.outbox, NEW x \in IntentRow, NEW r \in 0..MaxRevision,
         d.revision <= r, x.of = d.outbox[i].of, x.leased <=> x.expires > 0,
         x.fence <= r, (x.leased \/ x.delivered) <=> x.fence > 0, x.fence > 1 => x.ambiguous,
         NEW e, e = At(Edited(d, i, x), r)
  PROVE  /\ Sound(e)
         /\ e.receipts = d.receipts /\ e.events = d.events /\ e.pins = d.pins /\ e.revision = r
         /\ DOMAIN e.outbox = DOMAIN d.outbox /\ e.outbox[i] = x
         /\ \A k \in DOMAIN d.outbox : k # i => e.outbox[k] = d.outbox[k]
  <1>0. d \in Snapshots
    BY DEF Sound, WellFormed
  <1>1. /\ e.receipts = d.receipts /\ e.events = d.events /\ e.pins = d.pins /\ e.revision = r
        /\ e.bindings = d.bindings /\ e.history = d.history /\ e.sensitive = d.sensitive
        /\ e.windows = d.windows /\ e.outbox = [d.outbox EXCEPT ![i] = x]
    BY <1>0 DEF Snapshots, At, Edited
  <1>2. /\ d.outbox \in Seq(IntentRow) /\ DOMAIN d.outbox = 1..Len(d.outbox)
    BY <1>0, SnapshotFields
  <1>3. /\ e.outbox \in Seq(IntentRow) /\ Len(e.outbox) = Len(d.outbox)
        /\ e.outbox[i] = x /\ \A k \in DOMAIN d.outbox : k # i => e.outbox[k] = d.outbox[k]
    BY <1>0, <1>1, <1>2, ExceptSeq DEF At, Edited
  <1>4. DOMAIN e.outbox = DOMAIN d.outbox
    BY <1>1
  <1>5. e \in Snapshots
    BY <1>0, <1>1, <1>3 DEF Snapshots, At, Edited
  <1>6. WellFormed(e)
    <2>1. Items(e) = Items(d)
      BY <1>1, <1>3 DEF Items
    <2>2. QED BY <1>3, <1>4, <1>5, <2>1 DEF Sound, WellFormed
  <1>7. LeasesCounted(e)
    <2>1. \A k \in DOMAIN d.outbox : d.outbox[k].fence <= r
      <3>1. d.revision \in Int /\ r \in Int
        BY <1>0, SnapshotFields, LoopAssumption DEF LoopConstants
      <3>2. \A k \in DOMAIN d.outbox : d.outbox[k].fence \in Int
        <4>1. \A k \in DOMAIN d.outbox : d.outbox[k] \in IntentRow
          BY <1>2
        <4>2. QED BY <4>1 DEF IntentRow
      <3>3. QED BY <3>1, <3>2 DEF Sound, LeasesCounted
    <2>2. QED BY <1>1, <1>3, <1>4, <2>1 DEF Sound, LeasesCounted
  <1>8. \A id : ReceiptsOf(e, id) = ReceiptsOf(d, id) /\ IntentsOf(e, id) = IntentsOf(d, id)
    BY <1>1, <1>3, <1>4 DEF ReceiptsOf, IntentsOf, At, Edited
  <1>9. \A k \in DOMAIN d.outbox : e.outbox[k].of = d.outbox[k].of
    BY <1>3
  <1>10. Verified(e) /\ Alerted(e) /\ Receipted(e) /\ Retained(e) /\ \A id \in AllIdentities : OneBody(e, id)
    <2>1. Verified(e) /\ Retained(e)
      BY <1>1 DEF Sound, Verified, Retained
    <2>2. Alerted(e)
      BY <1>1, <1>8 DEF Sound, Alerted
    <2>3. Receipted(e)
      BY <1>4, <1>8, <1>9 DEF Sound, Receipted
    <2>4. \A id \in AllIdentities : OneBody(e, id)
      BY <1>8 DEF Sound, OneBody
    <2>5. QED BY <2>1, <2>2, <2>3, <2>4
  <1>11. QED BY <1>1, <1>3, <1>4, <1>6, <1>7, <1>10 DEF Sound

-----------------------------------------------------------------------------
\* The rows a candidate leaves.
LEMMA CandidateRows ==
  ASSUME epoch \in DOMAIN Configurations, NEW g \in Ingresses, NEW c \in Range(g.batch),
         NEW d \in Snapshots, NEW i \in Nat \ {0}
  PROVE  /\ ReceiptOf(c) \in ReceiptRow /\ EventOf(d, c, i) \in EventRow /\ Intent(d, c) \in IntentRow
         /\ Identity(c) \in Identities(g.batch) /\ Identities(g.batch) \subseteq AllIdentities
         /\ c.kind = "message" <=> Identity(c)[1] = "message"
  <1>1. Identity(c) \in Identities(g.batch) /\ Identities(g.batch) \subseteq AllIdentities
    BY DEF Identities, AllIdentities, Range
  <1>2. c.kind = "message" \/ (c.kind = "status" /\ c.status \in Statuses)
    BY LoopAssumption DEF LoopConstants
  <1>3. c.kind = "message" <=> Identity(c)[1] = "message"
    BY <1>2 DEF Identity
  <1>4. /\ configuration.active \in Generations /\ configuration.sender \in Senders
    <2>1. configuration.active \in configuration.retained
      <3>1. DOMAIN Configurations \subseteq Int
        BY LoopAssumption DEF LoopConstants
      <3>2. epoch <= epoch
        BY <3>1
      <3>3. QED BY <3>2, LoopAssumption DEF LoopConstants, configuration
    <2>2. QED BY <2>1 DEF Generations, Senders, configuration
  <1>5. ReceiptOf(c) \in ReceiptRow
    BY <1>1, <1>4 DEF ReceiptOf, ReceiptRow
  <1>6. ReplyReference(d, c) \in References
    BY DEF ReplyReference, References
  <1>7. EventOf(d, c, i) \in EventRow
    <2>1. Len(d.events) + i \in Nat \ {0}
      BY SnapshotFields
    <2>2. QED BY <1>2, <1>6, <2>1 DEF EventOf, EventRow
  <1>8. Intent(d, c) \in IntentRow
    <2>1. 0 \in 0..MaxRevision /\ 0 \in 0..(Horizon + LeaseTime)
      BY LoopAssumption DEF LoopConstants
    <2>2. QED BY <1>1, <1>6, <2>1 DEF Intent, IntentRow
  <1>9. QED BY <1>1, <1>3, <1>5, <1>7, <1>8

\* Places that follow n, each the place of another element of B.
LEMMA Shifted ==
  ASSUME NEW n \in Nat, NEW m \in Nat, NEW A, NEW B, IsFiniteSet(B), NEW p,
         \A a \in A : \E k \in 1..m : a = n + k /\ p[k] \in B,
         \A j, k \in 1..m : p[j] = p[k] => j = k
  PROVE  Cardinality(A) <= Cardinality(B)
  <1> DEFINE f == [a \in A |-> p[a - n]]
  <1>1. \A a \in A : a - n \in 1..m /\ p[a - n] \in B /\ a \in Int
    <2> SUFFICES ASSUME NEW a \in A PROVE a - n \in 1..m /\ p[a - n] \in B /\ a \in Int
      OBVIOUS
    <2>1. PICK k \in 1..m : a = n + k /\ p[k] \in B
      OBVIOUS
    <2>2. a - n = k /\ a \in Int
      BY <2>1
    <2>3. QED BY <2>1, <2>2
  <1>2. f \in [A -> B]
    BY <1>1
  <1>3. \A x, y \in A : f[x] = f[y] => x = y
    <2> SUFFICES ASSUME NEW x \in A, NEW y \in A, f[x] = f[y] PROVE x = y
      OBVIOUS
    <2>1. x - n \in 1..m /\ y - n \in 1..m /\ x \in Int /\ y \in Int
      BY <1>1
    <2>2. p[x - n] = p[y - n]
      OBVIOUS
    <2>3. x - n = y - n
      BY <2>1, <2>2
    <2>4. QED BY <2>1, <2>3
  <1> HIDE DEF f
  <1>4. QED BY <1>2, <1>3, Injected

\* The outbox only gains intents nobody has leased.
Quiet(d, e) ==
  /\ Longer(d.outbox, e.outbox)
  /\ \A i \in DOMAIN e.outbox : i \in DOMAIN d.outbox \/ (e.outbox[i].fence = 0 /\ ~e.outbox[i].delivered)

\* What a commit leaves of the evidence.
Goes(d, e) ==
  Longer(d.events, e.events) /\ Longer(d.receipts, e.receipts) /\ Longer(d.pins, e.pins)

\* What is fresh in a body, and which of it are messages.
LEMMA FreshOf ==
  ASSUME NEW d, NEW g \in Ingresses
  PROVE  /\ accepted(d, g.batch) \in Seq(Range(g.batch))
         /\ messages(accepted(d, g.batch)) \in Seq(Range(g.batch))
         /\ g.batch \in Seq(Range(g.batch))
         /\ \E p : Picks(accepted(d, g.batch), p, g.batch,
                         {c \in Range(g.batch) : ~is_duplicate(d, c)}, Len(g.batch))
         /\ \E q : Picks(messages(accepted(d, g.batch)), q, accepted(d, g.batch),
                         {c \in Range(accepted(d, g.batch)) : c.kind = "message"},
                         Len(accepted(d, g.batch)))
  <1>1. g.batch \in Seq(Range(g.batch))
    BY LoopAssumption DEF LoopConstants
  <1> DEFINE S == Range(g.batch)
             kept == {c \in S : ~is_duplicate(d, c)}
             fresh == accepted(d, g.batch)
             mine == {c \in Range(fresh) : c.kind = "message"}
  <1>2. fresh = Those(g.batch, kept) /\ messages(fresh) = Those(fresh, mine)
    BY DEF accepted, messages
  <1> HIDE DEF S, kept, fresh, mine
  <1>3. fresh \in Seq(S) /\ \E p : Picks(fresh, p, g.batch, kept, Len(g.batch))
    BY <1>1, <1>2, ThosePick DEF S
  <1>4. messages(fresh) \in Seq(S) /\ \E q : Picks(messages(fresh), q, fresh, mine, Len(fresh))
    BY <1>2, <1>3, ThosePick
  <1>5. QED BY <1>1, <1>3, <1>4 DEF S, kept, fresh, mine

\* A function over the first n numbers is a sequence.
LEMMA Tabled ==
  ASSUME NEW S, NEW n \in Nat, NEW f, f = [i \in 1..n |-> f[i]], \A i \in 1..n : f[i] \in S
  PROVE  f \in Seq(S) /\ Len(f) = n
  OBVIOUS

\* What one body's fresh candidates add keeps the snapshot sound.
LEMMA SoundEntered ==
  ASSUME epoch \in DOMAIN Configurations, NEW d, Sound(d), Known(d),
         NEW g \in Ingresses, g.defects = {}, NEW fresh, fresh = accepted(d, g.batch),
         NEW r \in 0..MaxRevision, d.revision <= r,
         NEW e, e = At(Entered(d, fresh), r), Items(e) <= MaxItems
  PROVE  /\ Sound(e) /\ Known(e) /\ Goes(d, e) /\ Quiet(d, e)
         /\ e.pins = d.pins /\ e.revision = r
         /\ \A id \in Identities(g.batch) : ReceiptsOf(e, id) # {}
  <1> DEFINE batch == g.batch
             kept == {c \in Range(batch) : ~is_duplicate(d, c)}
             ms == messages(fresh)
             mine == {c \in Range(fresh) : c.kind = "message"}
             rows == [i \in DOMAIN fresh |-> ReceiptOf(fresh[i])]
             happened == [i \in DOMAIN fresh |-> EventOf(d, fresh[i], i)]
             alerts == [i \in DOMAIN ms |-> Intent(d, ms[i])]
  <1>0. d \in Snapshots
    BY DEF Sound, WellFormed
  <1>1. /\ e.receipts = d.receipts \o rows /\ e.events = d.events \o happened
        /\ e.outbox = d.outbox \o alerts /\ e.revision = r /\ e.pins = d.pins
        /\ e.bindings = d.bindings /\ e.history = d.history /\ e.sensitive = d.sensitive
        /\ e.windows = d.windows
        /\ DOMAIN e = DOMAIN d /\ e = [d EXCEPT !.receipts = e.receipts, !.events = e.events,
                                                !.outbox = e.outbox, !.revision = r]
    BY <1>0 DEF Snapshots, Entered, At
  <1>2. PICK p : Picks(fresh, p, batch, kept, Len(batch))
    BY FreshOf
  <1>3. PICK q : Picks(ms, q, fresh, mine, Len(fresh))
    BY FreshOf
  <1>4. fresh \in Seq(Range(batch)) /\ ms \in Seq(Range(batch)) /\ batch \in Seq(Range(batch))
    BY FreshOf
  <1> DEFINE n == Len(fresh)
             m == Len(ms)
  <1>5. /\ n \in Nat /\ m \in Nat /\ DOMAIN fresh = 1..n /\ DOMAIN ms = 1..m
        /\ Len(batch) \in Nat /\ DOMAIN batch = 1..Len(batch)
        /\ \A k \in 1..n : fresh[k] \in Range(batch)
        /\ \A k \in 1..m : ms[k] \in Range(batch)
    BY <1>4
  <1> HIDE DEF batch, kept, ms, mine, n, m
  <1>6. /\ \A k \in 1..n : /\ ReceiptOf(fresh[k]) \in ReceiptRow /\ EventOf(d, fresh[k], k) \in EventRow
                           /\ Identity(fresh[k]) \in Identities(batch)
                           /\ Identity(fresh[k])[1] = "message" => fresh[k].kind = "message"
        /\ \A k \in 1..m : Intent(d, ms[k]) \in IntentRow
    <2>1. \A k \in 1..n : k \in Nat \ {0}
      OBVIOUS
    <2>2. \A k \in 1..m : k \in Nat \ {0}
      OBVIOUS
    <2>3. QED BY <1>0, <1>5, <2>1, <2>2, CandidateRows DEF batch
  <1>7. /\ rows \in Seq(ReceiptRow) /\ Len(rows) = n /\ \A k \in 1..n : rows[k] = ReceiptOf(fresh[k])
        /\ happened \in Seq(EventRow) /\ Len(happened) = n
        /\ alerts \in Seq(IntentRow) /\ Len(alerts) = m /\ \A k \in 1..m : alerts[k] = Intent(d, ms[k])
    <2>1. rows = [i \in 1..n |-> rows[i]] /\ \A k \in 1..n : rows[k] = ReceiptOf(fresh[k])
      BY <1>5
    <2>2. happened = [i \in 1..n |-> happened[i]] /\ \A k \in 1..n : happened[k] = EventOf(d, fresh[k], k)
      BY <1>5
    <2>3. alerts = [i \in 1..m |-> alerts[i]] /\ \A k \in 1..m : alerts[k] = Intent(d, ms[k])
      BY <1>5
    <2> HIDE DEF rows, happened, alerts
    <2>4. rows \in Seq(ReceiptRow) /\ Len(rows) = n
      BY <1>5, <1>6, <2>1, Tabled
    <2>5. happened \in Seq(EventRow) /\ Len(happened) = n
      BY <1>5, <1>6, <2>2, Tabled
    <2>6. alerts \in Seq(IntentRow) /\ Len(alerts) = m
      BY <1>5, <1>6, <2>3, Tabled
    <2>7. QED BY <2>1, <2>3, <2>4, <2>5, <2>6
  <1> HIDE DEF rows, happened, alerts
  <1>8. /\ d.receipts \in Seq(ReceiptRow) /\ d.events \in Seq(EventRow) /\ d.outbox \in Seq(IntentRow)
    BY <1>0, SnapshotFields
  <1> DEFINE a == Len(d.receipts)
             b == Len(d.outbox)
  <1>9. a \in Nat /\ b \in Nat /\ DOMAIN d.receipts = 1..a /\ DOMAIN d.outbox = 1..b
    BY <1>8
  <1>10. /\ e.receipts \in Seq(ReceiptRow) /\ Longer(d.receipts, e.receipts)
         /\ DOMAIN e.receipts = 1..(a + n)
         /\ \A k \in 1..n : a + k \in DOMAIN e.receipts /\ e.receipts[a + k] = ReceiptOf(fresh[k])
         /\ \A i \in DOMAIN e.receipts : i \in 1..a \/ \E k \in 1..n : i = a + k
    <2> DEFINE t == d.receipts \o rows
    <2>0. t = d.receipts \o rows /\ d.receipts \in Seq(ReceiptRow) /\ rows \in Seq(ReceiptRow)
      BY <1>7, <1>8
    <2> HIDE DEF t
    <2>1. t \in Seq(ReceiptRow) /\ Continued(d.receipts, rows, t)
      BY <2>0, LongerByMore
    <2>2. e.receipts = t
      BY <1>1, <2>0
    <2>3. a = Len(d.receipts) /\ b = Len(d.outbox)
      OBVIOUS
    <2> HIDE DEF a, b
    <2>4. QED BY <1>7, <2>1, <2>2, <2>3 DEF Continued
  <1>11. e.events \in Seq(EventRow) /\ Longer(d.events, e.events)
    <2> DEFINE t == d.events \o happened
    <2>0. t = d.events \o happened /\ d.events \in Seq(EventRow) /\ happened \in Seq(EventRow)
      BY <1>7, <1>8
    <2> HIDE DEF t
    <2>1. t \in Seq(EventRow) /\ Continued(d.events, happened, t)
      BY <2>0, LongerByMore
    <2>2. e.events = t
      BY <1>1, <2>0
    <2>3. QED BY <2>1, <2>2 DEF Continued
  <1>12. /\ e.outbox \in Seq(IntentRow) /\ Longer(d.outbox, e.outbox)
         /\ DOMAIN e.outbox = 1..(b + m)
         /\ \A k \in 1..m : b + k \in DOMAIN e.outbox /\ e.outbox[b + k] = Intent(d, ms[k])
         /\ \A i \in DOMAIN e.outbox : i \in 1..b \/ \E k \in 1..m : i = b + k
    <2> DEFINE t == d.outbox \o alerts
    <2>0. t = d.outbox \o alerts /\ d.outbox \in Seq(IntentRow) /\ alerts \in Seq(IntentRow)
      BY <1>7, <1>8
    <2> HIDE DEF t
    <2>1. t \in Seq(IntentRow) /\ Continued(d.outbox, alerts, t)
      BY <2>0, LongerByMore
    <2>2. e.outbox = t
      BY <1>1, <2>0
    <2>3. a = Len(d.receipts) /\ b = Len(d.outbox)
      OBVIOUS
    <2> HIDE DEF a, b
    <2>4. QED BY <1>7, <2>1, <2>2, <2>3 DEF Continued
  <1> HIDE DEF a, b
  <1>13. \A k \in 1..a : k \in DOMAIN e.receipts /\ e.receipts[k] = d.receipts[k]
    BY <1>5, <1>9, <1>10 DEF Longer, a
  <1>14. \A k \in 1..b : k \in DOMAIN e.outbox /\ e.outbox[k] = d.outbox[k]
    BY <1>5, <1>9, <1>12 DEF Longer, b
  <1>15. e \in Snapshots
    BY <1>0, <1>1, <1>10, <1>11, <1>12 DEF Snapshots
  <1>16. \A k \in 1..m :
           /\ Intent(d, ms[k]).fence = 0 /\ Intent(d, ms[k]).leased = FALSE /\ Intent(d, ms[k]).expires = 0
           /\ Intent(d, ms[k]).delivered = FALSE /\ Intent(d, ms[k]).of = Identity(ms[k])
    BY DEF Intent
  <1>17. WellFormed(e)
    <2>1. \A i \in 1..b : d.outbox[i].leased <=> d.outbox[i].expires > 0
      BY <1>9 DEF Sound, WellFormed
    <2>2. \A i \in DOMAIN e.outbox : e.outbox[i].leased <=> e.outbox[i].expires > 0
      BY <1>12, <1>14, <1>16, <2>1
    <2>3. QED BY <1>15, <2>2 DEF WellFormed
  <1>18. LeasesCounted(e)
    <2>1. d.revision \in Int /\ r \in Int /\ 0 <= r
      BY <1>0, SnapshotFields, LoopAssumption DEF LoopConstants
    <2>2. \A i \in 1..b : d.outbox[i].fence \in Int
      <3>1. \A i \in 1..b : d.outbox[i] \in IntentRow
        BY <1>8, <1>9
      <3>2. QED BY <3>1 DEF IntentRow
    <2>3. \A i \in 1..b : /\ d.outbox[i].fence <= r
                          /\ (d.outbox[i].leased \/ d.outbox[i].delivered) <=> d.outbox[i].fence > 0
                          /\ d.outbox[i].fence > 1 => d.outbox[i].ambiguous
      BY <1>9, <2>1, <2>2 DEF Sound, LeasesCounted
    <2>4. \A i \in DOMAIN e.outbox :
            /\ e.outbox[i].fence <= r
            /\ (e.outbox[i].leased \/ e.outbox[i].delivered) <=> e.outbox[i].fence > 0
            /\ e.outbox[i].fence > 1 => e.outbox[i].ambiguous
      BY <1>12, <1>14, <1>16, <2>1, <2>3
    <2>5. QED BY <1>1, <2>4 DEF LeasesCounted
  <1>19. \A k \in 1..n : ReceiptOf(fresh[k]).identity = Identity(fresh[k])
    BY DEF ReceiptOf
  <1>20. Verified(e)
    <2> SUFFICES ASSUME NEW i \in DOMAIN e.receipts
                 PROVE  \E h \in Ingresses : h.defects = {} /\ e.receipts[i].identity \in Identities(h.batch)
      BY DEF Verified
    <2>1. CASE i \in 1..a
      BY <1>9, <1>13, <2>1 DEF Sound, Verified
    <2>2. CASE \E k \in 1..n : i = a + k
      BY <1>6, <1>10, <1>19, <2>2 DEF batch
    <2>3. QED BY <1>10, <2>1, <2>2
  <1>21. /\ \A id : ReceiptsOf(d, id) \subseteq ReceiptsOf(e, id)
         /\ \A id : IntentsOf(d, id) \subseteq IntentsOf(e, id)
    BY <1>9, <1>13, <1>14 DEF ReceiptsOf, IntentsOf
  <1>22. \A k \in 1..m : \E j \in 1..n : q[k] = j /\ ms[k] = fresh[j] /\ fresh[j].kind = "message"
    BY <1>3 DEF Picks, mine, m, n
  <1>23. \A j \in 1..n : fresh[j].kind = "message" => \E k \in 1..m : ms[k] = fresh[j]
    <2>1. \A j \in 1..n : fresh[j] \in Range(fresh)
      BY <1>5 DEF Range
    <2>2. \A j \in 1..n : fresh[j] \in mine => \E k \in 1..m : q[k] = j /\ ms[k] = fresh[q[k]]
      BY <1>3 DEF Picks, m, n
    <2>3. QED BY <2>1, <2>2 DEF mine
  <1>24. Alerted(e)
    <2> SUFFICES ASSUME NEW i \in DOMAIN e.receipts, e.receipts[i].identity[1] = "message"
                 PROVE  IntentsOf(e, e.receipts[i].identity) # {}
      BY DEF Alerted
    <2>1. CASE i \in 1..a
      BY <1>9, <1>13, <1>21, <2>1 DEF Sound, Alerted
    <2>2. ASSUME NEW j \in 1..n, i = a + j
          PROVE  IntentsOf(e, e.receipts[i].identity) # {}
      <3>1. e.receipts[i].identity = Identity(fresh[j]) /\ fresh[j].kind = "message"
        BY <1>6, <1>10, <1>19, <2>2
      <3>2. PICK k \in 1..m : ms[k] = fresh[j]
        BY <1>23, <3>1
      <3>3. b + k \in IntentsOf(e, Identity(fresh[j]))
        BY <1>12, <1>16, <3>2 DEF IntentsOf
      <3>4. QED BY <3>1, <3>3
    <2>3. QED BY <1>10, <2>1, <2>2
  <1>25. Receipted(e)
    <2> SUFFICES ASSUME NEW i \in DOMAIN e.outbox
                 PROVE  ReceiptsOf(e, e.outbox[i].of) # {}
      BY DEF Receipted
    <2>1. CASE i \in 1..b
      BY <1>9, <1>14, <1>21, <2>1 DEF Sound, Receipted
    <2>2. ASSUME NEW k \in 1..m, i = b + k
          PROVE  ReceiptsOf(e, e.outbox[i].of) # {}
      <3>1. PICK j \in 1..n : ms[k] = fresh[j]
        BY <1>22
      <3>2. e.outbox[i].of = Identity(fresh[j])
        BY <1>12, <1>16, <2>2, <3>1
      <3>3. a + j \in ReceiptsOf(e, Identity(fresh[j]))
        BY <1>10, <1>19 DEF ReceiptsOf
      <3>4. QED BY <3>2, <3>3
    <2>3. QED BY <1>12, <2>1, <2>2
  <1>26. \A k \in 1..n : ~is_duplicate(d, fresh[k]) /\ p[k] \in 1..Len(batch) /\ fresh[k] = batch[p[k]]
    BY <1>2 DEF Picks, kept, n
  <1>27. \A id \in AllIdentities : OneBody(e, id)
    <2> SUFFICES ASSUME NEW id \in AllIdentities PROVE OneBody(e, id)
      OBVIOUS
    <2>1. CASE \A k \in 1..n : Identity(fresh[k]) # id
      <3>1. ReceiptsOf(e, id) = ReceiptsOf(d, id)
        BY <1>9, <1>10, <1>13, <1>19, <2>1 DEF ReceiptsOf
      <3>2. IntentsOf(e, id) = IntentsOf(d, id)
        BY <1>9, <1>12, <1>14, <1>16, <1>22, <2>1 DEF IntentsOf
      <3>3. OneBody(d, id)
        BY DEF Sound
      <3>4. QED BY <3>1, <3>2, <3>3 DEF OneBody
    <2>2. ASSUME NEW k0 \in 1..n, Identity(fresh[k0]) = id
          PROVE  OneBody(e, id)
      <3> DEFINE B == {k \in DOMAIN batch : Identity(batch[k]) = id}
      <3>1. ReceiptsOf(d, id) = {}
        <4> SUFFICES ASSUME NEW i \in DOMAIN d.receipts, d.receipts[i].identity = id
                     PROVE  FALSE
          BY DEF ReceiptsOf
        <4>1. epoch \in epoch..Len(Configurations)
          BY LoopAssumption DEF LoopConstants
        <4>2. d.receipts[i].sender = configuration.sender /\ d.receipts[i].generation \in configuration.retained
          BY <4>1 DEF Known, configuration
        <4>3. is_duplicate(d, fresh[k0])
          BY <2>2, <4>2 DEF is_duplicate
        <4>4. QED BY <1>26, <4>3
      <3>2. IntentsOf(d, id) = {}
        BY <3>1 DEF Sound, Receipted, IntentsOf
      <3>3. IsFiniteSet(B)
        <4>0. 1 \in Int /\ Len(batch) \in Int
          BY <1>5
        <4>1. IsFiniteSet(1..Len(batch)) /\ B \subseteq 1..Len(batch)
          BY <1>5, <4>0, FS_Interval
        <4>2. QED BY <4>1, FS_Subset
      <3>4. \A k \in 1..n : Identity(fresh[k]) = id => p[k] \in B
        BY <1>5, <1>26
      <3>5. \A j, k \in 1..n : p[j] = p[k] => j = k
        BY <1>2 DEF Picks, n
      <3> HIDE DEF B
      <3>6. Cardinality(ReceiptsOf(e, id)) <= Cardinality(B)
        <4>1. \A i \in ReceiptsOf(e, id) : \E k \in 1..n : i = a + k /\ p[k] \in B
          <5> SUFFICES ASSUME NEW i \in ReceiptsOf(e, id)
                       PROVE  \E k \in 1..n : i = a + k /\ p[k] \in B
            OBVIOUS
          <5>1. i \in DOMAIN e.receipts /\ e.receipts[i].identity = id
            BY DEF ReceiptsOf
          <5>2. i \notin 1..a
            BY <1>9, <1>13, <3>1, <5>1 DEF ReceiptsOf
          <5>3. QED BY <1>10, <1>19, <3>4, <5>1, <5>2
        <4>2. QED BY <1>5, <1>9, <3>3, <3>5, <4>1, Shifted
      <3>7. Cardinality(IntentsOf(e, id)) <= Cardinality(B)
        <4> DEFINE s == [k \in 1..m |-> p[q[k]]]
        <4>1. \A j, k \in 1..m : s[j] = s[k] => j = k
          <5>1. \A j, k \in 1..m : q[j] = q[k] => j = k
            BY <1>3 DEF Picks, m
          <5>2. \A k \in 1..m : q[k] \in 1..n
            BY <1>22
          <5>3. QED BY <3>5, <5>1, <5>2
        <4>2. \A i \in IntentsOf(e, id) : \E k \in 1..m : i = b + k /\ s[k] \in B
          <5> SUFFICES ASSUME NEW i \in IntentsOf(e, id)
                       PROVE  \E k \in 1..m : i = b + k /\ s[k] \in B
            OBVIOUS
          <5>1. i \in DOMAIN e.outbox /\ e.outbox[i].of = id
            BY DEF IntentsOf
          <5>2. i \notin 1..b
            BY <1>9, <1>14, <3>2, <5>1 DEF IntentsOf
          <5>3. PICK k \in 1..m : i = b + k
            BY <1>12, <5>1, <5>2
          <5>4. Identity(ms[k]) = id
            BY <1>12, <1>16, <5>1, <5>3
          <5>5. p[q[k]] \in B
            BY <1>22, <3>4, <5>4
          <5>6. QED BY <5>3, <5>5
        <4> HIDE DEF s
        <4>3. QED BY <1>5, <1>9, <3>3, <4>1, <4>2, Shifted
      <3>8. Listed(g, id) = Cardinality(B)
        BY DEF Listed, B, batch
      <3>9. QED BY <3>6, <3>7, <3>8 DEF OneBody
    <2>3. QED BY <2>1, <2>2
  <1>28. Retained(e)
    BY <1>1 DEF Sound, Retained
  <1>29. Sound(e)
    BY <1>17, <1>18, <1>20, <1>24, <1>25, <1>27, <1>28 DEF Sound
  <1>30. Known(e)
    <2> SUFFICES ASSUME NEW i \in DOMAIN e.receipts
                 PROVE  /\ e.receipts[i].sender = configuration.sender
                        /\ \A f \in epoch..Len(Configurations) :
                             e.receipts[i].generation \in Configurations[f].retained
      BY DEF Known
    <2>1. CASE i \in 1..a
      BY <1>9, <1>13, <2>1 DEF Known
    <2>2. ASSUME NEW k \in 1..n, i = a + k
          PROVE  /\ e.receipts[i].sender = configuration.sender
                 /\ \A f \in epoch..Len(Configurations) :
                      e.receipts[i].generation \in Configurations[f].retained
      <3>0. e.receipts[i] = ReceiptOf(fresh[k])
        BY <1>10, <2>2
      <3>1. e.receipts[i].sender = configuration.sender /\ e.receipts[i].generation = configuration.active
        BY <3>0 DEF ReceiptOf
      <3>2. \A f \in epoch..Len(Configurations) : f \in DOMAIN Configurations /\ epoch <= f
        BY LoopAssumption DEF LoopConstants
      <3>3. QED BY <3>1, <3>2, LoopAssumption DEF LoopConstants, configuration
    <2>3. QED BY <1>10, <2>1, <2>2
  <1>31. Goes(d, e)
    <2>1. Longer(d.pins, e.pins)
      BY <1>0, <1>1, SnapshotFields, LongerSelf
    <2>2. QED BY <1>10, <1>11, <2>1 DEF Goes
  <1>32. Quiet(d, e)
    BY <1>9, <1>12, <1>16 DEF Quiet
  <1>33. ASSUME NEW id \in Identities(batch) PROVE ReceiptsOf(e, id) # {}
    <2>1. PICK i \in DOMAIN batch : id = Identity(batch[i])
      BY DEF Identities
    <2>2. CASE is_duplicate(d, batch[i])
      <3>1. ReceiptsOf(d, id) # {}
        BY <2>1, <2>2 DEF is_duplicate, ReceiptsOf
      <3>2. QED BY <1>21, <3>1
    <2>3. CASE ~is_duplicate(d, batch[i])
      <3>1. batch[i] \in kept /\ i \in 1..Len(batch)
        BY <1>5, <2>3 DEF kept, Range
      <3>2. PICK k \in 1..n : fresh[k] = batch[i]
        BY <1>2, <3>1 DEF Picks, n
      <3>3. a + k \in ReceiptsOf(e, id)
        BY <1>10, <1>19, <2>1, <3>2 DEF ReceiptsOf
      <3>4. QED BY <3>3
    <2>4. QED BY <2>2, <2>3
  <1>34. QED BY <1>1, <1>29, <1>30, <1>31, <1>32, <1>33 DEF batch

-----------------------------------------------------------------------------
\* The highest order among some events.
LEMMA HighestOrder ==
  ASSUME NEW s \in Seq(EventRow)
  PROVE  Max({0} \cup {s[i].order : i \in DOMAIN s}) \in Nat
  <1> DEFINE n == Len(s)
             O(k) == {0} \cup {s[i].order : i \in 1..k}
             T == {k \in Nat : k <= n => \E x \in O(k) : \A y \in O(k) : x >= y}
  <1>1. n \in Nat /\ DOMAIN s = 1..n /\ \A i \in 1..n : s[i].order \in Nat
    <2>1. \A i \in 1..n : s[i] \in EventRow
      OBVIOUS
    <2>2. QED BY <2>1 DEF EventRow
  <1> HIDE DEF n
  <1>2. 0 \in T
    <2>1. O(0) = {0}
      OBVIOUS
    <2>2. QED BY <2>1
  <1>3. ASSUME NEW k \in T PROVE k + 1 \in T
    <2>1. k \in Nat
      OBVIOUS
    <2> SUFFICES ASSUME k + 1 <= n PROVE \E x \in O(k + 1) : \A y \in O(k + 1) : x >= y
      BY <2>1
    <2>2. k <= n /\ k + 1 \in 1..n
      BY <1>1, <2>1
    <2>3. PICK x \in O(k) : \A y \in O(k) : x >= y
      BY <2>2
    <2> DEFINE z == s[k + 1].order
    <2>4. O(k + 1) = O(k) \cup {z}
      <3>1. \A i \in 1..(k + 1) : i = k + 1 \/ i \in 1..k
        BY <2>1
      <3>2. \A i \in 1..k : i \in 1..(k + 1)
        BY <2>1
      <3>3. k + 1 \in 1..(k + 1)
        BY <2>1
      <3>4. QED BY <3>1, <3>2, <3>3
    <2>5. O(k) \subseteq Nat /\ z \in Nat
      BY <1>1, <2>1, <2>2
    <2> HIDE DEF O, z
    <2>6. CASE x >= z
      BY <2>3, <2>4, <2>5, <2>6
    <2>7. CASE ~(x >= z)
      BY <2>3, <2>4, <2>5, <2>7
    <2>8. QED BY <2>6, <2>7
  <1> HIDE DEF T
  <1>4. T = Nat
    <2>1. T \subseteq Nat
      BY DEF T
    <2>2. QED BY <1>2, <1>3, <2>1, SetInduction
  <1>5. \E x \in O(n) : \A y \in O(n) : x >= y
    <2>1. n \in T /\ n <= n
      BY <1>1, <1>4
    <2>2. QED BY <2>1 DEF T
  <1>6. O(n) \subseteq Nat /\ O(n) = {0} \cup {s[i].order : i \in DOMAIN s}
    BY <1>1
  <1> HIDE DEF O
  <1>7. Max(O(n)) \in O(n)
    BY <1>5 DEF Max
  <1>8. QED BY <1>6, <1>7

\* A commit of the other tables.
Beside(d, e) ==
  /\ Sound(e) /\ Goes(d, e)
  /\ e.receipts = d.receipts /\ e.outbox = d.outbox

\* A registered message adds an event, and a pin and a binding or a history row.
LEMMA BesideSent ==
  ASSUME epoch \in DOMAIN Configurations, NEW d, Sound(d), NEW a \in Attempts, NEW o \in Outcomes,
         NEW r \in 0..MaxRevision, d.revision <= r,
         NEW e, e = At(Sent(d, a, o), r), Items(e) <= MaxItems
  PROVE  Beside(d, e) /\ e.revision = r /\ Range(e.pins) \subseteq Range(d.pins) \cup {Pin(a)}
  <1>0. d \in Snapshots
    BY DEF Sound, WellFormed
  <1>1. /\ d.receipts \in Seq(ReceiptRow) /\ d.bindings \in Seq(BindingRow) /\ d.pins \in Seq(PinRow)
        /\ d.events \in Seq(EventRow) /\ d.history \in Seq(HistoryRow)
    BY <1>0, SnapshotFields
  <1> DEFINE event == [kind |-> "outcome", order |-> Len(d.events) + 1]
             binding == [sender |-> configuration.sender, id |-> o.id]
  <1>2. /\ e.receipts = d.receipts /\ e.outbox = d.outbox /\ e.revision = r
        /\ e.sensitive = d.sensitive /\ e.windows = d.windows
        /\ e.events = Append(d.events, event)
        /\ e.bindings = IF o.accepted THEN Append(d.bindings, binding) ELSE d.bindings
        /\ e.pins = IF o.accepted THEN Append(d.pins, Pin(a)) ELSE d.pins
        /\ e.history = IF o.accepted THEN d.history ELSE Append(d.history, o.class)
    BY <1>0 DEF Snapshots, Sent, At
  <1>2b. e = [d EXCEPT !.events = e.events, !.bindings = e.bindings, !.pins = e.pins,
                        !.history = e.history, !.revision = r]
    BY <1>0 DEF Snapshots, Sent, At
  <1>3. event \in EventRow
    <2>1. Len(d.events) + 1 \in Nat \ {0}
      BY <1>1
    <2>2. QED BY <2>1 DEF EventRow
  <1>4. o.accepted => binding \in BindingRow
    BY DEF BindingRow, Senders, configuration
  <1>5. ~o.accepted => o.class \in HistoryRow
    BY DEF HistoryRow
  <1>6. Pin(a) \in PinRow
    BY DEF Pin, PinRow, Senders, Policies, configuration
  <1> HIDE DEF event, binding
  <1>7. e.events \in Seq(EventRow) /\ Longer(d.events, e.events)
    <2>1. Append(d.events, event) \in Seq(EventRow) /\ Longer(d.events, Append(d.events, event))
      BY <1>1, <1>3, LongerByOne
    <2>2. QED BY <1>2, <2>1
  <1>8. e.bindings \in Seq(BindingRow)
    <2>1. o.accepted => Append(d.bindings, binding) \in Seq(BindingRow)
      BY <1>1, <1>4, LongerByOne
    <2>2. QED BY <1>1, <1>2, <2>1
  <1>9. e.history \in Seq(HistoryRow)
    <2>1. ~o.accepted => Append(d.history, o.class) \in Seq(HistoryRow)
      BY <1>1, <1>5, LongerByOne
    <2>2. QED BY <1>1, <1>2, <2>1
  <1>10. e.pins \in Seq(PinRow) /\ Longer(d.pins, e.pins) /\ Range(e.pins) \subseteq Range(d.pins) \cup {Pin(a)}
    <2> DEFINE more == Append(d.pins, Pin(a))
    <2>1. more \in Seq(PinRow) /\ Longer(d.pins, more) /\ Range(more) \subseteq Range(d.pins) \cup {Pin(a)}
      BY <1>1, <1>6, LongerByOne
    <2>2. Longer(d.pins, d.pins)
      BY <1>1, LongerSelf
    <2>3. e.pins = more \/ e.pins = d.pins
      BY <1>2
    <2> HIDE DEF more
    <2>4. QED BY <1>1, <2>1, <2>2, <2>3
  <1>11. e \in Snapshots
    BY <1>0, <1>2b, <1>7, <1>8, <1>9, <1>10 DEF Snapshots
  <1>12. Longer(d.receipts, e.receipts)
    BY <1>1, <1>2, LongerSelf
  <1>13. Retained(e)
    BY <1>2 DEF Sound, Retained
  <1>14. QED BY <1>2, <1>7, <1>10, <1>11, <1>12, <1>13, SoundBeside DEF Beside, Goes

\* An event is added, and the sensitive reply and the windows may change.
LEMMA BesideNoted ==
  ASSUME NEW d, Sound(d), NEW r \in 0..MaxRevision, d.revision <= r, NEW event \in EventRow,
         NEW kept \in SensitiveRow \cup {Nothing}, kept # Nothing => kept.expires <= kept.retained + Week,
         NEW e \in Snapshots, e.receipts = d.receipts, e.outbox = d.outbox, e.pins = d.pins,
         e.revision = r, e.events = Append(d.events, event), e.sensitive = kept,
         Items(e) <= MaxItems
  PROVE  Beside(d, e) /\ e.revision = r /\ e.pins = d.pins
  <1>0. d \in Snapshots
    BY DEF Sound, WellFormed
  <1>1. d.receipts \in Seq(ReceiptRow) /\ d.pins \in Seq(PinRow) /\ d.events \in Seq(EventRow)
    BY <1>0, SnapshotFields
  <1>2. Goes(d, e)
    BY <1>1, LongerByOne, LongerSelf DEF Goes
  <1>3. Retained(e)
    BY DEF Retained
  <1>4. QED BY <1>2, <1>3, SoundBeside DEF Beside

\* Purging the sensitive reply.
LEMMA BesidePurged ==
  ASSUME NEW d, Sound(d), NEW r \in 0..MaxRevision, d.revision <= r,
         NEW e, e = At(Purged(d), r), Items(e) <= MaxItems
  PROVE  Beside(d, e) /\ e.revision = r /\ e.pins = d.pins
  <1>0. d \in Snapshots
    BY DEF Sound, WellFormed
  <1> DEFINE top == Max({0} \cup {d.events[i].order : i \in DOMAIN d.events})
             event == [kind |-> "retention", order |-> 1 + top]
  <1>1. d.events \in Seq(EventRow) /\ d.windows \in Seq(WindowRow)
    BY <1>0, SnapshotFields
  <1>2. top \in Nat
    BY <1>1, HighestOrder
  <1>3. e = [d EXCEPT !.events = Append(d.events, event), !.sensitive = Nothing, !.windows = d.windows,
                      !.revision = r]
    BY <1>0 DEF Snapshots, Purged, At
  <1>3b. /\ e.receipts = d.receipts /\ e.outbox = d.outbox /\ e.pins = d.pins /\ e.revision = r
        /\ e.events = Append(d.events, event) /\ e.sensitive = Nothing
    BY <1>0 DEF Snapshots, Purged, At
  <1> HIDE DEF top
  <1>4. event \in EventRow
    BY <1>2 DEF EventRow
  <1> HIDE DEF event
  <1>5. Append(d.events, event) \in Seq(EventRow)
    BY <1>1, <1>4, LongerByOne
  <1>6. e \in Snapshots
    BY <1>0, <1>3, <1>5 DEF Snapshots
  <1>7. QED BY <1>3b, <1>4, <1>6, BesideNoted

\* Extending its window, within the ceiling.
LEMMA BesideExtended ==
  ASSUME NEW d, Sound(d), d.sensitive # Nothing, NEW c \in Controls, Admissible(c),
         NEW r \in 0..MaxRevision, d.revision <= r,
         NEW e, e = At(Extended(d, c.extension), r), Items(e) <= MaxItems
  PROVE  Beside(d, e) /\ e.revision = r /\ e.pins = d.pins
  <1>0. d \in Snapshots
    BY DEF Sound, WellFormed
  <1> DEFINE event == [kind |-> "retention", order |-> 2]
             kept == [d.sensitive EXCEPT !.expires = d.sensitive.retained + c.extension]
  <1>1. /\ d.events \in Seq(EventRow) /\ d.windows \in Seq(WindowRow) /\ d.sensitive \in SensitiveRow
    BY <1>0, SnapshotFields
  <1>2. c.extension \in Nat /\ c.extension <= Week /\ Week \in Nat
    BY LoopAssumption DEF LoopConstants, Admissible
  <1>3. kept \in SensitiveRow /\ kept.expires <= kept.retained + Week
    BY <1>1, <1>2 DEF SensitiveRow
  <1>4. e = [d EXCEPT !.events = Append(d.events, event), !.sensitive = kept, !.windows = d.windows,
                      !.revision = r]
    BY <1>0 DEF Snapshots, Extended, At
  <1>4b. /\ e.receipts = d.receipts /\ e.outbox = d.outbox /\ e.pins = d.pins /\ e.revision = r
        /\ e.events = Append(d.events, event) /\ e.sensitive = kept
    BY <1>0 DEF Snapshots, Extended, At
  <1>5. event \in EventRow
    BY DEF EventRow
  <1> HIDE DEF event, kept
  <1>6. Append(d.events, event) \in Seq(EventRow)
    BY <1>1, <1>5, LongerByOne
  <1>7. e \in Snapshots
    BY <1>0, <1>3, <1>4, <1>6 DEF Snapshots
  <1>8. QED BY <1>3, <1>4b, <1>5, <1>7, BesideNoted

\* Correcting a service window.
LEMMA BesideCorrected ==
  ASSUME NEW d, Sound(d), NEW c \in Corrections, NEW r \in 0..MaxRevision, d.revision <= r,
         NEW e, e = At(Corrected(d, c), r), Items(e) <= MaxItems
  PROVE  Beside(d, e) /\ e.revision = r /\ e.pins = d.pins
  <1>0. d \in Snapshots
    BY DEF Sound, WellFormed
  <1> DEFINE event == [kind |-> "window", order |-> Len(d.events) + 1]
             windows == Append(d.windows, c.ref)
  <1>1. /\ d.events \in Seq(EventRow) /\ d.windows \in Seq(WindowRow)
        /\ d.sensitive \in SensitiveRow \cup {Nothing}
    BY <1>0, SnapshotFields
  <1>2. e = [d EXCEPT !.events = Append(d.events, event), !.sensitive = d.sensitive, !.windows = windows,
                      !.revision = r]
    BY <1>0 DEF Snapshots, Corrected, At
  <1>2b. /\ e.receipts = d.receipts /\ e.outbox = d.outbox /\ e.pins = d.pins /\ e.revision = r
        /\ e.events = Append(d.events, event) /\ e.sensitive = d.sensitive
    BY <1>0 DEF Snapshots, Corrected, At
  <1>3. event \in EventRow
    <2>1. Len(d.events) + 1 \in Nat \ {0}
      BY <1>1
    <2>2. QED BY <2>1 DEF EventRow
  <1>4. c.ref \in WindowRow
    BY DEF WindowRow
  <1>5. windows \in Seq(WindowRow)
    BY <1>1, <1>4, LongerByOne
  <1>6. d.sensitive # Nothing => d.sensitive.expires <= d.sensitive.retained + Week
    BY DEF Sound, Retained
  <1> HIDE DEF event, windows
  <1>7. Append(d.events, event) \in Seq(EventRow)
    BY <1>1, <1>3, LongerByOne
  <1>8. e \in Snapshots
    BY <1>0, <1>1, <1>2, <1>5, <1>7 DEF Snapshots
  <1>9. QED BY <1>1, <1>2b, <1>3, <1>6, <1>8, BesideNoted

-----------------------------------------------------------------------------
\* Rows can be counted.
LEMMA PlacesFinite ==
  ASSUME NEW S, NEW s \in Seq(S), NEW A \in SUBSET DOMAIN s
  PROVE  IsFiniteSet(A) /\ Cardinality(A) \in Nat
  <1>1. 1 \in Int /\ Len(s) \in Int /\ DOMAIN s = 1..Len(s)
    OBVIOUS
  <1>2. IsFiniteSet(DOMAIN s)
    BY <1>1, FS_Interval
  <1>3. QED BY <1>2, FS_Subset, FS_CardinalityType

\* Workers can be counted.
LEMMA HoldersFinite ==
  ASSUME NEW A \in SUBSET Workers
  PROVE  IsFiniteSet(A) /\ Cardinality(A) \in Nat
  BY LoopAssumption, FS_Subset, FS_CardinalityType DEF LoopConstants

\* Fewer workers count for less.
LEMMA FewerHolders ==
  ASSUME NEW A \in SUBSET Workers, NEW B \in SUBSET A
  PROVE  Cardinality(B) <= Cardinality(A)
  <1>1. IsFiniteSet(A)
    BY HoldersFinite
  <1>2. QED BY <1>1, FS_Subset

\* The tables of a sound snapshot.
LEMMA SoundFields ==
  ASSUME NEW d, Sound(d)
  PROVE  /\ d \in Snapshots /\ d.outbox \in Seq(IntentRow) /\ d.receipts \in Seq(ReceiptRow)
         /\ d.pins \in Seq(PinRow) /\ d.events \in Seq(EventRow)
         /\ d.revision \in 0..MaxRevision
         /\ \A i \in DOMAIN d.outbox : d.outbox[i] \in IntentRow
         /\ DOMAIN d.outbox = 1..Len(d.outbox) /\ Len(d.outbox) \in Nat
  <1>1. d \in Snapshots
    BY DEF Sound, WellFormed
  <1>2. /\ d.outbox \in Seq(IntentRow) /\ d.receipts \in Seq(ReceiptRow)
        /\ d.pins \in Seq(PinRow) /\ d.events \in Seq(EventRow)
        /\ d.revision \in 0..MaxRevision
    BY <1>1, SnapshotFields
  <1>3. QED BY <1>1, <1>2

\* A commit that only adds new intents leaves the counts of alerts right.
LEMMA Counting ==
  ASSUME LoopInv, Sound(disk'), Quiet(disk, disk'), captured' = captured,
         \A v \in Workers : lease'[v] = lease[v] \/ lease'[v] = Nothing
  PROVE  AlertsCounted'
  <1> SUFFICES ASSUME NEW ref \in References
               PROVE  /\ Cardinality(Delivered(ref)') + Cardinality(Holders(ref, "captured")') <= captured'[ref]
                      /\ \/ \E i \in OfReference(ref)' : disk'.outbox[i].ambiguous
                         \/ captured'[ref] + Cardinality(Holders(ref, "leased")')
                              <= Cardinality({i \in OfReference(ref)' : disk'.outbox[i].fence > 0})
    BY DEF AlertsCounted
  <1> DEFINE leasedOnce == {i \in OfReference(ref) : disk.outbox[i].fence > 0}
  <1>1. /\ Cardinality(Delivered(ref)) + Cardinality(Holders(ref, "captured")) <= captured[ref]
        /\ \/ \E i \in OfReference(ref) : disk.outbox[i].ambiguous
           \/ captured[ref] + Cardinality(Holders(ref, "leased")) <= Cardinality(leasedOnce)
    BY DEF LoopInv, AlertsCounted
  <1>2. Sound(disk)
    BY DEF LoopInv
  <1>3. /\ DOMAIN disk.outbox = 1..Len(disk.outbox) /\ DOMAIN disk'.outbox = 1..Len(disk'.outbox)
        /\ Len(disk.outbox) \in Nat /\ Len(disk'.outbox) \in Nat
    BY <1>2, SoundFields
  <1>4. \A i \in DOMAIN disk.outbox : i \in DOMAIN disk'.outbox /\ disk'.outbox[i] = disk.outbox[i]
    BY <1>3 DEF Quiet, Longer
  <1>5. \A i \in DOMAIN disk'.outbox :
          i \in DOMAIN disk.outbox \/ (disk'.outbox[i].fence = 0 /\ ~disk'.outbox[i].delivered)
    BY DEF Quiet
  <1>6. Delivered(ref)' = Delivered(ref)
    BY <1>4, <1>5 DEF Delivered, OfReference
  <1>7. {i \in OfReference(ref)' : disk'.outbox[i].fence > 0} = leasedOnce
    BY <1>4, <1>5 DEF OfReference
  <1>8. (\E i \in OfReference(ref) : disk.outbox[i].ambiguous) => \E i \in OfReference(ref)' : disk'.outbox[i].ambiguous
    BY <1>4 DEF OfReference
  <1>9. \A step \in {"captured", "leased"} :
          /\ Cardinality(Holders(ref, step)') <= Cardinality(Holders(ref, step))
          /\ Cardinality(Holders(ref, step)') \in Nat /\ Cardinality(Holders(ref, step)) \in Nat
    <2> SUFFICES ASSUME NEW step \in {"captured", "leased"}
                 PROVE  /\ Cardinality(Holders(ref, step)') <= Cardinality(Holders(ref, step))
                        /\ Cardinality(Holders(ref, step)') \in Nat /\ Cardinality(Holders(ref, step)) \in Nat
      OBVIOUS
    <2>1. Holders(ref, step)' \subseteq Holders(ref, step) /\ Holders(ref, step) \subseteq Workers
      BY DEF Holders
    <2>2. QED BY <2>1, FewerHolders, HoldersFinite
  <1>10. captured[ref] \in Nat
    BY DEF LoopInv, LoopTypeOK
  <1>11. Cardinality(Delivered(ref)) \in Nat /\ Cardinality(leasedOnce) \in Nat
    <2>1. Delivered(ref) \subseteq DOMAIN disk.outbox /\ leasedOnce \subseteq DOMAIN disk.outbox
      BY DEF Delivered, OfReference
    <2>2. disk.outbox \in Seq(IntentRow)
      BY <1>2, SoundFields
    <2>3. QED BY <2>1, <2>2, PlacesFinite
  <1> HIDE DEF leasedOnce
  <1>12. Cardinality(Delivered(ref)') + Cardinality(Holders(ref, "captured")') <= captured'[ref]
    BY <1>1, <1>6, <1>9, <1>10, <1>11
  <1>13. \/ \E i \in OfReference(ref)' : disk'.outbox[i].ambiguous
         \/ captured'[ref] + Cardinality(Holders(ref, "leased")')
              <= Cardinality({i \in OfReference(ref)' : disk'.outbox[i].fence > 0})
    <2>1. CASE \E i \in OfReference(ref) : disk.outbox[i].ambiguous
      BY <1>8, <2>1
    <2>2. CASE captured[ref] + Cardinality(Holders(ref, "leased")) <= Cardinality(leasedOnce)
      <3>1. captured[ref] + Cardinality(Holders(ref, "leased")') <= Cardinality(leasedOnce)
        BY <1>9, <1>10, <1>11, <2>2
      <3>2. QED BY <1>7, <3>1
    <2>3. QED BY <1>1, <2>1, <2>2
  <1>14. QED BY <1>12, <1>13

\* Intents keep their place and reference, and their fences never fall.
IntentsStay(d, e) ==
  \A i \in DOMAIN d.outbox :
    /\ i \in DOMAIN e.outbox /\ e.outbox[i].ref = d.outbox[i].ref
    /\ d.outbox[i].fence \in Nat /\ e.outbox[i].fence \in Nat /\ d.outbox[i].fence <= e.outbox[i].fence

\* A commit that only adds intents.
LEMMA QuietStays ==
  ASSUME NEW d, Sound(d), NEW e, Sound(e), Quiet(d, e)
  PROVE  /\ IntentsStay(d, e)
         /\ \A i \in DOMAIN d.outbox : e.outbox[i] = d.outbox[i]
  <1>1. /\ DOMAIN d.outbox = 1..Len(d.outbox) /\ DOMAIN e.outbox = 1..Len(e.outbox)
        /\ Len(d.outbox) \in Nat /\ Len(e.outbox) \in Nat
        /\ \A i \in DOMAIN d.outbox : d.outbox[i] \in IntentRow
    BY SoundFields
  <1>2. \A i \in DOMAIN d.outbox : i \in DOMAIN e.outbox /\ e.outbox[i] = d.outbox[i]
    BY <1>1 DEF Quiet, Longer
  <1>3. \A i \in DOMAIN d.outbox : d.outbox[i].fence \in Nat
    BY <1>1 DEF IntentRow
  <1>4. QED BY <1>2, <1>3 DEF IntentsStay

\* Leases that go on or end stay apart.
LEMMA ApartKept ==
  ASSUME LoopInv, IntentsStay(disk, disk'),
         \A v \in Workers :
           \/ lease'[v] = Nothing
           \/ lease[v] # Nothing /\ lease'[v].ref = lease[v].ref /\ lease'[v].fence = lease[v].fence
  PROVE  LeasesApart'
  <1>1. LeasesApart /\ lease \in [Workers -> LeaseRow \cup {Nothing}]
    BY DEF LoopInv, LoopTypeOK
  <1>2. \A r : \A i \in OfReference(r) :
          /\ i \in OfReference(r)' /\ disk.outbox[i].fence \in Nat /\ disk'.outbox[i].fence \in Nat
          /\ disk.outbox[i].fence <= disk'.outbox[i].fence
    BY DEF IntentsStay, OfReference
  <1> SUFFICES ASSUME NEW w \in Workers, lease'[w] # Nothing
               PROVE  /\ \E i \in OfReference(lease[w].ref)' : lease'[w].fence <= disk'.outbox[i].fence
                      /\ \A v \in Workers \ {w} :
                           /\ lease'[v] # Nothing /\ lease'[v].ref = lease'[w].ref
                           /\ lease'[v].fence = lease'[w].fence
                           => \E i, j \in OfReference(lease[w].ref)' : i # j
    BY DEF LeasesApart, OfReference
  <1>3. /\ lease[w] # Nothing /\ lease'[w].ref = lease[w].ref /\ lease'[w].fence = lease[w].fence
        /\ lease[w].fence \in Nat
    BY <1>1 DEF LeaseRow
  <1>4. PICK i \in OfReference(lease[w].ref) : lease[w].fence <= disk.outbox[i].fence
    BY <1>1, <1>3 DEF LeasesApart
  <1>5. i \in OfReference(lease[w].ref)' /\ lease[w].fence <= disk'.outbox[i].fence
    BY <1>2, <1>3, <1>4
  <1>6. ASSUME NEW v \in Workers \ {w}, lease'[v] # Nothing, lease'[v].ref = lease'[w].ref,
               lease'[v].fence = lease'[w].fence
        PROVE  \E a, b \in OfReference(lease[w].ref)' : a # b
    <2>1. lease[v] # Nothing /\ lease[v].ref = lease[w].ref /\ lease[v].fence = lease[w].fence
      BY <1>3, <1>6
    <2>2. PICK a \in OfReference(lease[w].ref), b \in OfReference(lease[w].ref) : a # b
      BY <1>1, <1>3, <2>1 DEF LeasesApart
    <2>3. QED BY <1>2, <2>2
  <1>7. QED BY <1>3, <1>5, <1>6 DEF OfReference

\* A new lease has a fence that no other lease of that alert has.
LEMMA ApartLeased ==
  ASSUME LoopInv, IntentsStay(disk, disk'), NEW w \in Workers, NEW i \in DOMAIN disk.outbox, NEW l,
         disk'.outbox[i].fence = disk.outbox[i].fence + 1, lease' = [lease EXCEPT ![w] = l],
         l = Nothing \/ (l.ref = disk.outbox[i].ref /\ l.fence = disk.outbox[i].fence + 1)
  PROVE  LeasesApart'
  <1>1. LeasesApart /\ lease \in [Workers -> LeaseRow \cup {Nothing}]
    BY DEF LoopInv, LoopTypeOK
  <1>2. lease'[w] = l /\ \A v \in Workers : v # w => lease'[v] = lease[v]
    BY <1>1
  <1>3. \A r : \A k \in OfReference(r) :
          /\ k \in OfReference(r)' /\ disk.outbox[k].fence \in Nat /\ disk'.outbox[k].fence \in Nat
          /\ disk.outbox[k].fence <= disk'.outbox[k].fence
    BY DEF IntentsStay, OfReference
  <1>4. \A v \in Workers : lease[v] # Nothing => lease[v].fence \in Nat
    BY <1>1 DEF LeaseRow
  <1>5. i \in OfReference(disk.outbox[i].ref) /\ disk.outbox[i].fence \in Nat
    BY DEF OfReference, IntentsStay
  <1>6. ASSUME NEW v \in Workers, v # w, lease[v] # Nothing
        PROVE  \E k \in OfReference(lease[v].ref)' : lease[v].fence <= disk'.outbox[k].fence
    <2>1. PICK k \in OfReference(lease[v].ref) : lease[v].fence <= disk.outbox[k].fence
      BY <1>1, <1>6 DEF LeasesApart
    <2>2. QED BY <1>3, <1>4, <1>6, <2>1
  <1>7. ASSUME NEW v \in Workers, v # w, lease[v] # Nothing, l # Nothing,
               lease[v].ref = l.ref, lease[v].fence = l.fence
        PROVE  \E a, b \in OfReference(l.ref)' : a # b
    <2>1. PICK k \in OfReference(l.ref) : lease[v].fence <= disk.outbox[k].fence
      BY <1>1, <1>7 DEF LeasesApart
    <2>2. k # i
      BY <1>5, <1>7, <2>1
    <2>3. i \in OfReference(l.ref)' /\ k \in OfReference(l.ref)'
      BY <1>3, <1>5, <1>7, <2>1
    <2>4. QED BY <2>2, <2>3
  <1>8. ASSUME NEW u \in Workers, NEW v \in Workers, u # v, u # w, v # w, lease[u] # Nothing,
               lease[v] # Nothing, lease[v].ref = lease[u].ref, lease[v].fence = lease[u].fence
        PROVE  \E a, b \in OfReference(lease[u].ref)' : a # b
    <2>1. PICK a \in OfReference(lease[u].ref), b \in OfReference(lease[u].ref) : a # b
      BY <1>1, <1>8 DEF LeasesApart
    <2>2. lease'[u] = lease[u]
      BY <1>2, <1>8
    <2>3. QED BY <1>3, <2>1, <2>2
  <1>9. l # Nothing => \E k \in OfReference(l.ref)' : l.fence <= disk'.outbox[k].fence
    BY <1>3, <1>5
  <1> SUFFICES ASSUME NEW u \in Workers, lease'[u] # Nothing
               PROVE  /\ \E k \in OfReference(lease[u].ref)' : lease'[u].fence <= disk'.outbox[k].fence
                      /\ \A v \in Workers \ {u} :
                           /\ lease'[v] # Nothing /\ lease'[v].ref = lease'[u].ref
                           /\ lease'[v].fence = lease'[u].fence
                           => \E a, b \in OfReference(lease[u].ref)' : a # b
    BY DEF LeasesApart, OfReference
  <1>10. CASE u = w
    BY <1>2, <1>7, <1>9, <1>10 DEF OfReference
  <1>11. CASE u # w
    <2>1. lease'[u] = lease[u]
      BY <1>2, <1>11
    <2>2. \E k \in OfReference(lease[u].ref)' : lease'[u].fence <= disk'.outbox[k].fence
      BY <1>6, <1>11, <2>1 DEF OfReference
    <2>3. ASSUME NEW v \in Workers \ {u}, lease'[v] # Nothing, lease'[v].ref = lease'[u].ref,
                 lease'[v].fence = lease'[u].fence
          PROVE  \E a, b \in OfReference(lease[u].ref)' : a # b
      <3>1. CASE v = w
        BY <1>2, <1>7, <1>11, <2>1, <2>3, <3>1 DEF OfReference
      <3>2. CASE v # w
        BY <1>2, <1>8, <1>11, <2>1, <2>3, <3>2 DEF OfReference
      <3>3. QED BY <3>1, <3>2
    <2>4. QED BY <2>2, <2>3
  <1>12. QED BY <1>10, <1>11

\* A worker with an intent's fence holds its lease: where the intent is alone under its
\* reference, the fences of the others are older.
LEMMA FencedHolds ==
  ASSUME LoopInv, NEW w \in Workers, lease[w] # Nothing, NEW i \in DOMAIN disk.outbox,
         Fenced(lease[w], disk.outbox[i])
  PROVE  HoldsLease(w, i)
  <1>1. LeasesApart /\ lease \in [Workers -> LeaseRow \cup {Nothing}]
    BY DEF LoopInv, LoopTypeOK
  <1>2. ASSUME OfReference(lease[w].ref) = {i}, NEW v \in Workers \ {w}, lease[v] # Nothing,
               lease[v].ref = lease[w].ref
        PROVE  lease[v].fence < lease[w].fence
    <2>1. lease[v].fence \in Nat /\ lease[w].fence \in Nat
      BY <1>1, <1>2 DEF LeaseRow
    <2>2. lease[v].fence <= disk.outbox[i].fence
      BY <1>1, <1>2 DEF LeasesApart
    <2>3. lease[v].fence # lease[w].fence
      BY <1>1, <1>2 DEF LeasesApart
    <2>4. QED BY <2>1, <2>2, <2>3 DEF Fenced
  <1>3. QED BY <1>2 DEF HoldsLease, Fenced

\* The snapshot is what it was, or a commit on top of it.
Commit(d, e) ==
  /\ Sound(e) /\ Known(e) /\ Goes(d, e) /\ e.revision = d.revision + 1
  /\ \A id : ReceiptsOf(d, id) \subseteq ReceiptsOf(e, id) /\ IntentsOf(d, id) \subseteq IntentsOf(e, id)

\* A commit that only adds rows keeps the receipts and intents of an identity.
LEMMA CommitGrows ==
  ASSUME NEW d, Sound(d), NEW e, Sound(e), Goes(d, e), Longer(d.outbox, e.outbox)
  PROVE  \A id : ReceiptsOf(d, id) \subseteq ReceiptsOf(e, id) /\ IntentsOf(d, id) \subseteq IntentsOf(e, id)
  <1>1. /\ DOMAIN d.outbox = 1..Len(d.outbox) /\ DOMAIN e.outbox = 1..Len(e.outbox)
        /\ Len(d.outbox) \in Nat /\ Len(e.outbox) \in Nat
        /\ d.receipts \in Seq(ReceiptRow) /\ e.receipts \in Seq(ReceiptRow)
    BY SoundFields
  <1>2. \A i \in DOMAIN d.outbox : i \in DOMAIN e.outbox /\ e.outbox[i] = d.outbox[i]
    BY <1>1 DEF Longer
  <1>3. \A i \in DOMAIN d.receipts : i \in DOMAIN e.receipts /\ e.receipts[i] = d.receipts[i]
    BY <1>1 DEF Longer, Goes
  <1>4. QED BY <1>2, <1>3 DEF ReceiptsOf, IntentsOf

\* What a worker's step does to the snapshot and the copies, alerts left aside.
LEMMA Landing ==
  ASSUME LoopInv, NEW w \in Workers, NEW told,
         disk' = disk \/ Commit(disk, disk'),
         view' = [view EXCEPT ![w] = disk] \/ view' = [view EXCEPT ![w] = disk'] \/ view' = view,
         lease' \in [Workers -> LeaseRow \cup {Nothing}],
         now' \in 0..Horizon, epoch' = epoch, captured' \in [References -> Nat],
         provider \subseteq provider', Range(disk'.pins) \subseteq provider',
         acked' \subseteq acked \cup told, \A id \in told : ReceiptsOf(disk', id) # {},
         AlertsCounted', LeasesApart'
  PROVE  LoopInv' /\ EvidenceKept
  <1>1. Sound(disk) /\ Known(disk) /\ PinnedWasSent /\ \A v \in Workers : Sound(view[v]) /\ CopyOf(view[v])
    BY DEF LoopInv
  <1>2. Sound(disk') /\ Known(disk)' /\ Goes(disk, disk')
    <2>1. CASE disk' = disk
      <3>1. Goes(disk, disk)
        BY <1>1, SoundFields, LongerSelf DEF Goes
      <3>2. Known(disk)'
        BY <1>1, <2>1 DEF Known, configuration
      <3>3. QED BY <1>1, <2>1, <3>1, <3>2
    <2>2. CASE Commit(disk, disk')
      <3>1. Known(disk)'
        BY <2>2 DEF Commit, Known, configuration
      <3>2. QED BY <2>2, <3>1 DEF Commit
    <2>3. QED BY <2>1, <2>2
  <1>3. /\ disk.receipts \in Seq(ReceiptRow) /\ disk'.receipts \in Seq(ReceiptRow)
        /\ disk.pins \in Seq(PinRow) /\ disk'.pins \in Seq(PinRow)
        /\ disk.events \in Seq(EventRow) /\ disk'.events \in Seq(EventRow)
        /\ disk.revision \in Int /\ disk'.revision \in Int
        /\ disk \in Snapshots /\ disk' \in Snapshots
    BY <1>1, <1>2, SoundFields, LoopAssumption DEF LoopConstants
  <1>4. /\ IsPrefix(disk.receipts, disk'.receipts) /\ Range(disk.receipts) \subseteq Range(disk'.receipts)
        /\ IsPrefix(disk.pins, disk'.pins) /\ IsPrefix(disk.events, disk'.events)
    BY <1>2, <1>3, LongerPrefix DEF Goes
  <1>5. EvidenceKept
    BY <1>4 DEF EvidenceKept
  <1>6. \A v \in Workers : view'[v] = disk \/ view'[v] = disk' \/ view'[v] = view[v]
    BY DEF LoopInv, LoopTypeOK
  <1>7. LoopTypeOK'
    <2>1. view' \in [Workers -> Snapshots]
      BY <1>3 DEF LoopInv, LoopTypeOK
    <2>2. epoch' \in DOMAIN Configurations
      BY DEF LoopInv, LoopTypeOK
    <2>3. QED BY <2>1, <2>2 DEF LoopTypeOK
  <1>8. /\ disk'.revision = disk.revision => disk' = disk
        /\ disk.revision <= disk'.revision
    BY <1>3 DEF Commit
  <1>9. ASSUME NEW v \in Workers
        PROVE  Sound(view[v])' /\ CopyOf(view[v])'
    <2>1. CASE view'[v] = disk'
      <3>1. CopyOf(view[v])'
        BY <1>3, <2>1 DEF CopyOf
      <3>2. QED BY <1>2, <2>1, <3>1
    <2>2. CASE view'[v] = disk
      <3>1. Range(disk.pins) \subseteq provider'
        BY <1>1 DEF PinnedWasSent
      <3>2. CopyOf(view[v])'
        BY <1>3, <1>4, <1>8, <2>2, <3>1 DEF CopyOf
      <3>3. QED BY <1>1, <2>2, <3>2
    <2>3. CASE view'[v] = view[v]
      <3>1. /\ view[v].revision <= disk.revision /\ (view[v].revision = disk.revision => view[v] = disk)
            /\ Range(view[v].receipts) \subseteq Range(disk.receipts) /\ Range(view[v].pins) \subseteq provider
        BY <1>1 DEF CopyOf
      <3>2. view[v].revision \in Int
        BY <1>1, SoundFields, LoopAssumption DEF LoopConstants
      <3>3. view[v].revision <= disk'.revision /\ (view[v].revision = disk'.revision => view[v] = disk')
        BY <1>3, <1>8, <3>1, <3>2
      <3>4. CopyOf(view[v])'
        BY <1>4, <2>3, <3>1, <3>3 DEF CopyOf
      <3>5. QED BY <1>1, <2>3, <3>4
    <2>4. QED BY <1>6, <2>1, <2>2, <2>3
  <1>10. \A id : ReceiptsOf(disk, id) \subseteq ReceiptsOf(disk', id) /\ IntentsOf(disk, id) \subseteq IntentsOf(disk', id)
    BY DEF Commit
  <1>11. AckedIsRecorded'
    <2> SUFFICES ASSUME NEW id \in acked'
                 PROVE  ReceiptsOf(disk', id) # {} /\ (id[1] = "message" => IntentsOf(disk', id) # {})
      BY DEF AckedIsRecorded
    <2>1. CASE id \in acked
      BY <1>10, <2>1 DEF LoopInv, AckedIsRecorded
    <2>2. CASE id \in told
      <3>1. PICK i \in DOMAIN disk'.receipts : disk'.receipts[i].identity = id
        BY <2>2 DEF ReceiptsOf
      <3>2. id[1] = "message" => IntentsOf(disk', id) # {}
        BY <1>2, <3>1 DEF Sound, Alerted
      <3>3. QED BY <2>2, <3>2
    <2>3. QED BY <2>1, <2>2
  <1>12. PinnedWasSent'
    BY DEF PinnedWasSent
  <1>13. QED BY <1>2, <1>5, <1>7, <1>9, <1>11, <1>12 DEF LoopInv

-----------------------------------------------------------------------------
\* A change that the store lands or not, and that adds no leases.
LEMMA Storing ==
  ASSUME LoopInv, NEW w \in Workers, NEW told,
         disk' = disk \/ (Commit(disk, disk') /\ Quiet(disk, disk')),
         view' = [view EXCEPT ![w] = disk] \/ view' = [view EXCEPT ![w] = disk'] \/ view' = view,
         lease' = lease \/ lease' = [lease EXCEPT ![w] = Nothing],
         UNCHANGED <<now, epoch, captured>>,
         provider \subseteq provider', Range(disk'.pins) \subseteq provider',
         acked' \subseteq acked \cup told, \A id \in told : ReceiptsOf(disk', id) # {}
  PROVE  LoopInv' /\ EvidenceKept /\ SettledUnderCurrentLease
  <1>1. LoopTypeOK /\ Sound(disk)
    BY DEF LoopInv
  <1>2. lease' \in [Workers -> LeaseRow \cup {Nothing}] /\ \A v \in Workers : lease'[v] = lease[v] \/ lease'[v] = Nothing
    BY <1>1 DEF LoopTypeOK
  <1>3. now' \in 0..Horizon /\ captured' \in [References -> Nat]
    BY <1>1 DEF LoopTypeOK
  <1>4. Sound(disk') /\ Quiet(disk, disk')
    <2>1. Quiet(disk, disk)
      BY <1>1, SoundFields, LongerSelf DEF Quiet
    <2>2. QED BY <1>1, <2>1 DEF Commit
  <1>5. AlertsCounted'
    BY <1>2, <1>4, Counting
  <1>6. IntentsStay(disk, disk') /\ \A i \in DOMAIN disk.outbox : disk'.outbox[i] = disk.outbox[i]
    BY <1>1, <1>4, QuietStays
  <1>7. LeasesApart'
    BY <1>2, <1>6, ApartKept
  <1>8. SettledUnderCurrentLease
    BY <1>6 DEF SettledUnderCurrentLease
  <1>9. QED BY <1>2, <1>3, <1>5, <1>7, <1>8, Landing

\* A commit beside receipts and alerts.
LEMMA BesideCommits ==
  ASSUME LoopInv, NEW e, Beside(disk, e), e.revision = disk.revision + 1
  PROVE  Commit(disk, e) /\ Quiet(disk, e)
  <1>1. Sound(disk) /\ Known(disk)
    BY DEF LoopInv
  <1>2. Known(e)
    BY <1>1 DEF Beside, Known
  <1>3. Quiet(disk, e)
    BY <1>1, SoundFields, LongerSelf DEF Beside, Quiet
  <1>4. QED BY <1>1, <1>2, <1>3, CommitGrows DEF Commit, Beside, Quiet

\* A worker whose copy has the snapshot's revision has the snapshot.
LEMMA UnmovedCopy ==
  ASSUME LoopInv, NEW w \in Workers, Unmoved(w), disk.revision < MaxRevision
  PROVE  /\ view[w] = disk
         /\ disk.revision + 1 \in 0..MaxRevision /\ disk.revision <= disk.revision + 1
  <1>1. view[w] = disk
    BY DEF LoopInv, CopyOf, Unmoved
  <1>2. disk.revision \in 0..MaxRevision /\ MaxRevision \in Nat
    BY SoundFields, LoopAssumption DEF LoopInv, LoopConstants
  <1>3. QED BY <1>1, <1>2

\* A snapshot made from a worker's copy lands only where that copy is the snapshot,
\* and only then is anything told.
Lands(w, after) ==
  /\ view[w] = disk /\ disk.revision + 1 \in 0..MaxRevision /\ disk.revision <= disk.revision + 1
  /\ Items(after) <= MaxItems /\ disk' = At(after, disk.revision + 1)

\* What an attempt to replace the snapshot leaves behind.
LEMMA Replacing ==
  ASSUME LoopInv, NEW w \in Workers, NEW after, NEW batch, NEW told, ReplaceState(w, after, batch, told)
  PROVE  /\ disk' = disk \/ Lands(w, after)
         /\ view' = [view EXCEPT ![w] = disk] \/ view' = [view EXCEPT ![w] = disk'] \/ view' = view
         /\ lease' = lease \/ lease' = [lease EXCEPT ![w] = Nothing]
         /\ acked' = acked \/ (acked' = acked \cup told /\ Lands(w, after))
  <1>1. ASSUME Unmoved(w), Replaced(after) PROVE Lands(w, after)
    <2>1. disk.revision < MaxRevision /\ Items(after) <= MaxItems /\ disk' = At(after, disk.revision + 1)
      BY <1>1 DEF Replaced, Encodable, Numbered, At
    <2>2. QED BY <1>1, <2>1, UnmovedCopy DEF Lands
  <1>2. CASE Refused(w, batch)
    BY <1>2 DEF Refused, Refreshed
  <1>3. CASE Stopped(w)
    BY <1>3 DEF Stopped, Reopened
  <1>4. CASE Uncertain(w, after, batch)
    BY <1>1, <1>4 DEF Uncertain
  <1>5. CASE Committed(w, after, told)
    BY <1>1, <1>5 DEF Committed
  <1>6. CASE StoppedAfterCommit(w, after)
    BY <1>1, <1>6 DEF StoppedAfterCommit, Reopened
  <1>7. QED BY <1>2, <1>3, <1>4, <1>5, <1>6 DEF ReplaceState

\* A handler that leaves receipts and alerts alone.
LEMMA BesideStep ==
  ASSUME LoopInv, NEW w \in Workers, NEW after, NEW batch, ReplaceState(w, after, batch, {}),
         UNCHANGED <<now, epoch, captured>>, provider \subseteq provider',
         Lands(w, after) => /\ Beside(disk, disk') /\ disk'.revision = disk.revision + 1
                            /\ Range(disk'.pins) \subseteq provider'
  PROVE  LoopInv' /\ EvidenceKept /\ SettledUnderCurrentLease
  <1>1. /\ disk' = disk \/ Lands(w, after)
        /\ view' = [view EXCEPT ![w] = disk] \/ view' = [view EXCEPT ![w] = disk'] \/ view' = view
        /\ lease' = lease \/ lease' = [lease EXCEPT ![w] = Nothing]
        /\ acked' \subseteq acked \cup {}
    BY Replacing
  <1>2. disk' = disk \/ (Commit(disk, disk') /\ Quiet(disk, disk'))
    BY <1>1, BesideCommits
  <1>3. Range(disk'.pins) \subseteq provider'
    BY <1>1 DEF LoopInv, PinnedWasSent
  <1>4. \A id \in {} : ReceiptsOf(disk', id) # {}
    OBVIOUS
  <1>5. QED BY <1>1, <1>2, <1>3, <1>4, Storing

\* A registered message leaves a pin only of a call that was made before.
LEMMA StepOutbound ==
  ASSUME LoopInv, NEW w \in Workers, NEW a \in Attempts, NEW o \in Outcomes, Outbound(w, a, o)
  PROVE  LoopInv' /\ EvidenceKept /\ SettledUnderCurrentLease
  <1>1. ReplaceState(w, Sent(view[w], a, o), staged[w], {})
    BY DEF Outbound
  <1>2. provider' = provider \cup {Pin(a)} /\ UNCHANGED <<now, epoch, captured>>
    BY DEF Outbound
  <1>3. Sound(disk) /\ PinnedWasSent /\ epoch \in DOMAIN Configurations /\ disk \in Snapshots
    BY SoundFields DEF LoopInv, LoopTypeOK
  <1>4. ASSUME Lands(w, Sent(view[w], a, o))
        PROVE  /\ Beside(disk, disk') /\ disk'.revision = disk.revision + 1
               /\ Range(disk'.pins) \subseteq provider'
    <2>1. /\ disk' = At(Sent(disk, a, o), disk.revision + 1) /\ Items(Sent(disk, a, o)) <= MaxItems
          /\ disk.revision + 1 \in 0..MaxRevision /\ disk.revision <= disk.revision + 1
      BY <1>4 DEF Lands
    <2>2. Items(disk') <= MaxItems
      BY <1>3, <2>1 DEF Items, Sent, Snapshots, At
    <2>3. /\ Beside(disk, disk') /\ disk'.revision = disk.revision + 1
          /\ Range(disk'.pins) \subseteq Range(disk.pins) \cup {Pin(a)}
      BY <1>3, <2>1, <2>2, BesideSent
    <2>4. QED BY <1>2, <1>3, <2>3 DEF PinnedWasSent
  <1>5. QED BY <1>1, <1>2, <1>4, BesideStep

\* Retention: the reply is purged, or kept within its ceiling.
LEMMA StepRetention ==
  ASSUME LoopInv, NEW w \in Workers, NEW c \in Controls, Retention(w, c)
  PROVE  LoopInv' /\ EvidenceKept /\ SettledUnderCurrentLease
  <1>1. UNCHANGED <<now, epoch, captured>> /\ provider' = provider
    BY DEF Retention
  <1>2. Sound(disk) /\ PinnedWasSent /\ disk \in Snapshots
    BY SoundFields DEF LoopInv
  <1>3. CASE ReplaceState(w, Purged(view[w]), staged[w], {})
    <2>1. ASSUME Lands(w, Purged(view[w]))
          PROVE  /\ Beside(disk, disk') /\ disk'.revision = disk.revision + 1
                 /\ Range(disk'.pins) \subseteq provider'
      <3>1. /\ disk' = At(Purged(disk), disk.revision + 1) /\ Items(Purged(disk)) <= MaxItems
            /\ disk.revision + 1 \in 0..MaxRevision /\ disk.revision <= disk.revision + 1
        BY <2>1 DEF Lands
      <3>2. Items(disk') <= MaxItems
        BY <1>2, <3>1 DEF Items, Purged, Snapshots, At
      <3>3. Beside(disk, disk') /\ disk'.revision = disk.revision + 1 /\ disk'.pins = disk.pins
        BY <1>2, <3>1, <3>2, BesidePurged
      <3>4. QED BY <1>1, <1>2, <3>3 DEF PinnedWasSent
    <2>2. QED BY <1>1, <1>3, <2>1, BesideStep
  <1>4. CASE Admissible(c) /\ ReplaceState(w, Extended(view[w], c.extension), staged[w], {})
    <2>1. ASSUME Lands(w, Extended(view[w], c.extension))
          PROVE  /\ Beside(disk, disk') /\ disk'.revision = disk.revision + 1
                 /\ Range(disk'.pins) \subseteq provider'
      <3>1. /\ disk' = At(Extended(disk, c.extension), disk.revision + 1)
            /\ Items(Extended(disk, c.extension)) <= MaxItems
            /\ disk.revision + 1 \in 0..MaxRevision /\ disk.revision <= disk.revision + 1
            /\ view[w] = disk
        BY <2>1 DEF Lands
      <3>2. Items(disk') <= MaxItems
        BY <1>2, <3>1 DEF Items, Extended, Snapshots, At
      <3>3. disk.sensitive # Nothing
        BY <3>1 DEF Retention
      <3>4. Beside(disk, disk') /\ disk'.revision = disk.revision + 1 /\ disk'.pins = disk.pins
        BY <1>2, <1>4, <3>1, <3>2, <3>3, BesideExtended
      <3>5. QED BY <1>1, <1>2, <3>4 DEF PinnedWasSent
    <2>2. QED BY <1>1, <1>4, <2>1, BesideStep
  <1>5. QED BY <1>3, <1>4 DEF Retention

\* A correction of the service window.
LEMMA StepCorrection ==
  ASSUME LoopInv, NEW w \in Workers, NEW c \in Corrections, CorrectServiceWindow(w, c)
  PROVE  LoopInv' /\ EvidenceKept /\ SettledUnderCurrentLease
  <1>1. UNCHANGED <<now, epoch, captured>> /\ provider' = provider
    BY DEF CorrectServiceWindow
  <1>2. Sound(disk) /\ PinnedWasSent /\ disk \in Snapshots
    BY SoundFields DEF LoopInv
  <1>3. ReplaceState(w, Corrected(view[w], c), staged[w], {})
    BY DEF CorrectServiceWindow
  <1>4. ASSUME Lands(w, Corrected(view[w], c))
        PROVE  /\ Beside(disk, disk') /\ disk'.revision = disk.revision + 1
               /\ Range(disk'.pins) \subseteq provider'
    <2>1. /\ disk' = At(Corrected(disk, c), disk.revision + 1) /\ Items(Corrected(disk, c)) <= MaxItems
          /\ disk.revision + 1 \in 0..MaxRevision /\ disk.revision <= disk.revision + 1
      BY <1>4 DEF Lands
    <2>2. Items(disk') <= MaxItems
      BY <1>2, <2>1 DEF Items, Corrected, Snapshots, At
    <2>3. Beside(disk, disk') /\ disk'.revision = disk.revision + 1 /\ disk'.pins = disk.pins
      BY <1>2, <2>1, <2>2, BesideCorrected
    <2>4. QED BY <1>1, <1>2, <2>3 DEF PinnedWasSent
  <1>5. QED BY <1>1, <1>3, <1>4, BesideStep

\* A worker that starts again reads the snapshot.
LEMMA StepReopen ==
  ASSUME LoopInv, NEW w \in Workers, Reopen(w)
  PROVE  LoopInv' /\ EvidenceKept /\ SettledUnderCurrentLease
  <1>1. /\ disk' = disk /\ view' = [view EXCEPT ![w] = disk'] /\ lease' = [lease EXCEPT ![w] = Nothing]
        /\ acked' = acked /\ UNCHANGED <<now, epoch, captured>> /\ provider' = provider
    BY DEF Reopen, Stopped, Reopened
  <1>2. Range(disk'.pins) \subseteq provider' /\ provider \subseteq provider'
    BY <1>1 DEF LoopInv, PinnedWasSent
  <1>3. acked' \subseteq acked \cup {} /\ \A id \in {} : ReceiptsOf(disk', id) # {}
    BY <1>1
  <1>4. QED BY <1>1, <1>2, <1>3, Storing

\* The minimum of numbers is one of them.
LEMMA LeastMember ==
  ASSUME NEW D \in SUBSET Nat, D # {}
  PROVE  Min(D) \in D
  <1>1. \E y \in D : \A z \in D : y <= z
    BY Smallest
  <1>2. QED BY <1>1 DEF Min

\* Only a request without a defect is answered 200.
LEMMA Authentic ==
  ASSUME NEW g \in Ingresses, callback_status(g) = 200
  PROVE  g.defects = {}
  <1> SUFFICES ASSUME NEW x \in g.defects PROVE FALSE
    OBVIOUS
  <1> DEFINE D == {i \in DOMAIN Defects : Defects[i] \in g.defects}
  <1>1. g.defects \subseteq Range(Defects)
    BY LoopAssumption DEF LoopConstants
  <1>2. PICK k \in DOMAIN Defects : Defects[k] = x
    BY <1>1 DEF Range
  <1>3. DOMAIN Defects \subseteq Nat
    <2> DEFINE Names == {"method", "size", "deadline", "headers", "second-signature", "content-type",
                         "signature", "encoding",
                         "grammar", "depth", "envelope", "account", "message", "status", "timestamp"}
    <2>1. TransportDefects \in Seq(Names) /\ SignatureDefects \in Seq(Names)
      BY DEF TransportDefects, SignatureDefects
    <2>2. DocumentDefects \in Seq(Names) /\ ProfileDefects \in Seq(Names)
      BY DEF DocumentDefects, ProfileDefects
    <2> HIDE DEF Names
    <2>3. Defects \in Seq(Names)
      BY <2>1, <2>2 DEF Defects
    <2>4. QED BY <2>3
  <1>4. D \subseteq Nat /\ k \in D
    BY <1>2, <1>3
  <1>5. \A A \in SUBSET Nat : A # {} => Min(A) \in A
    BY LeastMember
  <1>6. Min(D) \in D
    BY <1>4, <1>5
  <1>7. callback_status(g) = DefectStatus[Defects[Min(D)]]
    BY <1>4 DEF callback_status
  <1>8. \A d \in Range(Defects) : DefectStatus[d] # 200
    BY DEF DefectStatus
  <1>9. QED BY <1>6, <1>7, <1>8 DEF Range

\* A callback: all of it is found, or what is fresh is entered with its alerts before
\* the answer.
LEMMA StepCallback ==
  ASSUME LoopInv, NEW w \in Workers, NEW g \in Ingresses, Callback(w, g)
  PROVE  LoopInv' /\ EvidenceKept /\ SettledUnderCurrentLease
  <1> DEFINE told == Identities(g.batch)
             fresh == accepted(view[w], g.batch)
             after == Entered(view[w], fresh)
             rows == [i \in DOMAIN fresh |-> ReceiptOf(fresh[i])]
  <1>1. UNCHANGED <<now, epoch, captured>> /\ provider' = provider /\ handle_candidates(w, g.batch)
    BY DEF Callback
  <1>2. g.defects = {}
    BY Authentic DEF Callback
  <1>3. /\ Sound(disk) /\ Known(disk) /\ PinnedWasSent /\ epoch \in DOMAIN Configurations
        /\ disk \in Snapshots /\ CopyOf(view[w])
    BY SoundFields DEF LoopInv, LoopTypeOK
  <1>4. CASE fresh = <<>>
    <2>1. acked' = acked \cup told /\ disk' = disk /\ view' = view /\ lease' = lease
      BY <1>1, <1>4 DEF handle_candidates
    <2>2. ASSUME NEW id \in told PROVE ReceiptsOf(disk', id) # {}
      <3>1. PICK k \in DOMAIN g.batch : id = Identity(g.batch[k])
        BY DEF Identities
      <3>2. PICK p : Picks(fresh, p, g.batch, {c \in Range(g.batch) : ~is_duplicate(view[w], c)},
                           Len(g.batch))
        BY FreshOf
      <3>3. k \in 1..Len(g.batch) /\ g.batch[k] \in Range(g.batch)
        <4>1. g.batch \in Seq(Range(g.batch))
          BY LoopAssumption DEF LoopConstants
        <4>2. DOMAIN g.batch = 1..Len(g.batch)
          BY <4>1
        <4>3. QED BY <4>2 DEF Range
      <3>4. Len(fresh) = 0
        BY <1>4
      <3>5. is_duplicate(view[w], g.batch[k])
        <4> HIDE DEF fresh
        <4>1. g.batch[k] \notin {c \in Range(g.batch) : ~is_duplicate(view[w], c)}
          BY <3>2, <3>3, <3>4 DEF Picks
        <4>2. QED BY <3>3, <4>1
      <3>6. PICK i \in DOMAIN view[w].receipts : view[w].receipts[i].identity = id
        BY <3>1, <3>5 DEF is_duplicate
      <3>7. view[w].receipts[i] \in Range(disk.receipts)
        BY <1>3 DEF CopyOf, Range
      <3>8. PICK j \in DOMAIN disk.receipts : disk.receipts[j] = view[w].receipts[i]
        BY <3>7 DEF Range
      <3>9. QED BY <2>1, <3>6, <3>8 DEF ReceiptsOf
    <2> HIDE DEF told
    <2>3. Range(disk'.pins) \subseteq provider' /\ provider \subseteq provider'
      BY <1>1, <1>3, <2>1 DEF PinnedWasSent
    <2>4. QED BY <1>1, <2>1, <2>2, <2>3, Storing
  <1>5. CASE fresh # <<>>
    <2>1. ReplaceState(w, after, rows, told)
      BY <1>1, <1>5 DEF handle_candidates
    <2> HIDE DEF told, rows
    <2>2. /\ disk' = disk \/ Lands(w, after)
          /\ view' = [view EXCEPT ![w] = disk] \/ view' = [view EXCEPT ![w] = disk'] \/ view' = view
          /\ lease' = lease \/ lease' = [lease EXCEPT ![w] = Nothing]
          /\ acked' = acked \/ (acked' = acked \cup told /\ Lands(w, after))
      BY <2>1, Replacing
    <2>3. CASE Lands(w, after)
      <3>1. /\ disk' = At(Entered(disk, accepted(disk, g.batch)), disk.revision + 1)
            /\ Items(Entered(disk, accepted(disk, g.batch))) <= MaxItems
            /\ disk.revision + 1 \in 0..MaxRevision /\ disk.revision <= disk.revision + 1
        BY <2>3 DEF Lands
      <3>2. Items(disk') <= MaxItems
        BY <1>3, <3>1 DEF Items, Entered, Snapshots, At
      <3>3. /\ Sound(disk') /\ Known(disk') /\ Goes(disk, disk') /\ Quiet(disk, disk')
            /\ disk'.pins = disk.pins /\ disk'.revision = disk.revision + 1
            /\ \A id \in told : ReceiptsOf(disk', id) # {}
        BY <1>2, <1>3, <3>1, <3>2, SoundEntered DEF told
      <3>4. Commit(disk, disk') /\ Quiet(disk, disk')
        BY <1>3, <3>3, CommitGrows DEF Commit, Quiet
      <3>5. /\ Range(disk'.pins) \subseteq provider' /\ provider \subseteq provider'
            /\ acked' \subseteq acked \cup told
        BY <1>1, <1>3, <2>2, <3>3 DEF PinnedWasSent
      <3>6. QED BY <1>1, <2>2, <3>3, <3>4, <3>5, Storing
    <2>4. CASE ~Lands(w, after)
      <3>1. /\ Range(disk'.pins) \subseteq provider' /\ provider \subseteq provider'
            /\ acked' \subseteq acked \cup {} /\ \A id \in {} : ReceiptsOf(disk', id) # {}
        BY <1>1, <1>3, <2>2, <2>4 DEF PinnedWasSent
      <3>2. QED BY <1>1, <2>2, <2>4, <3>1, Storing
    <2>5. QED BY <2>3, <2>4
  <1>6. QED BY <1>4, <1>5

\* Time alone changes nothing.
LEMMA StepTick ==
  ASSUME LoopInv, Tick
  PROVE  LoopInv' /\ EvidenceKept /\ SettledUnderCurrentLease
  <1>1. /\ disk' = disk /\ view' = view /\ lease' = lease /\ epoch' = epoch /\ acked' = acked
        /\ captured' = captured /\ provider' = provider /\ now < Horizon /\ now' = now + 1
    BY DEF Tick
  <1>2. LoopTypeOK'
    BY <1>1, LoopAssumption DEF LoopInv, LoopTypeOK, LoopConstants
  <1>3. Sound(disk') /\ Known(disk)' /\ PinnedWasSent' /\ AckedIsRecorded'
    BY <1>1 DEF LoopInv, Known, configuration, PinnedWasSent, AckedIsRecorded
  <1>4. \A w \in Workers : Sound(view[w])' /\ CopyOf(view[w])'
    BY <1>1 DEF LoopInv, CopyOf
  <1>5. AlertsCounted' /\ LeasesApart'
    <2>1. AlertsCounted'
      BY <1>1 DEF LoopInv, AlertsCounted, Delivered, OfReference, Holders
    <2>2. LeasesApart'
      BY <1>1 DEF LoopInv, LeasesApart, OfReference
    <2>3. QED BY <2>1, <2>2
  <1>6. EvidenceKept /\ SettledUnderCurrentLease
    BY <1>1, SoundFields, LongerSelf, LongerPrefix
    DEF LoopInv, EvidenceKept, SettledUnderCurrentLease
  <1>7. QED BY <1>2, <1>3, <1>4, <1>5, <1>6 DEF LoopInv

\* After a rotation what was recorded is still found.
LEMMA StepRotate ==
  ASSUME LoopInv, Rotate
  PROVE  LoopInv' /\ EvidenceKept /\ SettledUnderCurrentLease
  <1>1. /\ disk' = disk /\ view' = view /\ lease' = lease /\ acked' = acked /\ now' = now
        /\ captured' = captured /\ provider' = provider
        /\ epoch < Len(Configurations) /\ epoch' = epoch + 1
    BY DEF Rotate
  <1>2. /\ epoch \in DOMAIN Configurations /\ DOMAIN Configurations = 1..Len(Configurations)
        /\ Len(Configurations) \in Nat
    BY LoopAssumption DEF LoopInv, LoopTypeOK, LoopConstants
  <1>3. epoch' \in DOMAIN Configurations /\ epoch <= epoch' /\ epoch'..Len(Configurations) \subseteq epoch..Len(Configurations)
    BY <1>1, <1>2
  <1>4. LoopTypeOK'
    BY <1>1, <1>3 DEF LoopInv, LoopTypeOK
  <1>5. Known(disk)'
    <2>1. Configurations[epoch].sender = Configurations[epoch'].sender
      BY <1>2, <1>3, LoopAssumption DEF LoopConstants
    <2>2. \A i \in DOMAIN disk.receipts :
            /\ disk.receipts[i].sender = Configurations[epoch].sender
            /\ \A e \in epoch..Len(Configurations) : disk.receipts[i].generation \in Configurations[e].retained
      BY DEF LoopInv, Known, configuration
    <2>3. QED BY <1>1, <1>3, <2>1, <2>2 DEF Known, configuration
  <1>6. Sound(disk') /\ PinnedWasSent' /\ AckedIsRecorded'
    BY <1>1 DEF LoopInv, PinnedWasSent, AckedIsRecorded
  <1>7. \A w \in Workers : Sound(view[w])' /\ CopyOf(view[w])'
    BY <1>1 DEF LoopInv, CopyOf
  <1>8. AlertsCounted' /\ LeasesApart'
    <2>1. AlertsCounted'
      BY <1>1 DEF LoopInv, AlertsCounted, Delivered, OfReference, Holders
    <2>2. LeasesApart'
      BY <1>1 DEF LoopInv, LeasesApart, OfReference
    <2>3. QED BY <2>1, <2>2
  <1>9. EvidenceKept /\ SettledUnderCurrentLease
    BY <1>1, SoundFields, LongerSelf, LongerPrefix
    DEF LoopInv, EvidenceKept, SettledUnderCurrentLease
  <1>10. QED BY <1>4, <1>5, <1>6, <1>7, <1>8, <1>9 DEF LoopInv

-----------------------------------------------------------------------------
\* Counting with one element more.
LEMMA OneMore ==
  ASSUME NEW A, IsFiniteSet(A), NEW x, NEW B, B \subseteq A \cup {x}
  PROVE  Cardinality(B) <= Cardinality(A) + 1 /\ Cardinality(A) \in Nat /\ Cardinality(B) \in Nat
  <1>1. IsFiniteSet(A \cup {x}) /\ Cardinality(A) \in Nat /\ Cardinality(A \cup {x}) \in Nat
    BY FS_AddElement, FS_CardinalityType
  <1>2. Cardinality(A \cup {x}) <= Cardinality(A) + 1
    BY <1>1, FS_AddElement
  <1>3. IsFiniteSet(B) /\ Cardinality(B) <= Cardinality(A \cup {x})
    BY <1>1, FS_Subset
  <1>4. Cardinality(B) \in Nat
    BY <1>3, FS_CardinalityType
  <1>5. QED BY <1>1, <1>2, <1>3, <1>4

\* And one fewer.
LEMMA OneFewer ==
  ASSUME NEW A, IsFiniteSet(A), NEW x \in A, NEW B, B \subseteq A \ {x}
  PROVE  Cardinality(B) + 1 <= Cardinality(A) /\ Cardinality(A) \in Nat /\ Cardinality(B) \in Nat
  <1>1. IsFiniteSet(A \ {x}) /\ Cardinality(A \ {x}) = Cardinality(A) - 1 /\ Cardinality(A) \in Nat
    BY FS_RemoveElement, FS_CardinalityType
  <1>2. IsFiniteSet(B) /\ Cardinality(B) <= Cardinality(A \ {x})
    BY <1>1, FS_Subset
  <1>3. Cardinality(B) \in Nat
    BY <1>2, FS_CardinalityType
  <1>4. QED BY <1>1, <1>2, <1>3

\* e differs from d in one intent.
EditedAt(d, e, i, x) ==
  /\ DOMAIN e.outbox = DOMAIN d.outbox /\ e.outbox[i] = x
  /\ \A k \in DOMAIN d.outbox : k # i => e.outbox[k] = d.outbox[k]

\* A commit that changes one intent and keeps what it is of.
LEMMA EditCommits ==
  ASSUME LoopInv, NEW i \in DOMAIN disk.outbox, NEW x \in IntentRow, disk.revision < MaxRevision,
         x.of = disk.outbox[i].of, x.leased <=> x.expires > 0, x.fence <= disk.revision + 1,
         (x.leased \/ x.delivered) <=> x.fence > 0, x.fence > 1 => x.ambiguous,
         NEW e, e = At(Edited(disk, i, x), disk.revision + 1)
  PROVE  Commit(disk, e) /\ EditedAt(disk, e, i, x) /\ e.pins = disk.pins
  <1>1. Sound(disk) /\ Known(disk) /\ MaxRevision \in Nat
    BY LoopAssumption DEF LoopInv, LoopConstants
  <1>2. disk.revision + 1 \in 0..MaxRevision /\ disk.revision <= disk.revision + 1
    BY <1>1, SoundFields
  <1>3. /\ Sound(e)
        /\ e.receipts = disk.receipts /\ e.events = disk.events /\ e.pins = disk.pins
        /\ e.revision = disk.revision + 1
        /\ DOMAIN e.outbox = DOMAIN disk.outbox /\ e.outbox[i] = x
        /\ \A k \in DOMAIN disk.outbox : k # i => e.outbox[k] = disk.outbox[k]
    BY <1>1, <1>2, SoundEdited
  <1>4. Known(e)
    BY <1>1, <1>3 DEF Known
  <1>5. Goes(disk, e)
    BY <1>1, <1>3, SoundFields, LongerSelf DEF Goes
  <1>6. \A id : ReceiptsOf(disk, id) \subseteq ReceiptsOf(e, id) /\ IntentsOf(disk, id) \subseteq IntentsOf(e, id)
    BY <1>3 DEF ReceiptsOf, IntentsOf
  <1>7. QED BY <1>3, <1>4, <1>5, <1>6 DEF Commit, EditedAt

\* The counts of one reference.
LEMMA CountsFinite ==
  ASSUME LoopInv, NEW ref \in References
  PROVE  /\ IsFiniteSet(Delivered(ref)) /\ Cardinality(Delivered(ref)) \in Nat
         /\ IsFiniteSet({i \in OfReference(ref) : disk.outbox[i].fence > 0})
         /\ Cardinality({i \in OfReference(ref) : disk.outbox[i].fence > 0}) \in Nat
         /\ \A step : IsFiniteSet(Holders(ref, step)) /\ Cardinality(Holders(ref, step)) \in Nat
         /\ captured[ref] \in Nat
  <1>1. disk.outbox \in Seq(IntentRow) /\ captured[ref] \in Nat
    BY SoundFields DEF LoopInv, LoopTypeOK
  <1> DEFINE once == {i \in OfReference(ref) : disk.outbox[i].fence > 0}
  <1>2. Delivered(ref) \in SUBSET DOMAIN disk.outbox /\ once \in SUBSET DOMAIN disk.outbox
    BY DEF Delivered, OfReference
  <1>3. \A step : Holders(ref, step) \in SUBSET Workers
    BY DEF Holders
  <1> HIDE DEF once
  <1>4. IsFiniteSet(Delivered(ref)) /\ Cardinality(Delivered(ref)) \in Nat
    BY <1>1, <1>2, PlacesFinite
  <1>5. IsFiniteSet(once) /\ Cardinality(once) \in Nat
    BY <1>1, <1>2, PlacesFinite
  <1>6. \A step : IsFiniteSet(Holders(ref, step)) /\ Cardinality(Holders(ref, step)) \in Nat
    BY <1>3, HoldersFinite
  <1>7. QED BY <1>1, <1>4, <1>5, <1>6 DEF once

\* A lease of an intent leased before marks it; a first lease is counted.
LEMMA LeaseCounts ==
  ASSUME LoopInv, NEW w \in Workers, NEW ref \in References, NEW i \in DOMAIN disk.outbox, NEW x, NEW l,
         disk.outbox[i].ref = ref, ~disk.outbox[i].delivered, lease[w] = Nothing,
         x.ref = ref, ~x.delivered, x.fence > 0,
         x.ambiguous <=> disk.outbox[i].ambiguous \/ disk.outbox[i].leased,
         EditedAt(disk, disk', i, x), captured' = captured,
         lease' = [lease EXCEPT ![w] = l], l = Nothing \/ (l.ref = ref /\ l.step = "leased")
  PROVE  AlertsCounted'
  <1> SUFFICES ASSUME NEW r \in References
               PROVE  /\ Cardinality(Delivered(r)') + Cardinality(Holders(r, "captured")') <= captured'[r]
                      /\ \/ \E k \in OfReference(r)' : disk'.outbox[k].ambiguous
                         \/ captured'[r] + Cardinality(Holders(r, "leased")')
                              <= Cardinality({k \in OfReference(r)' : disk'.outbox[k].fence > 0})
    BY DEF AlertsCounted
  <1> DEFINE once == {k \in OfReference(r) : disk.outbox[k].fence > 0}
             once2 == {k \in OfReference(r)' : disk'.outbox[k].fence > 0}
  <1>1. /\ Cardinality(Delivered(r)) + Cardinality(Holders(r, "captured")) <= captured[r]
        /\ \/ \E k \in OfReference(r) : disk.outbox[k].ambiguous
           \/ captured[r] + Cardinality(Holders(r, "leased")) <= Cardinality(once)
    BY DEF LoopInv, AlertsCounted
  <1>2. /\ DOMAIN disk'.outbox = DOMAIN disk.outbox /\ disk'.outbox[i] = x
        /\ \A k \in DOMAIN disk.outbox : k # i => disk'.outbox[k] = disk.outbox[k]
    BY DEF EditedAt
  <1>3. Delivered(r)' = Delivered(r)
    BY <1>2 DEF Delivered, OfReference
  <1>4. lease \in [Workers -> LeaseRow \cup {Nothing}]
    BY DEF LoopInv, LoopTypeOK
  <1>5. lease'[w] = l /\ \A v \in Workers : v # w => lease'[v] = lease[v]
    BY <1>4
  <1>6. Holders(r, "captured")' \subseteq Holders(r, "captured")
    BY <1>5 DEF Holders
  <1>7. IF r = ref THEN Holders(r, "leased")' \subseteq Holders(r, "leased") \cup {w}
        ELSE Holders(r, "leased")' \subseteq Holders(r, "leased")
    BY <1>5 DEF Holders
  <1>8. (\E k \in OfReference(r) : disk.outbox[k].ambiguous) => \E k \in OfReference(r)' : disk'.outbox[k].ambiguous
    BY <1>2 DEF OfReference
  <1>9. /\ IsFiniteSet(Holders(r, "captured")) /\ Cardinality(Holders(r, "captured")) \in Nat
        /\ IsFiniteSet(Holders(r, "leased")) /\ Cardinality(Holders(r, "leased")) \in Nat
        /\ IsFiniteSet(once) /\ Cardinality(once) \in Nat /\ Cardinality(Delivered(r)) \in Nat
        /\ captured[r] \in Nat
    BY CountsFinite
  <1>10. Cardinality(Holders(r, "captured")') <= Cardinality(Holders(r, "captured"))
    BY <1>6, <1>9, FS_Subset
  <1>11. Cardinality(Holders(r, "captured")') \in Nat
    BY <1>6, <1>9, FS_Subset, FS_CardinalityType
  <1>12. Cardinality(Delivered(r)') + Cardinality(Holders(r, "captured")') <= captured'[r]
    BY <1>1, <1>3, <1>9, <1>10, <1>11
  <1>13. IsFiniteSet(once2) /\ Cardinality(once2) \in Nat
    <2>1. once2 \in SUBSET DOMAIN disk.outbox /\ disk.outbox \in Seq(IntentRow)
      BY <1>2, SoundFields DEF OfReference, LoopInv
    <2> HIDE DEF once2
    <2>2. QED BY <2>1, PlacesFinite
  <1>14. ASSUME ~ \E k \in OfReference(r)' : disk'.outbox[k].ambiguous
         PROVE  captured'[r] + Cardinality(Holders(r, "leased")') <= Cardinality(once2)
    <2>1. captured[r] + Cardinality(Holders(r, "leased")) <= Cardinality(once)
      BY <1>1, <1>8, <1>14
    <2>2. once \subseteq once2
      BY <1>2 DEF OfReference
    <2>3. CASE r # ref
      <3> HIDE DEF once, once2
      <3>1. Cardinality(once) <= Cardinality(once2)
        BY <1>13, <2>2, FS_Subset
      <3>2. Cardinality(Holders(r, "leased")') <= Cardinality(Holders(r, "leased"))
        BY <1>7, <1>9, <2>3, FS_Subset
      <3>3. Cardinality(Holders(r, "leased")') \in Nat
        BY <1>7, <1>9, <2>3, FS_Subset, FS_CardinalityType
      <3>4. QED BY <1>9, <1>13, <2>1, <3>1, <3>2, <3>3
    <2>4. CASE r = ref
      <3>1. ~disk.outbox[i].leased
        BY <1>2, <1>14, <2>4 DEF OfReference
      <3>2. ~(disk.outbox[i].fence > 0)
        BY <3>1 DEF LoopInv, Sound, LeasesCounted
      <3>3. i \in once2 /\ once \subseteq once2 \ {i}
        BY <1>2, <2>2, <2>4, <3>2 DEF OfReference
      <3> HIDE DEF once, once2
      <3>4. Cardinality(once) + 1 <= Cardinality(once2)
        BY <1>13, <3>3, OneFewer
      <3>5. /\ Cardinality(Holders(r, "leased")') <= Cardinality(Holders(r, "leased")) + 1
            /\ Cardinality(Holders(r, "leased")') \in Nat
        BY <1>7, <1>9, <2>4, OneMore
      <3>6. QED BY <1>9, <1>13, <2>1, <3>4, <3>5
    <2>5. QED BY <2>3, <2>4
  <1>15. QED BY <1>12, <1>14

\* Settling an alert turns one that was shown into one that is delivered.
LEMMA SettleCounts ==
  ASSUME LoopInv, NEW w \in Workers, NEW ref \in References, NEW i \in DOMAIN disk.outbox, NEW x,
         disk.outbox[i].ref = ref, lease[w] # Nothing, lease[w].ref = ref, lease[w].step = "captured",
         x.ref = ref, x.fence = disk.outbox[i].fence, x.ambiguous = disk.outbox[i].ambiguous,
         EditedAt(disk, disk', i, x), captured' = captured, lease' = [lease EXCEPT ![w] = Nothing]
  PROVE  AlertsCounted'
  <1> SUFFICES ASSUME NEW r \in References
               PROVE  /\ Cardinality(Delivered(r)') + Cardinality(Holders(r, "captured")') <= captured'[r]
                      /\ \/ \E k \in OfReference(r)' : disk'.outbox[k].ambiguous
                         \/ captured'[r] + Cardinality(Holders(r, "leased")')
                              <= Cardinality({k \in OfReference(r)' : disk'.outbox[k].fence > 0})
    BY DEF AlertsCounted
  <1> DEFINE once == {k \in OfReference(r) : disk.outbox[k].fence > 0}
  <1>1. /\ Cardinality(Delivered(r)) + Cardinality(Holders(r, "captured")) <= captured[r]
        /\ \/ \E k \in OfReference(r) : disk.outbox[k].ambiguous
           \/ captured[r] + Cardinality(Holders(r, "leased")) <= Cardinality(once)
    BY DEF LoopInv, AlertsCounted
  <1>2. /\ DOMAIN disk'.outbox = DOMAIN disk.outbox /\ disk'.outbox[i] = x
        /\ \A k \in DOMAIN disk.outbox : k # i => disk'.outbox[k] = disk.outbox[k]
    BY DEF EditedAt
  <1>3. IF r = ref THEN Delivered(r)' \subseteq Delivered(r) \cup {i} ELSE Delivered(r)' \subseteq Delivered(r)
    BY <1>2 DEF Delivered, OfReference
  <1>4. lease \in [Workers -> LeaseRow \cup {Nothing}]
    BY DEF LoopInv, LoopTypeOK
  <1>5. lease'[w] = Nothing /\ \A v \in Workers : v # w => lease'[v] = lease[v]
    BY <1>4
  <1>6. IF r = ref THEN w \in Holders(r, "captured") /\ Holders(r, "captured")' \subseteq Holders(r, "captured") \ {w}
        ELSE Holders(r, "captured")' \subseteq Holders(r, "captured")
    BY <1>5 DEF Holders
  <1>7. Holders(r, "leased")' \subseteq Holders(r, "leased")
    BY <1>5 DEF Holders
  <1>8. (\E k \in OfReference(r) : disk.outbox[k].ambiguous) => \E k \in OfReference(r)' : disk'.outbox[k].ambiguous
    BY <1>2 DEF OfReference
  <1>9. {k \in OfReference(r)' : disk'.outbox[k].fence > 0} = once
    BY <1>2 DEF OfReference
  <1>10. /\ IsFiniteSet(Holders(r, "captured")) /\ Cardinality(Holders(r, "captured")) \in Nat
         /\ IsFiniteSet(Holders(r, "leased")) /\ Cardinality(Holders(r, "leased")) \in Nat
         /\ IsFiniteSet(once) /\ Cardinality(once) \in Nat
         /\ IsFiniteSet(Delivered(r)) /\ Cardinality(Delivered(r)) \in Nat
         /\ captured[r] \in Nat
    BY CountsFinite
  <1> HIDE DEF once
  <1>11. Cardinality(Delivered(r)') + Cardinality(Holders(r, "captured")') <= captured'[r]
    <2>1. CASE r = ref
      <3>1. Cardinality(Delivered(r)') <= Cardinality(Delivered(r)) + 1 /\ Cardinality(Delivered(r)') \in Nat
        BY <1>3, <1>10, <2>1, OneMore
      <3>2. /\ Cardinality(Holders(r, "captured")') + 1 <= Cardinality(Holders(r, "captured"))
            /\ Cardinality(Holders(r, "captured")') \in Nat
        BY <1>6, <1>10, <2>1, OneFewer
      <3>3. QED BY <1>1, <1>10, <3>1, <3>2
    <2>2. CASE r # ref
      <3>1. Cardinality(Delivered(r)') <= Cardinality(Delivered(r)) /\ IsFiniteSet(Delivered(r)')
        BY <1>3, <1>10, <2>2, FS_Subset
      <3>2. /\ Cardinality(Holders(r, "captured")') <= Cardinality(Holders(r, "captured"))
            /\ IsFiniteSet(Holders(r, "captured")')
        BY <1>6, <1>10, <2>2, FS_Subset
      <3>3. Cardinality(Delivered(r)') \in Nat /\ Cardinality(Holders(r, "captured")') \in Nat
        BY <3>1, <3>2, FS_CardinalityType
      <3>4. QED BY <1>1, <1>10, <3>1, <3>2, <3>3
    <2>3. QED BY <2>1, <2>2
  <1>12. /\ Cardinality(Holders(r, "leased")') <= Cardinality(Holders(r, "leased"))
         /\ IsFiniteSet(Holders(r, "leased")')
    BY <1>7, <1>10, FS_Subset
  <1>13. Cardinality(Holders(r, "leased")') \in Nat
    BY <1>12, FS_CardinalityType
  <1>14. \/ \E k \in OfReference(r)' : disk'.outbox[k].ambiguous
         \/ captured'[r] + Cardinality(Holders(r, "leased")') <= Cardinality(once)
    <2>1. CASE \E k \in OfReference(r) : disk.outbox[k].ambiguous
      BY <1>8, <2>1
    <2>2. CASE captured[r] + Cardinality(Holders(r, "leased")) <= Cardinality(once)
      <3>1. captured'[r] + Cardinality(Holders(r, "leased")') <= Cardinality(once)
        BY <1>10, <1>12, <1>13, <2>2
      <3>2. QED BY <3>1
    <2>3. QED BY <1>1, <2>1, <2>2
  <1>15. QED BY <1>9, <1>11, <1>14

\* Showing an alert turns a holder that may show it into one that has.
LEMMA CaptureCounts ==
  ASSUME LoopInv, NEW w \in Workers, NEW ref \in References,
         lease[w] # Nothing, lease[w].ref = ref, lease[w].step = "leased",
         disk' = disk, captured' = [captured EXCEPT ![ref] = @ + 1],
         lease'[w] = Nothing \/ (lease'[w].ref = ref /\ lease'[w].step = "captured"),
         \A v \in Workers : v # w => lease'[v] = lease[v]
  PROVE  AlertsCounted'
  <1> SUFFICES ASSUME NEW r \in References
               PROVE  /\ Cardinality(Delivered(r)') + Cardinality(Holders(r, "captured")') <= captured'[r]
                      /\ \/ \E k \in OfReference(r)' : disk'.outbox[k].ambiguous
                         \/ captured'[r] + Cardinality(Holders(r, "leased")')
                              <= Cardinality({k \in OfReference(r)' : disk'.outbox[k].fence > 0})
    BY DEF AlertsCounted
  <1> DEFINE once == {k \in OfReference(r) : disk.outbox[k].fence > 0}
  <1>1. /\ Cardinality(Delivered(r)) + Cardinality(Holders(r, "captured")) <= captured[r]
        /\ \/ \E k \in OfReference(r) : disk.outbox[k].ambiguous
           \/ captured[r] + Cardinality(Holders(r, "leased")) <= Cardinality(once)
    BY DEF LoopInv, AlertsCounted
  <1>2. /\ Delivered(r)' = Delivered(r) /\ OfReference(r)' = OfReference(r)
        /\ {k \in OfReference(r)' : disk'.outbox[k].fence > 0} = once
    BY DEF Delivered, OfReference
  <1>3. captured'[r] = IF r = ref THEN captured[r] + 1 ELSE captured[r]
    BY DEF LoopInv, LoopTypeOK
  <1>4. IF r = ref
        THEN /\ w \in Holders(r, "leased") /\ Holders(r, "leased")' \subseteq Holders(r, "leased") \ {w}
             /\ Holders(r, "captured")' \subseteq Holders(r, "captured") \cup {w}
        ELSE /\ Holders(r, "leased")' \subseteq Holders(r, "leased")
             /\ Holders(r, "captured")' \subseteq Holders(r, "captured")
    BY DEF Holders
  <1>5. /\ IsFiniteSet(Holders(r, "captured")) /\ Cardinality(Holders(r, "captured")) \in Nat
        /\ IsFiniteSet(Holders(r, "leased")) /\ Cardinality(Holders(r, "leased")) \in Nat
        /\ Cardinality(once) \in Nat /\ Cardinality(Delivered(r)) \in Nat /\ captured[r] \in Nat
    BY CountsFinite
  <1> HIDE DEF once
  <1> DEFINE L == Cardinality(Holders(r, "leased"))
             C == Cardinality(Holders(r, "captured"))
             L2 == Cardinality(Holders(r, "leased")')
             C2 == Cardinality(Holders(r, "captured")')
  <1>6. /\ L2 \in Nat /\ C2 \in Nat
        /\ IF r = ref THEN L2 + 1 <= L /\ C2 <= C + 1 ELSE L2 <= L /\ C2 <= C
    <2>1. CASE r = ref
      BY <1>4, <1>5, <2>1, OneMore, OneFewer
    <2>2. CASE r # ref
      <3>1. L2 <= L /\ C2 <= C /\ IsFiniteSet(Holders(r, "leased")') /\ IsFiniteSet(Holders(r, "captured")')
        BY <1>4, <1>5, <2>2, FS_Subset
      <3>2. QED BY <2>2, <3>1, FS_CardinalityType
    <2>3. QED BY <2>1, <2>2
  <1> HIDE DEF L, C, L2, C2
  <1>7. /\ Cardinality(Delivered(r)) + C <= captured[r]
        /\ \/ \E k \in OfReference(r) : disk.outbox[k].ambiguous
           \/ captured[r] + L <= Cardinality(once)
        /\ L \in Nat /\ C \in Nat
    BY <1>1, <1>5 DEF L, C
  <1>8. Cardinality(Delivered(r)) + C2 <= captured'[r]
    BY <1>3, <1>5, <1>6, <1>7
  <1>9. captured[r] + L <= Cardinality(once) => captured'[r] + L2 <= Cardinality(once)
    BY <1>3, <1>5, <1>6, <1>7
  <1>10. QED BY <1>2, <1>7, <1>8, <1>9 DEF L2, C2

\* The first intent that qualifies is one that does.
LEMMA FirstQualifies ==
  ASSUME Sound(disk), NEW K, K \subseteq DOMAIN disk.outbox, FirstOf(K) # 0
  PROVE  FirstOf(K) \in K
  <1>1. DOMAIN disk.outbox \subseteq Nat
    BY SoundFields
  <1>2. K \in SUBSET Nat
    BY <1>1
  <1>3. K # {}
    BY DEF FirstOf
  <1>4. QED BY <1>2, <1>3, LeastMember DEF FirstOf

\* A dispatch that does not come about, or ends.
LEMMA StepGivesUp ==
  ASSUME LoopInv, NEW w \in Workers, GivesUp(w), UNCHANGED <<now, epoch, acked, captured, provider>>
  PROVE  LoopInv' /\ EvidenceKept /\ SettledUnderCurrentLease
  <1>1. /\ disk' = disk /\ lease' = [lease EXCEPT ![w] = Nothing]
        /\ view' = view \/ view' = [view EXCEPT ![w] = disk]
    BY DEF GivesUp, Refreshed
  <1>2. /\ provider \subseteq provider' /\ Range(disk'.pins) \subseteq provider'
        /\ acked' \subseteq acked \cup {} /\ \A id \in {} : ReceiptsOf(disk', id) # {}
    BY <1>1 DEF LoopInv, PinnedWasSent
  <1>3. QED BY <1>1, <1>2, Storing

\* A worker takes the lease of the first alert that is free when its request is received.
Takes(w, ref, received, i, l) ==
  /\ i = FirstOf({k \in DOMAIN disk.outbox : Leasable(ref, disk.outbox[k], received)})
  /\ i # 0 /\ lease[w] = Nothing
  /\ l = [ref |-> ref, fence |-> disk.outbox[i].fence + 1, at |-> received, step |-> "leased"]
  /\ Persist(w, [disk EXCEPT !.outbox[i] = LeasedIntent(@, received)], l)
  /\ UNCHANGED <<staged, now, epoch, acked, captured, provider>>

LEMMA LeaseTaken ==
  ASSUME LoopInv, NEW w \in Workers, NEW ref \in References, NEW received \in 0..now, NEW i, NEW l,
         Takes(w, ref, received, i, l)
  PROVE  LoopInv' /\ EvidenceKept /\ SettledUnderCurrentLease
  <1> DEFINE K == {k \in DOMAIN disk.outbox : Leasable(ref, disk.outbox[k], received)}
             x == LeasedIntent(disk.outbox[i], received)
  <1>1. /\ i = FirstOf(K) /\ i # 0 /\ lease[w] = Nothing
        /\ now' = now /\ epoch' = epoch /\ acked' = acked /\ captured' = captured /\ provider' = provider
    BY DEF Takes
  <1>2. Sound(disk) /\ PinnedWasSent /\ LoopTypeOK
    BY DEF LoopInv
  <1>3. i \in DOMAIN disk.outbox /\ Leasable(ref, disk.outbox[i], received)
    <2>1. K \subseteq DOMAIN disk.outbox
      OBVIOUS
    <2> HIDE DEF K
    <2>2. i \in K
      BY <1>1, <1>2, <2>1, FirstQualifies
    <2>3. QED BY <2>2 DEF K
  <1> HIDE DEF K
  <1>4. Replaced([disk EXCEPT !.outbox[i] = LeasedIntent(@, received)])
    BY DEF Takes, Persist
  <1>5. QED
    <2>1. disk.revision < MaxRevision /\ disk' = At(Edited(disk, i, x), disk.revision + 1)
      BY <1>4 DEF Replaced, Numbered, At, Edited
    <2> DEFINE o == disk.outbox[i]
    <2>2. /\ o \in IntentRow /\ o.ref = ref /\ ~o.delivered /\ o.fence <= disk.revision
          /\ (o.leased \/ o.delivered) <=> o.fence > 0
      BY <1>2, <1>3, SoundFields DEF Sound, LeasesCounted, Leasable
    <2>3. /\ disk.revision \in 0..MaxRevision /\ MaxRevision \in Nat /\ LeaseTime \in Nat \ {0}
          /\ Horizon \in Nat /\ now \in 0..Horizon /\ received \in 0..Horizon
      BY <1>2, SoundFields, LoopAssumption DEF LoopTypeOK, LoopConstants
    <2> HIDE DEF o
    <2>4. /\ LeasedIntent(o, received).ref = ref /\ LeasedIntent(o, received).of = o.of /\ LeasedIntent(o, received).leased
          /\ ~LeasedIntent(o, received).delivered
          /\ LeasedIntent(o, received).fence = o.fence + 1 /\ LeasedIntent(o, received).expires = received + LeaseTime
          /\ LeasedIntent(o, received).ambiguous <=> o.ambiguous \/ o.leased
      BY <2>2 DEF LeasedIntent, IntentRow
    <2>5. o.fence \in Nat
      BY <2>2 DEF IntentRow
    <2>6. LeasedIntent(o, received) \in IntentRow
      <3>1. o.fence + 1 \in 0..MaxRevision /\ received + LeaseTime \in 0..(Horizon + LeaseTime)
        BY <2>1, <2>2, <2>3, <2>5
      <3>2. (o.ambiguous \/ o.leased) \in BOOLEAN
        OBVIOUS
      <3>3. QED BY <2>2, <3>1, <3>2 DEF LeasedIntent, IntentRow
    <2>7. x = LeasedIntent(o, received)
      BY DEF o
    <2> HIDE DEF x
    <2>8. /\ x.of = o.of /\ (x.leased <=> x.expires > 0) /\ x.fence <= disk.revision + 1
          /\ ((x.leased \/ x.delivered) <=> x.fence > 0) /\ (x.fence > 1 => x.ambiguous)
      BY <2>2, <2>3, <2>4, <2>5, <2>7
    <2>9. Commit(disk, disk') /\ EditedAt(disk, disk', i, x) /\ disk'.pins = disk.pins
      BY <1>3, <2>1, <2>6, <2>7, <2>8, EditCommits DEF o
    <2>10. /\ view' = [view EXCEPT ![w] = disk] \/ view' = [view EXCEPT ![w] = disk']
           /\ lease' = [lease EXCEPT ![w] = l] \/ lease' = [lease EXCEPT ![w] = Nothing]
      BY DEF Takes, Persist
    <2>11. /\ l \in LeaseRow /\ l.ref = ref /\ l.step = "leased" /\ l.fence = o.fence + 1
      BY <2>3, <2>5 DEF Takes, LeaseRow, o
    <2>12. lease' \in [Workers -> LeaseRow \cup {Nothing}]
      BY <1>2, <2>10, <2>11 DEF LoopTypeOK
    <2>13. x.ref = ref /\ ~x.delivered /\ x.fence > 0 /\ (x.ambiguous <=> o.ambiguous \/ o.leased)
      BY <2>2, <2>4, <2>5, <2>7
    <2>14. AlertsCounted'
      BY <1>1, <1>3, <2>2, <2>9, <2>10, <2>11, <2>13, LeaseCounts DEF o
    <2>15. /\ now' \in 0..Horizon /\ epoch' = epoch /\ captured' \in [References -> Nat]
           /\ provider \subseteq provider' /\ Range(disk'.pins) \subseteq provider'
           /\ acked' \subseteq acked \cup {} /\ \A id \in {} : ReceiptsOf(disk', id) # {}
      BY <1>1, <1>2, <2>3, <2>9 DEF PinnedWasSent, LoopTypeOK
    <2>16. IntentsStay(disk, disk')
      <3>1. \A k \in DOMAIN disk.outbox : disk.outbox[k].fence \in Nat
        BY <1>2, SoundFields DEF IntentRow
      <3>2. x.ref = o.ref /\ x.fence \in Nat /\ o.fence <= x.fence
        BY <2>2, <2>4, <2>5, <2>7
      <3>3. /\ DOMAIN disk'.outbox = DOMAIN disk.outbox /\ disk'.outbox[i] = x
            /\ \A k \in DOMAIN disk.outbox : k # i => disk'.outbox[k] = disk.outbox[k]
        BY <2>9 DEF EditedAt
      <3> SUFFICES ASSUME NEW k \in DOMAIN disk.outbox
                   PROVE  /\ k \in DOMAIN disk'.outbox /\ disk'.outbox[k].ref = disk.outbox[k].ref
                          /\ disk.outbox[k].fence \in Nat /\ disk'.outbox[k].fence \in Nat
                          /\ disk.outbox[k].fence <= disk'.outbox[k].fence
        BY DEF IntentsStay
      <3>4. CASE k = i
        BY <3>1, <3>2, <3>3, <3>4 DEF o
      <3>5. CASE k # i
        BY <3>1, <3>3, <3>5
      <3>6. QED BY <3>4, <3>5
    <2>17. LeasesApart'
      <3>1. disk'.outbox[i].fence = disk.outbox[i].fence + 1 /\ disk.outbox[i].ref = ref
        BY <2>2, <2>4, <2>7, <2>9 DEF EditedAt, o
      <3>2. l.ref = disk.outbox[i].ref /\ l.fence = disk.outbox[i].fence + 1
        BY <2>11, <3>1 DEF o
      <3>3. CASE lease' = [lease EXCEPT ![w] = l]
        BY <1>3, <2>16, <3>1, <3>2, <3>3, ApartLeased
      <3>4. CASE lease' = [lease EXCEPT ![w] = Nothing]
        BY <1>3, <2>16, <3>1, <3>4, ApartLeased
      <3>5. QED BY <2>10, <3>3, <3>4
    <2>18. SettledUnderCurrentLease
      BY <2>9, <2>13 DEF SettledUnderCurrentLease, EditedAt
    <2>19. QED BY <2>9, <2>10, <2>12, <2>14, <2>15, <2>17, <2>18, Landing

\* A worker asks for a lease.
LEMMA StepLease ==
  ASSUME LoopInv, NEW w \in Workers, lease_alert(w)
  PROVE  LoopInv' /\ EvidenceKept /\ SettledUnderCurrentLease
  <1>1. lease[w] = Nothing /\ UNCHANGED <<staged, now, epoch, acked, captured, provider>>
    BY DEF lease_alert, Idle
  <1>2. CASE GivesUp(w)
    BY <1>1, <1>2, StepGivesUp
  <1>3. CASE ~GivesUp(w)
    <2>1. PICK ref \in References, received \in 0..now :
            LET i == FirstOf({k \in DOMAIN disk.outbox : Leasable(ref, disk.outbox[k], received)}) IN
            /\ i # 0
            /\ Persist(w, [disk EXCEPT !.outbox[i] = LeasedIntent(@, received)],
                       [ref |-> ref, fence |-> disk.outbox[i].fence + 1,
                        at |-> received, step |-> "leased"])
      BY <1>3 DEF lease_alert
    <2> DEFINE i == FirstOf({k \in DOMAIN disk.outbox : Leasable(ref, disk.outbox[k], received)})
               l == [ref |-> ref, fence |-> disk.outbox[i].fence + 1, at |-> received, step |-> "leased"]
    <2>2. Takes(w, ref, received, i, l)
      BY <1>1, <2>1 DEF Takes
    <2> HIDE DEF i, l
    <2>3. QED BY <2>2, LeaseTaken
  <1>4. QED BY <1>2, <1>3

\* The holder shows the alert, or gives up.
LEMMA StepCapture ==
  ASSUME LoopInv, NEW w \in Workers, capture_alert(w)
  PROVE  LoopInv' /\ EvidenceKept /\ SettledUnderCurrentLease
  <1>1. /\ lease[w] # Nothing /\ lease[w].step = "leased" /\ disk' = disk
        /\ now' = now /\ epoch' = epoch /\ provider' = provider
    BY DEF capture_alert, Idle
  <1>2. Sound(disk) /\ PinnedWasSent /\ LoopTypeOK
    BY DEF LoopInv
  <1>3. lease[w] \in LeaseRow /\ lease[w].ref \in References
    BY <1>1, <1>2 DEF LoopTypeOK, LeaseRow
  <1>4. /\ provider \subseteq provider' /\ Range(disk'.pins) \subseteq provider'
        /\ \A id \in {} : ReceiptsOf(disk', id) # {}
    BY <1>1, <1>2 DEF PinnedWasSent
  <1>5. CASE /\ captured' = [captured EXCEPT ![lease[w].ref] = @ + 1]
             /\ \/ /\ view' = [view EXCEPT ![w] = disk]
                   /\ lease' = [lease EXCEPT ![w].step = "captured"]
                   /\ UNCHANGED <<staged, acked>>
                \/ Reopened(w)
    <2>1. /\ view' = [view EXCEPT ![w] = disk] /\ acked' \subseteq acked \cup {}
          /\ lease' = [lease EXCEPT ![w].step = "captured"] \/ lease' = [lease EXCEPT ![w] = Nothing]
      BY <1>1, <1>5 DEF Reopened
    <2> DEFINE l == [lease[w] EXCEPT !.step = "captured"]
    <2>2. l \in LeaseRow /\ l.ref = lease[w].ref /\ l.step = "captured" /\ l.fence = lease[w].fence
      BY <1>3 DEF LeaseRow
    <2>3. lease' = [lease EXCEPT ![w] = l] \/ lease' = [lease EXCEPT ![w] = Nothing]
      BY <2>1
    <2> HIDE DEF l
    <2>4. /\ lease' \in [Workers -> LeaseRow \cup {Nothing}]
          /\ lease'[w] = Nothing \/ lease'[w] = l
          /\ lease'[w] = Nothing \/ (lease'[w].ref = lease[w].ref /\ lease'[w].fence = lease[w].fence)
          /\ \A v \in Workers : v # w => lease'[v] = lease[v]
      BY <1>2, <2>2, <2>3 DEF LoopTypeOK
    <2>5. captured' \in [References -> Nat]
      BY <1>2, <1>3, <1>5 DEF LoopTypeOK
    <2>6. AlertsCounted'
      BY <1>1, <1>3, <1>5, <2>2, <2>4, CaptureCounts
    <2>7. now' \in 0..Horizon
      BY <1>1, <1>2 DEF LoopTypeOK
    <2>8. IntentsStay(disk, disk')
      BY <1>1, <1>2, SoundFields DEF IntentsStay, IntentRow
    <2>9. LeasesApart'
      <3>1. \A v \in Workers :
              \/ lease'[v] = Nothing
              \/ lease[v] # Nothing /\ lease'[v].ref = lease[v].ref /\ lease'[v].fence = lease[v].fence
        BY <1>1, <2>4
      <3>2. QED BY <2>8, <3>1, ApartKept
    <2>10. SettledUnderCurrentLease
      BY <1>1 DEF SettledUnderCurrentLease
    <2>11. QED BY <1>1, <1>4, <2>1, <2>4, <2>5, <2>6, <2>7, <2>9, <2>10, Landing
  <1>6. CASE GivesUp(w) /\ UNCHANGED <<staged, acked, captured>>
    BY <1>1, <1>6, StepGivesUp
  <1>7. QED BY <1>5, <1>6 DEF capture_alert

\* The holder of the current lease settles it.
LEMMA StepSettle ==
  ASSUME LoopInv, NEW w \in Workers, settle_alert(w)
  PROVE  LoopInv' /\ EvidenceKept /\ SettledUnderCurrentLease
  <1> DEFINE K == {k \in DOMAIN disk.outbox : Settleable(lease[w], disk.outbox[k])}
             i == FirstOf(K)
             x == SettledIntent(disk.outbox[i])
             ref == lease[w].ref
  <1>1. /\ lease[w] # Nothing /\ lease[w].step = "captured"
        /\ GivesUp(w) \/ (i # 0 /\ Persist(w, [disk EXCEPT !.outbox[i] = SettledIntent(@)], Nothing))
        /\ UNCHANGED <<staged, now, epoch, acked, captured, provider>>
    BY DEF settle_alert, Idle
  <1>2. Sound(disk) /\ PinnedWasSent /\ LoopTypeOK
    BY DEF LoopInv
  <1>3. ref \in References
    BY <1>1, <1>2 DEF LoopTypeOK, LeaseRow
  <1>4. CASE GivesUp(w)
    BY <1>1, <1>4, StepGivesUp
  <1>5. CASE /\ i # 0 /\ Replaced([disk EXCEPT !.outbox[i] = SettledIntent(@)])
             /\ view' = [view EXCEPT ![w] = disk] \/ view' = [view EXCEPT ![w] = disk']
             /\ lease' = [lease EXCEPT ![w] = Nothing]
    <2>1. i \in DOMAIN disk.outbox /\ Fenced(lease[w], disk.outbox[i])
      <3>1. K \subseteq DOMAIN disk.outbox
        OBVIOUS
      <3> HIDE DEF K
      <3>2. i \in K
        BY <1>2, <1>5, <3>1, FirstQualifies
      <3>3. QED BY <3>2 DEF K, Settleable
    <2> HIDE DEF i
    <2>2. disk.revision < MaxRevision /\ disk' = At(Edited(disk, i, x), disk.revision + 1)
      BY <1>5 DEF Replaced, Numbered, At, Edited
    <2> DEFINE o == disk.outbox[i]
    <2>3. /\ o \in IntentRow /\ o.ref = ref /\ o.leased /\ o.fence <= disk.revision
          /\ ((o.leased \/ o.delivered) <=> o.fence > 0) /\ (o.fence > 1 => o.ambiguous)
      BY <1>2, <2>1, SoundFields DEF Sound, LeasesCounted, Fenced
    <2>4. disk.revision \in Int /\ Horizon + LeaseTime \in Nat
      BY <1>2, SoundFields, LoopAssumption DEF LoopConstants
    <2> HIDE DEF o
    <2>5. /\ SettledIntent(o).ref = ref /\ SettledIntent(o).of = o.of /\ ~SettledIntent(o).leased
          /\ SettledIntent(o).delivered /\ SettledIntent(o).fence = o.fence /\ SettledIntent(o).expires = 0
          /\ SettledIntent(o).ambiguous = o.ambiguous
      BY <2>3 DEF SettledIntent, IntentRow
    <2>6. o.fence \in Nat
      BY <2>3 DEF IntentRow
    <2>7. SettledIntent(o) \in IntentRow
      <3>1. 0 \in 0..(Horizon + LeaseTime)
        BY <2>4
      <3>2. QED BY <2>3, <3>1 DEF SettledIntent, IntentRow
    <2>8. x = SettledIntent(o)
      BY DEF o
    <2> HIDE DEF x
    <2>9. /\ x.of = o.of /\ (x.leased <=> x.expires > 0) /\ x.fence <= disk.revision + 1
          /\ ((x.leased \/ x.delivered) <=> x.fence > 0) /\ (x.fence > 1 => x.ambiguous)
      BY <2>3, <2>4, <2>5, <2>6, <2>8
    <2>10. Commit(disk, disk') /\ EditedAt(disk, disk', i, x) /\ disk'.pins = disk.pins
      BY <2>1, <2>2, <2>7, <2>8, <2>9, EditCommits DEF o
    <2>11. x.ref = ref /\ x.fence = o.fence /\ x.ambiguous = o.ambiguous
      BY <2>5, <2>8
    <2>12. AlertsCounted'
      BY <1>1, <1>3, <1>5, <2>1, <2>3, <2>10, <2>11, SettleCounts DEF o
    <2>13. lease' \in [Workers -> LeaseRow \cup {Nothing}]
      BY <1>2, <1>5 DEF LoopTypeOK
    <2>14. /\ now' \in 0..Horizon /\ epoch' = epoch /\ captured' \in [References -> Nat]
           /\ provider \subseteq provider' /\ Range(disk'.pins) \subseteq provider'
           /\ acked' \subseteq acked \cup {} /\ \A id \in {} : ReceiptsOf(disk', id) # {}
      BY <1>1, <1>2, <2>10 DEF PinnedWasSent, LoopTypeOK
    <2>15. LeasesApart'
      <3>1. \A k \in DOMAIN disk.outbox : disk.outbox[k].fence \in Nat
        BY <1>2, SoundFields DEF IntentRow
      <3>2. IntentsStay(disk, disk')
        BY <2>3, <2>6, <2>10, <2>11, <3>1 DEF IntentsStay, EditedAt, o
      <3>3. \A v \in Workers : lease'[v] = Nothing \/ lease'[v] = lease[v]
        BY <1>2, <1>5 DEF LoopTypeOK
      <3>4. QED BY <3>2, <3>3, ApartKept
    <2>16. SettledUnderCurrentLease
      <3>1. Acts(w)
        BY <1>1, <1>2, <1>5 DEF Acts, LoopTypeOK
      <3>2. HoldsLease(w, i)
        BY <1>1, <2>1, FencedHolds
      <3>3. \A k \in DOMAIN disk.outbox : k # i => disk'.outbox[k] = disk.outbox[k]
        BY <2>10 DEF EditedAt
      <3>4. QED BY <1>1, <3>1, <3>2, <3>3 DEF SettledUnderCurrentLease
    <2>17. QED BY <1>5, <2>10, <2>12, <2>13, <2>14, <2>15, <2>16, Landing
  <1>6. QED BY <1>1, <1>4, <1>5 DEF Persist

\* The snapshots that workers find.
LEMMA LoopStart == LoopInit => LoopInv
  <1> SUFFICES ASSUME LoopInit PROVE LoopInv
    OBVIOUS
  <1>1. /\ disk \in FirstStates /\ view = [w \in Workers |-> disk] /\ lease = [w \in Workers |-> Nothing]
        /\ now = 0 /\ epoch = 1 /\ acked = {} /\ provider = {} /\ captured = [ref \in References |-> 0]
    BY DEF LoopInit
  <1>2. /\ WellFormed(disk) /\ Retained(disk) /\ disk.receipts = <<>> /\ disk.pins = <<>> /\ disk.outbox = <<>>
        /\ {Week, Horizon, MaxRevision, MaxItems} \subseteq Nat
        /\ Configurations \in Seq(Range(Configurations)) /\ Configurations # <<>>
    BY <1>1, LoopAssumption DEF LoopConstants
  <1>3. DOMAIN disk.receipts = {} /\ DOMAIN disk.outbox = {} /\ DOMAIN disk.pins = {}
    BY <1>2
  <1>4. \A id : ReceiptsOf(disk, id) = {} /\ IntentsOf(disk, id) = {}
    BY <1>3 DEF ReceiptsOf, IntentsOf
  <1>5. \A id \in AllIdentities : OneBody(disk, id)
    <2> SUFFICES ASSUME NEW id \in AllIdentities PROVE OneBody(disk, id)
      OBVIOUS
    <2>1. PICK g \in Ingresses : id \in Identities(g.batch)
      BY DEF AllIdentities
    <2> DEFINE B == {k \in DOMAIN g.batch : Identity(g.batch[k]) = id}
    <2>2. B \in SUBSET DOMAIN g.batch /\ g.batch \in Seq(Range(g.batch))
      BY LoopAssumption DEF LoopConstants
    <2>3. Listed(g, id) = Cardinality(B)
      BY DEF Listed
    <2> HIDE DEF B
    <2>4. Cardinality(B) \in Nat
      BY <2>2, PlacesFinite
    <2>5. Cardinality({}) = 0
      BY FS_EmptySet
    <2>6. QED BY <1>4, <2>3, <2>4, <2>5 DEF OneBody
  <1>6. Sound(disk)
    <2>1. LeasesCounted(disk) /\ Verified(disk) /\ Alerted(disk) /\ Receipted(disk)
      BY <1>3 DEF LeasesCounted, Verified, Alerted, Receipted
    <2>2. QED BY <1>2, <1>5, <2>1 DEF Sound
  <1>7. Known(disk) /\ PinnedWasSent /\ AckedIsRecorded
    BY <1>1, <1>3 DEF Known, PinnedWasSent, AckedIsRecorded, Range
  <1>8. \A w \in Workers : Sound(view[w]) /\ CopyOf(view[w])
    <2>1. CopyOf(disk)
      <3>1. disk.revision \in Int
        BY <1>2, <1>6, SoundFields
      <3>2. QED BY <1>7, <3>1 DEF CopyOf, PinnedWasSent
    <2>2. QED BY <1>1, <1>6, <2>1
  <1>9. AlertsCounted
    <2> SUFFICES ASSUME NEW ref \in References
                 PROVE  /\ Cardinality(Delivered(ref)) + Cardinality(Holders(ref, "captured")) <= captured[ref]
                        /\ captured[ref] + Cardinality(Holders(ref, "leased"))
                             <= Cardinality({i \in OfReference(ref) : disk.outbox[i].fence > 0})
      BY DEF AlertsCounted
    <2>1. /\ Delivered(ref) = {} /\ {i \in OfReference(ref) : disk.outbox[i].fence > 0} = {}
          /\ Holders(ref, "captured") = {} /\ Holders(ref, "leased") = {}
      BY <1>1, <1>3 DEF Delivered, OfReference, Holders
    <2>2. captured[ref] = 0
      BY <1>1
    <2>3. Cardinality({}) = 0
      BY FS_EmptySet
    <2>4. /\ Cardinality(Delivered(ref)) = 0 /\ Cardinality(Holders(ref, "captured")) = 0
          /\ Cardinality(Holders(ref, "leased")) = 0
          /\ Cardinality({i \in OfReference(ref) : disk.outbox[i].fence > 0}) = 0
      BY <2>1, <2>3, Zenon
    <2>5. QED BY <2>2, <2>4
  <1>10. LoopTypeOK
    <2>1. disk \in Snapshots
      BY <1>2 DEF WellFormed
    <2>2. 1 \in DOMAIN Configurations
      BY <1>2
    <2>3. QED BY <1>1, <1>2, <2>1, <2>2 DEF LoopTypeOK
  <1>11. LeasesApart
    BY <1>1 DEF LeasesApart
  <1>12. QED BY <1>6, <1>7, <1>8, <1>9, <1>10, <1>11 DEF LoopInv

\* Steps that change nothing.
LEMMA LoopStutter ==
  ASSUME LoopInv, UNCHANGED loopVars
  PROVE  LoopInv' /\ EvidenceKept /\ SettledUnderCurrentLease
  <1>1. /\ disk' = disk /\ view' = view /\ lease' = lease /\ epoch' = epoch /\ acked' = acked
        /\ captured' = captured /\ provider' = provider /\ now' = now
    BY DEF loopVars
  <1>2. LoopTypeOK'
    BY <1>1 DEF LoopInv, LoopTypeOK
  <1>3. Sound(disk') /\ Known(disk)' /\ PinnedWasSent' /\ AckedIsRecorded'
    BY <1>1 DEF LoopInv, Known, configuration, PinnedWasSent, AckedIsRecorded
  <1>4. \A w \in Workers : Sound(view[w])' /\ CopyOf(view[w])'
    BY <1>1 DEF LoopInv, CopyOf
  <1>5. AlertsCounted' /\ LeasesApart'
    <2>1. AlertsCounted'
      BY <1>1 DEF LoopInv, AlertsCounted, Delivered, OfReference, Holders
    <2>2. LeasesApart'
      BY <1>1 DEF LoopInv, LeasesApart, OfReference
    <2>3. QED BY <2>1, <2>2
  <1>6. EvidenceKept /\ SettledUnderCurrentLease
    BY <1>1, SoundFields, LongerSelf, LongerPrefix
    DEF LoopInv, EvidenceKept, SettledUnderCurrentLease
  <1>7. QED BY <1>2, <1>3, <1>4, <1>5, <1>6 DEF LoopInv

\* Every step of the loop keeps the invariant and the evidence.
LEMMA LoopSteps ==
  ASSUME LoopInv, [LoopNext]_loopVars
  PROVE  LoopInv' /\ EvidenceKept /\ SettledUnderCurrentLease
  <1>1. CASE UNCHANGED loopVars
    BY <1>1, LoopStutter
  <1>2. CASE Tick
    BY <1>2, StepTick
  <1>3. CASE Rotate
    BY <1>3, StepRotate
  <1>4. ASSUME NEW w \in Workers, NEW g \in Ingresses, Callback(w, g)
        PROVE  LoopInv' /\ EvidenceKept /\ SettledUnderCurrentLease
    BY <1>4, StepCallback
  <1>5. ASSUME NEW w \in Workers, NEW a \in Attempts, NEW o \in Outcomes, Outbound(w, a, o)
        PROVE  LoopInv' /\ EvidenceKept /\ SettledUnderCurrentLease
    BY <1>5, StepOutbound
  <1>6. ASSUME NEW w \in Workers, lease_alert(w)
        PROVE  LoopInv' /\ EvidenceKept /\ SettledUnderCurrentLease
    BY <1>6, StepLease
  <1>7. ASSUME NEW w \in Workers, capture_alert(w)
        PROVE  LoopInv' /\ EvidenceKept /\ SettledUnderCurrentLease
    BY <1>7, StepCapture
  <1>8. ASSUME NEW w \in Workers, settle_alert(w)
        PROVE  LoopInv' /\ EvidenceKept /\ SettledUnderCurrentLease
    BY <1>8, StepSettle
  <1>9. ASSUME NEW w \in Workers, NEW c \in Controls, Retention(w, c)
        PROVE  LoopInv' /\ EvidenceKept /\ SettledUnderCurrentLease
    BY <1>9, StepRetention
  <1>10. ASSUME NEW w \in Workers, NEW c \in Corrections, CorrectServiceWindow(w, c)
         PROVE  LoopInv' /\ EvidenceKept /\ SettledUnderCurrentLease
    BY <1>10, StepCorrection
  <1>11. ASSUME NEW w \in Workers, Reopen(w)
         PROVE  LoopInv' /\ EvidenceKept /\ SettledUnderCurrentLease
    BY <1>11, StepReopen
  <1>12. QED BY <1>1, <1>2, <1>3, <1>4, <1>5, <1>6, <1>7, <1>8, <1>9, <1>10, <1>11
             DEF LoopNext, LoopStep

\* What the invariant says of the alerts and the evidence.
LEMMA LoopSafe == LoopInv => AlertsSafety /\ EvidenceSafety
  <1> SUFFICES ASSUME LoopInv PROVE AlertsSafety /\ EvidenceSafety
    OBVIOUS
  <1>1. Sound(disk) /\ PinnedWasSent /\ AckedIsRecorded
    BY DEF LoopInv
  <1>2. NoSecondIntent /\ SnapshotOK /\ OnlyVerifiedRecorded /\ RetentionBounded
    BY <1>1 DEF Sound, NoSecondIntent, SnapshotOK, OnlyVerifiedRecorded, RetentionBounded
  <1>3. ASSUME NEW ref \in References
        PROVE  /\ Cardinality(Delivered(ref)) <= captured[ref]
               /\ captured[ref] > Cardinality(OfReference(ref)) =>
                    \E i \in OfReference(ref) : disk.outbox[i].ambiguous
    <2> DEFINE once == {i \in OfReference(ref) : disk.outbox[i].fence > 0}
    <2>1. /\ Cardinality(Delivered(ref)) + Cardinality(Holders(ref, "captured")) <= captured[ref]
          /\ \/ \E i \in OfReference(ref) : disk.outbox[i].ambiguous
             \/ captured[ref] + Cardinality(Holders(ref, "leased")) <= Cardinality(once)
      BY DEF LoopInv, AlertsCounted
    <2>2. /\ Cardinality(Delivered(ref)) \in Nat /\ Cardinality(once) \in Nat /\ captured[ref] \in Nat
          /\ Cardinality(Holders(ref, "captured")) \in Nat /\ Cardinality(Holders(ref, "leased")) \in Nat
      BY CountsFinite
    <2>3. once \subseteq OfReference(ref) /\ OfReference(ref) \in SUBSET DOMAIN disk.outbox
      BY DEF OfReference
    <2>4. IsFiniteSet(OfReference(ref)) /\ Cardinality(OfReference(ref)) \in Nat
      BY <1>1, <2>3, SoundFields, PlacesFinite
    <2> HIDE DEF once
    <2>5. Cardinality(once) <= Cardinality(OfReference(ref))
      BY <2>3, <2>4, FS_Subset
    <2>6. QED BY <2>1, <2>2, <2>4, <2>5
  <1>4. DeliveredWasCaptured /\ DuplicateIsMarked
    BY <1>3 DEF DeliveredWasCaptured, DuplicateIsMarked
  <1>5. QED BY <1>1, <1>2, <1>4 DEF AlertsSafety, EvidenceSafety

\* Only capture_alert counts an alert as shown, after it found its lease current.
LEMMA ShownStep ==
  ASSUME LoopInv, [LoopNext]_loopVars
  PROVE  ShownUnderCurrentLease
  <1> SUFFICES ASSUME NEW ref \in References, captured'[ref] # captured[ref]
               PROVE  \E w \in Workers :
                        /\ Acts(w) /\ lease[w].ref = ref /\ lease[w].step = "leased"
                        /\ \E i \in OfReference(ref) : HoldsLease(w, i) /\ lease[w].at < disk.outbox[i].expires
    BY DEF ShownUnderCurrentLease
  <1>1. captured \in [References -> Nat]
    BY DEF LoopInv, LoopTypeOK
  <1>2. captured' # captured
    BY <1>1
  <1>3. PICK w \in Workers : capture_alert(w)
    <2>1. ~UNCHANGED loopVars /\ ~Tick /\ ~Rotate
      BY <1>2 DEF loopVars, Tick, Rotate
    <2>2. \A w \in Workers :
            /\ \A g \in Ingresses : ~Callback(w, g)
            /\ \A a \in Attempts, o \in Outcomes : ~Outbound(w, a, o)
            /\ ~lease_alert(w) /\ ~settle_alert(w) /\ ~Reopen(w)
            /\ \A c \in Controls : ~Retention(w, c)
            /\ \A c \in Corrections : ~CorrectServiceWindow(w, c)
      BY <1>2 DEF Callback, Outbound, lease_alert, settle_alert, Reopen, Retention, CorrectServiceWindow
    <2>3. QED BY <2>1, <2>2 DEF LoopNext, LoopStep
  <1>4. /\ Eligible(w) /\ captured' = [captured EXCEPT ![lease[w].ref] = @ + 1]
        /\ lease[w] # Nothing /\ lease[w].step = "leased"
        /\ lease' = [lease EXCEPT ![w].step = "captured"] \/ lease' = [lease EXCEPT ![w] = Nothing]
    BY <1>2, <1>3 DEF capture_alert, Idle, Reopened
  <1>5. lease[w].ref = ref
    BY <1>1, <1>4
  <1>6. lease \in [Workers -> LeaseRow \cup {Nothing}] /\ lease[w] \in LeaseRow
    BY <1>4 DEF LoopInv, LoopTypeOK
  <1>7. Acts(w)
    <2>1. \A v \in Workers \ {w} : lease'[v] = lease[v]
      BY <1>4, <1>6
    <2>2. lease'[w] # lease[w]
      BY <1>4, <1>6 DEF LeaseRow
    <2>3. QED BY <1>4, <2>1, <2>2 DEF Acts
  <1>8. PICK i \in DOMAIN disk.outbox :
          Fenced(lease[w], disk.outbox[i]) /\ lease[w].at < disk.outbox[i].expires
    BY <1>4 DEF Eligible
  <1>9. HoldsLease(w, i)
    BY <1>4, <1>8, FencedHolds
  <1>10. QED BY <1>4, <1>5, <1>7, <1>8, <1>9 DEF Fenced, OfReference

\* The invariant holds throughout.
LEMMA LoopInvariant == LoopSpec => []LoopInv
  <1>1. LoopInv /\ [LoopNext]_loopVars => LoopInv'
    BY LoopSteps
  <1>2. QED BY <1>1, LoopStart, PTL DEF LoopSpec

\* Callbacks and alerts, for any workers, bodies, rotations and limits: what was
\* answered 200 is recorded (handle_candidates), once (is_duplicate), and alerts are
\* delivered only when shown and marked when shown again (lease_alert, settle_alert).
THEOREM Alerts == LoopSpec => []AlertsSafety
  <1>1. LoopInv => AlertsSafety
    BY LoopSafe
  <1>2. QED BY <1>1, LoopInvariant, PTL

\* The evidence of the loop: the snapshot stays well formed and within its rows
\* (decode_state), receipts are of authentic callbacks (handle_callback), pins of calls
\* that were made (handle_registered_outbound), retention within its ceiling
\* (handle_retention).
THEOREM Evidence == LoopSpec => []EvidenceSafety
  <1>1. LoopInv => EvidenceSafety
    BY LoopSafe
  <1>2. QED BY <1>1, LoopInvariant, PTL

\* No commit loses what another worker has written, and the worker that shows an alert or
\* marks it delivered holds the alert's lease itself, however late it comes: an alert alone
\* under its reference is shown and settled by the last one to lease it
\* (FixtureStore::replace_if_revision, capture_alert, settle_alert).
THEOREM EvidenceStays ==
  LoopSpec => [][EvidenceKept /\ ShownUnderCurrentLease /\ SettledUnderCurrentLease]_loopVars
  <1>1. LoopInv /\ [LoopNext]_loopVars
          => [EvidenceKept /\ ShownUnderCurrentLease /\ SettledUnderCurrentLease]_loopVars
    BY LoopSteps, ShownStep
  <1>2. QED BY <1>1, LoopInvariant, PTL DEF LoopSpec
=============================================================================

----------------------------- MODULE ImageProofs -----------------------------
(***************************************************************************)
(* Lemmas about the image of a control journal for any limits and digest:  *)
(* what replaying, appending a record and folding the tail do to it.       *)
(***************************************************************************)
EXTENDS JournalImage, Induction, TLAPS

\* f[i] is what the checkpoint has become after i records of the tail.
Runs(f, checkpoint, tail, n) ==
  f[0] = checkpoint /\ \A i \in 1..n : f[i] = ReplayRecord(f[i - 1], tail[i])

\* replay_tail's loop: any function that runs from the checkpoint through the tail
\* gives what Replay gives at its end.
LEMMA ReplayIs ==
  ASSUME NEW checkpoint, NEW tail, NEW n \in Nat, n = Len(tail), NEW f, Runs(f, checkpoint, tail, n)
  PROVE  Replay(checkpoint, tail) = f[n]
  <1>0. f[0] = checkpoint /\ \A i \in 1..n : f[i] = ReplayRecord(f[i - 1], tail[i])
    BY DEF Runs
  <1> DEFINE Follows(e) == e = [i \in 0..n |-> IF i = 0 THEN checkpoint ELSE ReplayRecord(e[i - 1], tail[i])]
             g == CHOOSE e : Follows(e)
             h == [i \in 0..n |-> f[i]]
  <1>1. Replay(checkpoint, tail) = g[n]
    BY DEF Replay
  <1>2. Follows(h)
    <2>1. \A i \in 0..n : h[i] = f[i]
      OBVIOUS
    <2>2. ASSUME NEW i \in 0..n
          PROVE  f[i] = IF i = 0 THEN checkpoint ELSE ReplayRecord(h[i - 1], tail[i])
      <3>1. CASE i = 0
        BY <1>0, <3>1
      <3>2. CASE i # 0
        <4>1. i \in 1..n /\ i - 1 \in 0..n
          BY <3>2
        <4>2. h[i - 1] = f[i - 1]
          BY <2>1, <4>1
        <4> HIDE DEF h
        <4>3. QED BY <1>0, <3>2, <4>1, <4>2
      <3>3. QED BY <3>1, <3>2
    <2>3. h = [i \in 0..n |-> IF i = 0 THEN checkpoint ELSE ReplayRecord(h[i - 1], tail[i])]
      BY <2>2
    <2>4. QED BY <2>3
  <1> HIDE DEF h
  <1>3. Follows(g)
    BY <1>2
  <1> HIDE DEF g
  <1>4. /\ g[0] = checkpoint
        /\ \A i \in 1..n : g[i] = ReplayRecord(g[i - 1], tail[i])
    <2>1. \A i \in 0..n : g[i] = IF i = 0 THEN checkpoint ELSE ReplayRecord(g[i - 1], tail[i])
      BY <1>3
    <2> HIDE DEF Follows
    <2>2. 0 \in 0..n /\ \A i \in 1..n : i \in 0..n /\ i # 0
      OBVIOUS
    <2>3. QED BY <2>1, <2>2
  <1> HIDE DEF Follows
  <1>5. \A i \in 1..n : f[i - 1] = g[i - 1] => f[i] = g[i]
    BY <1>0, <1>4
  <1>6. \A i \in 0..n : f[i] = g[i]
    <2> DEFINE S == {i \in Nat : i <= n => f[i] = g[i]}
    <2>1. 0 \in S
      BY <1>0, <1>4
    <2>2. ASSUME NEW i \in S PROVE i + 1 \in S
      <3>1. i \in Nat /\ (i <= n => f[i] = g[i])
        OBVIOUS
      <3>2. ASSUME i + 1 <= n PROVE f[i + 1] = g[i + 1]
        <4>1. i <= n /\ i + 1 \in 1..n /\ (i + 1) - 1 = i
          BY <3>1, <3>2
        <4>2. QED BY <1>5, <3>1, <4>1
      <3>3. QED BY <3>1, <3>2
    <2>3. S \in SUBSET Nat
      OBVIOUS
    <2>4. S = Nat
      <3> HIDE DEF S
      <3>1. QED BY <2>1, <2>2, <2>3, SetInduction
    <2>5. QED BY <2>4
  <1>7. QED BY <1>1, <1>6

\* Every tail can be replayed to its end.
LEMMA ReplayRuns ==
  ASSUME NEW checkpoint, NEW tail, NEW n \in Nat
  PROVE  \E f : Runs(f, checkpoint, tail, n)
  <1> DEFINE S == {m \in Nat : \E f : Runs(f, checkpoint, tail, m)}
  <1>1. 0 \in S
    <2>1. Runs([i \in {0} |-> checkpoint], checkpoint, tail, 0)
      BY DEF Runs
    <2>2. QED BY <2>1
  <1>2. ASSUME NEW m \in S PROVE m + 1 \in S
    <2>1. m \in Nat
      OBVIOUS
    <2>2. PICK f : Runs(f, checkpoint, tail, m)
      OBVIOUS
    <2> DEFINE last == ReplayRecord(f[m], tail[m + 1])
               g == [i \in 0..m + 1 |-> IF i = m + 1 THEN last ELSE f[i]]
    <2>3. g[m + 1] = last /\ \A i \in 0..m : g[i] = f[i]
      BY <2>1
    <2> HIDE DEF g
    <2>4. ASSUME NEW i \in 1..m + 1 PROVE g[i] = ReplayRecord(g[i - 1], tail[i])
      <3>1. CASE i = m + 1
        <4>1. m \in 0..m /\ i - 1 = m
          BY <2>1, <3>1
        <4>2. g[i - 1] = f[m]
          BY <2>3, <4>1
        <4>3. QED BY <2>3, <3>1, <4>2
      <3>2. CASE i # m + 1
        <4>1. i \in 1..m /\ i \in 0..m /\ i - 1 \in 0..m
          BY <2>1, <3>2
        <4>2. g[i] = f[i] /\ g[i - 1] = f[i - 1]
          BY <2>3, <4>1
        <4>3. QED BY <2>2, <4>1, <4>2 DEF Runs
      <3>3. QED BY <3>1, <3>2
    <2>5. g[0] = checkpoint
      BY <2>1, <2>2, <2>3 DEF Runs
    <2>6. Runs(g, checkpoint, tail, m + 1)
      BY <2>4, <2>5 DEF Runs
    <2>7. QED BY <2>1, <2>6
  <1>3. S \in SUBSET Nat
    OBVIOUS
  <1>4. S = Nat
    <2> HIDE DEF S
    <2>1. QED BY <1>1, <1>2, <1>3, SetInduction
  <1>5. QED BY <1>4

\* Nothing to replay, and one record more.
LEMMA ReplayNothing == ASSUME NEW checkpoint PROVE Replay(checkpoint, <<>>) = checkpoint
  <1> DEFINE f == [i \in {0} |-> checkpoint]
             none == <<>>
  <1>1. f[0] = checkpoint /\ Len(none) = 0
    OBVIOUS
  <1> HIDE DEF f, none
  <1>2. Runs(f, checkpoint, none, 0)
    BY <1>1 DEF Runs
  <1>3. Replay(checkpoint, none) = f[0]
    BY <1>1, <1>2, ReplayIs
  <1>4. QED BY <1>1, <1>3 DEF none

\* A longer tail replays as the shorter one and then its last record.
LEMMA ReplayOneMore ==
  ASSUME NEW checkpoint, NEW S, NEW tail \in Seq(S), NEW record
  PROVE  Replay(checkpoint, Append(tail, record)) = ReplayRecord(Replay(checkpoint, tail), record)
  <1> DEFINE n == Len(tail)
             more == Append(tail, record)
  <1>1. n \in Nat /\ Len(more) = n + 1 /\ more[n + 1] = record /\ \A i \in 1..n : more[i] = tail[i]
    <2>1. tail \in Seq(S \cup {record}) /\ record \in S \cup {record}
      OBVIOUS
    <2>2. QED BY <2>1
  <1> HIDE DEF more
  <1>2. n = Len(tail)
    OBVIOUS
  <1> HIDE DEF n
  <1> DEFINE k == n + 1
  <1>3. k \in Nat /\ k = Len(more)
    BY <1>1
  <1> HIDE DEF k
  <1>4. PICK f : Runs(f, checkpoint, more, k)
    BY <1>3, ReplayRuns
  <1>5. Replay(checkpoint, more) = f[k]
    BY <1>3, <1>4, ReplayIs
  <1>6. Replay(checkpoint, tail) = f[n]
    <2>1. Runs(f, checkpoint, tail, n)
      BY <1>1, <1>4 DEF Runs, k
    <2>2. QED BY <1>1, <1>2, <2>1, ReplayIs
  <1>7. f[k] = ReplayRecord(f[n], record)
    <2>1. n + 1 \in 1..n + 1 /\ (n + 1) - 1 = n
      BY <1>1
    <2>2. QED BY <1>1, <1>4, <2>1 DEF Runs, k
  <1>8. QED BY <1>5, <1>6, <1>7 DEF more

-----------------------------------------------------------------------------
\* A checkpoint that passes validate_checkpoint is not the refusal: its generation
\* is not 0.
LEMMA ValidIsAccepted ==
  ASSUME NEW checkpoint, validate_checkpoint(checkpoint)
  PROVE  checkpoint # Invalid
  <1>1. checkpoint.generation > 0
    BY DEF validate_checkpoint
  <1>2. Invalid.generation = 0
    BY DEF Invalid
  <1>3. QED BY <1>1, <1>2

\* An image that encodes has passed both of the encoder's validations.
LEMMA EncodedImage ==
  ASSUME NEW image, NEW projection, encode_control_journal_image(image, projection) # Invalid
  PROVE  /\ encode_control_journal_image(image, projection) = [image |-> image, projection |-> projection]
         /\ validate_image_bindings(image)
         /\ validate_checkpoint(projection)
  BY DEF encode_control_journal_image

\* What a fold writes replays to what was folded, one generation on.
LEMMA FoldReplays ==
  ASSUME NEW high_water, NEW checkpoint, Checkpointed(high_water, checkpoint) # Invalid
  PROVE  LET next == [checkpoint EXCEPT !.generation = @ + 1]
             result == Checkpointed(high_water, checkpoint)
         IN /\ result.image = Image(high_water, next, <<>>)
            /\ result.projection = next
            /\ ImageShape(result.image)
            /\ replay_tail(result.image) = next
            /\ next # Invalid /\ validate_checkpoint(next)
  <1> DEFINE next == [checkpoint EXCEPT !.generation = @ + 1]
             image == Image(high_water, next, <<>>)
  <1> HIDE DEF next
  <1>1. /\ Checkpointed(high_water, checkpoint) = [image |-> image, projection |-> next]
        /\ validate_image_bindings(image) /\ validate_checkpoint(next)
    BY EncodedImage DEF Checkpointed, next
  <1>2. /\ image.checkpoint = next /\ image.tail = <<>> /\ DOMAIN image = {"high_water", "checkpoint", "tail"}
        /\ Len(image.tail) = 0
    BY DEF Image
  <1>3. ImageShape(image)
    <2> DEFINE S == Range(<<>>)
    <2> HIDE DEF S
    <2>1. <<>> \in Seq(S)
      OBVIOUS
    <2>2. QED BY <1>2, <2>1 DEF ImageShape, S
  <1> HIDE DEF image
  <1>4. Replay(image.checkpoint, image.tail) = next
    BY <1>2, ReplayNothing
  <1>5. replay_tail(image) = next
    BY <1>1, <1>2, <1>4, JournalConstants DEF replay_tail
  <1>6. QED BY <1>1, <1>3, <1>5, ValidIsAccepted DEF image, next

\* Appending a record to an image that replays gives one that replays to what the
\* record makes of its projection, folded or not.
LEMMA AppendReplays ==
  ASSUME NEW image, ImageShape(image), NEW projection, projection = replay_tail(image), projection # Invalid,
         NEW record, NEW next, next = ReplayRecord(projection, record), next # Invalid,
         Appended(image, projection, record, next) # Invalid
  PROVE  LET result == Appended(image, projection, record, next)
             folded == [next EXCEPT !.generation = @ + 1]
         IN /\ ImageShape(result.image)
            /\ replay_tail(result.image) = result.projection
            /\ result.projection # Invalid /\ validate_checkpoint(result.projection)
            /\ result.image.high_water = image.high_water
            /\ \/ result.projection = next /\ result.image.checkpoint = image.checkpoint
               \/ result.projection = folded /\ result.image.checkpoint = folded
  <1> DEFINE result == Appended(image, projection, record, next)
             folded == [next EXCEPT !.generation = @ + 1]
  <1>1. CASE Len(image.tail) = TailCountLimit
    <2>1. result = Checkpointed(image.high_water, next)
      BY <1>1 DEF Appended
    <2>2. /\ result.image = Image(image.high_water, folded, <<>>) /\ result.projection = folded
          /\ ImageShape(result.image) /\ replay_tail(result.image) = folded /\ folded # Invalid
      BY <2>1, FoldReplays
    <2>3. validate_checkpoint(folded)
      BY <2>1, EncodedImage DEF Checkpointed
    <2> HIDE DEF result, folded
    <2>4. QED BY <2>2, <2>3 DEF Image, result, folded
  <1>2. CASE Len(image.tail) # TailCountLimit
    <2> DEFINE longer == [image EXCEPT !.tail = Append(@, record)]
    <2>1. result = encode_control_journal_image(longer, next)
      BY <1>2 DEF Appended
    <2>2. longer.tail = Append(image.tail, record) /\ longer.checkpoint = image.checkpoint
          /\ longer.high_water = image.high_water /\ DOMAIN longer = {"high_water", "checkpoint", "tail"}
      BY DEF ImageShape
    <2> HIDE DEF longer
    <2>3. /\ result = [image |-> longer, projection |-> next] /\ validate_image_bindings(longer)
          /\ validate_checkpoint(next)
      <3> HIDE DEF result
      <3>1. result # Invalid
        BY DEF result
      <3>2. QED BY <2>1, <3>1, EncodedImage
    <2>4. /\ validate_checkpoint(image.checkpoint) /\ Len(image.tail) <= TailCountLimit
          /\ projection = Replay(image.checkpoint, image.tail)
      BY DEF replay_tail
    <2> DEFINE tail == image.tail
               S == Range(tail)
               more == Append(tail, record)
    <2>5. tail \in Seq(S)
      BY DEF ImageShape
    <2> HIDE DEF S, tail
    <2>6. Len(tail) \in Nat /\ Len(more) = Len(tail) + 1 /\ more \in Seq(S \cup {record})
      <3>1. tail \in Seq(S \cup {record}) /\ record \in S \cup {record}
        BY <2>5
      <3>2. QED BY <3>1
    <2>7. more \in Seq(Range(more))
      <3> HIDE DEF more
      <3>1. more \in [1..Len(more) -> S \cup {record}] /\ Len(more) \in Nat
        BY <2>6
      <3>2. \A i \in 1..Len(more) : more[i] \in Range(more)
        BY <3>1 DEF Range
      <3>3. more \in [1..Len(more) -> Range(more)]
        BY <3>1, <3>2
      <3>4. QED BY <3>1, <3>3
    <2>8. ImageShape(longer)
      BY <2>2, <2>7 DEF ImageShape, tail
    <2>9. Replay(longer.checkpoint, longer.tail) = next
      <3>1. Replay(image.checkpoint, more) = ReplayRecord(Replay(image.checkpoint, tail), record)
        BY <2>5, ReplayOneMore
      <3>2. QED BY <2>2, <2>4, <3>1 DEF tail
    <2>10. Len(longer.tail) <= TailCountLimit
      BY <1>2, <2>2, <2>4, <2>6, JournalConstants DEF tail
    <2>11. replay_tail(longer) = next
      BY <2>2, <2>3, <2>4, <2>9, <2>10 DEF replay_tail
    <2> HIDE DEF result
    <2>12. QED BY <2>2, <2>3, <2>8, <2>11 DEF result
  <1>3. QED BY <1>1, <1>2

\* A record that replays was applied and the result validated.
LEMMA ReplayedAndChecked ==
  ASSUME NEW checkpoint, NEW record, ReplayRecord(checkpoint, record) # Invalid
  PROVE  /\ ReplayRecord(checkpoint, record) = Replayed(checkpoint, record)
         /\ validate_checkpoint(Replayed(checkpoint, record))
  <1> DEFINE next == IF checkpoint = Invalid THEN Invalid ELSE Replayed(checkpoint, record)
  <1>1. ReplayRecord(checkpoint, record) = Checked(next)
    <2>1. {IF prior = Invalid THEN Invalid ELSE Replayed(prior, record) : prior \in {checkpoint}} = {next}
      OBVIOUS
    <2> HIDE DEF next
    <2>2. {Checked(x) : x \in {next}} = {Checked(next)}
      OBVIOUS
    <2>3. ReplayRecord(checkpoint, record) = CHOOSE after \in {Checked(next)} : TRUE
      BY <2>1, <2>2 DEF ReplayRecord
    <2>4. QED BY <2>3
  <1>2. QED BY <1>1 DEF Checked

\* A clock record leaves the generation alone and counts one on.
LEMMA ClockReplayed ==
  ASSUME NEW checkpoint, CheckpointShape(checkpoint),
         NEW body, body.kind = "clock", body.new_safe_time \in Int,
         ReplayRecord(checkpoint, body) # Invalid
  PROVE  /\ CheckpointShape(ReplayRecord(checkpoint, body))
         /\ ReplayRecord(checkpoint, body).generation = checkpoint.generation
  <1> DEFINE head == NextHead(checkpoint.covered_head, body)
             next == replay_clock_at(checkpoint, body, head)
             after == [next EXCEPT !.covered_head = head]
             plain == replay_clock(checkpoint, body)
             Members == {"generation", "covered_head", "clock", "pointer", "ring", "commands", "cells"}
  <1>1. ReplayRecord(checkpoint, body) = after /\ next # Invalid
    <2>1. Replayed(checkpoint, body) # Invalid /\ ReplayRecord(checkpoint, body) = Replayed(checkpoint, body)
      BY ReplayedAndChecked
    <2>2. QED BY <2>1 DEF Replayed
  <1>2. /\ DOMAIN plain = Members /\ DOMAIN plain.clock = {"safe_time", "hold", "last_shutdown"}
        /\ plain.generation = checkpoint.generation
        /\ plain.clock.safe_time = body.new_safe_time
    BY DEF replay_clock, CheckpointShape
  <1>3. next = plain \/ \E cells : next = [plain EXCEPT !.cells = cells]
    <2> HIDE DEF plain
    <2> DEFINE value == checkpoint.cells["ack"].current
               settled == [value EXCEPT !.phase = 3, !.application = head, !.publication = head]
               cell == [current |-> Absent, last |-> settled]
    <2>1. next = plain \/ next = [plain EXCEPT !.cells["ack"] = cell]
      BY <1>1 DEF replay_clock_at, plain
    <2>2. [plain EXCEPT !.cells["ack"] = cell] = [plain EXCEPT !.cells = [plain.cells EXCEPT !["ack"] = cell]]
      OBVIOUS
    <2>3. QED BY <2>1, <2>2
  <1> HIDE DEF plain, next
  <1>4. /\ DOMAIN next = Members /\ next.generation = plain.generation /\ next.clock = plain.clock
    BY <1>2, <1>3
  <1>5. head.sequence \in Nat
    BY DEF NextHead, CheckpointShape
  <1> HIDE DEF head
  <1>6. /\ DOMAIN after = Members /\ after.generation = next.generation /\ after.clock = next.clock
        /\ after.covered_head = head
    BY <1>4
  <1> HIDE DEF after
  <1>7. QED BY <1>1, <1>2, <1>4, <1>5, <1>6 DEF CheckpointShape

\* A fold keeps the shape and counts one generation on.
LEMMA FoldedShape ==
  ASSUME NEW checkpoint, CheckpointShape(checkpoint)
  PROVE  LET next == [checkpoint EXCEPT !.generation = @ + 1]
         IN /\ CheckpointShape(next)
            /\ next.generation = checkpoint.generation + 1
            /\ next.covered_head = checkpoint.covered_head
            /\ next.clock = checkpoint.clock
            /\ next.cells = checkpoint.cells
  BY DEF CheckpointShape

\* The first image replays to its checkpoint.
LEMMA GenesisReplays ==
  ASSUME NEW time \in Int
  PROVE  LET first == Image(0, GenesisCheckpoint(time), <<>>)
         IN /\ ImageShape(first) /\ first.high_water = 0 /\ first.checkpoint = GenesisCheckpoint(time)
            /\ replay_tail(first) = GenesisCheckpoint(time)
            /\ CheckpointShape(GenesisCheckpoint(time)) /\ validate_checkpoint(GenesisCheckpoint(time))
  <1> DEFINE first == Image(0, GenesisCheckpoint(time), <<>>)
  <1>1. /\ DOMAIN first = {"high_water", "checkpoint", "tail"} /\ first.high_water = 0
        /\ first.checkpoint = GenesisCheckpoint(time) /\ first.tail = <<>>
    BY DEF Image
  <1>2. ImageShape(first)
    <2> DEFINE S == Range(<<>>)
    <2> HIDE DEF S
    <2>1. <<>> \in Seq(S)
      OBVIOUS
    <2>2. QED BY <1>1, <2>1 DEF ImageShape, S
  <1>3. validate_checkpoint(GenesisCheckpoint(time))
    <2>1. validate_head(GenesisCheckpoint(time).covered_head)
      BY DEF GenesisCheckpoint, Genesis, validate_head
    <2>2. clock_authority_projection(GenesisCheckpoint(time).clock)
      BY DEF GenesisCheckpoint, clock_authority_projection
    <2>3. \A op \in Operations : Present(GenesisCheckpoint(time), op) = {}
      BY DEF GenesisCheckpoint, NoCells, Present
    <2>4. validate_addressed_cells(GenesisCheckpoint(time))
      <3>1. \A op \in Operations :
              GenesisCheckpoint(time).cells[op].current = Absent /\ GenesisCheckpoint(time).cells[op].last = Absent
        BY DEF GenesisCheckpoint, NoCells
      <3>2. "ack" \in Operations
        BY DEF Operations
      <3>3. QED BY <2>3, <3>1, <3>2 DEF validate_addressed_cells
    <2>5. validate_manifest(GenesisCheckpoint(time).ring)
      <3>1. GenesisCheckpoint(time).ring = <<>> /\ Len(<<>>) = 0 /\ DOMAIN <<>> = {}
        BY DEF GenesisCheckpoint
      <3>2. \A phase : {i \in DOMAIN GenesisCheckpoint(time).ring : GenesisCheckpoint(time).ring[i].phase = phase} = {}
        BY <3>1
      <3>3. Cardinality({}) <= 1
        BY FS_EmptySet
      <3>4. QED BY <3>1, <3>2, <3>3, JournalConstants DEF validate_manifest
    <2>6. command_member(GenesisCheckpoint(time).commands)
      <3>1. GenesisCheckpoint(time).commands = <<>> /\ Len(<<>>) = 0 /\ DOMAIN <<>> = {}
        BY DEF GenesisCheckpoint
      <3>2. QED BY <3>1, JournalConstants DEF command_member
    <2>7. GenesisCheckpoint(time).generation > 0
      BY DEF GenesisCheckpoint
    <2>8. QED BY <2>1, <2>2, <2>4, <2>5, <2>6, <2>7 DEF validate_checkpoint
  <1>4. validate_image_bindings(first)
    <2>1. /\ GenesisCheckpoint(time).pointer = Absent /\ GenesisCheckpoint(time).covered_head.sequence = 0
          /\ GenesisCheckpoint(time).clock.hold = Absent /\ GenesisCheckpoint(time).clock.last_shutdown = Absent
          /\ GenesisCheckpoint(time).ring = <<>>
      BY DEF GenesisCheckpoint, Genesis
    <2>2. Present(GenesisCheckpoint(time), "ack") = {} /\ Present(GenesisCheckpoint(time), "shutdown") = {}
      BY DEF GenesisCheckpoint, NoCells, Present, Operations
    <2>3. QED BY <1>1, <2>1, <2>2 DEF validate_image_bindings
  <1> HIDE DEF first
  <1>5. replay_tail(first) = GenesisCheckpoint(time)
    <2>1. Len(first.tail) <= TailCountLimit
      BY <1>1, JournalConstants
    <2>2. Replay(GenesisCheckpoint(time), <<>>) = GenesisCheckpoint(time)
      BY ReplayNothing
    <2>3. QED BY <1>1, <1>3, <1>4, <2>1, <2>2 DEF replay_tail
  <1>6. CheckpointShape(GenesisCheckpoint(time))
    BY DEF CheckpointShape, GenesisCheckpoint, Genesis
  <1>7. QED BY <1>1, <1>2, <1>3, <1>5, <1>6 DEF first
=============================================================================

-------------------------- MODULE JournalPublication --------------------------
(***************************************************************************)
(* Publication of the control-journal image: a writer reopens the journal, *)
(* computes the next image in memory, and replaces the file as a whole     *)
(* through a temporary, under the owner lock.  The lock is held for one    *)
(* publication or one reopening, not from the reading to the replacement.  *)
(* Faults may stop a publication at every barrier, a writer may be killed  *)
(* and the power may fail.                                                 *)
(*                                                                         *)
(* Writers compute clock checkpoints, settlements and hold entries; the    *)
(* other operations of JournalImage publish the same way.                  *)
(*                                                                         *)
(* History: acked, the projection of the last image that answered Ok.      *)
(***************************************************************************)
EXTENDS Directory, JournalImage

CONSTANTS
  Writers,        \* callers of the journal, in one process or several
  Temporaries,    \* names made of a process id and a serial
  Times,          \* wall times
  HoldLimit,      \* bound: generations of holds
  MaxSequence,    \* bound: records
  MaxGeneration,  \* bound: checkpoints
  MaxLosses,      \* bound: power losses
  MaxFaults       \* bound: failed publications and killed writers

JOURNAL_NAME == "control-journal"
JournalNames == {JOURNAL_NAME} \cup Temporaries

ASSUME PublicationConstants ==
  /\ Nobody \notin Writers
  /\ JOURNAL_NAME \notin Temporaries
  /\ JournalNames \subseteq Names
  /\ Times \subseteq Int
  /\ {HoldLimit, MaxSequence, MaxGeneration, MaxLosses, MaxFaults} \subseteq Nat

\* The image a root begins with.
GenesisImage == Image(0, GenesisCheckpoint(0), <<>>)

ASSUME GenesisIsData == GenesisImage \in Data

VARIABLES
  memory,   \* writer |-> the image it computed and its projection, or Absent
  step,     \* where the publication of the holder is
  temp,     \* the name of its temporary
  acked,
  faults    \* failed publications and killed writers so far

callVars == <<holder, step, temp>>
publicationVars == <<fsVars, memory, callVars, acked, losses, faults>>

Faulty == faults < MaxFaults /\ faults' = faults + 1

Released == holder' = Nobody /\ step' = "none" /\ temp' = JOURNAL_NAME

PublicationInit ==
  /\ FsInit
  /\ memory = [w \in Writers |-> Absent]
  /\ step = "none" /\ temp = JOURNAL_NAME
  /\ acked = Absent /\ faults = 0

\* ImageOwner::read: nothing, or an image that decodes.
Selected(d) == IF d[JOURNAL_NAME] = NoFile THEN Absent ELSE file[d[JOURNAL_NAME]].data
Decoded(image) == IF image = Partial THEN Invalid ELSE replay_tail(image)

-----------------------------------------------------------------------------
\* The caller makes the first image.
Initialize(w) ==
  /\ memory[w] = Absent
  /\ memory' = [memory EXCEPT ![w] = [image |-> GenesisImage,
                                      projection |-> GenesisCheckpoint(0)]]
  /\ UNCHANGED <<fsVars, callVars, acked, losses, faults>>

reopen_control_journal_image(w) ==
  /\ holder = Nobody
  /\ Exists(JOURNAL_NAME)
  /\ \E projection \in {Decoded(Selected(dir))} \ {Invalid} :
       memory' = [memory EXCEPT ![w] = [image |-> Selected(dir), projection |-> projection]]
  /\ UNCHANGED <<fsVars, callVars, acked, losses, faults>>

\* The next image: see ControlJournal.
NextImages(image, projection) ==
  LET clock == projection.clock IN
    {append_clock_checkpoint(image, projection,
       ClockBody(IF clock.hold = Absent THEN "Periodic" ELSE "AutomaticSettlement",
                 wall, clock.safe_time, clock.hold, Absent)) : wall \in Times}
    \cup
    {publish_addressed_authority(image, projection, authority, "process") : authority \in
       {clock} \cup {[clock EXCEPT !.hold = Hold(g, "observed")] : g \in 1..HoldLimit}}

Compute(w) ==
  /\ holder # w
  /\ memory[w] # Absent
  /\ \E next \in NextImages(memory[w].image, memory[w].projection) \ {Invalid} :
       /\ next.image \in Data
       /\ next.projection.covered_head.sequence <= MaxSequence
       /\ next.projection.generation <= MaxGeneration
       /\ memory' = [memory EXCEPT ![w] = next]
  /\ UNCHANGED <<fsVars, callVars, acked, losses, faults>>

-----------------------------------------------------------------------------
publishing == memory[holder].image

\* Mutant: heads are compared by sequence alone.
compare_sequences(previous, old, image, new) ==
  /\ image.high_water >= previous.high_water
  /\ image.checkpoint.generation >= previous.checkpoint.generation
  /\ new.covered_head.sequence >= old.covered_head.sequence
  /\ new.clock.safe_time >= old.clock.safe_time

\* Nothing that is monotonic may fall, and one sequence is one record.
NoRollback(previous, old, image, new) ==
  /\ image.high_water >= previous.high_water
  /\ image.checkpoint.generation >= previous.checkpoint.generation
  /\ new.covered_head.sequence >= old.covered_head.sequence
  /\ new.covered_head.sequence = old.covered_head.sequence => new.covered_head = old.covered_head
  /\ new.clock.safe_time >= old.clock.safe_time

\* A missing journal can only be initialized.
Initializes(image) ==
  /\ image.high_water = 0
  /\ image.checkpoint.generation = 1
  /\ image.checkpoint.covered_head.sequence = 0
  /\ image.tail = <<>>

Publish(w) ==
  /\ holder = Nobody
  /\ memory[w] # Absent
  /\ IF Exists(JOURNAL_NAME)
     THEN /\ Decoded(Selected(dir)) # Invalid
          /\ NoRollback(Selected(dir), Decoded(Selected(dir)), memory[w].image, memory[w].projection)
     ELSE Initializes(memory[w].image)
  /\ holder' = w
  /\ step' = "create"
  /\ UNCHANGED <<fsVars, memory, temp, acked, losses, faults>>

CreateTemporary ==
  /\ step = "create"
  /\ \E n \in Temporaries, i \in Inodes : CreateExclusive(n, i) /\ temp' = n
  /\ step' = "write"
  /\ UNCHANGED <<memory, holder, acked, losses, faults>>

write_image_bytes ==
  /\ step = "write"
  /\ WriteFile(dir[temp], publishing)
  /\ step' = "sync"
  /\ UNCHANGED <<memory, holder, temp, acked, losses, faults>>

\* Mutant: the temporary is renamed before its bytes are durable.
rename_unsynced ==
  /\ step = "sync"
  /\ step' = "rename"
  /\ UNCHANGED <<fsVars, memory, holder, temp, acked, losses, faults>>

FileSync ==
  /\ step = "sync"
  /\ SyncFile(dir[temp])
  /\ step' = "rename"
  /\ UNCHANGED <<memory, holder, temp, acked, losses, faults>>

ReplacementRename ==
  /\ step = "rename"
  /\ Rename(temp, JOURNAL_NAME)
  /\ step' = "sync_root"
  /\ UNCHANGED <<memory, holder, temp, acked, losses, faults>>

\* Mutant: Ok without an fsync of the directory.
skip_directory_sync ==
  /\ step = "sync_root"
  /\ step' = "read_back"
  /\ UNCHANGED <<fsVars, memory, holder, temp, acked, losses, faults>>

DirectorySync ==
  /\ step = "sync_root"
  /\ SyncDirectory
  /\ step' = "read_back"
  /\ UNCHANGED <<memory, holder, temp, acked, losses, faults>>

\* The selected bytes are read again and must be the image.
ReadBack ==
  /\ step = "read_back"
  /\ Selected(dir) = publishing
  /\ acked' = memory[holder].projection
  /\ Released
  /\ UNCHANGED <<fsVars, memory, losses, faults>>

\* A fault before the rename: the temporary is unlinked if it can be.
WriteFailed ==
  /\ Faulty
  /\ step \in {"create", "write", "sync", "rename"}
  /\ \/ temp # JOURNAL_NAME /\ Unlink(temp)
     \/ UNCHANGED fsVars
  /\ Released
  /\ UNCHANGED <<memory, acked, losses>>

\* A fault after it: nothing is compensated.
PublishUncertain ==
  /\ Faulty
  /\ step \in {"sync_root", "read_back"}
  /\ Released
  /\ UNCHANGED <<fsVars, memory, acked, losses>>

\* The process of a writer is killed: its lock and its memory go.
Kill(w) ==
  /\ Faulty
  /\ memory[w] # Absent
  /\ memory' = [memory EXCEPT ![w] = Absent]
  /\ IF holder = w THEN Released ELSE UNCHANGED callVars
  /\ UNCHANGED <<fsVars, acked, losses>>

PowerLoss ==
  /\ losses < MaxLosses
  /\ losses' = losses + 1
  /\ LosePower
  /\ memory' = [w \in Writers |-> Absent]
  /\ Released
  /\ UNCHANGED <<acked, faults>>

PublicationNext ==
  \/ \E w \in Writers :
       Initialize(w) \/ reopen_control_journal_image(w) \/ Compute(w) \/ Publish(w) \/ Kill(w)
  \/ CreateTemporary \/ write_image_bytes \/ FileSync \/ ReplacementRename
  \/ DirectorySync \/ ReadBack
  \/ WriteFailed \/ PublishUncertain \/ PowerLoss

PublicationSpec == PublicationInit /\ [][PublicationNext]_publicationVars

-----------------------------------------------------------------------------
\* Whatever a crash or a power loss leaves under the journal's name is a
\* complete, durable image that replays: never a torn one, never a temporary.
JournalIsWhole ==
  \A d \in disk :
    d[JOURNAL_NAME] # NoFile =>
      /\ file[d[JOURNAL_NAME]].synced
      /\ Decoded(Selected(d)) # Invalid

\* Once a publication answered Ok, every later journal, after any interleaving
\* of writers, kills and power losses, is at least as far: not missing, no
\* smaller in generation, sequence or safe time, whoever wrote it from
\* whichever stale copy, and the same head where it has as many records.
AckedNeverRollsBack ==
  acked # Absent =>
    \A d \in disk :
      /\ d[JOURNAL_NAME] # NoFile
      /\ LET now == Decoded(Selected(d)) IN
         /\ now.generation >= acked.generation
         /\ now.covered_head.sequence >= acked.covered_head.sequence
         /\ now.covered_head.sequence = acked.covered_head.sequence
            => now.covered_head = acked.covered_head
         /\ now.clock.safe_time >= acked.clock.safe_time

\* The control journal file: whatever a crash or a power loss leaves under its
\* name is a complete, durable image that replays; and once a publication
\* answered Ok, every later journal is at least as far, whoever wrote it from
\* whichever stale copy (publish_control_journal).
JournalSafety == JournalIsWhole /\ AckedNeverRollsBack

\* While the machine runs, the journal in place moves one way only, whether or
\* not the publication that put it there answered Ok: it is not removed, its
\* generation and safe time never fall, and a writer that lost the race for a
\* sequence number does not get its head in place of the winner's by publishing
\* as many records.  With more records it does, and the winner's record is gone:
\* publish_image compares digests for heads of the same sequence alone.
Advances ==
  LET before == Decoded(Selected(dir))
      after == Decoded(Selected(dir))'
  IN dir[JOURNAL_NAME] # NoFile /\ losses' = losses /\ Selected(dir)' # Selected(dir) =>
       /\ dir'[JOURNAL_NAME] # NoFile
       /\ after.generation >= before.generation
       /\ after.clock.safe_time >= before.clock.safe_time
       /\ \/ after.covered_head.sequence > before.covered_head.sequence
          \/ after.covered_head = before.covered_head

JournalAdvances == [][Advances]_publicationVars

-----------------------------------------------------------------------------
\* A complete image: it replays, and its tail leaves its generation alone.
Whole(image) ==
  /\ image \in Data
  /\ ImageShape(image)
  /\ image.high_water \in Nat
  /\ Decoded(image) # Invalid
  /\ CheckpointShape(Decoded(image))
  /\ Decoded(image).generation = image.checkpoint.generation

Barriers == {"create", "write", "sync", "rename"}

PublicationTypeOK ==
  /\ DirectoryTypeOK
  /\ losses \in Nat
  /\ DOMAIN memory = Writers
  /\ holder \in Writers \cup {Nobody}
  /\ step \in Barriers \cup {"none", "sync_root", "read_back"}
  /\ temp \in JournalNames
  /\ acked # Absent => CheckpointShape(acked)
  /\ step = "none" <=> holder = Nobody
  /\ holder # Nobody => memory[holder] # Absent

\* What a writer has in memory is complete, with the projection it replays to ...
MemoryWhole ==
  \A w \in Writers :
    memory[w] # Absent =>
      Whole(memory[w].image) /\ memory[w].projection = Decoded(memory[w].image)

\* ... and so is what any state of the disk has under the journal's name.
DiskWhole ==
  \A d \in disk :
    d[JOURNAL_NAME] # NoFile => file[d[JOURNAL_NAME]].synced /\ Whole(Selected(d))

\* What a publication knows of its temporary: no state a power loss may leave
\* has it in place, and before the rename it holds the image, durably.
TemporaryKnown ==
  /\ step \in {"write", "sync", "rename"} =>
       /\ temp \in Temporaries
       /\ dir[temp] # NoFile
       /\ \A d \in disk : d[JOURNAL_NAME] # dir[temp]
  /\ step \in {"sync", "rename"} => file[dir[temp]].data = publishing
  /\ step = "rename" => file[dir[temp]].synced

\* Up to the rename the journal is still the one the image was compared with,
\* after it there is one, and after the directory's fsync a power loss leaves no
\* other.
Forward ==
  /\ step \in Barriers /\ dir[JOURNAL_NAME] # NoFile =>
       NoRollback(Selected(dir), Decoded(Selected(dir)), publishing, memory[holder].projection)
  /\ step \in {"sync_root", "read_back"} => dir[JOURNAL_NAME] # NoFile
  /\ step = "read_back" => disk = {dir}

JournalInv ==
  /\ PublicationTypeOK /\ MemoryWhole /\ DiskWhole
  /\ TemporaryKnown /\ Forward /\ AckedNeverRollsBack

-----------------------------------------------------------------------------
\* Violation: "Hold clearance needs the settlement publication and its barrier."
\* While the machine runs, a published hold leaves the journal only by a record
\* that settles it or by a newer hold.
HoldClearsByRecord ==
  [][LET before == Decoded(Selected(dir))
         after == Decoded(Selected(dir'))
     IN /\ dir[JOURNAL_NAME] # NoFile /\ dir'[JOURNAL_NAME] # dir[JOURNAL_NAME]
        /\ losses' = losses
        /\ before.clock.hold # Absent
        => \/ after.covered_head.sequence > before.covered_head.sequence
           \/ /\ after.clock.hold # Absent
              /\ after.clock.hold.generation >= before.clock.hold.generation]_publicationVars
=============================================================================

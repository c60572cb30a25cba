--------------------------- MODULE KeyPublication ---------------------------
(***************************************************************************)
(* The initialization key pair of a fixed root: publish samples two keys   *)
(* and writes each through a temporary name (create, write, fsync, rename  *)
(* without replacement, fsync of the directory); load reads both final     *)
(* entries.  Both run under the owner lock of the root, and neither        *)
(* repairs or removes anything.  Processes may be killed and the machine   *)
(* may lose power between any two system calls.                            *)
(*                                                                         *)
(* A sampled key carries the number of the run that drew it, which no      *)
(* action reads, so that keys of two runs can be told apart.  History:     *)
(* published and loaded, the pairs publish and load answered Ok for.       *)
(***************************************************************************)
EXTENDS Directory

CONSTANTS
  Procs,       \* processes that publish or load
  Samples,     \* 32-byte samples of the entropy source
  Zero,        \* the all-zero sample
  MaxRuns,     \* bound: publications that reach the entropy source
  MaxKeyLosses \* bound: power losses

Roles == {"JournalIntegrity", "PortableReservation"}
Temporary(role) ==
  IF role = "JournalIntegrity" THEN ".initialization-journal-integrity.tmp"
  ELSE ".initialization-portable-reservation.tmp"
Final(role) ==
  IF role = "JournalIntegrity" THEN "initialization-journal-integrity.key"
  ELSE "initialization-portable-reservation.key"
KeyNames == {Temporary(r) : r \in Roles} \cup {Final(r) : r \in Roles}
RunKeys == [key : Samples, run : 1 .. MaxRuns]

ASSUME KeyConstants ==
  /\ Nobody \notin Procs
  /\ Zero \in Samples
  /\ MaxRuns \in Nat /\ MaxKeyLosses \in Nat
  /\ KeyNames \subseteq Names
  /\ RunKeys \subseteq Data

VARIABLES
  pc,          \* process |-> <<step, role>>
  fd,          \* process |-> the open temporary
  pair,        \* process |-> role |-> key it has drawn or read
  published, loaded, runs

procVars == <<holder, pc, fd, pair>>
keyVars == <<fsVars, procVars, published, loaded, runs, losses>>

Idle == <<"idle", "none">>
NoKeys == [r \in Roles |-> Partial]

KeyInit ==
  /\ FsInit
  /\ pc = [p \in Procs |-> Idle]
  /\ fd = [p \in Procs |-> NoFile]
  /\ pair = [p \in Procs |-> NoKeys]
  /\ published = {} /\ loaded = {}
  /\ runs = 0

At(p, step, role) == pc[p] = <<step, role>>
Goto(p, step, role) == pc' = [pc EXCEPT ![p] = <<step, role>>]

\* flock(LOCK_EX | LOCK_NB) on msgriver.lock; contention is an error.
acquire_owner_lock(p) == holder = Nobody /\ holder' = p

\* StateOwnerLock and the descriptors are dropped on every return.
Return(p) ==
  /\ holder' = IF holder = p THEN Nobody ELSE holder
  /\ pc' = [pc EXCEPT ![p] = Idle]
  /\ fd' = [fd EXCEPT ![p] = NoFile]
  /\ pair' = [pair EXCEPT ![p] = NoKeys]

-----------------------------------------------------------------------------
(***************************************************************************)
(* publish_with.  A step that fails returns Err and leaves everything as   *)
(* it is, which is what KeyGiveUp does at any point.                          *)
(***************************************************************************)
Begin(p) ==
  /\ pc[p] = Idle
  /\ acquire_owner_lock(p)
  /\ \E step \in {"preflight", "temporaries"} : Goto(p, step, "none")
  /\ UNCHANGED <<fsVars, fd, pair, published, loaded, runs, losses>>

TemporariesAbsent == \A r \in Roles : ~Exists(Temporary(r))

Preflight == \A n \in KeyNames : ~Exists(n)

\* acquire_initialization_key_pair_with accepts two non-zero, distinct samples.
Acceptable(a, b) == a # Zero /\ b # Zero /\ a # b

Sample(p) ==
  /\ At(p, "preflight", "none")
  /\ Preflight
  /\ runs < MaxRuns
  /\ \E a, b \in Samples :
       /\ Acceptable(a, b)
       /\ pair' = [pair EXCEPT ![p] =
                     [r \in Roles |-> [key |-> IF r = "JournalIntegrity" THEN a ELSE b,
                                       run |-> runs + 1]]]
  /\ runs' = runs + 1
  /\ Goto(p, "create", "JournalIntegrity")
  /\ UNCHANGED <<fsVars, holder, fd, published, loaded, losses>>

Create(p, r) ==
  /\ At(p, "create", r)
  /\ \E i \in Inodes : CreateExclusive(Temporary(r), i) /\ fd' = [fd EXCEPT ![p] = i]
  /\ Goto(p, "write", r)
  /\ UNCHANGED <<holder, pair, published, loaded, runs, losses>>

Write(p, r) ==
  /\ At(p, "write", r)
  /\ WriteFile(fd[p], pair[p][r])
  /\ Goto(p, "file_sync", r)
  /\ UNCHANGED <<holder, fd, pair, published, loaded, runs, losses>>

\* Mutant: the temporary is renamed without an fsync.
NoFileSync(p, r) ==
  /\ At(p, "file_sync", r)
  /\ Goto(p, "rename", r)
  /\ UNCHANGED <<fsVars, holder, fd, pair, published, loaded, runs, losses>>

KeyFileSync(p, r) ==
  /\ At(p, "file_sync", r)
  /\ SyncFile(fd[p])
  /\ Goto(p, "rename", r)
  /\ UNCHANGED <<holder, fd, pair, published, loaded, runs, losses>>

RenameFinal(p, r) ==
  /\ At(p, "rename", r)
  /\ RenameNoReplace(Temporary(r), Final(r))
  /\ Goto(p, "directory_sync", r)
  /\ UNCHANGED <<holder, fd, pair, published, loaded, runs, losses>>

\* Mutants: one barrier for both keys, after the second; no barrier after the
\* second key.
LastBarrierOnly(p, r) ==
  /\ At(p, "directory_sync", r)
  /\ UNCHANGED <<runs, losses, loaded>>
  /\ IF r = "JournalIntegrity"
     THEN /\ Goto(p, "create", "PortableReservation")
          /\ UNCHANGED <<fsVars, holder, fd, pair, published>>
     ELSE SyncDirectory /\ Return(p) /\ published' = published \cup {pair[p]}

FirstBarrierOnly(p, r) ==
  /\ At(p, "directory_sync", r)
  /\ UNCHANGED <<runs, losses, loaded>>
  /\ IF r = "JournalIntegrity"
     THEN /\ SyncDirectory
          /\ Goto(p, "create", "PortableReservation")
          /\ UNCHANGED <<holder, fd, pair, published>>
     ELSE UNCHANGED fsVars /\ Return(p) /\ published' = published \cup {pair[p]}

KeyDirectorySync(p, r) ==
  /\ At(p, "directory_sync", r)
  /\ SyncDirectory
  /\ UNCHANGED <<runs, losses, loaded>>
  /\ IF r = "JournalIntegrity"
     THEN /\ Goto(p, "create", "PortableReservation")
          /\ UNCHANGED <<holder, fd, pair, published>>
     ELSE Return(p) /\ published' = published \cup {pair[p]}

-----------------------------------------------------------------------------
(***************************************************************************)
(* load_with.                                                              *)
(***************************************************************************)
TemporaryPreflight(p) ==
  /\ At(p, "temporaries", "none")
  /\ TemporariesAbsent
  /\ Goto(p, "read", "JournalIntegrity")
  /\ UNCHANGED <<fsVars, holder, fd, pair, published, loaded, runs, losses>>

\* read_final: exactly 32 bytes, not all zero.
ReadFinal(p, r) ==
  /\ At(p, "read", r)
  /\ Exists(Final(r))
  /\ LET key == file[dir[Final(r)]].data
         got == [pair[p] EXCEPT ![r] = key]
     IN /\ key # Partial
        /\ key.key # Zero
        /\ IF r = "JournalIntegrity"
           THEN /\ pair' = [pair EXCEPT ![p] = got]
                /\ Goto(p, "read", "PortableReservation")
                /\ UNCHANGED <<holder, fd, loaded>>
           ELSE /\ got["JournalIntegrity"].key # key.key
                /\ loaded' = loaded \cup {got}
                /\ Return(p)
  /\ UNCHANGED <<fsVars, published, runs, losses>>

-----------------------------------------------------------------------------
\* A check or a system call fails and the call returns Err, or the process is
\* killed.
KeyGiveUp(p) ==
  /\ pc[p] # Idle
  /\ Return(p)
  /\ UNCHANGED <<fsVars, published, loaded, runs, losses>>

KeyPowerLoss ==
  /\ losses < MaxKeyLosses
  /\ losses' = losses + 1
  /\ LosePower
  /\ holder' = Nobody
  /\ pc' = [p \in Procs |-> Idle]
  /\ fd' = [p \in Procs |-> NoFile]
  /\ pair' = [p \in Procs |-> NoKeys]
  /\ UNCHANGED <<published, loaded, runs>>

KeyNext ==
  \/ \E p \in Procs :
       \/ Begin(p) \/ Sample(p) \/ TemporaryPreflight(p) \/ KeyGiveUp(p)
       \/ \E r \in Roles : \/ Create(p, r) \/ Write(p, r) \/ KeyFileSync(p, r)
                           \/ RenameFinal(p, r) \/ KeyDirectorySync(p, r)
                           \/ ReadFinal(p, r)
  \/ KeyPowerLoss

KeySpec == KeyInit /\ [][KeyNext]_keyVars

-----------------------------------------------------------------------------
\* Whatever state a power loss leaves, two final entries are two complete keys
\* of one publication: neither a torn key nor keys of two runs are ever found
\* under the final names (publish_with's order of fsync and rename).
FinalsCoherent ==
  \A d \in disk :
    (\A r \in Roles : d[Final(r)] # NoFile) =>
      \E n \in 1 .. runs : \A r \in Roles :
        file[d[Final(r)]].synced /\ file[d[Final(r)]].data \in [key : Samples \ {Zero}, run : {n}]

\* A publication that answered Ok survives every later crash, power loss and
\* publication attempt.
PublishedIsDurable ==
  \A keys \in published : \A d \in disk : \A r \in Roles : Holds(d, Final(r), keys[r])

\* A root never changes its identity: all pairs ever loaded from it or
\* published to it are the same pair, even a pair loaded before the last
\* barrier of its publication (the first key's own barrier is what keeps a
\* later publication out).
OneIdentity == \A a, b \in loaded \cup published : a = b

\* The key pair: whatever state a power loss leaves, two final entries are two
\* complete keys of one publication, never a torn key nor keys of two runs
\* (publish_with's order of fsync and rename); a publication that answered Ok
\* survives every later crash, power loss and attempt; and all pairs ever loaded
\* from a root or published to it are the same pair, even one loaded before the
\* last barrier of its publication.
KeyPairSafety == FinalsCoherent /\ PublishedIsDurable /\ OneIdentity

-----------------------------------------------------------------------------
First == "JournalIntegrity"
Second == "PortableReservation"

PublishSteps == {"create", "write", "file_sync", "rename", "directory_sync"}
Points ==
  {Idle, <<"preflight", "none">>, <<"temporaries", "none">>} \cup ((PublishSteps \cup {"read"}) \X Roles)
Pairs == [Roles -> RunKeys \cup {Partial}]

KeyTypeOK ==
  /\ DirectoryTypeOK
  /\ holder \in Procs \cup {Nobody}
  /\ pc \in [Procs -> Points]
  /\ fd \in [Procs -> Inodes \cup {NoFile}]
  /\ pair \in [Procs -> Pairs]
  /\ published \subseteq Pairs /\ loaded \subseteq Pairs
  /\ runs \in 0..MaxRuns

\* Only the holder of the owner lock is anywhere.
OneOwner == \A p \in Procs : pc[p] # Idle => holder = p

\* A state of the directory has entries of the second key only next to the final
\* entry of the first, in another file.
InOrder(d) ==
  d[Temporary(Second)] # NoFile \/ d[Final(Second)] # NoFile =>
    /\ d[Final(First)] # NoFile
    /\ d[Final(First)] # d[Temporary(Second)] /\ d[Final(First)] # d[Final(Second)]

\* Final entries stay what they are, also across a power loss; each is a durable
\* key, two of them are keys of one run, and the first is in every state a power
\* loss may leave once the second is there at all.
FinalsInv ==
  /\ \A d \in disk : InOrder(d)
  /\ \A d \in disk : \A r \in Roles : d[Final(r)] # NoFile => d[Final(r)] = dir[Final(r)]
  /\ \A r \in Roles : Exists(Final(r)) =>
       /\ file[dir[Final(r)]].synced
       /\ file[dir[Final(r)]].data \in [key : Samples \ {Zero}, run : 1..runs]
  /\ Exists(Final(Second)) =>
       /\ file[dir[Final(Second)]].data.run = file[dir[Final(First)]].data.run
       /\ \A d \in disk : d[Final(First)] # NoFile

\* What a publishing process knows, step by step and key by key; until it is done
\* no pair of the root is known to anybody.
Knows(p, s, r) ==
  /\ pair[p] \in [Roles -> [key : Samples \ {Zero}, run : {runs}]]
  /\ runs > 0
  /\ loaded \cup published = {}
  /\ r = First => ~Exists(Temporary(Second)) /\ ~Exists(Final(Second))
  /\ r = Second => /\ Holds(dir, Final(First), pair[p][First])
                   /\ \A d \in disk : d[Final(First)] # NoFile
  /\ s # "directory_sync" => ~Exists(Final(r))
  /\ s \in {"write", "file_sync", "rename"} => fd[p] \in Inodes /\ dir[Temporary(r)] = fd[p]
  /\ s \in {"file_sync", "rename"} => file[fd[p]].data = pair[p][r]
  /\ s = "rename" => file[fd[p]].synced
  /\ s = "directory_sync" => Holds(dir, Final(r), pair[p][r])

PublisherInv ==
  \A p \in Procs, s \in PublishSteps, r \in Roles : At(p, s, r) => Knows(p, s, r)

\* A process that has read the first key holds what the entry says.
ReaderInv ==
  \A p \in Procs : At(p, "read", Second) =>
    Exists(Final(First)) /\ pair[p][First] = file[dir[Final(First)]].data

\* A pair that was ever loaded or published is what the final entries say, the
\* first of them in every state a power loss may leave.
KnownInv ==
  \A keys \in loaded \cup published : \A d \in disk :
    /\ Holds(d, Final(First), keys[First])
    /\ d[Final(Second)] # NoFile => Holds(d, Final(Second), keys[Second])

KeyInv ==
  /\ KeyTypeOK /\ OneOwner /\ FinalsInv /\ PublisherInv /\ ReaderInv /\ KnownInv
  /\ PublishedIsDurable /\ OneIdentity
=============================================================================

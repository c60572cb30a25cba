-------------------------- MODULE PublicationProofs --------------------------
(***************************************************************************)
(* Proofs about the publications of a fixed root: what a system call on    *)
(* its directory leaves alone; the active-state pointer is whole and what  *)
(* was answered Ok is in place; the initialization key pair is one pair;   *)
(* the control journal in place replays and never goes back.               *)
(***************************************************************************)
EXTENDS JournalPublication, KeyPublication, PointerPublication, ImageProofs, TLAPS

-----------------------------------------------------------------------------
(***************************************************************************)
(* The directory: what each system call leaves alone.                      *)
(***************************************************************************)
\* A file created exclusively is one no state has ever named, so nothing that
\* any state names changes.
LEMMA Created ==
  ASSUME DirectoryTypeOK, NEW n \in Names, NEW i \in Inodes, CreateExclusive(n, i)
  PROVE  /\ DirectoryTypeOK'
         /\ disk' = disk \cup {dir'}
         /\ dir[n] = NoFile /\ dir'[n] = i
         /\ \A m \in Names : m # n => dir'[m] = dir[m]
         /\ \A d \in disk : \A m \in Names :
              d[m] # i /\ (d[m] # NoFile => file'[d[m]] = file[d[m]])
<1>1. /\ dir \in disk /\ dir \in [Names -> Inodes \cup {NoFile}]
      /\ file \in [Inodes -> [data : Data \cup {Partial}, synced : BOOLEAN]]
  BY DEF DirectoryTypeOK
<1>2. /\ dir[n] = NoFile /\ dir' = [dir EXCEPT ![n] = i] /\ disk' = disk \cup {dir'}
      /\ file' = [file EXCEPT ![i] = [data |-> Partial, synced |-> FALSE]]
      /\ \A d \in disk : \A m \in Names : d[m] # i
  BY DEF CreateExclusive, Exists, Unused, Change
<1>3. dir' \in [Names -> Inodes \cup {NoFile}] /\ dir'[n] = i
      /\ \A m \in Names : m # n => dir'[m] = dir[m]
  BY <1>1, <1>2
<1>4. [data |-> Partial, synced |-> FALSE] \in [data : Data \cup {Partial}, synced : BOOLEAN]
  OBVIOUS
<1>5. file' \in [Inodes -> [data : Data \cup {Partial}, synced : BOOLEAN]]
      /\ \A k \in Inodes : k # i => file'[k] = file[k]
  BY <1>1, <1>2, <1>4
<1>6. \A d \in disk : \A m \in Names : d[m] # NoFile => d[m] \in Inodes
  BY DEF DirectoryTypeOK
<1> QED BY <1>2, <1>3, <1>5, <1>6 DEF DirectoryTypeOK

\* Writing a file and syncing it change that file only.
LEMMA Written ==
  ASSUME DirectoryTypeOK, NEW i \in Inodes, NEW b \in Data, WriteFile(i, b)
  PROVE  /\ DirectoryTypeOK' /\ dir' = dir /\ disk' = disk
         /\ file'[i] = [data |-> b, synced |-> FALSE]
         /\ \A k \in Inodes : k # i => file'[k] = file[k]
<1>1. /\ file \in [Inodes -> [data : Data \cup {Partial}, synced : BOOLEAN]]
      /\ file' = [file EXCEPT ![i] = [data |-> b, synced |-> FALSE]] /\ dir' = dir /\ disk' = disk
  BY DEF DirectoryTypeOK, WriteFile
<1>2. [data |-> b, synced |-> FALSE] \in [data : Data \cup {Partial}, synced : BOOLEAN]
  OBVIOUS
<1> QED BY <1>1, <1>2 DEF DirectoryTypeOK

\* An fsync makes the content of its file durable and touches no other.
LEMMA Synced ==
  ASSUME DirectoryTypeOK, NEW i \in Inodes, SyncFile(i)
  PROVE  /\ DirectoryTypeOK' /\ dir' = dir /\ disk' = disk
         /\ file'[i] = [data |-> file[i].data, synced |-> TRUE]
         /\ \A k \in Inodes : k # i => file'[k] = file[k]
<1> DEFINE F == [data : Data \cup {Partial}, synced : BOOLEAN]
<1>1. /\ file \in [Inodes -> F]
      /\ file' = [file EXCEPT ![i].synced = TRUE] /\ dir' = dir /\ disk' = disk
  BY DEF DirectoryTypeOK, SyncFile
<1>2. file[i] \in F BY <1>1
<1>3. [file[i] EXCEPT !.synced = TRUE] = [data |-> file[i].data, synced |-> TRUE]
      /\ [data |-> file[i].data, synced |-> TRUE] \in F
  <2>1. ASSUME NEW x \in F PROVE [x EXCEPT !.synced = TRUE] = [data |-> x.data, synced |-> TRUE]
    <3> DEFINE y == [x EXCEPT !.synced = TRUE]
    <3>1. y \in F /\ y.data = x.data /\ y.synced = TRUE OBVIOUS
    <3> HIDE DEF y
    <3>2. y = [data |-> x.data, synced |-> TRUE] BY <3>1
    <3> QED BY <3>2 DEF y
  <2>2. \A x \in F : [data |-> x.data, synced |-> TRUE] \in F
    OBVIOUS
  <2> HIDE DEF F
  <2> QED BY <1>2, <2>1, <2>2
<1>4. file' = [file EXCEPT ![i] = [data |-> file[i].data, synced |-> TRUE]]
  BY <1>1, <1>3
<1> HIDE DEF F
<1>5. file' \in [Inodes -> F] /\ file'[i] = [data |-> file[i].data, synced |-> TRUE]
      /\ \A k \in Inodes : k # i => file'[k] = file[k]
  BY <1>1, <1>3, <1>4
<1> QED BY <1>1, <1>5 DEF DirectoryTypeOK, F

\* A rename moves one entry and touches no file.
LEMMA Renamed ==
  ASSUME DirectoryTypeOK, NEW old \in Names, NEW new \in Names, old # new, Rename(old, new)
  PROVE  /\ DirectoryTypeOK'
         /\ disk' = disk \cup {dir'} /\ file' = file
         /\ dir[old] # NoFile /\ dir'[new] = dir[old] /\ dir'[old] = NoFile
         /\ \A m \in Names : m # old /\ m # new => dir'[m] = dir[m]
<1>1. dir \in disk /\ dir \in [Names -> Inodes \cup {NoFile}] BY DEF DirectoryTypeOK
<1>2. /\ dir[old] # NoFile /\ dir' = [dir EXCEPT ![new] = dir[old], ![old] = NoFile]
      /\ disk' = disk \cup {dir'} /\ file' = file
  BY DEF Rename, Exists, Change
<1>3. /\ dir' \in [Names -> Inodes \cup {NoFile}] /\ dir'[new] = dir[old] /\ dir'[old] = NoFile
      /\ \A m \in Names : m # old /\ m # new => dir'[m] = dir[m]
  BY <1>1, <1>2
<1> QED BY <1>2, <1>3 DEF DirectoryTypeOK

\* The content of what a state names is not forgotten.
LEMMA Remembered ==
  ASSUME NEW f \in [Inodes -> [data : Data \cup {Partial}, synced : BOOLEAN]],
         NEW d \in [Names -> Inodes \cup {NoFile}]
  PROVE  /\ Forget(f, d) \in [Inodes -> [data : Data \cup {Partial}, synced : BOOLEAN]]
         /\ \A n \in Names : d[n] # NoFile => Forget(f, d)[d[n]] = f[d[n]]
<1>1. [data |-> Partial, synced |-> FALSE] \in [data : Data \cup {Partial}, synced : BOOLEAN]
  OBVIOUS
<1> DEFINE F == [data : Data \cup {Partial}, synced : BOOLEAN]
           none == [data |-> Partial, synced |-> FALSE]
<1> HIDE DEF F, none
<1>2. f \in [Inodes -> F] /\ none \in F BY <1>1 DEF F, none
<1>3. Forget(f, d) = [i \in Inodes |-> IF \E n \in Names : d[n] = i THEN f[i] ELSE none]
  BY DEF Forget, none
<1>4. Forget(f, d) \in [Inodes -> F] BY <1>2, <1>3
<1>5. \A n \in Names : d[n] # NoFile => Forget(f, d)[d[n]] = f[d[n]]
  BY <1>3
<1> QED BY <1>4, <1>5 DEF F

\* The fsync of the directory leaves one state and what it names.
LEMMA DirectorySynced ==
  ASSUME DirectoryTypeOK, SyncDirectory
  PROVE  /\ DirectoryTypeOK' /\ dir' = dir /\ disk' = {dir}
         /\ \A n \in Names : dir[n] # NoFile => file'[dir[n]] = file[dir[n]]
<1>1. /\ file \in [Inodes -> [data : Data \cup {Partial}, synced : BOOLEAN]]
      /\ dir \in [Names -> Inodes \cup {NoFile}]
  BY DEF DirectoryTypeOK
<1>2. disk' = {dir} /\ file' = Forget(file, dir) /\ dir' = dir BY DEF SyncDirectory
<1>3. /\ file' \in [Inodes -> [data : Data \cup {Partial}, synced : BOOLEAN]]
      /\ \A n \in Names : dir[n] # NoFile => file'[dir[n]] = file[dir[n]]
  BY <1>1, <1>2, Remembered
<1> QED BY <1>1, <1>2, <1>3 DEF DirectoryTypeOK

\* A power loss leaves one of the states, and what was synced of what it names.
LEMMA PowerLost ==
  ASSUME DirectoryTypeOK, LosePower
  PROVE  /\ DirectoryTypeOK' /\ dir' \in disk /\ disk' = {dir'}
         /\ \A n \in Names : dir'[n] # NoFile /\
              file[dir'[n]].synced => file'[dir'[n]] = file[dir'[n]]
<1> DEFINE F == [data : Data \cup {Partial}, synced : BOOLEAN]
<1>1. file \in [Inodes -> F] /\ disk \subseteq [Names -> Inodes \cup {NoFile}]
  BY DEF DirectoryTypeOK
<1>2. dir' \in disk /\ disk' = {dir'} BY DEF LosePower
<1>3. PICK torn \in SUBSET {i \in Inodes : ~file[i].synced} :
        file' = Forget([i \in Inodes |->
                         [data |-> IF i \in torn THEN Partial ELSE file[i].data, synced |-> TRUE]],
                       dir')
  BY DEF LosePower
<1> DEFINE g == [i \in Inodes |->
                  [data |-> IF i \in torn THEN Partial ELSE file[i].data, synced |-> TRUE]]
<1>4. g \in [Inodes -> F] BY <1>1
<1>5. ASSUME NEW i \in Inodes, file[i].synced PROVE g[i] = file[i]
  <2>1. file[i] \in F /\ i \notin torn BY <1>1, <1>3, <1>5
  <2>2. g[i] = [data |-> file[i].data, synced |-> TRUE] BY <2>1
  <2>3. file[i].synced = TRUE BY <1>5, <2>1
  <2> QED BY <2>1, <2>2, <2>3
<1> HIDE DEF g
<1>6. file' = Forget(g, dir') BY <1>3 DEF g
<1>7. dir' \in [Names -> Inodes \cup {NoFile}] BY <1>1, <1>2
<1>8. file' \in [Inodes -> F] /\ \A n \in Names : dir'[n] # NoFile => file'[dir'[n]] = g[dir'[n]]
  BY <1>4, <1>6, <1>7, Remembered
<1>9. \A n \in Names : dir'[n] # NoFile /\ file[dir'[n]].synced => file'[dir'[n]] = file[dir'[n]]
  BY <1>5, <1>7, <1>8
<1> QED BY <1>2, <1>7, <1>8, <1>9 DEF DirectoryTypeOK

-----------------------------------------------------------------------------
(***************************************************************************)
(* The active-state pointer.                                               *)
(***************************************************************************)
\* The temporary and the active entry are two names of the directory.
LEMMA PointerNamesApart ==
  ASSUME NEW q \in Pointers
  PROVE  /\ temporary_basename(q) \in Names /\ ActiveState \in Names
         /\ temporary_basename(q) # ActiveState
  BY PointerConstants DEF PointerNames, Transitions, temporary_basename

\* What a power loss would leave in place is as safe as before when every state
\* has one of the old active entries, with its old content.
LEMMA SafetyKept ==
  ASSUME PointerSafety, UNCHANGED <<confirmed, since>>,
         \A e \in disk' : \E d \in disk :
           /\ e[ActiveState] = d[ActiveState]
           /\ d[ActiveState] # NoFile /\ file[d[ActiveState]].synced =>
                file'[d[ActiveState]] = file[d[ActiveState]]
  PROVE  PointerSafety'
<1>1. ActiveIsWhole'
  <2>1. SUFFICES ASSUME NEW e \in disk', e[ActiveState] # NoFile
                 PROVE  file'[e[ActiveState]].synced /\ file'[e[ActiveState]].data \in Pointers
    BY DEF ActiveIsWhole
  <2>2. PICK d \in disk : /\ e[ActiveState] = d[ActiveState]
                          /\ d[ActiveState] # NoFile /\ file[d[ActiveState]].synced =>
                               file'[d[ActiveState]] = file[d[ActiveState]]
    OBVIOUS
  <2>3. file[d[ActiveState]].synced /\ file[d[ActiveState]].data \in Pointers
    BY <2>1, <2>2 DEF PointerSafety, ActiveIsWhole
  <2> QED BY <2>1, <2>2, <2>3
<1>2. AckedIsActive'
  <2>1. SUFFICES ASSUME confirmed # NoPointer, NEW e \in disk'
                 PROVE  \E q \in {confirmed} \cup since :
                          e[ActiveState] # NoFile /\ file'[e[ActiveState]] = [data |-> q, synced |-> TRUE]
    BY DEF AckedIsActive, Holds
  <2>2. PICK d \in disk : /\ e[ActiveState] = d[ActiveState]
                          /\ d[ActiveState] # NoFile /\ file[d[ActiveState]].synced =>
                               file'[d[ActiveState]] = file[d[ActiveState]]
    OBVIOUS
  <2>3. PICK q \in {confirmed} \cup since :
          d[ActiveState] # NoFile /\ file[d[ActiveState]] = [data |-> q, synced |-> TRUE]
    BY <2>1 DEF PointerSafety, AckedIsActive, Holds
  <2>4. file[d[ActiveState]].synced BY <2>3
  <2>5. file'[e[ActiveState]] = [data |-> q, synced |-> TRUE] BY <2>2, <2>3, <2>4
  <2> QED BY <2>2, <2>3, <2>5
<1> QED BY <1>1, <1>2 DEF PointerSafety

\* Dropping the capability leaves nothing to know of a temporary.
LEMMA DroppedKnows == ASSUME CapabilityDropped PROVE TemporaryInv'
  BY DEF CapabilityDropped, TemporaryInv

\* Acquiring the capability writes nothing.
LEMMA AcquireStep ==
  ASSUME PointerInv, NEW p \in Callers, Acquire(p)
  PROVE  PointerInv'
<1>1. PointerTypeOK' BY DEF PointerInv, PointerTypeOK, Acquire, fsVars, DirectoryTypeOK, Stages
<1>2. TemporaryInv' BY DEF Acquire, TemporaryInv
<1>3. PointerSafety' BY SafetyKept DEF PointerInv, Acquire, fsVars
<1> QED BY <1>1, <1>2, <1>3 DEF PointerInv

\* A new temporary is in no state's place.
LEMMA CreateStep ==
  ASSUME PointerInv, CreatePointerTemporary
  PROVE  PointerInv'
<1> DEFINE n == temporary_basename(pointer)
<1>1. PICK i \in Inodes : CreateExclusive(n, i) /\ open_temporary' = i
  BY DEF CreatePointerTemporary
<1>2. stage = "open" /\ stage' = "write" /\ UNCHANGED <<holder, pointer, mode, confirmed, since, losses>>
  BY DEF CreatePointerTemporary
<1>3. PointerTypeOK /\ DirectoryTypeOK /\ pointer \in Pointers BY <1>2 DEF PointerInv, PointerTypeOK
<1>4. n \in Names /\ ActiveState \in Names /\ n # ActiveState BY <1>3, PointerNamesApart
<1> HIDE DEF n
<1>5. /\ DirectoryTypeOK' /\ disk' = disk \cup {dir'} /\ dir'[n] = i
      /\ \A m \in Names : m # n => dir'[m] = dir[m]
      /\ \A d \in disk : \A m \in Names : d[m] # i /\ (d[m] # NoFile => file'[d[m]] = file[d[m]])
  BY <1>1, <1>3, <1>4, Created
<1>6. dir \in disk /\ dir'[ActiveState] = dir[ActiveState] BY <1>3, <1>4, <1>5 DEF DirectoryTypeOK
<1>7. PointerTypeOK' BY <1>2, <1>3, <1>5 DEF PointerTypeOK, Stages
<1>8. TemporaryInv'
  <2>1. dir'[temporary_basename(pointer')] = open_temporary' /\ open_temporary' \in Inodes
    BY <1>1, <1>2, <1>5 DEF n
  <2>2. \A d \in disk' : d[ActiveState] # open_temporary' BY <1>1, <1>4, <1>5, <1>6
  <2> QED BY <1>2, <2>1, <2>2 DEF TemporaryInv
<1>9. \A e \in disk' : \E d \in disk :
        /\ e[ActiveState] = d[ActiveState]
        /\ d[ActiveState] # NoFile /\ file[d[ActiveState]].synced =>
             file'[d[ActiveState]] = file[d[ActiveState]]
  BY <1>4, <1>5, <1>6
<1>10. PointerSafety' BY <1>2, <1>9, SafetyKept DEF PointerInv
<1> QED BY <1>7, <1>8, <1>10 DEF PointerInv

\* Only the temporary is written, and no state has it in place.
LEMMA WriteStep ==
  ASSUME PointerInv, WriteTemporary
  PROVE  PointerInv'
<1>1. /\ stage = "write" /\ stage' = "sync_temporary" /\ WriteFile(open_temporary, pointer)
      /\ UNCHANGED <<holder, pointer, mode, open_temporary, confirmed, since, losses>>
  BY DEF WriteTemporary
<1>2. PointerTypeOK /\ DirectoryTypeOK /\ pointer \in Pointers BY <1>1 DEF PointerInv, PointerTypeOK
<1>3. /\ open_temporary \in Inodes /\ dir[temporary_basename(pointer)] = open_temporary
      /\ \A d \in disk : d[ActiveState] # open_temporary
  BY <1>1 DEF PointerInv, TemporaryInv
<1>4. pointer \in Data /\ ActiveState \in Names BY <1>2, PointerConstants DEF PointerNames
<1>5. /\ DirectoryTypeOK' /\ dir' = dir /\ disk' = disk
      /\ file'[open_temporary] = [data |-> pointer, synced |-> FALSE]
      /\ \A k \in Inodes : k # open_temporary => file'[k] = file[k]
  BY <1>1, <1>2, <1>3, <1>4, Written
<1>6. PointerTypeOK' BY <1>1, <1>2, <1>5 DEF PointerTypeOK, Stages
<1>7. TemporaryInv' BY <1>1, <1>3, <1>5 DEF TemporaryInv
<1>8. \A d \in disk : d[ActiveState] \in Inodes \cup {NoFile}
  BY <1>2, <1>4 DEF DirectoryTypeOK
<1>9. PointerSafety' BY <1>1, <1>3, <1>5, <1>8, SafetyKept DEF PointerInv
<1> QED BY <1>6, <1>7, <1>9 DEF PointerInv

\* A temporary that is there is taken when it holds exactly the pointer.
LEMMA VerifyStep ==
  ASSUME PointerInv, VerifyTemporary
  PROVE  PointerInv'
<1>1. /\ stage = "open" /\ stage' = "sync_temporary" /\ dir' = dir /\ disk' = disk /\ file' = file
      /\ UNCHANGED <<holder, pointer, mode, confirmed, since, losses>>
      /\ open_temporary' = dir[temporary_basename(pointer)]
      /\ dir[temporary_basename(pointer)] # NoFile
      /\ file[open_temporary'].data = pointer
  BY DEF VerifyTemporary, fsVars, Exists, ReadsExactly
<1>2. PointerTypeOK /\ DirectoryTypeOK /\ pointer \in Pointers BY <1>1 DEF PointerInv, PointerTypeOK
<1>3. open_temporary' \in Inodes BY <1>1, <1>2, PointerNamesApart DEF DirectoryTypeOK
<1>4. PointerTypeOK' BY <1>1, <1>2 DEF PointerTypeOK, DirectoryTypeOK, Stages
<1>5. TemporaryInv' BY <1>1, <1>3 DEF TemporaryInv
<1>6. PointerSafety' BY <1>1, SafetyKept DEF PointerInv
<1> QED BY <1>4, <1>5, <1>6 DEF PointerInv

\* The temporary becomes durable.
LEMMA SyncStep ==
  ASSUME PointerInv, SyncTemporary
  PROVE  PointerInv'
<1>1. /\ stage = "sync_temporary" /\ stage' = "rename" /\ SyncFile(open_temporary)
      /\ UNCHANGED <<holder, pointer, mode, open_temporary, confirmed, since, losses>>
  BY DEF SyncTemporary
<1>2. PointerTypeOK /\ DirectoryTypeOK /\ pointer \in Pointers BY <1>1 DEF PointerInv, PointerTypeOK
<1>3. /\ open_temporary \in Inodes /\ dir[temporary_basename(pointer)] = open_temporary
      /\ file[open_temporary].data = pointer
  BY <1>1 DEF PointerInv, TemporaryInv
<1>4. /\ DirectoryTypeOK' /\ dir' = dir /\ disk' = disk
      /\ file'[open_temporary] = [data |-> pointer, synced |-> TRUE]
      /\ \A k \in Inodes : k # open_temporary => file'[k] = file[k]
  BY <1>1, <1>2, <1>3, Synced
<1>5. PointerTypeOK' BY <1>1, <1>2, <1>4 DEF PointerTypeOK, Stages
<1>6. TemporaryInv' BY <1>1, <1>3, <1>4 DEF TemporaryInv
<1>7. \A d \in disk : d[ActiveState] \in Inodes \cup {NoFile}
  BY <1>2, PointerNamesApart DEF DirectoryTypeOK
<1>8. ASSUME file[open_temporary].synced PROVE file'[open_temporary] = file[open_temporary]
  <2>1. file[open_temporary] \in [data : Data \cup {Partial}, synced : BOOLEAN]
    BY <1>2, <1>3 DEF DirectoryTypeOK
  <2>2. file[open_temporary].synced = TRUE BY <1>8, <2>1
  <2> QED BY <1>3, <1>4, <2>1, <2>2
<1>9. PointerSafety' BY <1>1, <1>4, <1>7, <1>8, SafetyKept DEF PointerInv
<1> QED BY <1>5, <1>6, <1>9 DEF PointerInv

\* The rename puts a durable pointer in place, in either mode.
LEMMA RenameStep ==
  ASSUME PointerInv, RenamePointer
  PROVE  /\ PointerInv'
         /\ dir'[ActiveState] = open_temporary
         /\ mode # "ReplaceExisting" => dir[ActiveState] = NoFile
<1> DEFINE n == temporary_basename(pointer)
<1>1. /\ stage = "rename" /\ stage' = "sync_root" /\ since' = since \cup {pointer}
      /\ UNCHANGED <<holder, pointer, mode, open_temporary, confirmed, losses>>
      /\ Rename(n, ActiveState)
      /\ mode = "RequireAbsent" => dir[ActiveState] = NoFile
  BY DEF RenamePointer, rename_require_absent, RenameNoReplace, Exists
<1>2. PointerTypeOK /\ DirectoryTypeOK /\ pointer \in Pointers /\ mode \in Modes
  BY <1>1 DEF PointerInv, PointerTypeOK
<1>3. n \in Names /\ ActiveState \in Names /\ n # ActiveState BY <1>2, PointerNamesApart
<1>4. /\ open_temporary \in Inodes /\ dir[n] = open_temporary
      /\ file[open_temporary].data = pointer /\ file[open_temporary].synced
  BY <1>1 DEF PointerInv, TemporaryInv
<1>5. file[open_temporary] = [data |-> pointer, synced |-> TRUE]
  <2>1. file[open_temporary] \in [data : Data \cup {Partial}, synced : BOOLEAN]
    BY <1>2, <1>4 DEF DirectoryTypeOK
  <2> QED BY <1>4, <2>1
<1> HIDE DEF n
<1>6. /\ DirectoryTypeOK' /\ disk' = disk \cup {dir'} /\ file' = file
      /\ dir'[ActiveState] = open_temporary /\ open_temporary # NoFile
  BY <1>1, <1>2, <1>3, <1>4, Renamed
<1>7. PointerTypeOK' BY <1>1, <1>2, <1>6 DEF PointerTypeOK, Stages
<1>8. TemporaryInv' BY <1>1, <1>5, <1>6 DEF TemporaryInv, Holds
<1>9. ActiveIsWhole'
  BY <1>2, <1>4, <1>6 DEF PointerInv, PointerSafety, ActiveIsWhole
<1>10. AckedIsActive'
  <2>1. SUFFICES ASSUME confirmed # NoPointer, NEW d \in disk'
                 PROVE  \E q \in {confirmed} \cup since \cup {pointer} :
                          d[ActiveState] # NoFile /\ file[d[ActiveState]] = [data |-> q, synced |-> TRUE]
    BY <1>1, <1>6 DEF AckedIsActive, Holds
  <2>2. CASE d \in disk
    BY <2>1, <2>2 DEF PointerInv, PointerSafety, AckedIsActive, Holds
  <2>3. CASE d = dir'
    BY <1>5, <1>6, <2>3
  <2> QED BY <1>6, <2>2, <2>3
<1> QED BY <1>1, <1>2, <1>6, <1>7, <1>8, <1>9, <1>10 DEF PointerInv, PointerSafety, Modes

\* The fsync of the directory leaves the pointer alone in place: it is confirmed.
LEMMA SyncRootStep ==
  ASSUME PointerInv, SyncRoot
  PROVE  PointerInv'
<1>1. /\ stage = "sync_root" /\ SyncDirectory /\ confirmed' = pointer /\ since' = {}
      /\ CapabilityDropped /\ losses' = losses
  BY DEF SyncRoot
<1>2. PointerTypeOK /\ DirectoryTypeOK /\ pointer \in Pointers BY <1>1 DEF PointerInv, PointerTypeOK
<1>3. dir[ActiveState] # NoFile /\ file[dir[ActiveState]] = [data |-> pointer, synced |-> TRUE]
  BY <1>1 DEF PointerInv, TemporaryInv, Holds
<1>4. ActiveState \in Names BY <1>2, PointerNamesApart
<1>5. /\ DirectoryTypeOK' /\ dir' = dir /\ disk' = {dir}
      /\ file'[dir[ActiveState]] = [data |-> pointer, synced |-> TRUE]
  BY <1>1, <1>2, <1>3, <1>4, DirectorySynced
<1>6. PointerTypeOK' BY <1>1, <1>2, <1>5 DEF PointerTypeOK, CapabilityDropped, Stages
<1>7. TemporaryInv' BY <1>1, DroppedKnows
<1>8. PointerSafety'
  BY <1>1, <1>2, <1>3, <1>5 DEF PointerSafety, ActiveIsWhole, AckedIsActive, Holds
<1> QED BY <1>6, <1>7, <1>8 DEF PointerInv

\* A publication that fails or is killed leaves everything where it is.
LEMMA GiveUpStep ==
  ASSUME PointerInv, PointerGiveUp
  PROVE  PointerInv'
<1>1. CapabilityDropped /\ UNCHANGED <<confirmed, since, losses>> /\ dir' = dir /\ disk' = disk /\ file' = file
  BY DEF PointerGiveUp, fsVars
<1>2. PointerTypeOK'
  BY <1>1 DEF PointerInv, PointerTypeOK, DirectoryTypeOK, CapabilityDropped, Stages
<1>3. TemporaryInv' BY <1>1, DroppedKnows
<1>4. PointerSafety' BY <1>1, SafetyKept DEF PointerInv
<1> QED BY <1>2, <1>3, <1>4 DEF PointerInv

\* A power loss leaves a state whose active entry was durable.
LEMMA PowerLossStep ==
  ASSUME PointerInv, PointerPowerLoss
  PROVE  PointerInv' /\ losses' # losses
<1>1. CapabilityDropped /\ UNCHANGED <<confirmed, since>> /\ LosePower /\ losses' = losses + 1
  BY DEF PointerPowerLoss
<1>2. PointerTypeOK /\ DirectoryTypeOK /\ losses \in Nat BY DEF PointerInv, PointerTypeOK
<1>3. ActiveState \in Names BY PointerConstants DEF PointerNames
<1>4. /\ DirectoryTypeOK' /\ dir' \in disk /\ disk' = {dir'}
      /\ dir'[ActiveState] # NoFile /\ file[dir'[ActiveState]].synced =>
           file'[dir'[ActiveState]] = file[dir'[ActiveState]]
  BY <1>1, <1>2, <1>3, PowerLost
<1>5. PointerTypeOK' BY <1>1, <1>2, <1>4 DEF PointerTypeOK, CapabilityDropped, Stages
<1>6. TemporaryInv' BY <1>1, DroppedKnows
<1>7. PointerSafety' BY <1>1, <1>4, SafetyKept DEF PointerInv
<1> QED BY <1>1, <1>2, <1>5, <1>6, <1>7 DEF PointerInv

\* Every step of a publication, failed ones and power losses included, keeps what
\* a power loss would leave whole; and it changes the active entry only on request.
LEMMA PointerStep ==
  ASSUME PointerInv, PointerNext
  PROVE  PointerInv' /\ ChangedOnRequest
<1>1. CASE RenamePointer
  <2>1. /\ PointerInv' /\ dir'[ActiveState] = open_temporary
        /\ mode # "ReplaceExisting" => dir[ActiveState] = NoFile
    BY <1>1, RenameStep
  <2>2. file[open_temporary].data = pointer BY <1>1 DEF RenamePointer, PointerInv, TemporaryInv
  <2> QED BY <2>1, <2>2 DEF ChangedOnRequest, Exists
<1>2. CASE PointerPowerLoss BY <1>2, PowerLossStep DEF ChangedOnRequest
<1>3. ASSUME dir'[ActiveState] = dir[ActiveState] PROVE ChangedOnRequest
  BY <1>3 DEF ChangedOnRequest
<1>4. ASSUME NEW p \in Callers, Acquire(p) PROVE PointerInv' /\ ChangedOnRequest
  BY <1>3, <1>4, AcquireStep DEF Acquire, fsVars
<1>5. CASE CreatePointerTemporary
  <2>1. pointer \in Pointers /\ DirectoryTypeOK
    BY <1>5 DEF PointerInv, PointerTypeOK, CreatePointerTemporary
  <2>2. PICK i \in Inodes : CreateExclusive(temporary_basename(pointer), i)
    BY <1>5 DEF CreatePointerTemporary
  <2>3. dir'[ActiveState] = dir[ActiveState] BY <2>1, <2>2, PointerNamesApart, Created
  <2> QED BY <1>3, <1>5, <2>3, CreateStep
<1>6. CASE WriteTemporary BY <1>3, <1>6, WriteStep DEF WriteTemporary, WriteFile
<1>7. CASE VerifyTemporary BY <1>3, <1>7, VerifyStep DEF VerifyTemporary, fsVars
<1>8. CASE SyncTemporary BY <1>3, <1>8, SyncStep DEF SyncTemporary, SyncFile
<1>9. CASE SyncRoot BY <1>3, <1>9, SyncRootStep DEF SyncRoot, SyncDirectory
<1>10. CASE PointerGiveUp BY <1>3, <1>10, GiveUpStep DEF PointerGiveUp, fsVars
<1> QED BY <1>1, <1>2, <1>4, <1>5, <1>6, <1>7, <1>8, <1>9, <1>10 DEF PointerNext

\* A step that changes nothing keeps everything.
LEMMA PointerStutter ==
  ASSUME PointerInv, UNCHANGED pointerVars
  PROVE  PointerInv'
<1>1. /\ dir' = dir /\ disk' = disk /\ file' = file
      /\ UNCHANGED <<stage, pointer, mode, open_temporary, confirmed, since, losses>>
  BY DEF pointerVars, fsVars, capabilityVars
<1>2. PointerTypeOK' BY <1>1 DEF PointerInv, PointerTypeOK, DirectoryTypeOK
<1>3. TemporaryInv' BY <1>1 DEF PointerInv, TemporaryInv, Holds
<1>4. PointerSafety' BY <1>1, SafetyKept DEF PointerInv
<1> QED BY <1>2, <1>3, <1>4 DEF PointerInv

\* An empty directory is a state the publications may begin in.
LEMMA EmptyDirectory == ASSUME FsInit PROVE DirectoryTypeOK /\ \A d \in disk : \A n \in Names : d[n] = NoFile
<1>1. [data |-> Partial, synced |-> FALSE] \in [data : Data \cup {Partial}, synced : BOOLEAN]
  OBVIOUS
<1>2. file \in [Inodes -> [data : Data \cup {Partial}, synced : BOOLEAN]]
  BY <1>1 DEF FsInit
<1> QED BY <1>2 DEF FsInit, DirectoryTypeOK

\* Nothing is published at first.
LEMMA PointerStart == ASSUME PointerInit PROVE PointerInv
<1>1. FsInit /\ losses = 0 BY DEF PointerInit, FsInit
<1>2. ActiveState \in Names BY PointerConstants DEF PointerNames
<1>3. PointerTypeOK BY <1>1, EmptyDirectory DEF PointerInit, PointerTypeOK, Stages
<1>4. TemporaryInv BY DEF PointerInit, TemporaryInv
<1>5. PointerSafety
  BY <1>1, <1>2, EmptyDirectory DEF PointerInit, PointerSafety, ActiveIsWhole, AckedIsActive
<1> QED BY <1>3, <1>4, <1>5 DEF PointerInv

\* The active pointer is whole and what was answered Ok is in place, in whatever
\* state kills and power losses leave the root (PointerSafety).
THEOREM ActivePointer == PointerSpec => []PointerSafety
<1>1. PointerInit => PointerInv BY PointerStart
<1>2. PointerInv /\ [PointerNext]_pointerVars => PointerInv' BY PointerStep, PointerStutter
<1>3. PointerInv => PointerSafety BY DEF PointerInv
<1> QED BY <1>1, <1>2, <1>3, PTL DEF PointerSpec

\* The active pointer changes only under ReplaceExisting, to the pointer that was
\* asked for (ReplacedOnRequest).
THEOREM RequireAbsent == PointerSpec => ReplacedOnRequest
<1>1. PointerInit => PointerInv BY PointerStart
<1>2. PointerInv /\ [PointerNext]_pointerVars => PointerInv' BY PointerStep, PointerStutter
<1>3. PointerInv /\ [PointerNext]_pointerVars => [ChangedOnRequest]_pointerVars BY PointerStep
<1> QED BY <1>1, <1>2, <1>3, PTL DEF PointerSpec, ReplacedOnRequest

-----------------------------------------------------------------------------
(***************************************************************************)
(* The initialization key pair.                                            *)
(***************************************************************************)
\* The four entries of the pair are four names of the directory.
LEMMA KeyNamesApart ==
  /\ Roles = {First, Second} /\ First # Second
  /\ \A r \in Roles : Temporary(r) \in Names /\ Final(r) \in Names
  /\ \A r, s \in Roles : Temporary(r) # Final(s)
  /\ Temporary(First) # Temporary(Second) /\ Final(First) # Final(Second)
  BY KeyConstants DEF Roles, First, Second, Temporary, Final, KeyNames

\* What a pair must be to agree with the final entries of all states in D.
Says(keys, D, f) ==
  \A d \in D :
    /\ d[Final(First)] # NoFile
    /\ f[d[Final(First)]] = [data |-> keys[First], synced |-> TRUE]
    /\ d[Final(Second)] # NoFile =>
         f[d[Final(Second)]] = [data |-> keys[Second], synced |-> TRUE]

\* Known pairs are those, and published ones have both entries.
LEMMA KnownSays ==
  KnownInv <=> \A keys \in loaded \cup published : Says(keys, disk, file)
  BY DEF KnownInv, Says, Holds

\* A known pair that was published is durable when every state has its second key.
LEMMA DurableSays ==
  ASSUME KnownInv
  PROVE  PublishedIsDurable <=>
           \A keys \in published : \A d \in disk : d[Final(Second)] # NoFile
  BY KeyNamesApart DEF PublishedIsDurable, KnownInv, Holds

\* The final entries of every state stay, with their files.
FinalsStay ==
  /\ dir' \in disk'
  /\ \A e \in disk' : \E d \in disk : \A r \in Roles : e[Final(r)] = d[Final(r)]
  /\ \A e \in disk' : InOrder(e)
  /\ \A e \in disk' : \A r \in Roles : e[Final(r)] # NoFile => e[Final(r)] = dir'[Final(r)]
  /\ \A e \in disk' : \A r \in Roles :
       e[Final(r)] # NoFile => file'[e[Final(r)]] = file[e[Final(r)]]

\* Then they are as coherent as before.
LEMMA FinalsKept ==
  ASSUME KeyInv, FinalsStay, runs' \in Nat, runs' >= runs
  PROVE  FinalsInv'
<1>0. FinalsInv /\ runs \in Nat BY KeyConstants DEF KeyInv, KeyTypeOK
<1>1. First \in Roles /\ Second \in Roles BY KeyNamesApart
<1>2. ASSUME NEW r \in Roles, dir'[Final(r)] # NoFile
      PROVE  /\ file'[dir'[Final(r)]] = file[dir[Final(r)]] /\ dir[Final(r)] # NoFile
             /\ dir'[Final(r)] = dir[Final(r)]
  <2>1. PICK d \in disk : \A x \in Roles : dir'[Final(x)] = d[Final(x)] BY DEF FinalsStay
  <2>2. d[Final(r)] = dir[Final(r)] BY <1>0, <1>2, <2>1 DEF FinalsInv
  <2> QED BY <1>2, <2>1, <2>2 DEF FinalsStay
<1>3. ASSUME NEW r \in Roles, dir'[Final(r)] # NoFile
      PROVE  /\ file'[dir'[Final(r)]].synced
             /\ file'[dir'[Final(r)]].data \in [key : Samples \ {Zero}, run : 1..runs']
  <2>1. /\ file[dir[Final(r)]].synced
        /\ file[dir[Final(r)]].data \in [key : Samples \ {Zero}, run : 1..runs]
    BY <1>0, <1>2, <1>3 DEF FinalsInv, Exists
  <2>2. 1..runs \subseteq 1..runs' BY <1>0
  <2>3. file[dir[Final(r)]].data \in [key : Samples \ {Zero}, run : 1..runs']
    <3> HIDE DEF Final
    <3> QED BY <2>1, <2>2
  <2> QED BY <1>2, <1>3, <2>1, <2>3
<1>4. ASSUME dir'[Final(Second)] # NoFile
      PROVE  /\ file'[dir'[Final(Second)]].data.run = file'[dir'[Final(First)]].data.run
             /\ \A e \in disk' : e[Final(First)] # NoFile
  <2>1. dir[Final(Second)] # NoFile BY <1>1, <1>2, <1>4
  <2>2. /\ file[dir[Final(Second)]].data.run = file[dir[Final(First)]].data.run
        /\ \A d \in disk : d[Final(First)] # NoFile
    BY <1>0, <2>1 DEF FinalsInv, Exists
  <2>3. \A e \in disk' : e[Final(First)] # NoFile BY <1>1, <2>2 DEF FinalsStay
  <2>4. dir'[Final(First)] # NoFile BY <2>3 DEF FinalsStay
  <2>5. /\ file'[dir'[Final(First)]] = file[dir[Final(First)]]
        /\ file'[dir'[Final(Second)]] = file[dir[Final(Second)]]
    BY <1>1, <1>2, <1>4, <2>4
  <2> QED BY <2>2, <2>3, <2>5
<1>5. \A e \in disk' : InOrder(e) BY DEF FinalsStay
<1>6. \A e \in disk' : \A r \in Roles : e[Final(r)] # NoFile => e[Final(r)] = dir'[Final(r)]
  BY DEF FinalsStay
<1>7. (\A e \in disk : InOrder(e))' BY <1>5 DEF InOrder
<1> QED BY <1>3, <1>4, <1>6, <1>7 DEF FinalsInv, Exists

\* A pair the entries said they still say.
LEMMA SaysKept ==
  ASSUME FinalsStay, NEW keys, Says(keys, disk, file)
  PROVE  Says(keys, disk', file')
<1>1. First \in Roles /\ Second \in Roles BY KeyNamesApart
<1>2. SUFFICES ASSUME NEW e \in disk'
               PROVE  /\ e[Final(First)] # NoFile
                      /\ file'[e[Final(First)]] = [data |-> keys[First], synced |-> TRUE]
                      /\ e[Final(Second)] # NoFile =>
                           file'[e[Final(Second)]] = [data |-> keys[Second], synced |-> TRUE]
  BY DEF Says
<1>3. PICK d \in disk : \A r \in Roles : e[Final(r)] = d[Final(r)] BY DEF FinalsStay
<1>4. e[Final(First)] = d[Final(First)] /\ e[Final(Second)] = d[Final(Second)] BY <1>1, <1>3
<1>5. \A r \in Roles : e[Final(r)] # NoFile => file'[e[Final(r)]] = file[e[Final(r)]]
  BY DEF FinalsStay
<1> QED BY <1>1, <1>4, <1>5 DEF Says

\* While final entries stay and nobody learns of a pair, what is known stays so.
LEMMA KnownKept ==
  ASSUME KeyInv, FinalsStay, UNCHANGED <<loaded, published>>
  PROVE  KnownInv' /\ PublishedIsDurable' /\ OneIdentity'
<1>1. \A keys \in loaded \cup published : Says(keys, disk, file) BY KnownSays DEF KeyInv
<1>2. \A keys \in loaded' \cup published' : Says(keys, disk', file') BY <1>1, SaysKept
<1>3. KnownInv' BY <1>2 DEF KnownInv, Says, Holds
<1>4. \A keys \in published : \A d \in disk : d[Final(Second)] # NoFile
  BY DurableSays DEF KeyInv
<1>5. Second \in Roles BY KeyNamesApart
<1>6. \A keys \in published' : \A e \in disk' : e[Final(Second)] # NoFile
  BY <1>4, <1>5 DEF FinalsStay
<1>7. PublishedIsDurable'
  BY <1>2, <1>6, KeyNamesApart DEF PublishedIsDurable, Says, Holds
<1>8. OneIdentity' BY DEF KeyInv, OneIdentity
<1> QED BY <1>3, <1>7, <1>8

\* Nothing on disk changed.
LEMMA SameRoot ==
  ASSUME KeyInv, dir' = dir, disk' = disk, file' = file
  PROVE  FinalsStay /\ DirectoryTypeOK'
<1>1. DirectoryTypeOK /\ FinalsInv BY DEF KeyInv, KeyTypeOK
<1>2. DirectoryTypeOK' BY <1>1 DEF DirectoryTypeOK
<1>3. dir \in disk BY <1>1 DEF DirectoryTypeOK
<1>4. \A e \in disk : InOrder(e) BY <1>1 DEF FinalsInv
<1>5. \A e \in disk : \A r \in Roles : e[Final(r)] # NoFile => e[Final(r)] = dir[Final(r)]
  BY <1>1 DEF FinalsInv
<1> QED BY <1>2, <1>3, <1>4, <1>5 DEF FinalsStay

-----------------------------------------------------------------------------
\* Where one process moves to a step of a publication it knows what that step
\* needs, and the others are nowhere.
LEMMA OneMoves ==
  ASSUME NEW p \in Procs, pc \in [Procs -> Points],
         \A q \in Procs : q # p => pc[q] = Idle,
         NEW s, NEW r, <<s, r>> \in Points, pc' = [pc EXCEPT ![p] = <<s, r>>],
         holder' = p,
         s \in PublishSteps => Knows(p, s, r)',
         s = "read" /\ r = Second =>
           dir'[Final(First)] # NoFile /\ pair'[p][First] = file'[dir'[Final(First)]].data
  PROVE  /\ pc' \in [Procs -> Points] /\ OneOwner' /\ PublisherInv' /\ ReaderInv'
<1>1. pc' \in [Procs -> Points] /\ pc'[p] = <<s, r>> /\ \A q \in Procs : q # p => pc'[q] = Idle
  OBVIOUS
<1>2. OneOwner' BY <1>1 DEF OneOwner
<1>3. PublisherInv'
  <2>1. SUFFICES ASSUME NEW q \in Procs, NEW t \in PublishSteps, NEW x \in Roles, pc'[q] = <<t, x>>
                 PROVE  Knows(q, t, x)'
    BY DEF PublisherInv, At
  <2>2. t # "idle" BY DEF PublishSteps
  <2>3. q = p BY <1>1, <2>1, <2>2 DEF Idle
  <2>4. t = s /\ x = r BY <1>1, <2>1, <2>3
  <2> QED BY <2>3, <2>4
<1>4. ReaderInv'
  <2>1. SUFFICES ASSUME NEW q \in Procs, pc'[q] = <<"read", Second>>
                 PROVE  dir'[Final(First)] # NoFile /\ pair'[q][First] = file'[dir'[Final(First)]].data
    BY DEF ReaderInv, At, Exists
  <2>2. q = p BY <1>1, <2>1 DEF Idle
  <2>3. s = "read" /\ r = Second BY <1>1, <2>1, <2>2
  <2> QED BY <2>2, <2>3
<1> QED BY <1>1, <1>2, <1>3, <1>4

\* Where nobody is left anywhere there is nothing to know.
LEMMA NobodyMoves ==
  ASSUME pc' \in [Procs -> Points], \A q \in Procs : pc'[q] = Idle
  PROVE  OneOwner' /\ PublisherInv' /\ ReaderInv'
<1>1. \A t \in PublishSteps : t # "idle" BY DEF PublishSteps
<1>2. PublisherInv' BY <1>1 DEF PublisherInv, At, Idle
<1>3. ReaderInv' BY DEF ReaderInv, At, Idle
<1> QED BY <1>2, <1>3 DEF OneOwner

\* Whoever is somewhere is the only one.
LEMMA Alone ==
  ASSUME KeyInv, NEW p \in Procs, pc[p] # Idle
  PROVE  holder = p /\ \A q \in Procs : q # p => pc[q] = Idle
  BY DEF KeyInv, OneOwner

\* What a process knows of the disk is all a step needs to end.
LEMMA Ended ==
  ASSUME KeyInv, FinalsStay, DirectoryTypeOK', NEW p \in Procs, Return(p),
         \A q \in Procs : q # p => pc[q] = Idle,
         UNCHANGED <<published, loaded, runs>>
  PROVE  KeyInv'
<1>1. /\ holder \in Procs \cup {Nobody} /\ pc \in [Procs -> Points] /\ runs \in 0..MaxRuns
      /\ fd \in [Procs -> Inodes \cup {NoFile}] /\ pair \in [Procs -> Pairs]
      /\ published \subseteq Pairs /\ loaded \subseteq Pairs
  BY DEF KeyInv, KeyTypeOK
<1>2. Idle \in Points /\ NoKeys \in Pairs BY DEF Points, NoKeys, Pairs
<1>3. pc' \in [Procs -> Points] /\ \A q \in Procs : pc'[q] = Idle
  BY <1>1, <1>2 DEF Return
<1>4. OneOwner' /\ PublisherInv' /\ ReaderInv' BY <1>3, NobodyMoves
<1>5. fd' \in [Procs -> Inodes \cup {NoFile}] /\ pair' \in [Procs -> Pairs]
      /\ holder' \in Procs \cup {Nobody}
  BY <1>1, <1>2 DEF Return
<1>6. KeyTypeOK' BY <1>1, <1>3, <1>5 DEF KeyTypeOK
<1>7. runs' \in Nat /\ runs' >= runs BY <1>1, KeyConstants
<1>8. FinalsInv' BY <1>7, FinalsKept
<1>9. KnownInv' /\ PublishedIsDurable' /\ OneIdentity' BY KnownKept
<1> QED BY <1>4, <1>6, <1>8, <1>9 DEF KeyInv

\* Taking the lock writes nothing.
LEMMA BeginStep ==
  ASSUME KeyInv, NEW p \in Procs, Begin(p)
  PROVE  KeyInv'
<1>1. /\ pc[p] = Idle /\ holder = Nobody /\ holder' = p
      /\ dir' = dir /\ disk' = disk /\ file' = file
      /\ UNCHANGED <<fd, pair, published, loaded, runs>>
  BY DEF Begin, acquire_owner_lock, fsVars
<1>2. PICK entry \in {"preflight", "temporaries"} : pc' = [pc EXCEPT ![p] = <<entry, "none">>]
  BY DEF Begin, Goto
<1>3. KeyTypeOK /\ pc \in [Procs -> Points] /\ runs \in 0..MaxRuns BY DEF KeyInv, KeyTypeOK
<1>4. \A q \in Procs : q # p => pc[q] = Idle
  BY <1>1, KeyConstants DEF KeyInv, OneOwner
<1>5. <<entry, "none">> \in Points /\ entry \notin PublishSteps /\ entry # "read"
  BY DEF Points, PublishSteps
<1>6. pc' \in [Procs -> Points] /\ OneOwner' /\ PublisherInv' /\ ReaderInv'
  BY <1>1, <1>2, <1>3, <1>4, <1>5, OneMoves
<1>7. FinalsStay /\ DirectoryTypeOK' BY <1>1, SameRoot
<1>8. KeyTypeOK' BY <1>1, <1>3, <1>6, <1>7 DEF KeyTypeOK
<1>9. runs' \in Nat /\ runs' >= runs BY <1>1, <1>3, KeyConstants
<1>10. FinalsInv' BY <1>7, <1>9, FinalsKept
<1>11. KnownInv' /\ PublishedIsDurable' /\ OneIdentity' BY <1>1, <1>7, KnownKept
<1> QED BY <1>6, <1>8, <1>10, <1>11 DEF KeyInv

\* Two fresh keys are drawn only where the root holds nothing of a pair, so no
\* pair of it is known.
LEMMA SampleStep ==
  ASSUME KeyInv, NEW p \in Procs, Sample(p)
  PROVE  KeyInv'
<1>1. /\ pc[p] = <<"preflight", "none">> /\ runs < MaxRuns /\ runs' = runs + 1
      /\ pc' = [pc EXCEPT ![p] = <<"create", First>>]
      /\ dir' = dir /\ disk' = disk /\ file' = file
      /\ UNCHANGED <<holder, fd, published, loaded>>
  BY DEF Sample, At, Goto, fsVars, First
<1>2. PICK a \in Samples, b \in Samples :
        /\ Acceptable(a, b)
        /\ pair' = [pair EXCEPT ![p] =
                      [r \in Roles |-> [key |-> IF r = "JournalIntegrity" THEN a ELSE b,
                                        run |-> runs + 1]]]
  BY DEF Sample
<1>3. \A n \in KeyNames : dir[n] = NoFile BY DEF Sample, Preflight, Exists
<1>4. KeyTypeOK /\ pc \in [Procs -> Points] /\ runs \in 0..MaxRuns /\ dir \in disk
      /\ pair \in [Procs -> Pairs]
  BY DEF KeyInv, KeyTypeOK, DirectoryTypeOK
<1>5. holder = p /\ \A q \in Procs : q # p => pc[q] = Idle
  BY <1>1, Alone DEF Idle
<1>6. \A r \in Roles : dir[Temporary(r)] = NoFile /\ dir[Final(r)] = NoFile
  BY <1>3 DEF KeyNames
<1>7. First \in Roles /\ Second \in Roles /\ First # Second BY KeyNamesApart
<1>8. loaded \cup published = {}
  BY <1>4, <1>6, <1>7, KnownSays DEF KeyInv, Says
<1> DEFINE drawn == [r \in Roles |-> [key |-> IF r = "JournalIntegrity" THEN a ELSE b,
                                      run |-> runs + 1]]
<1>9. drawn \in [Roles -> [key : Samples \ {Zero}, run : {runs + 1}]]
  BY <1>2 DEF Acceptable
<1>10. runs + 1 \in 1..MaxRuns /\ runs \in Nat /\ runs + 1 \in Nat /\ runs + 1 > 0 /\ runs + 1 >= runs
  BY <1>1, <1>4, KeyConstants
<1>11. drawn \in Pairs
  <2>1. \A r \in Roles : drawn[r] \in RunKeys
    BY <1>2, <1>10 DEF RunKeys
  <2> QED BY <2>1 DEF Pairs
<1> HIDE DEF drawn
<1>12. pair' = [pair EXCEPT ![p] = drawn] BY <1>2 DEF drawn
<1>13. pair' \in [Procs -> Pairs] /\ pair'[p] = drawn BY <1>4, <1>11, <1>12
<1>14. Knows(p, "create", First)'
  BY <1>1, <1>6, <1>7, <1>8, <1>9, <1>10, <1>13 DEF Knows, Exists
<1>15. <<"create", First>> \in Points BY <1>7 DEF Points, PublishSteps
<1>16. pc' \in [Procs -> Points] /\ OneOwner' /\ PublisherInv' /\ ReaderInv'
  <2>1. "create" # "read" /\ holder' = p BY <1>1, <1>5
  <2> QED BY <1>1, <1>4, <1>5, <1>14, <1>15, <2>1, OneMoves
<1>17. FinalsStay /\ DirectoryTypeOK' BY <1>1, SameRoot
<1>18. KeyTypeOK' BY <1>1, <1>4, <1>10, <1>13, <1>16, <1>17 DEF KeyTypeOK
<1>19. FinalsInv' BY <1>1, <1>10, <1>17, FinalsKept
<1>20. KnownInv' /\ PublishedIsDurable' /\ OneIdentity' BY <1>1, <1>17, KnownKept
<1> QED BY <1>16, <1>18, <1>19, <1>20 DEF KeyInv

\* What a process that publishes has to go on.
LEMMA Publisher ==
  ASSUME KeyInv, NEW p \in Procs, NEW s \in PublishSteps, NEW r \in Roles, At(p, s, r)
  PROVE  /\ Knows(p, s, r) /\ holder = p /\ \A q \in Procs : q # p => pc[q] = Idle
         /\ KeyTypeOK /\ DirectoryTypeOK /\ dir \in disk /\ FinalsInv
         /\ pc \in [Procs -> Points] /\ runs \in Nat
<1>1. Knows(p, s, r) BY DEF KeyInv, PublisherInv
<1>2. pc[p] # Idle BY DEF At, Idle, PublishSteps
<1> QED BY <1>1, <1>2, Alone, KeyConstants DEF KeyInv, KeyTypeOK, DirectoryTypeOK

\* A step of a publication that goes on, and what remains to be shown of it.
LEMMA GoesOn ==
  ASSUME KeyInv, NEW p \in Procs, NEW s \in PublishSteps, NEW r \in Roles, At(p, s, r),
         NEW t \in PublishSteps, NEW x \in Roles, Goto(p, t, x),
         UNCHANGED <<holder, pair, published, loaded, runs>>,
         fd' \in [Procs -> Inodes \cup {NoFile}],
         DirectoryTypeOK', FinalsInv', KnownInv', PublishedIsDurable', Knows(p, t, x)'
  PROVE  KeyInv'
<1>1. /\ holder = p /\ \A q \in Procs : q # p => pc[q] = Idle
      /\ KeyTypeOK /\ pc \in [Procs -> Points]
  BY Publisher
<1>2. <<t, x>> \in Points /\ t # "read" BY DEF Points, PublishSteps
<1>3. pc' = [pc EXCEPT ![p] = <<t, x>>] /\ holder' = p BY <1>1 DEF Goto
<1>4. pc' \in [Procs -> Points] /\ OneOwner' /\ PublisherInv' /\ ReaderInv'
  BY <1>1, <1>2, <1>3, OneMoves
<1>5. KeyTypeOK' BY <1>1, <1>4 DEF KeyTypeOK
<1>6. OneIdentity' BY DEF KeyInv, OneIdentity
<1> QED BY <1>4, <1>5, <1>6 DEF KeyInv

\* The temporary is a file no state names, next to the first key for the second.
LEMMA CreateKeyStep ==
  ASSUME KeyInv, NEW p \in Procs, NEW r \in Roles, Create(p, r)
  PROVE  KeyInv'
<1>1. /\ At(p, "create", r) /\ Goto(p, "write", r)
      /\ UNCHANGED <<holder, pair, published, loaded, runs>>
  BY DEF Create
<1>2. PICK i \in Inodes : CreateExclusive(Temporary(r), i) /\ fd' = [fd EXCEPT ![p] = i]
  BY DEF Create
<1>3. "create" \in PublishSteps /\ "write" \in PublishSteps BY DEF PublishSteps
<1>4. /\ Knows(p, "create", r) /\ KeyTypeOK /\ DirectoryTypeOK /\ dir \in disk /\ FinalsInv /\ runs \in Nat
  BY <1>1, <1>3, Publisher
<1>5. Temporary(r) \in Names BY KeyNamesApart
<1>6. /\ DirectoryTypeOK' /\ disk' = disk \cup {dir'} /\ dir'[Temporary(r)] = i
      /\ \A m \in Names : m # Temporary(r) => dir'[m] = dir[m]
      /\ \A d \in disk : \A m \in Names : d[m] # i /\ (d[m] # NoFile => file'[d[m]] = file[d[m]])
  BY <1>2, <1>4, <1>5, Created
<1>7. fd' \in [Procs -> Inodes \cup {NoFile}] /\ fd'[p] = i BY <1>2, <1>4 DEF KeyTypeOK
<1>8. \A x \in Roles : /\ dir'[Final(x)] = dir[Final(x)]
                       /\ Final(x) \in Names /\ Temporary(x) \in Names
                       /\ x # r => dir'[Temporary(x)] = dir[Temporary(x)]
  BY <1>6, KeyNamesApart
<1>9. First \in Roles /\ Second \in Roles /\ First # Second /\ Roles = {First, Second} BY KeyNamesApart
<1>10. InOrder(dir')
  <2>1. InOrder(dir) BY <1>4 DEF FinalsInv
  <2>2. CASE r = First
    <3>1. dir'[Temporary(Second)] = dir[Temporary(Second)] BY <1>8, <1>9, <2>2
    <3> QED BY <1>8, <1>9, <2>1, <3>1 DEF InOrder
  <2>3. CASE r = Second
    <3>1. dir[Final(First)] # NoFile /\ dir[Final(Second)] = NoFile
      BY <1>4, <2>3 DEF Knows, Holds, Exists
    <3>2. dir[Final(First)] # i BY <1>4, <1>6, <1>8, <1>9
    <3> QED BY <1>6, <1>8, <1>9, <2>3, <3>1, <3>2 DEF InOrder
  <2> QED BY <1>9, <2>2, <2>3
<1>11. FinalsStay
  <2>1. dir' \in disk' BY <1>6
  <2>2. \A e \in disk' : \E d \in disk : \A x \in Roles : e[Final(x)] = d[Final(x)]
    BY <1>4, <1>6, <1>8
  <2>3. \A e \in disk' : InOrder(e) BY <1>4, <1>6, <1>10 DEF FinalsInv
  <2>4. \A e \in disk' : \A x \in Roles : e[Final(x)] # NoFile => e[Final(x)] = dir'[Final(x)]
    BY <1>4, <1>6, <1>8 DEF FinalsInv
  <2>5. \A e \in disk' : \A x \in Roles : e[Final(x)] # NoFile => file'[e[Final(x)]] = file[e[Final(x)]]
    BY <1>4, <1>6, <1>8
  <2> QED BY <2>1, <2>2, <2>3, <2>4, <2>5 DEF FinalsStay
<1>12. runs' \in Nat /\ runs' >= runs BY <1>1, <1>4
<1>13. FinalsInv' BY <1>11, <1>12, FinalsKept
<1>14. KnownInv' /\ PublishedIsDurable' BY <1>1, <1>11, KnownKept
<1>15. Knows(p, "write", r)'
  <2>1. r = First => dir'[Temporary(Second)] = NoFile /\ dir'[Final(Second)] = NoFile
    BY <1>4, <1>8, <1>9 DEF Knows, Exists
  <2>2. r = Second => /\ dir'[Final(First)] # NoFile
                      /\ file'[dir'[Final(First)]] = [data |-> pair[p][First], synced |-> TRUE]
                      /\ \A d \in disk' : d[Final(First)] # NoFile
    BY <1>4, <1>6, <1>8, <1>9 DEF Knows, Holds
  <2>3. dir'[Final(r)] = NoFile BY <1>4, <1>8 DEF Knows, Exists
  <2> QED BY <1>1, <1>4, <1>6, <1>7, <2>1, <2>2, <2>3 DEF Knows, Exists, Holds
<1> QED BY <1>1, <1>3, <1>6, <1>7, <1>13, <1>14, <1>15, GoesOn

\* The temporary being written or synced is no state's final entry.
LEMMA FinalsElsewhere ==
  ASSUME KeyInv, NEW p \in Procs, NEW r \in Roles, NEW s \in {"write", "file_sync"}, At(p, s, r)
  PROVE  \A d \in disk : \A x \in Roles : d[Final(x)] # fd[p]
<1>1. s \in PublishSteps BY DEF PublishSteps
<1>2. Knows(p, s, r) /\ FinalsInv /\ dir \in disk BY <1>1, Publisher
<1>3. fd[p] \in Inodes /\ dir[Temporary(r)] = fd[p] /\ dir[Final(r)] = NoFile
  BY <1>2 DEF Knows, Exists
<1>4. fd[p] # NoFile BY <1>3, DirectoryConstants
<1>5. \A d \in disk : \A x \in Roles : d[Final(x)] # NoFile => d[Final(x)] = dir[Final(x)]
  BY <1>2 DEF FinalsInv
<1>6. First \in Roles /\ Second \in Roles /\ First # Second /\ Roles = {First, Second} BY KeyNamesApart
<1>7. CASE r = First
  <2>1. dir[Final(Second)] = NoFile BY <1>2, <1>7 DEF Knows, Exists
  <2> QED BY <1>3, <1>4, <1>5, <1>6, <1>7, <2>1
<1>8. CASE r = Second
  <2>1. InOrder(dir) BY <1>2 DEF FinalsInv
  <2>2. dir[Final(First)] # fd[p] BY <1>3, <1>4, <1>8, <2>1 DEF InOrder
  <2> QED BY <1>3, <1>4, <1>5, <1>6, <1>8, <2>2
<1> QED BY <1>6, <1>7, <1>8

\* Changing that temporary changes no final entry.
LEMMA TemporaryOnly ==
  ASSUME KeyInv, NEW p \in Procs, NEW r \in Roles, NEW s \in {"write", "file_sync"}, At(p, s, r),
         dir' = dir, disk' = disk, \A k \in Inodes : k # fd[p] => file'[k] = file[k],
         UNCHANGED <<published, loaded, runs>>
  PROVE  FinalsStay /\ FinalsInv' /\ KnownInv' /\ PublishedIsDurable'
<1>1. s \in PublishSteps BY DEF PublishSteps
<1>2. DirectoryTypeOK /\ FinalsInv /\ dir \in disk /\ runs \in Nat BY <1>1, Publisher
<1>3. \A d \in disk : \A x \in Roles : d[Final(x)] # NoFile => d[Final(x)] \in Inodes
  BY <1>2, KeyNamesApart DEF DirectoryTypeOK
<1>4. \A d \in disk : \A x \in Roles : d[Final(x)] # NoFile => file'[d[Final(x)]] = file[d[Final(x)]]
  BY <1>3, FinalsElsewhere
<1>5. FinalsStay BY <1>2, <1>4 DEF FinalsStay, FinalsInv
<1>6. FinalsInv' BY <1>2, <1>5, FinalsKept
<1>7. KnownInv' /\ PublishedIsDurable' BY <1>5, KnownKept
<1> QED BY <1>5, <1>6, <1>7

\* What a publication knows of entries it does not write stays.
LEMMA KnowsOn ==
  ASSUME KeyInv, NEW p \in Procs, NEW r \in Roles, NEW s \in {"write", "file_sync"}, At(p, s, r),
         dir' = dir, disk' = disk, \A k \in Inodes : k # fd[p] => file'[k] = file[k],
         UNCHANGED <<published, loaded, runs, pair, fd>>,
         NEW t \in {"file_sync", "rename"}, file'[fd[p]].data = pair[p][r],
         t = "rename" => file'[fd[p]].synced
  PROVE  Knows(p, t, r)'
<1>1. s \in PublishSteps BY DEF PublishSteps
<1>2. Knows(p, s, r) /\ DirectoryTypeOK /\ dir \in disk BY <1>1, Publisher
<1>3. r = Second => file'[dir[Final(First)]] = file[dir[Final(First)]]
  <2>1. SUFFICES ASSUME r = Second PROVE file'[dir[Final(First)]] = file[dir[Final(First)]]
    OBVIOUS
  <2>2. dir[Final(First)] # NoFile BY <1>2, <2>1 DEF Knows, Holds
  <2>3. First \in Roles /\ Final(First) \in Names BY KeyNamesApart
  <2>4. dir[Final(First)] \in Inodes BY <1>2, <2>2, <2>3 DEF DirectoryTypeOK
  <2>5. dir[Final(First)] # fd[p] BY <1>2, <2>3, FinalsElsewhere
  <2> QED BY <2>4, <2>5
<1> QED BY <1>2, <1>3 DEF Knows, Exists, Holds

\* Only the temporary is written.
LEMMA WriteKeyStep ==
  ASSUME KeyInv, NEW p \in Procs, NEW r \in Roles, Write(p, r)
  PROVE  KeyInv'
<1>1. /\ At(p, "write", r) /\ Goto(p, "file_sync", r) /\ WriteFile(fd[p], pair[p][r])
      /\ UNCHANGED <<holder, pair, fd, published, loaded, runs>>
  BY DEF Write
<1>2. "write" \in PublishSteps /\ "file_sync" \in PublishSteps BY DEF PublishSteps
<1>3. Knows(p, "write", r) /\ KeyTypeOK /\ DirectoryTypeOK /\ runs \in Nat BY <1>1, <1>2, Publisher
<1>4. fd[p] \in Inodes BY <1>3 DEF Knows
<1>5. pair[p][r] \in Data
  <2>1. pair[p][r] \in [key : Samples \ {Zero}, run : {runs}] BY <1>3 DEF Knows
  <2>2. pair[p] \in Pairs BY <1>3 DEF KeyTypeOK
  <2>3. pair[p][r] \in RunKeys \cup {Partial} BY <2>2 DEF Pairs
  <2>4. runs \in 1..MaxRuns BY <1>3, KeyConstants DEF Knows, KeyTypeOK
  <2>5. pair[p][r] \in RunKeys BY <2>1, <2>4 DEF RunKeys
  <2> QED BY <2>5, KeyConstants
<1>6. /\ DirectoryTypeOK' /\ dir' = dir /\ disk' = disk
      /\ file'[fd[p]] = [data |-> pair[p][r], synced |-> FALSE]
      /\ \A k \in Inodes : k # fd[p] => file'[k] = file[k]
  BY <1>1, <1>3, <1>4, <1>5, Written
<1>7. "write" \in {"write", "file_sync"} /\ "file_sync" \in {"file_sync", "rename"}
      /\ "file_sync" # "rename"
  OBVIOUS
<1>8. FinalsInv' /\ KnownInv' /\ PublishedIsDurable' BY <1>1, <1>6, <1>7, TemporaryOnly
<1>9. file'[fd[p]].data = pair[p][r] BY <1>6
<1>10. Knows(p, "file_sync", r)' BY <1>1, <1>6, <1>7, <1>9, KnowsOn
<1>11. fd' \in [Procs -> Inodes \cup {NoFile}] BY <1>1, <1>3 DEF KeyTypeOK
<1> QED BY <1>1, <1>2, <1>6, <1>8, <1>10, <1>11, GoesOn

\* The temporary becomes durable.
LEMMA SyncKeyStep ==
  ASSUME KeyInv, NEW p \in Procs, NEW r \in Roles, KeyFileSync(p, r)
  PROVE  KeyInv'
<1>1. /\ At(p, "file_sync", r) /\ Goto(p, "rename", r) /\ SyncFile(fd[p])
      /\ UNCHANGED <<holder, pair, fd, published, loaded, runs>>
  BY DEF KeyFileSync
<1>2. "file_sync" \in PublishSteps /\ "rename" \in PublishSteps BY DEF PublishSteps
<1>3. Knows(p, "file_sync", r) /\ KeyTypeOK /\ DirectoryTypeOK /\ runs \in Nat BY <1>1, <1>2, Publisher
<1>4. fd[p] \in Inodes /\ file[fd[p]].data = pair[p][r] BY <1>3 DEF Knows
<1>5. /\ DirectoryTypeOK' /\ dir' = dir /\ disk' = disk
      /\ file'[fd[p]] = [data |-> file[fd[p]].data, synced |-> TRUE]
      /\ \A k \in Inodes : k # fd[p] => file'[k] = file[k]
  BY <1>1, <1>3, <1>4, Synced
<1>6. "file_sync" \in {"write", "file_sync"} /\ "rename" \in {"file_sync", "rename"} OBVIOUS
<1>7. FinalsInv' /\ KnownInv' /\ PublishedIsDurable' BY <1>1, <1>5, <1>6, TemporaryOnly
<1>8. file'[fd[p]].data = pair[p][r] /\ file'[fd[p]].synced BY <1>4, <1>5
<1>9. Knows(p, "rename", r)' BY <1>1, <1>5, <1>6, <1>8, KnowsOn
<1>10. fd' \in [Procs -> Inodes \cup {NoFile}] BY <1>1, <1>3 DEF KeyTypeOK
<1> QED BY <1>1, <1>2, <1>5, <1>7, <1>9, <1>10, GoesOn

\* The rename puts a durable key under its final name: the second one next to the
\* first key of the same run, which every state has.
LEMMA RenameKeyStep ==
  ASSUME KeyInv, NEW p \in Procs, NEW r \in Roles, RenameFinal(p, r)
  PROVE  KeyInv'
<1>1. /\ At(p, "rename", r) /\ Goto(p, "directory_sync", r)
      /\ Rename(Temporary(r), Final(r))
      /\ UNCHANGED <<holder, pair, fd, published, loaded, runs>>
  BY DEF RenameFinal, RenameNoReplace
<1>2. "rename" \in PublishSteps /\ "directory_sync" \in PublishSteps BY DEF PublishSteps
<1>3. /\ Knows(p, "rename", r) /\ KeyTypeOK /\ DirectoryTypeOK /\ dir \in disk /\ FinalsInv /\ runs \in Nat
  BY <1>1, <1>2, Publisher
<1>4. Temporary(r) \in Names /\ Final(r) \in Names /\ Temporary(r) # Final(r) BY KeyNamesApart
<1>5. First \in Roles /\ Second \in Roles /\ First # Second /\ Roles = {First, Second} BY KeyNamesApart
<1>6. /\ fd[p] \in Inodes /\ dir[Temporary(r)] = fd[p] /\ dir[Final(r)] = NoFile
      /\ file[fd[p]].data = pair[p][r] /\ file[fd[p]].synced
      /\ pair[p] \in [Roles -> [key : Samples \ {Zero}, run : {runs}]] /\ runs > 0
      /\ loaded \cup published = {}
  BY <1>3 DEF Knows, Exists
<1>7. fd[p] # NoFile BY <1>6, DirectoryConstants
<1>8. file[fd[p]] = [data |-> pair[p][r], synced |-> TRUE]
  <2>1. file[fd[p]] \in [data : Data \cup {Partial}, synced : BOOLEAN] BY <1>3, <1>6 DEF DirectoryTypeOK
  <2> QED BY <1>6, <2>1
<1>9. /\ DirectoryTypeOK' /\ disk' = disk \cup {dir'} /\ file' = file
      /\ dir'[Final(r)] = fd[p] /\ dir'[Temporary(r)] = NoFile
      /\ \A m \in Names : m # Temporary(r) /\ m # Final(r) => dir'[m] = dir[m]
  BY <1>1, <1>3, <1>4, <1>6, Renamed
<1>10. \A x \in Roles : x # r => /\ dir'[Final(x)] = dir[Final(x)]
                                 /\ dir'[Temporary(x)] = dir[Temporary(x)]
  BY <1>5, <1>9, KeyNamesApart
<1>11. \A d \in disk : d[Final(r)] = NoFile BY <1>3, <1>6 DEF FinalsInv
<1>12. r = Second => /\ dir[Final(First)] # NoFile
                     /\ file[dir[Final(First)]] = [data |-> pair[p][First], synced |-> TRUE]
                     /\ \A d \in disk : d[Final(First)] # NoFile
                     /\ dir[Final(First)] # fd[p]
  <2>1. SUFFICES ASSUME r = Second
                 PROVE  /\ dir[Final(First)] # NoFile
                        /\ file[dir[Final(First)]] = [data |-> pair[p][First], synced |-> TRUE]
                        /\ \A d \in disk : d[Final(First)] # NoFile
                        /\ dir[Final(First)] # fd[p]
    OBVIOUS
  <2>2. InOrder(dir) BY <1>3 DEF FinalsInv
  <2> QED BY <1>3, <1>6, <1>7, <2>1, <2>2 DEF Knows, Holds, InOrder
<1>13. r = First => dir[Temporary(Second)] = NoFile /\ dir[Final(Second)] = NoFile
  BY <1>3 DEF Knows, Exists
<1>14. InOrder(dir')
  <2>1. CASE r = First
    <3>1. dir'[Temporary(Second)] = NoFile /\ dir'[Final(Second)] = NoFile
      BY <1>5, <1>10, <1>13, <2>1
    <3> QED BY <3>1 DEF InOrder
  <2>2. CASE r = Second
    <3>1. dir'[Final(First)] = dir[Final(First)] BY <1>5, <1>10, <2>2
    <3> QED BY <1>9, <1>12, <2>2, <3>1 DEF InOrder
  <2> QED BY <1>5, <2>1, <2>2
<1>15. FinalsInv'
  <2>1. (\A d \in disk : InOrder(d))'
    <3>1. \A d \in disk' : InOrder(d) BY <1>3, <1>9, <1>14 DEF FinalsInv
    <3> QED BY <3>1 DEF InOrder
  <2>2. \A d \in disk' : \A x \in Roles : d[Final(x)] # NoFile => d[Final(x)] = dir'[Final(x)]
    BY <1>3, <1>9, <1>10, <1>11 DEF FinalsInv
  <2>3. pair[p][r] \in [key : Samples \ {Zero}, run : 1..runs]
    <3>1. pair[p][r] \in [key : Samples \ {Zero}, run : {runs}] BY <1>6
    <3>2. runs \in 1..runs BY <1>3, <1>6
    <3> QED BY <3>1, <3>2
  <2>4. \A x \in Roles : dir'[Final(x)] # NoFile =>
          /\ file'[dir'[Final(x)]].synced
          /\ file'[dir'[Final(x)]].data \in [key : Samples \ {Zero}, run : 1..runs']
    <3>1. TAKE x \in Roles
    <3>2. CASE x = r BY <1>1, <1>6, <1>9, <2>3, <3>2
    <3>3. CASE x # r BY <1>1, <1>3, <1>9, <1>10, <3>3 DEF FinalsInv, Exists
    <3> QED BY <3>2, <3>3
  <2>5. dir'[Final(Second)] # NoFile =>
          /\ file'[dir'[Final(Second)]].data.run = file'[dir'[Final(First)]].data.run
          /\ \A d \in disk' : d[Final(First)] # NoFile
    <3>1. CASE r = First BY <1>5, <1>10, <1>13, <3>1
    <3>2. CASE r = Second
      <4>1. dir'[Final(First)] = dir[Final(First)] BY <1>5, <1>10, <3>2
      <4>2. pair[p][Second].run = runs /\ pair[p][First].run = runs BY <1>5, <1>6
      <4>3. file'[dir'[Final(Second)]].data = pair[p][Second] BY <1>6, <1>9, <3>2
      <4>4. file'[dir'[Final(First)]].data = pair[p][First] BY <1>9, <1>12, <3>2, <4>1
      <4>5. \A d \in disk' : d[Final(First)] # NoFile BY <1>9, <1>12, <3>2, <4>1
      <4> QED BY <4>2, <4>3, <4>4, <4>5
    <3> QED BY <1>5, <3>1, <3>2
  <2> QED BY <2>1, <2>2, <2>4, <2>5 DEF FinalsInv, Exists
<1>16. KnownInv' /\ PublishedIsDurable'
  BY <1>1, <1>6 DEF KnownInv, PublishedIsDurable
<1>17. Knows(p, "directory_sync", r)'
  <2>1. r = First => dir'[Temporary(Second)] = NoFile /\ dir'[Final(Second)] = NoFile
    BY <1>5, <1>10, <1>13
  <2>2. r = Second => /\ dir'[Final(First)] # NoFile
                      /\ file'[dir'[Final(First)]] = [data |-> pair[p][First], synced |-> TRUE]
                      /\ \A d \in disk' : d[Final(First)] # NoFile
    BY <1>5, <1>9, <1>10, <1>12
  <2>3. dir'[Final(r)] # NoFile /\ file'[dir'[Final(r)]] = [data |-> pair[p][r], synced |-> TRUE]
    BY <1>7, <1>8, <1>9
  <2> QED BY <1>1, <1>6, <2>1, <2>2, <2>3 DEF Knows, Exists, Holds
<1>18. fd' \in [Procs -> Inodes \cup {NoFile}] BY <1>1, <1>3 DEF KeyTypeOK
<1> QED BY <1>1, <1>2, <1>9, <1>15, <1>16, <1>17, <1>18, GoesOn

\* The fsync of the directory makes the first key every state's, and the second
\* the pair's.
LEMMA SyncRootKeyStep ==
  ASSUME KeyInv, NEW p \in Procs, NEW r \in Roles, KeyDirectorySync(p, r)
  PROVE  KeyInv'
<1>1. At(p, "directory_sync", r) /\ SyncDirectory /\ UNCHANGED <<runs, losses, loaded>>
  BY DEF KeyDirectorySync
<1>2. "directory_sync" \in PublishSteps /\ "create" \in PublishSteps BY DEF PublishSteps
<1>3. /\ Knows(p, "directory_sync", r) /\ KeyTypeOK /\ DirectoryTypeOK /\ dir \in disk
      /\ FinalsInv /\ runs \in Nat /\ holder = p /\ pc \in [Procs -> Points]
      /\ \A q \in Procs : q # p => pc[q] = Idle
  BY <1>1, <1>2, Publisher
<1>4. First \in Roles /\ Second \in Roles /\ First # Second /\ Roles = {First, Second} BY KeyNamesApart
<1>5. \A x \in Roles : Final(x) \in Names BY KeyNamesApart
<1>6. /\ DirectoryTypeOK' /\ dir' = dir /\ disk' = {dir}
      /\ \A n \in Names : dir[n] # NoFile => file'[dir[n]] = file[dir[n]]
  BY <1>1, <1>3, DirectorySynced
<1>7. FinalsStay BY <1>3, <1>5, <1>6 DEF FinalsStay, FinalsInv
<1>8. FinalsInv' BY <1>1, <1>3, <1>7, FinalsKept
<1>9. dir[Final(r)] # NoFile /\ file'[dir[Final(r)]] = [data |-> pair[p][r], synced |-> TRUE]
  BY <1>3, <1>5, <1>6 DEF Knows, Holds
<1>10. CASE r = First
  <2>1. Goto(p, "create", Second) /\ UNCHANGED <<holder, fd, pair, published>>
    BY <1>10 DEF KeyDirectorySync, First, Second
  <2>2. KnownInv' /\ PublishedIsDurable' BY <1>1, <1>7, <2>1, KnownKept
  <2>3. dir[Final(Second)] = NoFile BY <1>3, <1>10 DEF Knows, Exists
  <2>4. Knows(p, "create", Second)'
    BY <1>1, <1>3, <1>4, <1>6, <1>9, <1>10, <2>1, <2>3 DEF Knows, Exists, Holds
  <2>5. fd' \in [Procs -> Inodes \cup {NoFile}] BY <1>3, <2>1 DEF KeyTypeOK
  <2> QED BY <1>1, <1>2, <1>4, <1>6, <1>8, <2>1, <2>2, <2>4, <2>5, GoesOn
<1>11. CASE r = Second
  <2>1. Return(p) /\ published' = published \cup {pair[p]}
    BY <1>11 DEF KeyDirectorySync, Second
  <2>2. loaded = {} /\ published = {} BY <1>3 DEF Knows
  <2>3. published' = {pair[p]} /\ loaded' = {} BY <1>1, <2>1, <2>2
  <2>4. /\ fd \in [Procs -> Inodes \cup {NoFile}] /\ pair \in [Procs -> Pairs]
        /\ runs \in 0..MaxRuns /\ holder \in Procs \cup {Nobody}
    BY <1>3 DEF KeyTypeOK
  <2>5. Idle \in Points /\ NoKeys \in Pairs BY DEF Points, NoKeys, Pairs
  <2>6. pc' \in [Procs -> Points] /\ \A q \in Procs : pc'[q] = Idle
    BY <1>3, <2>1, <2>5 DEF Return
  <2>7. OneOwner' /\ PublisherInv' /\ ReaderInv' BY <2>6, NobodyMoves
  <2>8. fd' \in [Procs -> Inodes \cup {NoFile}] /\ pair' \in [Procs -> Pairs]
        /\ holder' \in Procs \cup {Nobody}
    BY <2>1, <2>4, <2>5 DEF Return
  <2>9. published' \subseteq Pairs /\ loaded' \subseteq Pairs BY <2>3, <2>4
  <2>10. KeyTypeOK' BY <1>1, <1>6, <2>4, <2>6, <2>8, <2>9 DEF KeyTypeOK
  <2>11. \A x \in Roles : dir[Final(x)] # NoFile
           /\ file'[dir[Final(x)]] = [data |-> pair[p][x], synced |-> TRUE]
    <3>1. dir[Final(First)] # NoFile
            /\ file[dir[Final(First)]] = [data |-> pair[p][First], synced |-> TRUE]
      BY <1>3, <1>11 DEF Knows, Holds
    <3>2. file'[dir[Final(First)]] = [data |-> pair[p][First], synced |-> TRUE]
      BY <1>4, <1>5, <1>6, <3>1
    <3> QED BY <1>4, <1>9, <1>11, <3>1, <3>2
  <2>12. KnownInv' /\ PublishedIsDurable'
    BY <1>4, <1>6, <2>3, <2>11 DEF KnownInv, PublishedIsDurable, Holds
  <2>13. OneIdentity' BY <2>3 DEF OneIdentity
  <2> QED BY <1>8, <2>7, <2>10, <2>12, <2>13 DEF KeyInv
<1> QED BY <1>4, <1>10, <1>11

\* A reader that found no temporaries goes on to read.
LEMMA PreflightStep ==
  ASSUME KeyInv, NEW p \in Procs, TemporaryPreflight(p)
  PROVE  KeyInv'
<1>1. /\ pc[p] = <<"temporaries", "none">> /\ pc' = [pc EXCEPT ![p] = <<"read", First>>]
      /\ dir' = dir /\ disk' = disk /\ file' = file
      /\ UNCHANGED <<holder, fd, pair, published, loaded, runs>>
  BY DEF TemporaryPreflight, At, Goto, fsVars, First
<1>2. KeyTypeOK /\ pc \in [Procs -> Points] /\ runs \in 0..MaxRuns BY DEF KeyInv, KeyTypeOK
<1>3. holder = p /\ \A q \in Procs : q # p => pc[q] = Idle BY <1>1, Alone DEF Idle
<1>4. First \in Roles /\ First # Second BY KeyNamesApart
<1>5. <<"read", First>> \in Points /\ "read" \notin PublishSteps BY <1>4 DEF Points, PublishSteps
<1>6. pc' \in [Procs -> Points] /\ OneOwner' /\ PublisherInv' /\ ReaderInv'
  BY <1>1, <1>2, <1>3, <1>4, <1>5, OneMoves
<1>7. FinalsStay /\ DirectoryTypeOK' BY <1>1, SameRoot
<1>8. KeyTypeOK' BY <1>1, <1>2, <1>6, <1>7 DEF KeyTypeOK
<1>9. runs' \in Nat /\ runs' >= runs BY <1>1, <1>2, KeyConstants
<1>10. FinalsInv' BY <1>7, <1>9, FinalsKept
<1>11. KnownInv' /\ PublishedIsDurable' /\ OneIdentity' BY <1>1, <1>7, KnownKept
<1> QED BY <1>6, <1>8, <1>10, <1>11 DEF KeyInv

\* A reader reads what the final entries say, so whoever read or published before
\* has the same pair.
LEMMA ReadStep ==
  ASSUME KeyInv, NEW p \in Procs, NEW r \in Roles, ReadFinal(p, r)
  PROVE  KeyInv'
<1> DEFINE key == file[dir[Final(r)]].data
           got == [pair[p] EXCEPT ![r] = key]
<1>1. /\ pc[p] = <<"read", r>> /\ dir[Final(r)] # NoFile
      /\ dir' = dir /\ disk' = disk /\ file' = file
      /\ UNCHANGED <<published, runs>>
  BY DEF ReadFinal, At, Exists, fsVars
<1>2. KeyTypeOK /\ DirectoryTypeOK /\ FinalsInv /\ dir \in disk BY DEF KeyInv, KeyTypeOK, DirectoryTypeOK
<1>3. /\ pc \in [Procs -> Points] /\ fd \in [Procs -> Inodes \cup {NoFile}] /\ pair \in [Procs -> Pairs]
      /\ runs \in 0..MaxRuns /\ holder \in Procs \cup {Nobody}
      /\ published \subseteq Pairs /\ loaded \subseteq Pairs
  BY <1>2 DEF KeyTypeOK
<1>4. holder = p /\ \A q \in Procs : q # p => pc[q] = Idle BY <1>1, Alone DEF Idle
<1>5. First \in Roles /\ Second \in Roles /\ First # Second /\ Roles = {First, Second} BY KeyNamesApart
<1>6. FinalsStay /\ DirectoryTypeOK' BY <1>1, SameRoot
<1>7. runs' \in Nat /\ runs' >= runs BY <1>1, <1>3, KeyConstants
<1>8. FinalsInv' BY <1>6, <1>7, FinalsKept
<1>9. key \in RunKeys
  <2>1. key \in [key : Samples \ {Zero}, run : 1..runs] BY <1>1, <1>2 DEF FinalsInv, Exists
  <2>2. 1..runs \subseteq 1..MaxRuns BY <1>3, KeyConstants
  <2> HIDE DEF key
  <2> QED BY <2>1, <2>2 DEF RunKeys
<1> HIDE DEF key
<1>10. pair[p] \in Pairs BY <1>3
<1>11. got \in Pairs /\ got[r] = key /\ \A x \in Roles : x # r => got[x] = pair[p][x]
  BY <1>9, <1>10 DEF Pairs
<1> HIDE DEF got
<1>12. CASE r = First
  <2>1. pair' = [pair EXCEPT ![p] = got] /\ pc' = [pc EXCEPT ![p] = <<"read", Second>>]
        /\ UNCHANGED <<holder, fd, loaded>>
    BY <1>12 DEF ReadFinal, Goto, First, Second, got, key
  <2>2. pair' \in [Procs -> Pairs] /\ pair'[p] = got BY <1>3, <1>11, <2>1
  <2>3. dir'[Final(First)] # NoFile /\ pair'[p][First] = file'[dir'[Final(First)]].data
    BY <1>1, <1>11, <1>12, <2>2 DEF key
  <2>4. <<"read", Second>> \in Points /\ "read" \notin PublishSteps BY <1>5 DEF Points, PublishSteps
  <2>5. holder' = p BY <1>4, <2>1
  <2>6. pc' \in [Procs -> Points] /\ OneOwner' /\ PublisherInv' /\ ReaderInv'
    BY <1>3, <1>4, <2>1, <2>3, <2>4, <2>5, OneMoves
  <2>7. KeyTypeOK' BY <1>1, <1>3, <1>6, <2>1, <2>2, <2>6 DEF KeyTypeOK
  <2>8. KnownInv' /\ PublishedIsDurable' /\ OneIdentity' BY <1>1, <1>6, <2>1, KnownKept
  <2> QED BY <1>8, <2>6, <2>7, <2>8 DEF KeyInv
<1>13. CASE r = Second
  <2>1. loaded' = loaded \cup {got} /\ Return(p)
    BY <1>13, <1>5 DEF ReadFinal, First, Second, got, key
  <2>2. Idle \in Points /\ NoKeys \in Pairs BY DEF Points, NoKeys, Pairs
  <2>3. pc' \in [Procs -> Points] /\ \A q \in Procs : pc'[q] = Idle
    BY <1>3, <1>4, <2>1, <2>2 DEF Return
  <2>4. OneOwner' /\ PublisherInv' /\ ReaderInv' BY <2>3, NobodyMoves
  <2>5. fd' \in [Procs -> Inodes \cup {NoFile}] /\ pair' \in [Procs -> Pairs]
        /\ holder' \in Procs \cup {Nobody}
    BY <1>3, <2>1, <2>2 DEF Return
  <2>6. loaded' \subseteq Pairs BY <1>3, <1>11, <2>1
  <2>7. KeyTypeOK' BY <1>1, <1>3, <1>6, <2>3, <2>5, <2>6 DEF KeyTypeOK
  <2>8. dir[Final(First)] # NoFile /\ got[First] = file[dir[Final(First)]].data
        /\ got[Second] = file[dir[Final(Second)]].data
    <3>1. dir[Final(First)] # NoFile /\ pair[p][First] = file[dir[Final(First)]].data
      BY <1>1, <1>13 DEF KeyInv, ReaderInv, At, Exists
    <3> QED BY <1>5, <1>11, <1>13, <3>1 DEF key
  <2>9. \A x \in Roles : dir[Final(x)] # NoFile => 
           file[dir[Final(x)]] = [data |-> file[dir[Final(x)]].data, synced |-> TRUE]
    <3>1. TAKE x \in Roles
    <3>2. HAVE dir[Final(x)] # NoFile
    <3>3. Final(x) \in Names BY KeyNamesApart
    <3>4. dir[Final(x)] \in Inodes BY <1>2, <3>2, <3>3 DEF DirectoryTypeOK
    <3>5. file[dir[Final(x)]] \in [data : Data \cup {Partial}, synced : BOOLEAN]
      BY <1>2, <3>4 DEF DirectoryTypeOK
    <3>6. file[dir[Final(x)]].synced BY <1>2, <3>2 DEF FinalsInv, Exists
    <3> QED BY <3>5, <3>6
  <2>10. Says(got, disk, file)
    <3>1. SUFFICES ASSUME NEW d \in disk
                   PROVE  /\ d[Final(First)] # NoFile
                          /\ file[d[Final(First)]] = [data |-> got[First], synced |-> TRUE]
                          /\ d[Final(Second)] # NoFile =>
                               file[d[Final(Second)]] = [data |-> got[Second], synced |-> TRUE]
      BY DEF Says
    <3>2. d[Final(First)] # NoFile BY <1>1, <1>2, <1>13 DEF FinalsInv, Exists
    <3>3. d[Final(First)] = dir[Final(First)] BY <1>2, <1>5, <3>2 DEF FinalsInv
    <3>4. d[Final(Second)] # NoFile => d[Final(Second)] = dir[Final(Second)]
      BY <1>2, <1>5 DEF FinalsInv
    <3> QED BY <1>1, <1>5, <1>13, <2>8, <2>9, <3>2, <3>3, <3>4
  <2>11. \A keys \in loaded \cup published : Says(keys, disk, file) BY KnownSays DEF KeyInv
  <2>12. \A keys \in loaded \cup published : keys = got
    <3>1. TAKE keys \in loaded \cup published
    <3>2. Says(keys, disk, file) /\ keys \in Pairs BY <1>3, <2>11
    <3>3. file[dir[Final(First)]].data = keys[First] /\ file[dir[Final(Second)]].data = keys[Second]
      BY <1>1, <1>2, <1>13, <3>2 DEF Says
    <3>4. \A x \in Roles : keys[x] = got[x] BY <1>5, <2>8, <3>3
    <3> QED BY <1>11, <3>2, <3>4 DEF Pairs
  <2>13. \A keys \in loaded' \cup published' : Says(keys, disk', file')
    BY <1>1, <2>1, <2>10, <2>11
  <2>14. KnownInv' BY <2>13 DEF KnownInv, Says, Holds
  <2>15. PublishedIsDurable' BY <1>1 DEF KeyInv, PublishedIsDurable, Holds
  <2>16. OneIdentity' BY <1>1, <2>1, <2>12 DEF OneIdentity
  <2> QED BY <1>8, <2>4, <2>7, <2>14, <2>15, <2>16 DEF KeyInv
<1> QED BY <1>5, <1>12, <1>13

\* A call that fails or is killed leaves everything where it is.
LEMMA GiveUpKeyStep ==
  ASSUME KeyInv, NEW p \in Procs, KeyGiveUp(p)
  PROVE  KeyInv'
<1>1. /\ pc[p] # Idle /\ Return(p) /\ dir' = dir /\ disk' = disk /\ file' = file
      /\ UNCHANGED <<published, loaded, runs>>
  BY DEF KeyGiveUp, fsVars
<1>2. \A q \in Procs : q # p => pc[q] = Idle BY <1>1, Alone
<1>3. FinalsStay /\ DirectoryTypeOK' BY <1>1, SameRoot
<1> QED BY <1>1, <1>2, <1>3, Ended

\* A power loss leaves one of the states, whose final entries were synced.
LEMMA PowerLossKeyStep ==
  ASSUME KeyInv, KeyPowerLoss
  PROVE  KeyInv'
<1>1. /\ LosePower /\ holder' = Nobody /\ pc' = [p \in Procs |-> Idle]
      /\ fd' = [p \in Procs |-> NoFile] /\ pair' = [p \in Procs |-> NoKeys]
      /\ UNCHANGED <<published, loaded, runs>>
  BY DEF KeyPowerLoss
<1>2. KeyTypeOK /\ DirectoryTypeOK /\ FinalsInv /\ runs \in 0..MaxRuns BY DEF KeyInv, KeyTypeOK
<1>3. /\ DirectoryTypeOK' /\ dir' \in disk /\ disk' = {dir'}
      /\ \A n \in Names : dir'[n] # NoFile /\ file[dir'[n]].synced => file'[dir'[n]] = file[dir'[n]]
  BY <1>1, <1>2, PowerLost
<1>4. FinalsStay
  <2>1. \A r \in Roles : dir'[Final(r)] # NoFile => file'[dir'[Final(r)]] = file[dir'[Final(r)]]
    <3>1. TAKE r \in Roles
    <3>2. HAVE dir'[Final(r)] # NoFile
    <3>3. dir'[Final(r)] = dir[Final(r)] BY <1>2, <1>3, <3>2 DEF FinalsInv
    <3>4. file[dir'[Final(r)]].synced BY <1>2, <3>2, <3>3 DEF FinalsInv, Exists
    <3>5. Final(r) \in Names BY KeyNamesApart
    <3> QED BY <1>3, <3>2, <3>4, <3>5
  <2>2. InOrder(dir') BY <1>2, <1>3 DEF FinalsInv
  <2> QED BY <1>3, <2>1, <2>2 DEF FinalsStay
<1>5. runs' \in Nat /\ runs' >= runs BY <1>1, <1>2, KeyConstants
<1>6. FinalsInv' BY <1>4, <1>5, FinalsKept
<1>7. KnownInv' /\ PublishedIsDurable' /\ OneIdentity' BY <1>1, <1>4, KnownKept
<1>8. Idle \in Points /\ NoKeys \in Pairs BY DEF Points, NoKeys, Pairs
<1>9. /\ pc' \in [Procs -> Points] /\ \A q \in Procs : pc'[q] = Idle
      /\ fd' \in [Procs -> Inodes \cup {NoFile}] /\ pair' \in [Procs -> Pairs]
  BY <1>1, <1>8
<1>10. OneOwner' /\ PublisherInv' /\ ReaderInv' BY <1>9, NobodyMoves
<1>11. KeyTypeOK' BY <1>1, <1>2, <1>3, <1>9 DEF KeyTypeOK
<1> QED BY <1>6, <1>7, <1>10, <1>11 DEF KeyInv

\* A step that changes nothing keeps everything.
LEMMA KeyStutter ==
  ASSUME KeyInv, UNCHANGED keyVars
  PROVE  KeyInv'
<1>1. /\ dir' = dir /\ disk' = disk /\ file' = file
      /\ UNCHANGED <<holder, pc, fd, pair, published, loaded, runs>>
  BY DEF keyVars, fsVars, procVars
<1>2. FinalsStay /\ DirectoryTypeOK' BY <1>1, SameRoot
<1>3. KeyTypeOK /\ runs \in 0..MaxRuns BY DEF KeyInv, KeyTypeOK
<1>4. runs' \in Nat /\ runs' >= runs BY <1>1, <1>3, KeyConstants
<1>5. FinalsInv' BY <1>2, <1>4, FinalsKept
<1>6. KnownInv' /\ PublishedIsDurable' /\ OneIdentity' BY <1>1, <1>2, KnownKept
<1>7. KeyTypeOK' BY <1>1, <1>2, <1>3 DEF KeyTypeOK
<1>8. OneOwner' BY <1>1 DEF KeyInv, OneOwner
<1>9. ReaderInv' BY <1>1 DEF KeyInv, ReaderInv, At, Exists
<1>10. PublisherInv' BY <1>1 DEF KeyInv, PublisherInv, At, Knows, Exists, Holds
<1> QED BY <1>5, <1>6, <1>7, <1>8, <1>9, <1>10 DEF KeyInv

\* Every step of publishing and loading preserves the inductive invariant.
LEMMA KeyStep ==
  ASSUME KeyInv, [KeyNext]_keyVars
  PROVE  KeyInv'
<1>1. ASSUME NEW p \in Procs, Begin(p) \/ Sample(p) \/ TemporaryPreflight(p) \/ KeyGiveUp(p)
      PROVE  KeyInv'
  BY <1>1, BeginStep, SampleStep, PreflightStep, GiveUpKeyStep
<1>2. ASSUME NEW p \in Procs, NEW r \in Roles,
             \/ Create(p, r) \/ Write(p, r) \/ KeyFileSync(p, r)
             \/ RenameFinal(p, r) \/ KeyDirectorySync(p, r) \/ ReadFinal(p, r)
      PROVE  KeyInv'
  BY <1>2, CreateKeyStep, WriteKeyStep, SyncKeyStep, RenameKeyStep, SyncRootKeyStep, ReadStep
<1> QED BY <1>1, <1>2, PowerLossKeyStep, KeyStutter DEF KeyNext

\* An empty root has no identity yet.
LEMMA KeyStart == ASSUME KeyInit PROVE KeyInv
<1>1. FsInit /\ holder = Nobody BY DEF KeyInit, FsInit
<1>2. DirectoryTypeOK /\ (\A d \in disk : \A n \in Names : d[n] = NoFile) /\ dir \in disk
  BY <1>1, EmptyDirectory DEF DirectoryTypeOK
<1>3. \A d \in disk : \A r \in Roles : d[Final(r)] = NoFile /\ d[Temporary(r)] = NoFile
  BY <1>2, KeyNamesApart
<1>4. First \in Roles /\ Second \in Roles BY KeyNamesApart
<1>5. Idle \in Points /\ NoKeys \in Pairs /\ 0 \in 0..MaxRuns
  BY KeyConstants DEF Points, NoKeys, Pairs
<1>6. KeyTypeOK BY <1>1, <1>2, <1>5 DEF KeyInit, KeyTypeOK
<1>7. \A p \in Procs : pc[p] = Idle BY DEF KeyInit
<1>8. OneOwner BY <1>7 DEF OneOwner
<1>9. \A t \in PublishSteps : t # "idle" BY DEF PublishSteps
<1>10. PublisherInv /\ ReaderInv BY <1>7, <1>9 DEF PublisherInv, ReaderInv, At, Idle
<1>11. FinalsInv BY <1>2, <1>3, <1>4 DEF FinalsInv, InOrder, Exists
<1>12. KnownInv /\ PublishedIsDurable /\ OneIdentity
  BY DEF KeyInit, KnownInv, PublishedIsDurable, OneIdentity
<1> QED BY <1>6, <1>8, <1>10, <1>11, <1>12 DEF KeyInv

\* Two final entries are keys of one run, since both are the running system's.
LEMMA KeyCoherent == ASSUME KeyInv PROVE KeyPairSafety
<1>1. FinalsInv /\ runs \in Nat BY KeyConstants DEF KeyInv, KeyTypeOK
<1>2. First \in Roles /\ Second \in Roles /\ Roles = {First, Second} BY KeyNamesApart
<1>3. ASSUME NEW d \in disk, \A r \in Roles : d[Final(r)] # NoFile
      PROVE  \E n \in 1..runs : \A r \in Roles :
               /\ file[d[Final(r)]].synced
               /\ file[d[Final(r)]].data \in [key : Samples \ {Zero}, run : {n}]
  <2>1. \A r \in Roles : d[Final(r)] = dir[Final(r)] /\ dir[Final(r)] # NoFile
    BY <1>1, <1>3 DEF FinalsInv
  <2>2. \A r \in Roles : /\ file[d[Final(r)]].synced
                         /\ file[d[Final(r)]].data \in [key : Samples \ {Zero}, run : 1..runs]
    BY <1>1, <2>1 DEF FinalsInv, Exists
  <2>3. file[d[Final(Second)]].data.run = file[d[Final(First)]].data.run
    BY <1>1, <1>2, <2>1 DEF FinalsInv, Exists
  <2> DEFINE n == file[d[Final(First)]].data.run
  <2>4. n \in 1..runs BY <1>2, <2>2
  <2>5. \A r \in Roles : file[d[Final(r)]].data.run = n BY <1>2, <2>3
  <2> HIDE DEF n
  <2>6. \A r \in Roles : file[d[Final(r)]].data \in [key : Samples \ {Zero}, run : {n}]
    BY <2>2, <2>5
  <2> QED BY <2>2, <2>4, <2>6
<1>4. FinalsCoherent BY <1>3 DEF FinalsCoherent
<1> QED BY <1>4 DEF KeyPairSafety, KeyInv

\* A root has one identity: two coherent keys in whatever state a power loss
\* leaves, a publication that answered Ok never lost, and one pair for all who
\* ever loaded or published it (KeyPairSafety).
THEOREM KeyPair == KeySpec => []KeyPairSafety
<1>1. KeyInit => KeyInv BY KeyStart
<1>2. KeyInv /\ [KeyNext]_keyVars => KeyInv' BY KeyStep
<1>3. KeyInv => KeyPairSafety BY KeyCoherent
<1> QED BY <1>1, <1>2, <1>3, PTL DEF KeySpec

-----------------------------------------------------------------------------
(***************************************************************************)
(* The control journal: no publication, failure or power loss loses what   *)
(* was answered Ok, and nothing else is put in its place.                  *)
(***************************************************************************)
\* What a whole image is known to be,
LEMMA WholeReplays ==
  ASSUME NEW image, Whole(image)
  PROVE  /\ image \in Data /\ ImageShape(image) /\ image.high_water \in Nat
         /\ Decoded(image) = replay_tail(image) /\ Decoded(image) # Invalid
         /\ CheckpointShape(Decoded(image)) /\ Decoded(image).generation = image.checkpoint.generation
  <1>1. image # Partial
    BY DirectoryConstants DEF Whole
  <1>2. QED BY <1>1 DEF Whole, Decoded

\* and when an image is whole.
LEMMA WholeIfReplays ==
  ASSUME NEW image \in Data, ImageShape(image), image.high_water \in Nat,
         NEW projection, projection = replay_tail(image), projection # Invalid,
         CheckpointShape(projection), projection.generation = image.checkpoint.generation
  PROVE  Whole(image) /\ Decoded(image) = projection
  <1>1. image # Partial
    BY DirectoryConstants
  <1>2. Decoded(image) = projection
    BY <1>1 DEF Decoded
  <1>3. QED BY <1>2 DEF Whole

\* What a writer computes from a whole image, a clock record or a fold of a new
\* authority, is whole again and its projection is what its image replays to.
LEMMA ComputedIsWhole ==
  ASSUME NEW image, Whole(image), NEW next \in NextImages(image, Decoded(image)) \ {Invalid},
         next.image \in Data
  PROVE  Whole(next.image) /\ next.projection = Decoded(next.image)
  <1> DEFINE projection == Decoded(image)
             clock == projection.clock
             body(wall) == ClockBody(IF clock.hold = Absent THEN "Periodic" ELSE "AutomaticSettlement",
                                     wall, clock.safe_time, clock.hold, Absent)
             authorities == {clock} \cup {[clock EXCEPT !.hold = Hold(g, "observed")] : g \in 1..HoldLimit}
  <1>1. /\ ImageShape(image) /\ image.high_water \in Nat /\ projection = replay_tail(image)
        /\ projection # Invalid /\ CheckpointShape(projection)
        /\ projection.generation = image.checkpoint.generation
    BY WholeReplays
  <1>2. \/ \E wall \in Times : next = append_clock_checkpoint(image, projection, body(wall))
        \/ \E authority \in authorities :
             next = publish_addressed_authority(image, projection, authority, "process")
    BY DEF NextImages
  <1> HIDE DEF projection
  <1>3. ASSUME NEW wall \in Times, next = append_clock_checkpoint(image, projection, body(wall))
        PROVE  Whole(next.image) /\ next.projection = Decoded(next.image)
    <2> DEFINE record == body(wall)
               replayed == ReplayRecord(projection, record)
               folded == [replayed EXCEPT !.generation = @ + 1]
    <2>1. record.kind = "clock" /\ record.new_safe_time \in Int
      BY <1>1, PublicationConstants DEF ClockBody, MaxTime, CheckpointShape
    <2> HIDE DEF record
    <2>2. replayed # Invalid /\ next = Appended(image, projection, record, replayed)
      BY <1>3 DEF append_clock_checkpoint, record
    <2>3. CheckpointShape(replayed) /\ replayed.generation = projection.generation
      BY <1>1, <2>1, <2>2, ClockReplayed
    <2> HIDE DEF replayed
    <2>4. /\ ImageShape(next.image) /\ replay_tail(next.image) = next.projection /\ next.projection # Invalid
          /\ next.image.high_water = image.high_water
          /\ \/ next.projection = replayed /\ next.image.checkpoint = image.checkpoint
             \/ next.projection = folded /\ next.image.checkpoint = folded
      BY <1>1, <2>2, AppendReplays DEF replayed
    <2>5. CheckpointShape(folded)
      BY <2>3, FoldedShape
    <2> HIDE DEF folded
    <2>6. CheckpointShape(next.projection) /\ next.projection.generation = next.image.checkpoint.generation
      BY <1>1, <2>3, <2>4, <2>5
    <2>7. QED BY <1>1, <2>4, <2>6, WholeIfReplays
  <1>4. ASSUME NEW authority \in authorities,
               next = publish_addressed_authority(image, projection, authority, "process")
        PROVE  Whole(next.image) /\ next.projection = Decoded(next.image)
    <2>1. DOMAIN authority = {"safe_time", "hold", "last_shutdown"} /\ authority.safe_time \in Int
      BY <1>1 DEF CheckpointShape
    <2> HIDE DEF authorities
    <2>2. PICK ack, shutdown :
            next = Checkpointed(image.high_water,
                     [projection EXCEPT !.clock = authority, !.cells["ack"].last = ack,
                                        !.cells["shutdown"].last = shutdown])
      BY <1>4 DEF publish_addressed_authority
    <2> DEFINE entered == [projection EXCEPT !.clock = authority, !.cells["ack"].last = ack,
                                             !.cells["shutdown"].last = shutdown]
               folded == [entered EXCEPT !.generation = @ + 1]
    <2>3. CheckpointShape(entered)
      BY <1>1, <2>1 DEF CheckpointShape
    <2> HIDE DEF entered
    <2>4. next = Checkpointed(image.high_water, entered)
      BY <2>2 DEF entered
    <2>5. /\ next.image = Image(image.high_water, folded, <<>>) /\ next.projection = folded
          /\ ImageShape(next.image) /\ replay_tail(next.image) = folded /\ folded # Invalid
      BY <2>4, FoldReplays
    <2>6. CheckpointShape(folded)
      BY <2>3, FoldedShape
    <2> HIDE DEF folded
    <2>7. next.image.high_water \in Nat /\ next.image.checkpoint = folded
      BY <1>1, <2>5 DEF Image
    <2>8. QED BY <2>5, <2>6, <2>7, WholeIfReplays
  <1>5. QED BY <1>2, <1>3, <1>4

\* The first image is whole.
LEMMA GenesisIsWhole == Whole(GenesisImage) /\ Decoded(GenesisImage) = GenesisCheckpoint(0)
  <1>1. /\ ImageShape(GenesisImage) /\ GenesisImage.high_water = 0
        /\ GenesisImage.checkpoint = GenesisCheckpoint(0)
        /\ replay_tail(GenesisImage) = GenesisCheckpoint(0)
        /\ CheckpointShape(GenesisCheckpoint(0)) /\ validate_checkpoint(GenesisCheckpoint(0))
    BY GenesisReplays DEF GenesisImage
  <1>2. GenesisCheckpoint(0) # Invalid
    BY <1>1, ValidIsAccepted
  <1>3. QED BY <1>1, <1>2, GenesisIsData, WholeIfReplays

-----------------------------------------------------------------------------
\* The journal's file: one lemma per step of its publication.

\* The names a publication uses exist, and no temporary is the journal.
LEMMA JournalNamesApart ==
  /\ JOURNAL_NAME \in Names /\ Temporaries \subseteq Names
  /\ \A n \in Temporaries : n # JOURNAL_NAME
  /\ \A n \in JournalNames : n \in Names
  BY PublicationConstants DEF JournalNames

\* unlinkat: one entry less.
LEMMA Unlinked ==
  ASSUME DirectoryTypeOK, NEW n \in Names, Unlink(n)
  PROVE  /\ DirectoryTypeOK' /\ disk' = disk \cup {dir'} /\ file' = file
         /\ \A m \in Names : m # n => dir'[m] = dir[m]
  <1>1. dir \in disk /\ dir \in [Names -> Inodes \cup {NoFile}]
    BY DEF DirectoryTypeOK
  <1>2. dir' = [dir EXCEPT ![n] = NoFile] /\ disk' = disk \cup {dir'} /\ file' = file
    BY DEF Unlink, Change
  <1>3. dir' \in [Names -> Inodes \cup {NoFile}] /\ \A m \in Names : m # n => dir'[m] = dir[m]
    BY <1>1, <1>2
  <1>4. QED BY <1>2, <1>3 DEF DirectoryTypeOK

\* The journal of every state is one that was there before.
JournalKept ==
  \A d \in disk' : \E e \in disk :
    /\ d[JOURNAL_NAME] = e[JOURNAL_NAME]
    /\ e[JOURNAL_NAME] # NoFile => file'[e[JOURNAL_NAME]] = file[e[JOURNAL_NAME]]

\* Then every state's journal still is whole and no older.
LEMMA KeptIsWhole ==
  ASSUME JournalInv, JournalKept, acked' = acked
  PROVE  DiskWhole' /\ AckedNeverRollsBack'
  <1>1. ASSUME NEW d \in disk', d[JOURNAL_NAME] # NoFile
        PROVE  \E e \in disk : /\ e[JOURNAL_NAME] # NoFile
                               /\ file'[d[JOURNAL_NAME]] = file[e[JOURNAL_NAME]]
                               /\ file'[d[JOURNAL_NAME]].data = Selected(e)
    BY <1>1 DEF JournalKept, Selected
  <1>2. \A d \in disk' : d[JOURNAL_NAME] # NoFile => Selected(d)' = file'[d[JOURNAL_NAME]].data
    BY DEF Selected
  <1>3. DiskWhole'
    <2>1. ASSUME NEW d \in disk', d[JOURNAL_NAME] # NoFile
          PROVE  file'[d[JOURNAL_NAME]].synced /\ Whole(file'[d[JOURNAL_NAME]].data)
      BY <1>1, <2>1 DEF JournalInv, DiskWhole
    <2>2. QED BY <1>2, <2>1 DEF DiskWhole
  <1>4. AckedNeverRollsBack'
    <2>1. SUFFICES ASSUME acked # Absent, NEW d \in disk'
                   PROVE  /\ d[JOURNAL_NAME] # NoFile
                          /\ LET now == Decoded(Selected(d)') IN
                             /\ now.generation >= acked.generation
                             /\ now.covered_head.sequence >= acked.covered_head.sequence
                             /\ now.covered_head.sequence = acked.covered_head.sequence
                                => now.covered_head = acked.covered_head
                             /\ now.clock.safe_time >= acked.clock.safe_time
      BY DEF AckedNeverRollsBack
    <2>2. d[JOURNAL_NAME] # NoFile
      BY <2>1 DEF JournalKept, JournalInv, AckedNeverRollsBack
    <2>3. PICK e \in disk : Selected(d)' = Selected(e)
      BY <1>1, <1>2, <2>2
    <2>4. QED BY <2>1, <2>2, <2>3 DEF JournalInv, AckedNeverRollsBack
  <1>5. QED BY <1>3, <1>4

\* A step that makes no system call keeps every journal.
LEMMA SameDirectory ==
  ASSUME UNCHANGED fsVars
  PROVE  JournalKept /\ dir' = dir /\ disk' = disk /\ file' = file
  BY DEF JournalKept, fsVars

\* Nothing a publication knows changes while directory, call and its image stay.
LEMMA KnowledgeKept ==
  ASSUME JournalInv, UNCHANGED fsVars, UNCHANGED callVars,
         holder # Nobody => memory'[holder] = memory[holder]
  PROVE  TemporaryKnown' /\ Forward'
  <1>1. dir' = dir /\ disk' = disk /\ file' = file /\ holder' = holder /\ step' = step /\ temp' = temp
    BY DEF fsVars, callVars
  <1>2. step # "none" => publishing' = publishing /\ memory'[holder] = memory[holder]
    BY <1>1 DEF JournalInv, PublicationTypeOK, publishing
  <1>3. Selected(dir)' = Selected(dir)
    BY <1>1 DEF Selected
  <1>4. TemporaryKnown'
    BY <1>1, <1>2 DEF JournalInv, TemporaryKnown
  <1>5. Forward'
    BY <1>1, <1>2, <1>3 DEF JournalInv, Forward, Barriers
  <1>6. QED BY <1>4, <1>5

\* Between publications there is nothing to know.
LEMMA ReleasedKnows ==
  ASSUME Released PROVE TemporaryKnown' /\ Forward'
  BY DEF Released, TemporaryKnown, Forward, Barriers

\* One writer's memory changes, not the publisher's.
LEMMA MemoryStep ==
  ASSUME JournalInv, NEW w \in Writers, w # holder, NEW next, memory' = [memory EXCEPT ![w] = next],
         next # Absent => Whole(next.image) /\ next.projection = Decoded(next.image),
         UNCHANGED <<fsVars, callVars, acked, losses>>
  PROVE  JournalInv'
  <1>1. /\ dir' = dir /\ disk' = disk /\ file' = file /\ UNCHANGED fsVars /\ UNCHANGED callVars
        /\ holder' = holder /\ step' = step /\ temp' = temp /\ acked' = acked /\ losses' = losses
    BY DEF fsVars, callVars
  <1>2. /\ DOMAIN memory' = Writers /\ memory'[w] = next
        /\ \A v \in Writers : v # w => memory'[v] = memory[v]
    BY DEF JournalInv, PublicationTypeOK
  <1>3. holder # Nobody => memory'[holder] = memory[holder]
    BY <1>2 DEF JournalInv, PublicationTypeOK
  <1>4. TemporaryKnown' /\ Forward'
    BY <1>1, <1>3, KnowledgeKept
  <1>5. DiskWhole' /\ AckedNeverRollsBack'
    BY <1>1, SameDirectory, KeptIsWhole
  <1>6. MemoryWhole'
    BY <1>2 DEF JournalInv, MemoryWhole
  <1>7. DirectoryTypeOK'
    BY <1>1 DEF JournalInv, PublicationTypeOK, DirectoryTypeOK
  <1>8. PublicationTypeOK'
    BY <1>1, <1>2, <1>3, <1>7 DEF JournalInv, PublicationTypeOK
  <1>9. QED BY <1>4, <1>5, <1>6, <1>8 DEF JournalInv

\* The first image of a root enters a writer's memory.
LEMMA InitializeStep ==
  ASSUME JournalInv, NEW w \in Writers, Initialize(w) PROVE JournalInv'
  <1> DEFINE next == [image |-> GenesisImage, projection |-> GenesisCheckpoint(0)]
  <1>1. /\ memory[w] = Absent /\ memory' = [memory EXCEPT ![w] = next]
        /\ UNCHANGED <<fsVars, callVars, acked, losses>>
    BY DEF Initialize
  <1>2. w # holder
    BY <1>1, PublicationConstants DEF JournalInv, PublicationTypeOK
  <1>3. Whole(next.image) /\ next.projection = Decoded(next.image)
    BY GenesisIsWhole
  <1> HIDE DEF next
  <1>4. QED BY <1>1, <1>2, <1>3, MemoryStep

\* reopen_control_journal_image: what the directory holds replays, so it enters whole.
LEMMA ReopenStep ==
  ASSUME JournalInv, NEW w \in Writers, reopen_control_journal_image(w) PROVE JournalInv'
  <1> DEFINE next == [image |-> Selected(dir), projection |-> Decoded(Selected(dir))]
  <1>1. /\ holder = Nobody /\ dir[JOURNAL_NAME] # NoFile /\ memory' = [memory EXCEPT ![w] = next]
        /\ UNCHANGED <<fsVars, callVars, acked, losses>>
    BY DEF reopen_control_journal_image, Exists
  <1>2. w # holder
    BY <1>1, PublicationConstants
  <1>3. Whole(Selected(dir))
    BY <1>1 DEF JournalInv, PublicationTypeOK, DirectoryTypeOK, DiskWhole
  <1>4. Whole(next.image) /\ next.projection = Decoded(next.image)
    BY <1>3
  <1> HIDE DEF next
  <1>5. QED BY <1>1, <1>2, <1>4, MemoryStep

\* A handle computes its next image from the one it holds.
LEMMA ComputeStep ==
  ASSUME JournalInv, NEW w \in Writers, Compute(w) PROVE JournalInv'
  <1>1. PICK next \in NextImages(memory[w].image, memory[w].projection) \ {Invalid} :
          next.image \in Data /\ memory' = [memory EXCEPT ![w] = next]
    BY DEF Compute
  <1>2. memory[w] # Absent /\ w # holder /\ UNCHANGED <<fsVars, callVars, acked, losses>>
    BY DEF Compute
  <1>3. Whole(memory[w].image) /\ memory[w].projection = Decoded(memory[w].image)
    BY <1>2 DEF JournalInv, MemoryWhole
  <1>4. Whole(next.image) /\ next.projection = Decoded(next.image)
    BY <1>1, <1>3, ComputedIsWhole
  <1>5. QED BY <1>1, <1>2, <1>4, MemoryStep

\* A publication starts on an image that was compared with the journal.
LEMMA PublishStep ==
  ASSUME JournalInv, NEW w \in Writers, Publish(w) PROVE JournalInv'
  <1>1. /\ memory[w] # Absent /\ holder' = w /\ step' = "create" /\ temp' = temp /\ memory' = memory
        /\ acked' = acked /\ losses' = losses /\ UNCHANGED fsVars
        /\ dir' = dir /\ disk' = disk /\ file' = file
    BY DEF Publish, fsVars
  <1>2. dir[JOURNAL_NAME] # NoFile =>
          NoRollback(Selected(dir), Decoded(Selected(dir)), memory[w].image, memory[w].projection)
    BY DEF Publish, Exists
  <1>3. Selected(dir)' = Selected(dir) /\ publishing' = memory[w].image
    BY <1>1 DEF Selected, publishing
  <1>4. TemporaryKnown' /\ Forward'
    BY <1>1, <1>2, <1>3 DEF TemporaryKnown, Forward
  <1>5. DiskWhole' /\ AckedNeverRollsBack'
    BY <1>1, SameDirectory, KeptIsWhole
  <1>6. MemoryWhole'
    BY <1>1 DEF JournalInv, MemoryWhole
  <1>7. DirectoryTypeOK'
    BY <1>1 DEF JournalInv, PublicationTypeOK, DirectoryTypeOK
  <1>8. PublicationTypeOK'
    BY <1>1, <1>7, PublicationConstants DEF JournalInv, PublicationTypeOK, Barriers
  <1>9. QED BY <1>4, <1>5, <1>6, <1>8 DEF JournalInv

\* What a publication has: a whole image of its holder.
LEMMA HolderKnows ==
  ASSUME JournalInv, step # "none"
  PROVE  /\ holder \in Writers /\ holder # Nobody
         /\ Whole(publishing) /\ publishing \in Data
         /\ memory[holder].projection = Decoded(publishing)
  <1>1. holder \in Writers /\ holder # Nobody /\ memory[holder] # Absent
    BY DEF JournalInv, PublicationTypeOK
  <1>2. Whole(publishing) /\ memory[holder].projection = Decoded(publishing)
    BY <1>1 DEF JournalInv, MemoryWhole, publishing
  <1>3. QED BY <1>1, <1>2 DEF Whole

\* A step of the publication that leaves every journal alone.
LEMMA BarrierStep ==
  ASSUME JournalInv, step # "none", DirectoryTypeOK', JournalKept,
         UNCHANGED <<memory, holder, acked, losses>>, temp' \in JournalNames,
         step' \in Barriers \cup {"sync_root", "read_back"},
         TemporaryKnown', Forward'
  PROVE  JournalInv'
  <1>1. DiskWhole' /\ AckedNeverRollsBack'
    BY KeptIsWhole
  <1>2. MemoryWhole'
    BY DEF JournalInv, MemoryWhole
  <1>3. step' # "none" /\ holder # Nobody
    BY HolderKnows DEF Barriers
  <1>4. PublicationTypeOK'
    BY <1>3 DEF JournalInv, PublicationTypeOK
  <1>5. QED BY <1>1, <1>2, <1>4 DEF JournalInv

\* The temporary is a fresh file that no state calls the journal.
LEMMA CreateTemporaryStep ==
  ASSUME JournalInv, CreateTemporary PROVE JournalInv'
  <1>1. /\ step = "create" /\ step' = "write" /\ UNCHANGED <<memory, holder, acked, losses>>
        /\ DirectoryTypeOK
    BY DEF CreateTemporary, JournalInv, PublicationTypeOK
  <1>2. PICK n \in Temporaries, i \in Inodes : CreateExclusive(n, i) /\ temp' = n
    BY DEF CreateTemporary
  <1>3. n \in Names /\ n # JOURNAL_NAME /\ JOURNAL_NAME \in Names /\ n \in JournalNames
    BY JournalNamesApart DEF JournalNames
  <1>4. /\ DirectoryTypeOK' /\ disk' = disk \cup {dir'} /\ dir'[n] = i
        /\ dir'[JOURNAL_NAME] = dir[JOURNAL_NAME]
        /\ \A d \in disk : d[JOURNAL_NAME] # i
        /\ \A d \in disk : d[JOURNAL_NAME] # NoFile => file'[d[JOURNAL_NAME]] = file[d[JOURNAL_NAME]]
    BY <1>1, <1>2, <1>3, Created
  <1>5. dir \in disk
    BY <1>1 DEF DirectoryTypeOK
  <1>6. JournalKept
    BY <1>4, <1>5 DEF JournalKept
  <1>7. TemporaryKnown'
    <2>1. dir'[n] # NoFile
      BY <1>4, DirectoryConstants
    <2>2. \A d \in disk' : d[JOURNAL_NAME] # dir'[n]
      BY <1>4, <1>5
    <2>3. QED BY <1>1, <1>2, <2>1, <2>2 DEF TemporaryKnown
  <1>8. Forward'
    <2>1. publishing' = publishing /\ memory'[holder'].projection = memory[holder].projection
      BY <1>1 DEF publishing
    <2>2. dir'[JOURNAL_NAME] # NoFile => Selected(dir)' = Selected(dir)
      BY <1>4, <1>5 DEF Selected
    <2>3. QED BY <1>1, <1>4, <2>1, <2>2 DEF Forward, JournalInv, Barriers
  <1>9. QED BY <1>1, <1>2, <1>3, <1>4, <1>6, <1>7, <1>8, BarrierStep DEF Barriers

\* Writing and syncing the temporary.
LEMMA TemporaryTouched ==
  ASSUME JournalInv, step \in {"write", "sync"}, step' \in {"sync", "rename"}, UNCHANGED <<memory, holder, temp>>,
         DirectoryTypeOK', dir' = dir, disk' = disk,
         \A k \in Inodes : k # dir[temp] => file'[k] = file[k]
  PROVE  JournalKept /\ Forward'
  <1>1. /\ DirectoryTypeOK /\ dir \in disk
        /\ \A d \in disk : d[JOURNAL_NAME] # dir[temp]
    BY DEF JournalInv, PublicationTypeOK, DirectoryTypeOK, TemporaryKnown
  <1>2. \A d \in disk : d[JOURNAL_NAME] # NoFile => d[JOURNAL_NAME] \in Inodes
    BY <1>1, JournalNamesApart DEF DirectoryTypeOK
  <1>3. \A d \in disk : d[JOURNAL_NAME] # NoFile => file'[d[JOURNAL_NAME]] = file[d[JOURNAL_NAME]]
    BY <1>1, <1>2
  <1>4. JournalKept
    BY <1>3 DEF JournalKept
  <1>5. dir'[JOURNAL_NAME] # NoFile => Selected(dir)' = Selected(dir)
    BY <1>1, <1>3 DEF Selected
  <1>6. publishing' = publishing /\ memory'[holder'].projection = memory[holder].projection
    BY DEF publishing
  <1>7. Forward'
    BY <1>5, <1>6 DEF Forward, JournalInv, Barriers
  <1>8. QED BY <1>4, <1>7

\* From its creation to the rename the temporary is there, and nothing else is it.
LEMMA TemporaryInode ==
  ASSUME JournalInv, step \in {"write", "sync", "rename"}
  PROVE  /\ DirectoryTypeOK /\ temp \in Temporaries /\ temp \in Names /\ temp # JOURNAL_NAME
         /\ dir[temp] \in Inodes /\ dir[temp] # NoFile /\ \A d \in disk : d[JOURNAL_NAME] # dir[temp]
  <1>1. /\ DirectoryTypeOK /\ temp \in Temporaries /\ dir[temp] # NoFile
        /\ \A d \in disk : d[JOURNAL_NAME] # dir[temp]
    BY DEF JournalInv, PublicationTypeOK, TemporaryKnown
  <1>2. QED BY <1>1, JournalNamesApart DEF DirectoryTypeOK

\* write_image_bytes: the temporary holds the image, not yet durably.
LEMMA WriteImageStep ==
  ASSUME JournalInv, write_image_bytes PROVE JournalInv'
  <1>1. /\ step = "write" /\ step' = "sync" /\ WriteFile(dir[temp], publishing)
        /\ UNCHANGED <<memory, holder, temp, acked, losses>>
    BY DEF write_image_bytes
  <1>2. publishing \in Data /\ publishing' = publishing
    BY <1>1, HolderKnows DEF publishing
  <1>3. /\ DirectoryTypeOK' /\ dir' = dir /\ disk' = disk
        /\ file'[dir[temp]] = [data |-> publishing, synced |-> FALSE]
        /\ \A k \in Inodes : k # dir[temp] => file'[k] = file[k]
    BY <1>1, <1>2, TemporaryInode, Written
  <1>4. JournalKept /\ Forward'
    BY <1>1, <1>3, TemporaryTouched
  <1>5. TemporaryKnown'
    BY <1>1, <1>2, <1>3, TemporaryInode DEF TemporaryKnown
  <1>6. temp \in JournalNames
    BY DEF JournalInv, PublicationTypeOK
  <1>7. QED BY <1>1, <1>3, <1>4, <1>5, <1>6, BarrierStep DEF Barriers

\* The temporary's bytes become durable before it may be renamed.
LEMMA FileSyncStep ==
  ASSUME JournalInv, FileSync PROVE JournalInv'
  <1>1. /\ step = "sync" /\ step' = "rename" /\ SyncFile(dir[temp])
        /\ UNCHANGED <<memory, holder, temp, acked, losses>>
    BY DEF FileSync
  <1>2. publishing' = publishing /\ file[dir[temp]].data = publishing
    BY <1>1 DEF publishing, JournalInv, TemporaryKnown
  <1>3. /\ DirectoryTypeOK' /\ dir' = dir /\ disk' = disk
        /\ file'[dir[temp]] = [data |-> file[dir[temp]].data, synced |-> TRUE]
        /\ \A k \in Inodes : k # dir[temp] => file'[k] = file[k]
    BY <1>1, TemporaryInode, Synced
  <1>4. JournalKept /\ Forward'
    BY <1>1, <1>3, TemporaryTouched
  <1>5. TemporaryKnown'
    BY <1>1, <1>2, <1>3, TemporaryInode DEF TemporaryKnown
  <1>6. temp \in JournalNames
    BY DEF JournalInv, PublicationTypeOK
  <1>7. QED BY <1>1, <1>3, <1>4, <1>5, <1>6, BarrierStep DEF Barriers

\* The rename puts a whole, durable image in place that is no older than the one it
\* replaces.
LEMMA ReplacementStep ==
  ASSUME JournalInv, ReplacementRename PROVE JournalInv'
  <1>1. /\ step = "rename" /\ step' = "sync_root" /\ Rename(temp, JOURNAL_NAME)
        /\ UNCHANGED <<memory, holder, temp, acked, losses>>
    BY DEF ReplacementRename
  <1>2. /\ Whole(publishing) /\ memory[holder].projection = Decoded(publishing) /\ holder # Nobody
        /\ file[dir[temp]].synced /\ file[dir[temp]].data = publishing
    BY <1>1, HolderKnows DEF JournalInv, TemporaryKnown
  <1>3. /\ DirectoryTypeOK' /\ disk' = disk \cup {dir'} /\ file' = file
        /\ dir'[JOURNAL_NAME] = dir[temp] /\ dir \in disk
    <2>1. DirectoryTypeOK /\ temp \in Names /\ temp # JOURNAL_NAME /\ JOURNAL_NAME \in Names
      BY <1>1, TemporaryInode, JournalNamesApart
    <2>2. QED BY <1>1, <2>1, Renamed DEF DirectoryTypeOK
  <1>4. Selected(dir)' = publishing /\ \A d \in disk : Selected(d)' = Selected(d)
    <2>1. dir[temp] # NoFile
      BY <1>1, TemporaryInode
    <2>2. QED BY <1>2, <1>3, <2>1 DEF Selected
  <1>5. DiskWhole'
    BY <1>2, <1>3, <1>4 DEF JournalInv, DiskWhole
  <1>6. AckedNeverRollsBack'
    <2>1. SUFFICES ASSUME acked # Absent
                   PROVE  /\ dir'[JOURNAL_NAME] # NoFile
                          /\ Decoded(publishing).generation >= acked.generation
                          /\ Decoded(publishing).covered_head.sequence >= acked.covered_head.sequence
                          /\ Decoded(publishing).covered_head.sequence = acked.covered_head.sequence
                             => Decoded(publishing).covered_head = acked.covered_head
                          /\ Decoded(publishing).clock.safe_time >= acked.clock.safe_time
      BY <1>1, <1>3, <1>4 DEF JournalInv, AckedNeverRollsBack
    <2> DEFINE old == Selected(dir)
               was == Decoded(old)
               is == Decoded(publishing)
    <2>2. /\ dir[JOURNAL_NAME] # NoFile /\ was.generation >= acked.generation
          /\ was.covered_head.sequence >= acked.covered_head.sequence
          /\ was.covered_head.sequence = acked.covered_head.sequence => was.covered_head = acked.covered_head
          /\ was.clock.safe_time >= acked.clock.safe_time
      BY <1>3, <2>1 DEF JournalInv, AckedNeverRollsBack
    <2>3. Whole(old)
      BY <1>3, <2>2 DEF JournalInv, DiskWhole
    <2>4. NoRollback(old, was, publishing, is)
      BY <1>1, <1>2, <2>2 DEF JournalInv, Forward, Barriers
    <2>5. /\ CheckpointShape(was) /\ was.generation = old.checkpoint.generation
          /\ CheckpointShape(is) /\ is.generation = publishing.checkpoint.generation
      BY <1>2, <2>3 DEF Whole
    <2>6. CheckpointShape(acked)
      BY <2>1 DEF JournalInv, PublicationTypeOK
    <2>7. dir[temp] # NoFile
      BY <1>1, TemporaryInode
    <2> HIDE DEF old, was, is
    <2>8. /\ is.generation >= acked.generation
          /\ is.covered_head.sequence >= acked.covered_head.sequence
          /\ is.covered_head.sequence = acked.covered_head.sequence => is.covered_head = acked.covered_head
          /\ is.clock.safe_time >= acked.clock.safe_time
      BY <2>2, <2>4, <2>5, <2>6 DEF NoRollback, CheckpointShape
    <2>9. QED BY <1>3, <2>7, <2>8 DEF is
  <1>7. TemporaryKnown' /\ Forward'
    <2>1. dir'[JOURNAL_NAME] # NoFile
      BY <1>1, <1>3, TemporaryInode
    <2>2. QED BY <1>1, <2>1 DEF TemporaryKnown, Forward, Barriers
  <1>8. MemoryWhole'
    BY <1>1 DEF JournalInv, MemoryWhole
  <1>9. PublicationTypeOK'
    BY <1>1, <1>2, <1>3 DEF JournalInv, PublicationTypeOK
  <1>10. QED BY <1>5, <1>6, <1>7, <1>8, <1>9 DEF JournalInv

\* After the directory's barrier the renamed journal is the only one a power loss leaves.
LEMMA DirectorySyncStep ==
  ASSUME JournalInv, DirectorySync PROVE JournalInv'
  <1>1. /\ step = "sync_root" /\ step' = "read_back" /\ SyncDirectory
        /\ UNCHANGED <<memory, holder, temp, acked, losses>>
        /\ DirectoryTypeOK /\ temp \in JournalNames
    BY DEF DirectorySync, JournalInv, PublicationTypeOK
  <1>2. /\ DirectoryTypeOK' /\ dir' = dir /\ disk' = {dir} /\ dir \in disk
        /\ dir[JOURNAL_NAME] # NoFile => file'[dir[JOURNAL_NAME]] = file[dir[JOURNAL_NAME]]
    BY <1>1, JournalNamesApart, DirectorySynced DEF DirectoryTypeOK
  <1>3. JournalKept
    BY <1>2 DEF JournalKept
  <1>4. TemporaryKnown' /\ Forward'
    BY <1>1, <1>2 DEF TemporaryKnown, Forward, Barriers, JournalInv
  <1>5. QED BY <1>1, <1>2, <1>3, <1>4, BarrierStep

\* Ok is answered when the one state a power loss may leave has the image.
LEMMA ReadBackStep ==
  ASSUME JournalInv, ReadBack PROVE JournalInv'
  <1>1. /\ step = "read_back" /\ Selected(dir) = publishing /\ acked' = memory[holder].projection
        /\ Released /\ UNCHANGED fsVars /\ memory' = memory /\ losses' = losses
        /\ dir' = dir /\ disk' = disk /\ file' = file
    BY DEF ReadBack, fsVars
  <1>2. Whole(publishing) /\ acked' = Decoded(publishing)
    BY <1>1, HolderKnows
  <1>3. disk = {dir} /\ dir[JOURNAL_NAME] # NoFile /\ Selected(dir)' = Selected(dir)
    BY <1>1 DEF JournalInv, Forward, Selected
  <1>4. CheckpointShape(acked') /\ Decoded(Selected(dir)) = acked'
    BY <1>1, <1>2 DEF Whole
  <1>5. AckedNeverRollsBack'
    <2> DEFINE new == acked'
    <2>1. CheckpointShape(new)
      BY <1>4
    <2> HIDE DEF new
    <2>2. /\ new.generation >= new.generation /\ new.covered_head.sequence >= new.covered_head.sequence
          /\ new.clock.safe_time >= new.clock.safe_time
      BY <2>1 DEF CheckpointShape
    <2>3. QED BY <1>1, <1>3, <1>4, <2>2 DEF AckedNeverRollsBack, new
  <1>6. DiskWhole'
    BY <1>1, <1>3 DEF JournalInv, DiskWhole
  <1>7. MemoryWhole'
    BY <1>1 DEF JournalInv, MemoryWhole
  <1>8. DirectoryTypeOK'
    BY <1>1 DEF JournalInv, PublicationTypeOK, DirectoryTypeOK
  <1>9. PublicationTypeOK'
    BY <1>1, <1>4, <1>8 DEF JournalInv, PublicationTypeOK, Released, JournalNames
  <1>10. QED BY <1>1, <1>5, <1>6, <1>7, <1>9, ReleasedKnows DEF JournalInv

\* The end of a publication that leaves every journal alone, memories kept or gone.
LEMMA EndStep ==
  ASSUME JournalInv, DirectoryTypeOK', JournalKept, Released, UNCHANGED acked, losses' \in Nat,
         DOMAIN memory' = Writers, \A w \in Writers : memory'[w] = memory[w] \/ memory'[w] = Absent
  PROVE  JournalInv'
  <1>1. DiskWhole' /\ AckedNeverRollsBack'
    BY KeptIsWhole
  <1>2. MemoryWhole'
    BY DEF JournalInv, MemoryWhole
  <1>3. PublicationTypeOK'
    BY DEF JournalInv, PublicationTypeOK, Released, JournalNames
  <1>4. QED BY <1>1, <1>2, <1>3, ReleasedKnows DEF JournalInv

\* A failed write removes the temporary, or leaves it: the journal stays.
LEMMA WriteFailedStep ==
  ASSUME JournalInv, WriteFailed PROVE JournalInv'
  <1>1. /\ Released /\ memory' = memory /\ acked' = acked /\ losses' = losses
        /\ DirectoryTypeOK /\ temp \in JournalNames /\ losses \in Nat /\ DOMAIN memory = Writers
    BY DEF WriteFailed, JournalInv, PublicationTypeOK
  <1>2. DirectoryTypeOK' /\ JournalKept
    <2>1. CASE temp # JOURNAL_NAME /\ Unlink(temp)
      <3>1. /\ DirectoryTypeOK' /\ disk' = disk \cup {dir'} /\ file' = file /\ dir \in disk
            /\ dir'[JOURNAL_NAME] = dir[JOURNAL_NAME]
        BY <1>1, <2>1, JournalNamesApart, Unlinked DEF DirectoryTypeOK
      <3>2. QED BY <3>1 DEF JournalKept
    <2>2. CASE UNCHANGED fsVars
      BY <1>1, <2>2, SameDirectory DEF DirectoryTypeOK
    <2>3. QED BY <2>1, <2>2 DEF WriteFailed
  <1>3. QED BY <1>1, <1>2, EndStep

\* PublishUncertain answers an error and touches nothing.
LEMMA QuietEnd ==
  ASSUME JournalInv, PublishUncertain PROVE JournalInv'
  <1>1. /\ Released /\ memory' = memory /\ acked' = acked /\ losses' = losses /\ UNCHANGED fsVars
        /\ DirectoryTypeOK /\ losses \in Nat /\ DOMAIN memory = Writers
    BY DEF PublishUncertain, JournalInv, PublicationTypeOK
  <1>2. DirectoryTypeOK' /\ JournalKept
    BY <1>1, SameDirectory DEF DirectoryTypeOK
  <1>3. QED BY <1>1, <1>2, EndStep

\* A writer that is killed loses its memory, and its publication if it had one.
LEMMA KillStep ==
  ASSUME JournalInv, NEW w \in Writers, Kill(w) PROVE JournalInv'
  <1>1. /\ memory' = [memory EXCEPT ![w] = Absent] /\ acked' = acked /\ losses' = losses /\ UNCHANGED fsVars
        /\ DirectoryTypeOK /\ losses \in Nat /\ DOMAIN memory = Writers
    BY DEF Kill, JournalInv, PublicationTypeOK
  <1>2. CASE holder = w
    <2>1. Released
      BY <1>2 DEF Kill
    <2>2. DirectoryTypeOK' /\ JournalKept
      BY <1>1, SameDirectory DEF DirectoryTypeOK
    <2>3. DOMAIN memory' = Writers /\ \A v \in Writers : memory'[v] = memory[v] \/ memory'[v] = Absent
      BY <1>1
    <2>4. QED BY <1>1, <2>1, <2>2, <2>3, EndStep
  <1>3. CASE holder # w
    <2>1. UNCHANGED callVars
      BY <1>3 DEF Kill
    <2>2. QED BY <1>1, <1>3, <2>1, MemoryStep
  <1>4. QED BY <1>2, <1>3

\* A power loss leaves one of the states the disk may hold, each with a whole journal.
LEMMA JournalPowerLossStep ==
  ASSUME JournalInv, PowerLoss PROVE JournalInv'
  <1>1. /\ Released /\ LosePower /\ acked' = acked /\ memory' = [w \in Writers |-> Absent]
        /\ losses' = losses + 1 /\ DirectoryTypeOK /\ losses \in Nat
    BY DEF PowerLoss, JournalInv, PublicationTypeOK
  <1>2. /\ DirectoryTypeOK' /\ dir' \in disk /\ disk' = {dir'}
        /\ dir'[JOURNAL_NAME] # NoFile /\ file[dir'[JOURNAL_NAME]].synced =>
             file'[dir'[JOURNAL_NAME]] = file[dir'[JOURNAL_NAME]]
    BY <1>1, JournalNamesApart, PowerLost
  <1>3. JournalKept
    BY <1>2 DEF JournalKept, JournalInv, DiskWhole
  <1>4. losses' \in Nat /\ DOMAIN memory' = Writers /\ \A w \in Writers : memory'[w] = Absent
    BY <1>1
  <1>5. QED BY <1>1, <1>2, <1>3, <1>4, EndStep

\* A step of another component changes nothing here.
LEMMA JournalStutter ==
  ASSUME JournalInv, UNCHANGED publicationVars PROVE JournalInv'
  <1>1. /\ dir' = dir /\ disk' = disk /\ file' = file /\ memory' = memory /\ holder' = holder
        /\ step' = step /\ temp' = temp /\ acked' = acked /\ losses' = losses
        /\ UNCHANGED fsVars /\ UNCHANGED callVars
    BY DEF publicationVars, fsVars, callVars
  <1>2. TemporaryKnown' /\ Forward'
    BY <1>1, KnowledgeKept
  <1>3. DiskWhole' /\ AckedNeverRollsBack'
    BY <1>1, SameDirectory, KeptIsWhole
  <1>4. MemoryWhole'
    BY <1>1 DEF JournalInv, MemoryWhole
  <1>5. DirectoryTypeOK'
    BY <1>1 DEF JournalInv, PublicationTypeOK, DirectoryTypeOK
  <1>6. PublicationTypeOK'
    BY <1>1, <1>5 DEF JournalInv, PublicationTypeOK
  <1>7. QED BY <1>2, <1>3, <1>4, <1>6 DEF JournalInv

\* Every step keeps the inductive invariant.
LEMMA JournalStep ==
  ASSUME JournalInv, [PublicationNext]_publicationVars PROVE JournalInv'
  <1>1. CASE \E w \in Writers :
               Initialize(w) \/ reopen_control_journal_image(w) \/ Compute(w) \/ Publish(w) \/ Kill(w)
    BY <1>1, InitializeStep, ReopenStep, ComputeStep, PublishStep, KillStep
  <1>2. CASE CreateTemporary \/ write_image_bytes \/ FileSync \/ ReplacementRename
    BY <1>2, CreateTemporaryStep, WriteImageStep, FileSyncStep, ReplacementStep
  <1>3. CASE DirectorySync \/ ReadBack \/ WriteFailed \/ PublishUncertain \/ PowerLoss
    BY <1>3, DirectorySyncStep, ReadBackStep, WriteFailedStep, QuietEnd, JournalPowerLossStep
  <1>4. CASE UNCHANGED publicationVars
    BY <1>4, JournalStutter
  <1>5. QED BY <1>1, <1>2, <1>3, <1>4 DEF PublicationNext

\* An empty root satisfies it.
LEMMA JournalStart == ASSUME PublicationInit PROVE JournalInv
  <1>1. /\ FsInit /\ memory = [w \in Writers |-> Absent] /\ step = "none" /\ temp = JOURNAL_NAME
        /\ acked = Absent
    BY DEF PublicationInit
  <1>2. DirectoryTypeOK /\ \A d \in disk : \A n \in Names : d[n] = NoFile
    BY <1>1, EmptyDirectory
  <1>3. holder = Nobody /\ losses = 0
    BY <1>1 DEF FsInit
  <1>4. PublicationTypeOK
    BY <1>1, <1>2, <1>3 DEF PublicationTypeOK, JournalNames
  <1>5. MemoryWhole /\ AckedNeverRollsBack
    BY <1>1 DEF MemoryWhole, AckedNeverRollsBack
  <1>6. DiskWhole
    BY <1>2, JournalNamesApart DEF DiskWhole
  <1>7. TemporaryKnown /\ Forward
    BY <1>1 DEF TemporaryKnown, Forward, Barriers
  <1>8. QED BY <1>4, <1>5, <1>6, <1>7 DEF JournalInv

\* It implies what the run checks.
LEMMA JournalCoherent == ASSUME JournalInv PROVE JournalSafety
  <1>1. JournalIsWhole
    BY DEF JournalInv, DiskWhole, Whole, JournalIsWhole
  <1>2. QED BY <1>1 DEF JournalInv, JournalSafety

\* JournalSafety: whatever fails and whenever power is lost, the journal in place
\* decodes and replays, and it is never behind what publish answered Ok.
THEOREM ControlJournalFile == PublicationSpec => []JournalSafety
  <1>1. PublicationInit => JournalInv
    BY JournalStart
  <1>2. JournalInv /\ [PublicationNext]_publicationVars => JournalInv'
    BY JournalStep
  <1>3. JournalInv => JournalSafety
    BY JournalCoherent
  <1>4. QED BY <1>1, <1>2, <1>3, PTL DEF PublicationSpec

\* Only the rename and a power loss change what the journal's name stands for.
LEMMA JournalStands ==
  ASSUME JournalInv, [PublicationNext]_publicationVars, ~ReplacementRename, losses' = losses,
         dir[JOURNAL_NAME] # NoFile
  PROVE  Selected(dir)' = Selected(dir)
  <1>1. SUFFICES dir'[JOURNAL_NAME] = dir[JOURNAL_NAME] /\ file'[dir[JOURNAL_NAME]] = file[dir[JOURNAL_NAME]]
    BY DEF Selected
  <1>2. DirectoryTypeOK /\ dir \in disk /\ JOURNAL_NAME \in Names
    BY JournalNamesApart DEF JournalInv, PublicationTypeOK, DirectoryTypeOK
  <1>3. dir[JOURNAL_NAME] \in Inodes
    BY <1>2 DEF DirectoryTypeOK
  <1>4. CASE UNCHANGED fsVars
    BY <1>4 DEF fsVars
  <1>5. CASE \E w \in Writers :
               Initialize(w) \/ reopen_control_journal_image(w) \/ Compute(w) \/ Publish(w) \/ Kill(w)
    BY <1>4, <1>5 DEF Initialize, reopen_control_journal_image, Compute, Publish, Kill
  <1>6. CASE CreateTemporary
    <2>1. PICK n \in Temporaries, i \in Inodes : CreateExclusive(n, i)
      BY <1>6 DEF CreateTemporary
    <2>2. n \in Names /\ n # JOURNAL_NAME
      BY JournalNamesApart
    <2>3. QED BY <1>2, <2>1, <2>2, Created
  <1>7. CASE write_image_bytes
    <2>1. step = "write" /\ WriteFile(dir[temp], publishing) /\ publishing \in Data
      BY <1>7, HolderKnows DEF write_image_bytes
    <2>2. QED BY <1>2, <1>3, <2>1, TemporaryInode, Written
  <1>8. CASE FileSync
    <2>1. step = "sync" /\ SyncFile(dir[temp])
      BY <1>8 DEF FileSync
    <2>2. QED BY <1>2, <1>3, <2>1, TemporaryInode, Synced
  <1>9. CASE DirectorySync
    BY <1>2, <1>9, DirectorySynced DEF DirectorySync
  <1>10. CASE WriteFailed
    <2>1. CASE temp # JOURNAL_NAME /\ Unlink(temp)
      <3>1. temp \in Names
        BY JournalNamesApart DEF JournalInv, PublicationTypeOK
      <3>2. QED BY <1>2, <2>1, <3>1, Unlinked
    <2>2. QED BY <1>4, <1>10, <2>1 DEF WriteFailed
  <1>11. CASE ReadBack \/ PublishUncertain
    BY <1>4, <1>11 DEF ReadBack, PublishUncertain
  <1>12. CASE PowerLoss
    <2>1. losses \in Nat /\ losses' = losses + 1
      BY <1>12 DEF PowerLoss, JournalInv, PublicationTypeOK
    <2>2. QED BY <2>1
  <1>13. CASE UNCHANGED publicationVars
    BY <1>4, <1>13 DEF publicationVars
  <1>14. QED BY <1>5, <1>6, <1>7, <1>8, <1>9, <1>10, <1>11, <1>12, <1>13 DEF PublicationNext

\* JournalAdvances: short of a power loss the journal in place is never removed, its
\* generation and safe time never fall, and what replaces it has the same head or more
\* records, whatever its publication answered.
THEOREM JournalOnlyAdvances == PublicationSpec => JournalAdvances
  <1>1. PublicationInit => JournalInv
    BY JournalStart
  <1>2. JournalInv /\ [PublicationNext]_publicationVars => JournalInv'
    BY JournalStep
  <1>3. JournalInv /\ [PublicationNext]_publicationVars => [Advances]_publicationVars
    <2> DEFINE old == Selected(dir)
               was == Decoded(old)
               is == Decoded(publishing)
    <2>1. SUFFICES ASSUME JournalInv, [PublicationNext]_publicationVars, dir[JOURNAL_NAME] # NoFile,
                          losses' = losses, Selected(dir)' # Selected(dir)
                   PROVE  /\ dir'[JOURNAL_NAME] # NoFile
                          /\ Decoded(Selected(dir)').generation >= was.generation
                          /\ Decoded(Selected(dir)').clock.safe_time >= was.clock.safe_time
                          /\ \/ Decoded(Selected(dir)').covered_head.sequence > was.covered_head.sequence
                             \/ Decoded(Selected(dir)').covered_head = was.covered_head
      BY DEF Advances, Decoded
    <2>2. ReplacementRename
      BY <2>1, JournalStands
    <2>3. step = "rename" /\ Rename(temp, JOURNAL_NAME)
      BY <2>2 DEF ReplacementRename
    <2>4. /\ Whole(publishing) /\ memory[holder].projection = Decoded(publishing)
          /\ file[dir[temp]].data = publishing
      BY <2>1, <2>3, HolderKnows DEF JournalInv, TemporaryKnown
    <2>5. /\ DirectoryTypeOK /\ temp \in Names /\ temp # JOURNAL_NAME /\ JOURNAL_NAME \in Names
          /\ dir[temp] # NoFile
      BY <2>1, <2>3, TemporaryInode, JournalNamesApart
    <2>6. dir'[JOURNAL_NAME] = dir[temp] /\ file' = file /\ dir \in disk
      BY <2>3, <2>5, Renamed DEF DirectoryTypeOK
    <2>7. Selected(dir)' = publishing /\ dir'[JOURNAL_NAME] # NoFile
      BY <2>4, <2>5, <2>6 DEF Selected
    <2>8. NoRollback(old, was, publishing, is)
      BY <2>1, <2>3, <2>4 DEF JournalInv, Forward, Barriers
    <2>9. Whole(old)
      BY <2>1, <2>6 DEF JournalInv, DiskWhole
    <2>10. /\ CheckpointShape(was) /\ was.generation = old.checkpoint.generation
           /\ CheckpointShape(is) /\ is.generation = publishing.checkpoint.generation
      BY <2>4, <2>9 DEF Whole
    <2> HIDE DEF old, was, is
    <2>11. /\ is.generation >= was.generation /\ is.clock.safe_time >= was.clock.safe_time
           /\ is.covered_head.sequence > was.covered_head.sequence \/ is.covered_head = was.covered_head
      BY <2>8, <2>10 DEF NoRollback, CheckpointShape
    <2>12. QED BY <2>7, <2>11 DEF is
  <1>4. QED BY <1>1, <1>2, <1>3, PTL DEF PublicationSpec, JournalAdvances
=============================================================================

------------------------------ MODULE Directory ------------------------------
(***************************************************************************)
(* One directory of a Linux file system, as far as the fixed-root          *)
(* publications rely on it (the kernel is external to the repository).     *)
(*                                                                         *)
(*   dir    name |-> inode, as running processes see it;                   *)
(*   disk   the directory states a power loss may leave behind: the one of *)
(*          the last fsync of the directory and every later one;           *)
(*   file   inode |-> what was written, and whether it was fsynced.  Data  *)
(*          that was not may be Partial after a power loss;                *)
(*   holder who holds the owner lock of the root, an flock that ends with  *)
(*          its process;                                                   *)
(*   losses power losses so far.                                           *)
(***************************************************************************)
EXTENDS Naturals

CONSTANTS
  Names,     \* entry names
  Inodes,    \* bound: files that exist at one time
  Data,      \* complete file contents
  Partial,   \* an empty, short or torn file
  NoFile,    \* no inode
  Nobody     \* the owner lock is free

ASSUME DirectoryConstants == NoFile \notin Inodes /\ Partial \notin Data

VARIABLES dir, disk, file, holder, losses

fsVars == <<dir, disk, file>>

FsInit ==
  /\ dir = [n \in Names |-> NoFile]
  /\ disk = {dir}
  /\ file = [i \in Inodes |-> [data |-> Partial, synced |-> FALSE]]
  /\ holder = Nobody
  /\ losses = 0

\* What the directory and its files are made of.
DirectoryTypeOK ==
  /\ dir \in disk
  /\ disk \subseteq [Names -> Inodes \cup {NoFile}]
  /\ file \in [Inodes -> [data : Data \cup {Partial}, synced : BOOLEAN]]

Exists(n) == dir[n] # NoFile

Unused(i) == \A d \in disk : \A n \in Names : d[n] # i

\* What a directory state d holds under a name, durably.
Holds(d, n, b) == d[n] # NoFile /\ file[d[n]] = [data |-> b, synced |-> TRUE]

Change(d) == dir' = d /\ disk' = disk \cup {d}

\* openat(O_CREAT | O_EXCL)
CreateExclusive(n, i) ==
  /\ ~Exists(n)
  /\ Unused(i)
  /\ Change([dir EXCEPT ![n] = i])
  /\ file' = [file EXCEPT ![i] = [data |-> Partial, synced |-> FALSE]]

WriteFile(i, b) ==
  /\ file' = [file EXCEPT ![i] = [data |-> b, synced |-> FALSE]]
  /\ UNCHANGED <<dir, disk>>

SyncFile(i) ==
  /\ file' = [file EXCEPT ![i].synced = TRUE]
  /\ UNCHANGED <<dir, disk>>

\* renameat: atomic, and replaces what the new name held.
Rename(old, new) ==
  /\ Exists(old)
  /\ Change([dir EXCEPT ![new] = dir[old], ![old] = NoFile])
  /\ UNCHANGED file

Unlink(n) == Change([dir EXCEPT ![n] = NoFile]) /\ UNCHANGED file

RenameNoReplace(old, new) == ~Exists(new) /\ Rename(old, new)

\* Once no state names an inode it is free: its content is forgotten.
Forget(f, d) ==
  [i \in Inodes |-> IF \E n \in Names : d[n] = i THEN f[i] ELSE [data |-> Partial, synced |-> FALSE]]

SyncDirectory == disk' = {dir} /\ file' = Forget(file, dir) /\ UNCHANGED dir

LosePower ==
  /\ \E d \in disk : dir' = d /\ disk' = {d}
  /\ \E torn \in SUBSET {i \in Inodes : ~file[i].synced} :
       file' = Forget([i \in Inodes |->
                         [data |-> IF i \in torn THEN Partial ELSE file[i].data, synced |-> TRUE]],
                      dir')
=============================================================================

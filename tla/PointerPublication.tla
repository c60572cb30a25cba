------------------------- MODULE PointerPublication -------------------------
(***************************************************************************)
(* Publication of the active-state pointer of a fixed root: a capability   *)
(* (owner lock and directory descriptor) writes the encoded pointer to a   *)
(* temporary named after its transition, fsyncs it, renames it over        *)
(* "active-state" and fsyncs the directory.  A publication that finds its  *)
(* temporary already there continues from it if its bytes are exactly the  *)
(* ones it would write.  Nothing is ever cleaned up.                       *)
(*                                                                         *)
(* History: confirmed, the pointer of the last publication that answered   *)
(* Ok, and since, the pointers renamed into place after that.              *)
(***************************************************************************)
EXTENDS Directory

CONSTANTS
  Callers,      \* processes that hold or want the capability
  Pointers,     \* pointers: [transition, wire], wire the rest of the fields
  NoPointer,    \* nothing was published
  MaxPointerLosses  \* bound: power losses

Transitions == {q.transition : q \in Pointers}
ActiveState == "active-state"
temporary_basename(pointer) == pointer.transition
PointerNames == {ActiveState} \cup Transitions
Modes == {"RequireAbsent", "ReplaceExisting"}

ASSUME PointerConstants ==
  /\ Nobody \notin Callers
  /\ ActiveState \notin Transitions
  /\ NoPointer \notin Pointers
  /\ MaxPointerLosses \in Nat
  /\ PointerNames \subseteq Names
  /\ Pointers \subseteq Data

VARIABLES
  stage,       \* where its publication is
  pointer,    \* what it publishes
  mode,       \* and how
  open_temporary,         \* its open temporary
  confirmed, since

capabilityVars == <<holder, stage, pointer, mode, open_temporary>>
pointerVars == <<fsVars, capabilityVars, confirmed, since, losses>>

CapabilityDropped ==
  /\ holder' = Nobody /\ stage' = "none" /\ pointer' = NoPointer
  /\ mode' = "none" /\ open_temporary' = NoFile

PointerInit ==
  /\ FsInit
  /\ stage = "none" /\ pointer = NoPointer
  /\ mode = "none" /\ open_temporary = NoFile
  /\ confirmed = NoPointer /\ since = {}

-----------------------------------------------------------------------------
\* ActiveStatePointerCallerCapability::acquire, then publish.
Acquire(p) ==
  /\ holder = Nobody
  /\ holder' = p
  /\ pointer' \in Pointers
  /\ mode' \in Modes
  /\ stage' = "open"
  /\ UNCHANGED <<fsVars, open_temporary, confirmed, since, losses>>

\* open_or_verify_temporary: a new temporary...
CreatePointerTemporary ==
  /\ stage = "open"
  /\ \E i \in Inodes : CreateExclusive(temporary_basename(pointer), i) /\ open_temporary' = i
  /\ stage' = "write"
  /\ UNCHANGED <<holder, pointer, mode, confirmed, since, losses>>

WriteTemporary ==
  /\ stage = "write"
  /\ WriteFile(open_temporary, pointer)
  /\ stage' = "sync_temporary"
  /\ UNCHANGED <<holder, pointer, mode, open_temporary, confirmed, since, losses>>

\* read_exact: the whole content, and nothing after it.
ReadsExactly(i, b) == file[i].data = b

\* Mutant: a temporary that is there is taken without reading it.
TrustTemporary ==
  /\ stage = "open"
  /\ Exists(temporary_basename(pointer))
  /\ open_temporary' = dir[temporary_basename(pointer)]
  /\ stage' = "sync_temporary"
  /\ UNCHANGED <<fsVars, holder, pointer, mode, confirmed, since, losses>>

\* ... or verify_exact_temporary.
VerifyTemporary ==
  /\ stage = "open"
  /\ Exists(temporary_basename(pointer))
  /\ open_temporary' = dir[temporary_basename(pointer)]
  /\ ReadsExactly(open_temporary', pointer)
  /\ stage' = "sync_temporary"
  /\ UNCHANGED <<fsVars, holder, pointer, mode, confirmed, since, losses>>

SyncTemporary ==
  /\ stage = "sync_temporary"
  /\ SyncFile(open_temporary)
  /\ stage' = "rename"
  /\ UNCHANGED <<holder, pointer, mode, open_temporary, confirmed, since, losses>>

\* Mutant: both modes replace.
AlwaysReplace ==
  /\ stage = "rename"
  /\ mode = "ReplaceExisting" => Exists(ActiveState)
  /\ Rename(temporary_basename(pointer), ActiveState)
  /\ since' = since \cup {pointer}
  /\ stage' = "sync_root"
  /\ UNCHANGED <<holder, pointer, mode, open_temporary, confirmed, losses>>

rename_require_absent == RenameNoReplace(temporary_basename(pointer), ActiveState)

\* The entry is checked, not its content.
verify_replaceable_destination == Exists(ActiveState)

RenamePointer ==
  /\ stage = "rename"
  /\ IF mode = "RequireAbsent"
     THEN rename_require_absent
     ELSE verify_replaceable_destination /\ Rename(temporary_basename(pointer), ActiveState)
  /\ since' = since \cup {pointer}
  /\ stage' = "sync_root"
  /\ UNCHANGED <<holder, pointer, mode, open_temporary, confirmed, losses>>

\* Mutant: Ok is answered without an fsync of the directory.
SkipSyncRoot ==
  /\ stage = "sync_root"
  /\ confirmed' = pointer /\ since' = {}
  /\ CapabilityDropped
  /\ UNCHANGED <<fsVars, losses>>

SyncRoot ==
  /\ stage = "sync_root"
  /\ SyncDirectory
  /\ confirmed' = pointer /\ since' = {}
  /\ CapabilityDropped
  /\ UNCHANGED losses

-----------------------------------------------------------------------------
\* A check or a system call fails and publish returns Err, or the process is
\* killed; the capability is dropped.
PointerGiveUp ==
  /\ holder # Nobody
  /\ CapabilityDropped
  /\ UNCHANGED <<fsVars, confirmed, since, losses>>

PointerPowerLoss ==
  /\ losses < MaxPointerLosses
  /\ losses' = losses + 1
  /\ LosePower
  /\ CapabilityDropped
  /\ UNCHANGED <<confirmed, since>>

PointerNext ==
  \/ \E p \in Callers : Acquire(p)
  \/ CreatePointerTemporary \/ WriteTemporary \/ VerifyTemporary \/ SyncTemporary
  \/ RenamePointer \/ SyncRoot
  \/ PointerGiveUp \/ PointerPowerLoss

PointerSpec == PointerInit /\ [][PointerNext]_pointerVars

-----------------------------------------------------------------------------
\* Whatever state a power loss leaves, "active-state" is a complete pointer: a
\* publication that continues from a temporary of a killed one included.
ActiveIsWhole ==
  \A d \in disk :
    d[ActiveState] # NoFile =>
      /\ file[d[ActiveState]].synced
      /\ file[d[ActiveState]].data \in Pointers

\* What publish answered Ok for is durable: a power loss leaves that pointer,
\* or one that was renamed into place after it (a publication whose directory
\* fsync failed or was cut off counts as such), never an older one and never
\* none.
AckedIsActive ==
  confirmed # NoPointer =>
    \A d \in disk : \E q \in {confirmed} \cup since : Holds(d, ActiveState, q)

\* The active pointer: whatever state a power loss leaves, "active-state" is a
\* complete pointer, a publication that continues from a temporary of a killed
\* one included; and what publish answered Ok for is durable: a power loss
\* leaves that pointer or one renamed into place after it, never an older one
\* and never none.
PointerSafety == ActiveIsWhole /\ AckedIsActive

\* RequireAbsent means it: while the machine runs an active pointer only ever
\* changes under ReplaceExisting, to exactly the pointer that was asked for.
ChangedOnRequest ==
  /\ Exists(ActiveState)
  /\ dir'[ActiveState] # dir[ActiveState]
  /\ losses' = losses
  => mode = "ReplaceExisting" /\ file[dir'[ActiveState]].data = pointer

ReplacedOnRequest == [][ChangedOnRequest]_pointerVars

-----------------------------------------------------------------------------
Stages == {"none", "open", "write", "sync_temporary", "rename", "sync_root"}

PointerTypeOK ==
  /\ DirectoryTypeOK
  /\ losses \in Nat
  /\ stage \in Stages
  /\ stage # "none" => pointer \in Pointers /\ mode \in Modes
  /\ confirmed \in Pointers \cup {NoPointer}
  /\ since \subseteq Pointers

\* What a publication knows of its temporary, stage by stage: it is the entry it
\* opened; while it is written no state a power loss may leave has it in place;
\* then it holds the pointer, durably from its fsync on; and once renamed it is
\* the active entry.
TemporaryInv ==
  /\ stage \in {"write", "sync_temporary", "rename"} =>
       open_temporary \in Inodes /\ dir[temporary_basename(pointer)] = open_temporary
  /\ stage = "write" => \A d \in disk : d[ActiveState] # open_temporary
  /\ stage \in {"sync_temporary", "rename"} => file[open_temporary].data = pointer
  /\ stage = "rename" => file[open_temporary].synced
  /\ stage = "sync_root" => Holds(dir, ActiveState, pointer)

PointerInv == PointerTypeOK /\ TemporaryInv /\ PointerSafety
=============================================================================

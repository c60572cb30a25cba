---------------------------- MODULE MCPublications ----------------------------
(***************************************************************************)
(* The files of one fixed root, one publication at a time: the control     *)
(* journal, the initialization key pair and the active-state pointer share *)
(* the directory and its owner lock.  In a behaviour one of Parts moves    *)
(* and the others stay in their initial state.                             *)
(*                                                                         *)
(* Two journal writers may fork the history, so a digest is the history it *)
(* commits to.  The part "journal" has faults, kills and a power loss over *)
(* histories of ShortHistory records; the part "forks" has none of them    *)
(* and histories of MaxSequence, so that a stale writer may come back with *)
(* a longer fork than the journal in place.  The pointers are of two       *)
(* transitions, with a second pointer that claims the first.  Inodes,      *)
(* temporaries and writers are interchangeable.                            *)
(***************************************************************************)
EXTENDS JournalPublication, KeyPublication, PointerPublication

CONSTANTS
  Parts,
  ShortHistory   \* bound: records where faults happen

VARIABLE part   \* the component that moves

journalOnly == <<memory, step, temp, acked, faults>>
keysOnly == <<pc, fd, pair, published, loaded, runs>>
pointerOnly == <<stage, pointer, mode, open_temporary, confirmed, since>>

-----------------------------------------------------------------------------
HistoryDigest(prior, record) == Append(prior.digest, record)
HoldStates == {Absent} \cup [generation : Nat, observation : {"observed"}]
ClockRecords ==
  [kind : {"clock"}, reason : {"Periodic", "AutomaticSettlement"}, wall : Times,
   prior_safe_time : Times, new_safe_time : Times, hold : HoldStates, pre_mirror : {Absent}]
Encoded ==
  [high_water : Nat, tail : Seq(ClockRecords),
   checkpoint :
     [generation : Nat, covered_head : [sequence : Nat, digest : Seq(ClockRecords)],
      clock : [safe_time : Times, hold : HoldStates, last_shutdown : {Absent}],
      pointer : {Absent}, ring : {<<>>}, commands : {<<>>}, cells : {NoCells}]]
KeySamples == {0, 7, 8}
ThreePointers ==
  {[transition |-> "t1", wire |-> "w1"], [transition |-> "t1", wire |-> "w2"],
   [transition |-> "t2", wire |-> "w1"]}

Short == \A w \in Writers : memory[w] = Absent \/ memory[w].projection.covered_head.sequence <= ShortHistory

RootNames == JournalNames \cup KeyNames \cup PointerNames
RootData == Encoded \cup RunKeys \cup Pointers

PublicationSymmetry == Permutations(Inodes) \cup Permutations(Temporaries) \cup Permutations(Writers)

-----------------------------------------------------------------------------
Init ==
  /\ part \in Parts
  /\ PublicationInit /\ KeyInit /\ PointerInit

Next ==
  /\ UNCHANGED part
  /\ \/ part = "journal" /\ PublicationNext /\ Short' /\ UNCHANGED <<keysOnly, pointerOnly>>
     \/ part = "forks" /\ PublicationNext /\ UNCHANGED <<keysOnly, pointerOnly, losses, faults>>
     \/ part = "keys" /\ KeyNext /\ UNCHANGED <<journalOnly, pointerOnly>>
     \/ part = "pointer" /\ PointerNext /\ UNCHANGED <<journalOnly, keysOnly>>

Spec == Init /\ [][Next]_<<part, publicationVars, keyVars, pointerVars>>
=============================================================================

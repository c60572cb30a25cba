-------------------------------- MODULE Sealing --------------------------------
(***************************************************************************)
(* What the authentication of the fixed root's files rules out.  A journal *)
(* image is a header, a checkpoint region and a tail region, each under    *)
(* its own tag; a record is a frame tagged with its position in the chain. *)
(* Whoever assembles files (a restored backup, a torn or mixed copy) has   *)
(* every piece this root or another one ever sealed, and no key.           *)
(*                                                                         *)
(* Ideal cryptography (external): a tag verifies for the key, the label    *)
(* and the content it was made for only, and a digest is its content.      *)
(***************************************************************************)
EXTENDS Integers, Sequences, FiniteSets

CONSTANTS
  Roots,         \* journal keys, one per root
  Bodies,        \* contents of a record
  Kinds,         \* record kinds: of the journal and 32, of a fixed-root command
  MaxSequence,   \* u64::MAX
  MaxImages,     \* bound: images sealed
  MaxRecords     \* bound: records sealed

JournalKinds == {1, 2, 3}
FIXED_ROOT_COMMAND_KIND == 32

ASSUME SealingConstants ==
  /\ Kinds \subseteq JournalKinds \cup {FIXED_ROOT_COMMAND_KIND}
  /\ {MaxSequence, MaxImages, MaxRecords} \subseteq Nat

VARIABLES
  seals,     \* every piece sealed so far
  chain,     \* root |-> the frames of its journal, oldest first
  images     \* every image published, with its root

sealingVars == <<seals, chain, images>>

Piece(key, label, content) == [key |-> key, label |-> label, content |-> content]
Opens(key, label, piece) == piece.key = key /\ piece.label = label
Labelled(label) == {p \in seals : p.label = label}

-----------------------------------------------------------------------------
\* Records.
Genesis == [sequence |-> 0, digest |-> <<>>]
HeadAfter(frame) == [sequence |-> frame.content.sequence, digest |-> <<frame.content>>]
HeadOf(frames) == IF frames = <<>> THEN Genesis ELSE HeadAfter(frames[Len(frames)])

\* Mutant: a sequence number wraps.
wrapping_sequence(prior) == TRUE

\* A frame after a head; SequenceExhausted when there is no next number.
sequence_available(prior) == prior.sequence < MaxSequence

Frame(key, kind, body, prior) ==
  Piece(key, "record", [kind |-> kind, sequence |-> (prior.sequence + 1) % (MaxSequence + 1),
                        prior |-> prior.digest, body |-> body])

\* Mutant: a frame is accepted by its sequence number alone.
unchained_frame(key, kinds, frame, prior) ==
  /\ Opens(key, "record", frame)
  /\ frame.content.kind \in kinds
  /\ frame.content.sequence = prior.sequence + 1

decode_record(key, kinds, frame, prior) ==
  /\ Opens(key, "record", frame)
  /\ frame.content.kind \in kinds
  /\ prior.sequence < MaxSequence
  /\ frame.content.sequence = prior.sequence + 1
  /\ frame.content.prior = prior.digest

\* The two codecs of records share their label and are told apart by kind.
decode_control_journal_record(key, frame, prior) == decode_record(key, JournalKinds, frame, prior)
decode_fixed_root_command_record(key, frame, prior) ==
  decode_record(key, {FIXED_ROOT_COMMAND_KIND}, frame, prior)

-----------------------------------------------------------------------------
\* Images.  The header names the root's own namespace, which is derived from
\* the key; the checkpoint is bound to the header, the tail to both.
encode_control_journal_header(root, high_water) ==
  Piece(root, "header", [namespace |-> root, high_water |-> high_water])

decode_control_journal_header(root, piece) ==
  Opens(root, "header", piece) /\ piece.content.namespace = root

seal_region(root, label, header, checkpoint, payload) ==
  Piece(root, label, [header |-> header, checkpoint |-> checkpoint, payload |-> payload])

\* Mutant: a region is not compared with the regions before it.
open_alone(root, label, piece, header, checkpoint) == Opens(root, label, piece)

open_region(root, label, piece, header, checkpoint) ==
  /\ Opens(root, label, piece)
  /\ piece.content.header = header
  /\ piece.content.checkpoint = checkpoint

\* The tail of an image: journal frames that follow its checkpoint in order.
FollowsChain(root, head, frames) ==
  \A i \in DOMAIN frames :
    decode_control_journal_record(root, frames[i],
                                  IF i = 1 THEN head ELSE HeadAfter(frames[i - 1]))

encode_image(root, high_water, n, m) ==
  LET header == encode_control_journal_header(root, high_water)
      covered == HeadOf(SubSeq(chain[root], 1, n))
      checkpoint == seal_region(root, "checkpoint", header, <<>>, covered)
      tail == seal_region(root, "tail", header, <<checkpoint>>, SubSeq(chain[root], n + 1, m))
  IN [header |-> header, checkpoint |-> checkpoint, tail |-> tail]

decode_image(root, wire) ==
  /\ decode_control_journal_header(root, wire.header)
  /\ open_region(root, "checkpoint", wire.checkpoint, wire.header, <<>>)
  /\ open_region(root, "tail", wire.tail, wire.header, <<wire.checkpoint>>)
  /\ FollowsChain(root, wire.checkpoint.content.payload, wire.tail.content.payload)

-----------------------------------------------------------------------------
SealingInit ==
  /\ seals = {}
  /\ chain = [r \in Roots |-> <<>>]
  /\ images = {}

\* A record is sealed after the journal's head.
SealRecord(root) ==
  /\ Cardinality(Labelled("record")) < MaxRecords
  /\ sequence_available(HeadOf(chain[root]))
  /\ \E kind \in Kinds, body \in Bodies :
     \E frame \in {Frame(root, kind, body, HeadOf(chain[root]))} :
       /\ seals' = seals \cup {frame}
       /\ chain' = [chain EXCEPT ![root] = Append(@, frame)]
  /\ UNCHANGED images

\* A crash before the publication of a record: the journal is as it was.
Forget(root) ==
  /\ \E n \in 0..(Len(chain[root]) - 1) : chain' = [chain EXCEPT ![root] = SubSeq(@, 1, n)]
  /\ UNCHANGED <<seals, images>>

\* An image of the journal: folded up to n, with the rest as its tail.  Only
\* journal records can be in a tail.
SealImage(root) ==
  /\ Cardinality(images) < MaxImages
  /\ \E n \in 0..Len(chain[root]), high_water \in 0..1 :
       /\ \A i \in (n + 1)..Len(chain[root]) : chain[root][i].content.kind \in JournalKinds
       /\ \E image \in {encode_image(root, high_water, n, Len(chain[root]))} :
            /\ seals' = seals \cup {image.header, image.checkpoint, image.tail}
            /\ images' = images \cup {<<root, image>>}
  /\ UNCHANGED chain

SealingNext == \E root \in Roots : SealRecord(root) \/ Forget(root) \/ SealImage(root)

SealingSpec == SealingInit /\ [][SealingNext]_sealingVars

-----------------------------------------------------------------------------
\* An image that is accepted is one its root published, whole: never an old
\* tail behind a newer checkpoint, a checkpoint under another high-water mark,
\* or a part of another root's.
AcceptedIsPublished ==
  \A root \in Roots, h \in Labelled("header"), c \in Labelled("checkpoint"), t \in Labelled("tail") :
    LET wire == [header |-> h, checkpoint |-> c, tail |-> t] IN
    decode_image(root, wire) => <<root, wire>> \in images

Heads == {Genesis} \cup {HeadAfter(f) : f \in Labelled("record")}

\* A record is accepted after one head only, the one it was sealed for, by one
\* codec only, whatever was forgotten and sealed anew at that number.
OnePlacePerRecord ==
  \A f \in Labelled("record"), root \in Roots :
    LET places == {<<h, "journal">> : h \in {x \in Heads : decode_control_journal_record(root, f, x)}}
             \cup {<<h, "command">> : h \in {x \in Heads : decode_fixed_root_command_record(root, f, x)}}
    IN Cardinality(places) <= 1

\* Sequence numbers never come round: along a chain they count up by one.
SequencesAscend ==
  \A root \in Roots : \A i \in DOMAIN chain[root] : chain[root][i].content.sequence = i

\* The seals: an image that is accepted is one its root published, whole; a record
\* is accepted after one head only and by one codec only, whatever was forgotten
\* and sealed anew at its number; along a chain the numbers count up by one and
\* never come round.
SealingSafety == AcceptedIsPublished /\ OnePlacePerRecord /\ SequencesAscend

-----------------------------------------------------------------------------
(***************************************************************************)
(* The inductive invariant: chains are of sealed frames, and the tail that *)
(* was sealed for an image names the other two pieces of that image.       *)
(***************************************************************************)
TailsPublished ==
  \A t \in Labelled("tail") :
    <<t.key, [header |-> t.content.header, checkpoint |-> t.content.checkpoint[1], tail |-> t]>> \in images

SealingInv ==
  /\ chain \in [Roots -> Seq(seals)]
  /\ TailsPublished
  /\ SequencesAscend
================================================================================

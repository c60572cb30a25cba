------------------------------ MODULE WireFormats ------------------------------
(***************************************************************************)
(* The hand-written canonical codecs of the fixed root, as one reader over *)
(* tables of fields.  A wire is a sequence of cells, one per fixed-width   *)
(* field and one per byte of an identifier; a table lists the fields in    *)
(* the order they are written, the codes each admits, and what decides     *)
(* that it is there.  A codec is its table and the validation both its     *)
(* encoder and its decoder end with.                                       *)
(*                                                                         *)
(* The bytes of a fixed-width field, upper size limits that no record of   *)
(* these shapes reaches, and cryptographic tags (see Sealing) are left out.*)
(***************************************************************************)
EXTENDS Integers, Sequences, FiniteSets, SequencesExt, TLC

CONSTANTS
  Invalid,       \* a decoder's error
  Cells,         \* contents of a cell; 0 is the field of zero bytes
  Owner,         \* the cells of the one state-owner actor
  Prebootstrap,  \* the namespace this root expects before bootstrap
  Sample(_, _),  \* codec, field |-> the cells a writer puts there
  EditCells,     \* cells a damaged wire may have
  MaxEdits       \* bound: cells damaged, lost or inserted

AnyCell == Cells
NonZeroCell == Cells \ {0}
Flags == {0, 1}

The(value, name) == value[name][1]
Has(value, name) == value[name] # <<>>

\* A field is data of the value, or computed by the encoder: a constant, whether
\* another member is there, how long or how many it is, or which variant.
Base(name, codes, role, about) ==
  [name |-> name, codes |-> codes, role |-> role, about |-> about, of |-> "", when |-> {}]

Field(name, codes) == Base(name, codes, "data", "")
Const(name, code) == Base(name, {code}, "const", "")
Group(flag, first) == Base(flag, Flags, "presence", first)
Length(length, name, codes) == Base(length, codes, "length", name)
Variant(name, codes) == Base(name, codes, name, "")

\* A field there is only when an earlier one has one of some codes, and one
\* with as many cells as its length says.
When(of, when, field) == [field EXCEPT !.of = of, !.when = when]
Bytes(length, name, codes) == [Field(name, codes) EXCEPT !.of = length]

Option(flag, name, codes) == <<Group(flag, name), When(flag, {1}, Field(name, codes))>>

\* How many cells a field takes, given the fields before it.
Extent(value, field) ==
  IF field.of = "" THEN 1
  ELSE IF ~Has(value, field.of) THEN 0
  ELSE IF field.when = {} THEN The(value, field.of)
  ELSE IF The(value, field.of) \in field.when THEN 1 ELSE 0

\* A value with one more field.
Put(value, name, cells) ==
  [n \in DOMAIN value \cup {name} |-> IF n = name THEN cells ELSE value[n]]

\* A reader: whether all was well so far, how far it got, and what it read.
Reader == [ok |-> TRUE, at |-> 0, value |-> << >>]
Failed(reader) == [reader EXCEPT !.ok = FALSE]

\* Mutant: what the wire is too short for is taken to be missing.
ReadShort(wire, reader, field) ==
  IF ~reader.ok THEN reader
  ELSE LET n == Extent(reader.value, field)
           k == IF n > Len(wire) - reader.at THEN Len(wire) - reader.at ELSE n
           cells == SubSeq(wire, reader.at + 1, reader.at + k)
       IN IF \E i \in 1..k : cells[i] \notin field.codes THEN Failed(reader)
          ELSE [ok |-> TRUE, at |-> reader.at + k,
                value |-> Put(reader.value, field.name,
                              IF k = 0 /\ n = 1 THEN <<CHOOSE c \in field.codes : TRUE>> ELSE cells)]

ReadField(wire, reader, field) ==
  IF ~reader.ok THEN reader
  ELSE LET n == Extent(reader.value, field) IN
       IF reader.at + n > Len(wire) THEN Failed(reader)
       ELSE LET cells == SubSeq(wire, reader.at + 1, reader.at + n) IN
            IF \E i \in 1..n : cells[i] \notin field.codes THEN Failed(reader)
            ELSE [ok |-> TRUE, at |-> reader.at + n, value |-> Put(reader.value, field.name, cells)]

\* The reader after every field.  (The singleton has TLC compute each once.)
ReadFields(format, wire) ==
  LET after[i \in 0..Len(format)] ==
        IF i = 0 THEN Reader
        ELSE CHOOSE next \in {ReadField(wire, reader, format[i]) : reader \in {after[i - 1]}} : TRUE
  IN after[Len(format)]

\* Every field was read, and nothing is left after the last.
Complete(reader, wire) == reader.ok /\ reader.at = Len(wire)

\* The cells an encoder writes for a field of a value.
Written(value, field) ==
  CASE field.role = "data" -> value[field.name]
    [] field.role = "const" -> <<CHOOSE c \in field.codes : TRUE>>
    [] field.role = "presence" -> <<IF Has(value, field.about) THEN 1 ELSE 0>>
    [] field.role = "length" -> <<Len(value[field.about])>>
    [] field.role = "retention" -> <<IF Has(value, "terminal_time") THEN 2 ELSE 1>>
    [] field.role = "digests" ->
         <<Cardinality({d \in {"issuance", "confirmation"} : Has(value, d)})>>
    [] field.role = "profile_length" ->
         <<3 + 2 * Cardinality({d \in {"issuance", "confirmation"} : Has(value, d)})>>
    [] field.role = "kind1" -> <<IF Has(value, "issuance") THEN 1 ELSE 2>>
    [] field.role = "digest1" ->
         IF Has(value, "issuance") THEN value["issuance"] ELSE value["confirmation"]
    [] field.role = "kind2" -> <<2>>
    [] field.role = "digest2" -> value["confirmation"]
    [] field.role = "count" ->
         <<Cardinality({g \in {"generation1", "generation2"} : Has(value, g)})>>
    [] field.role = "mirror" ->
         <<IF ~Has(value, "origin") THEN 0 ELSE IF ~Has(value, "post") THEN 1 ELSE 2>>
    [] field.role = "action" -> <<IF Has(value, "post.sequence") THEN 3 ELSE 2>>
    [] field.role = "payload" ->
         <<IF Has(value, "post.sequence") THEN 2
           ELSE 1 + Cardinality({n \in DOMAIN value : Has(value, n)})>>

WriteAll(format, value) ==
  LET written[i \in 0..Len(format)] ==
        IF i = 0 THEN << >>
        ELSE CHOOSE next \in
               {Put(cells, format[i].name,
                    IF Extent(cells, format[i]) = 0 THEN <<>> ELSE Written(value, format[i])) :
                  cells \in {written[i - 1]}} : TRUE
  IN CHOOSE wire \in
       {FlattenSeq([i \in DOMAIN format |-> cells[format[i].name]]) : cells \in {written[Len(format)]}} : TRUE

\* The value read: its data, with the digests of a profile in their slots.
Slot(value, kind) ==
  IF Has(value, "kind1") /\ The(value, "kind1") = kind THEN value["digest1"]
  ELSE IF Has(value, "kind2") /\ The(value, "kind2") = kind THEN value["digest2"] ELSE <<>>

Members(format) == {format[i].name : i \in {j \in DOMAIN format : format[j].role = "data"}}

Meaning(format, value) ==
  LET data == Members(format) IN
  IF "kind1" \notin DOMAIN value THEN [n \in data |-> value[n]]
  ELSE [n \in data \cup {"issuance", "confirmation"} |->
          IF n \in data THEN value[n] ELSE Slot(value, IF n = "issuance" THEN 1 ELSE 2)]

-----------------------------------------------------------------------------
\* Recovery-key events: version, operation and actor are constants.
event_format ==
  <<Const("version", 1), Const("operation", 1), Const("actor", 1),
    Field("phase", 1..6), Field("generation", NonZeroCell), Field("command", NonZeroCell),
    Field("semantic", NonZeroCell), Field("phase_fingerprint", NonZeroCell), Field("reservation", NonZeroCell)>>
  \o Option("confirmation?", "confirmation", NonZeroCell) \o Option("expires_at?", "expires_at", AnyCell)

\* An intent has neither a confirmed key nor an end, a failure an end and no
\* key, every phase between them a key and no end.
validate_event(value) ==
  CASE The(value, "phase") = 1 -> ~Has(value, "confirmation") /\ ~Has(value, "expires_at")
    [] The(value, "phase") = 6 -> ~Has(value, "confirmation") /\ Has(value, "expires_at")
    [] OTHER -> Has(value, "confirmation") /\ ~Has(value, "expires_at")

-----------------------------------------------------------------------------
\* The profile of recovery_key.generate: up to two digests, each in the slot
\* of its kind, in ascending order.
profile_format ==
  <<Const("profile", 1), Field("variant", {1, 2}), Variant("digests", 0..2),
    When("digests", {1, 2}, Variant("kind1", {1, 2})), When("digests", {1, 2}, Variant("digest1", AnyCell)),
    When("digests", {2}, Variant("kind2", {1, 2})), When("digests", {2}, Variant("digest2", AnyCell))>>

validate_profile(value) == Has(value, "kind2") => The(value, "kind1") < The(value, "kind2")

-----------------------------------------------------------------------------
\* Fixed-root commands.  The common codec takes the profile as opaque bytes;
\* the journal image decodes it.
actor_fields ==
  <<Field("actor_kind", {1, 2}), Length("actor#", "actor", NonZeroCell),
    Bytes("actor#", "actor", NonZeroCell)>>

Tag(namespace, serial, key, tag) == [namespace |-> namespace, serial |-> serial, key |-> key, tag |-> tag]

Purposes ==
  [lookup |-> Tag("lookup.namespace", "lookup.serial", "lookup.key", "lookup.tag"),
   semantic |-> Tag("semantic.namespace", "semantic.serial", "semantic.key", "semantic.tag"),
   phase |-> Tag("phase.namespace", "phase.serial", "phase.key", "phase.tag"),
   reservation |-> Tag("reservation.namespace", "reservation.serial", "reservation.key", "reservation.tag")]

tag_fields(tag) ==
  <<Field(tag.namespace, AnyCell), Field(tag.serial, AnyCell), Field(tag.key, NonZeroCell), Field(tag.tag, AnyCell)>>

retention_fields ==
  <<Variant("retention", {1, 2})>>
  \o Option("terminal_time?", "terminal_time", AnyCell) \o Option("expires_at?", "expires_at", AnyCell)

safe_result_fields(codecs, versions) ==
  <<Group("safe_result?", "result"), When("safe_result?", {1}, Field("codec", codecs)),
    When("safe_result?", {1}, Field("codec_version", versions)), When("safe_result?", {1}, Field("result", AnyCell))>>

common_fields(operations, codecs, versions) ==
  <<Const("format", 1), Field("operation", operations)>> \o actor_fields
  \o tag_fields(Purposes.lookup) \o tag_fields(Purposes.semantic)
  \o tag_fields(Purposes.phase) \o tag_fields(Purposes.reservation)
  \o <<Field("runtime", {1, 2}), Field("process_instance", NonZeroCell)>>
  \o Option("original_deadline?", "original_deadline", AnyCell)
  \o <<Field("phase", NonZeroCell)>> \o retention_fields
  \o safe_result_fields(codecs, versions)

binding_fields ==
  LET bound(field) == When("binding?", {1}, field)
      option(flag, name) == <<bound(Group(flag, name)), When(flag, {1}, Field(name, AnyCell))>>
  IN <<Group("binding?", "source"), bound(Field("source", AnyCell)), bound(Field("source_serial", AnyCell)),
       bound(Field("target", AnyCell)), bound(Field("target_serial", NonZeroCell))>>
     \o option("source_generation?", "source_generation") \o option("target_generation?", "target_generation")
     \o option("parent_witness?", "parent_witness")

command_format ==
  common_fields(1..13, AnyCell, AnyCell) \o binding_fields
  \o <<Length("profile_body#", "profile_body", AnyCell), Bytes("profile_body#", "profile_body", AnyCell)>>

\* Only recovery_key.generate, without a target, is a member of an image.
projection_format ==
  common_fields({4}, {6}, {1})
  \o <<Const("binding?", 0), Variant("profile_length", {3, 5, 7})>> \o profile_format

valid_actor(value) == (The(value, "actor_kind") = 2) => value["actor"] = Owner

\* A key before bootstrap (serial zero) may only hold a portable reservation,
\* and only under the namespace this root expects.
validate_tag(value, purpose) ==
  The(value, Purposes[purpose].serial) = 0 =>
    purpose = "reservation" /\ The(value, "reservation.namespace") = Prebootstrap

\* Mutant: a command's times may be present in part.
retention_unchecked(value) == TRUE

\* A continuation has no times; a terminal command has both, in order, and a
\* result.
validate_retention(value) ==
  IF The(value, "retention") = 1
  THEN ~Has(value, "terminal_time") /\ ~Has(value, "expires_at")
  ELSE /\ Has(value, "terminal_time") /\ Has(value, "expires_at")
       /\ The(value, "expires_at") > The(value, "terminal_time")
       /\ Has(value, "result")

\* A bootstrap comes from the prebootstrap origin, anything else from a
\* state; and a command that continues has not left its source.
validate_target_binding(value) ==
  Has(value, "source") =>
    /\ IF The(value, "operation") = 7
       THEN The(value, "source") = Prebootstrap /\ The(value, "source_serial") = 0
       ELSE The(value, "source_serial") # 0
    /\ The(value, "retention") = 1 =>
         /\ value["source"] = value["target"]
         /\ value["source_serial"] = value["target_serial"]

validate_common(value) ==
  /\ valid_actor(value)
  /\ \A purpose \in DOMAIN Purposes : validate_tag(value, purpose)
  /\ validate_retention(value)

validate_command(value) == validate_common(value) /\ validate_target_binding(value)

\* Mutant: the image does not check the keys and the actor of a command.
validate_member(value) ==
  /\ validate_retention(value)
  /\ The(value, "phase") \in 1..4
  /\ (The(value, "phase") \in {1, 2}) = (The(value, "retention") = 1)
  /\ The(value, "profile_length") = 3 + 2 * The(value, "digests")
  /\ validate_profile(value)

\* The image also knows the phases of its one operation.
validate_projection(value) ==
  /\ validate_common(value)
  /\ The(value, "phase") \in 1..4
  /\ (The(value, "phase") \in {1, 2}) = (The(value, "retention") = 1)
  /\ The(value, "profile_length") = 3 + 2 * The(value, "digests")
  /\ validate_profile(value)

-----------------------------------------------------------------------------
\* Clock authority and clock checkpoint.  The presence of both optional
\* members of a checkpoint is written before either of them.
authority_format ==
  <<Const("format", 1), Field("safe_time", AnyCell),
    Group("hold?", "generation"), When("hold?", {1}, Field("generation", NonZeroCell)),
    When("hold?", {1}, Field("observation", NonZeroCell))>>
  \o Option("last_shutdown?", "last_shutdown", AnyCell)

checkpoint_format ==
  <<Const("format", 1), Field("runtime", {1, 2}), Field("process_instance", NonZeroCell),
    Field("wall", AnyCell), Field("tick", AnyCell), Field("prior_safe_time", AnyCell), Field("new_safe_time", AnyCell),
    Field("reason", 1..4), Group("hold?", "generation"), Group("mirror?", "origin"),
    When("hold?", {1}, Field("generation", NonZeroCell)), When("hold?", {1}, Field("observation", NonZeroCell)),
    When("mirror?", {1}, Field("origin", NonZeroCell)), When("mirror?", {1}, Field("sequence", AnyCell)),
    When("mirror?", {1}, Field("transaction", NonZeroCell))>>

validate_body(value) ==
  LET prior == The(value, "prior_safe_time")
      wall == The(value, "wall")
  IN /\ The(value, "new_safe_time") = (IF prior > wall THEN prior ELSE wall)
     /\ (The(value, "reason") = 2) = Has(value, "generation")

-----------------------------------------------------------------------------
\* Members of a sealed file: the recovery ring, the active-state pointer, and
\* a state MAC key.  A ring has up to 16 rows; the table bounds it to two.
ring_format ==
  <<Const("version", 1), Variant("count", 0..2),
    When("count", {1, 2}, Field("generation1", NonZeroCell)), When("count", {1, 2}, Field("phase1", 1..3)),
    When("count", {2}, Field("generation2", NonZeroCell)), When("count", {2}, Field("phase2", 1..3))>>

validate_manifest(value) ==
  Has(value, "generation2") =>
    /\ The(value, "generation1") < The(value, "generation2")
    /\ value["phase1"] = value["phase2"] => The(value, "phase1") = 1

pointer_format ==
  <<Const("version", 1), Field("protocol_version", AnyCell),
    Length("transition_id#", "transition_id", NonZeroCell), Bytes("transition_id#", "transition_id", NonZeroCell),
    Field("final_generation", NonZeroCell),
    Length("lineage_id#", "lineage_id", NonZeroCell), Bytes("lineage_id#", "lineage_id", NonZeroCell),
    Field("target_history_epoch", AnyCell), Field("origin", 1..3), Field("certificate", NonZeroCell)>>

mac_key_format ==
  <<Const("version", 1), Field("purpose", 1..11), Field("origin", AnyCell),
    Field("key", NonZeroCell), Field("secret", NonZeroCell)>>

-----------------------------------------------------------------------------
\* Addressed operations: the value of a cell, and the action of a record, whose
\* payload is preceded by its length.
result_fields(op) ==
  IF op = "ack" THEN <<Const("result_codec", 7), Field("settled_time", AnyCell), Field("settled", Flags)>>
                ELSE <<Const("result_codec", 8), Field("ungraceful", AnyCell)>>

mirror_fields ==
  LET owed(name) == When("mirror", {1, 2}, Field(name, AnyCell)) IN
  <<Variant("mirror", 0..2), owed("origin"), owed("pre"), owed("policy"),
    When("mirror", {2}, Field("post", AnyCell))>>

value_format(op) ==
  <<Const("format", 1), Const("operation", IF op = "ack" THEN 1 ELSE 2)>> \o actor_fields
  \o (IF op = "ack"
      THEN <<Field("generation", NonZeroCell), Field("observation", NonZeroCell), Const("transition", 1),
             Const("risk_acknowledged", 1), Field("wall", AnyCell), Field("tick", AnyCell), Field("prior", AnyCell)>>
           \o Option("selected?", "selected", AnyCell) \o <<Field("target", AnyCell)>>
      ELSE <<Field("process", NonZeroCell), Const("transition", 1), Field("grace_ms", AnyCell),
             Field("tick", AnyCell), Field("deadline", AnyCell)>>)
  \o <<Field("phase", AnyCell)>> \o result_fields(op)
  \o <<Field("application", NonZeroCell), Field("publication", NonZeroCell)>> \o mirror_fields

\* What the members of a value say of one another (a head is a cell, its sequence).
acknowledge_agrees(value) ==
  LET target == Max({The(value, "prior"), The(value, "wall")} \cup Range(value["selected"]))
      phase == The(value, "phase")
  IN /\ The(value, "target") = target /\ The(value, "settled_time") = target
     /\ phase \in 1..3 /\ (The(value, "settled") = 1) = (phase = 3)
     /\ Has(value, "selected") = Has(value, "origin")

shutdown_agrees(value) ==
  LET phase == The(value, "phase") IN
  /\ The(value, "grace_ms") # 0
  /\ The(value, "tick") + The(value, "grace_ms") = The(value, "deadline")
  /\ phase \in 1..4
  /\ IF phase = 4 THEN The(value, "ungraceful") \in 1..4 ELSE The(value, "ungraceful") = 0

mirror_agrees(op, value) ==
  LET received == Has(value, "post") IN
  Has(value, "origin") =>
    /\ The(value, "origin") # 0
    /\ The(value, "policy") \in IF op = "ack" THEN {1, 2} ELSE {3}
    /\ received => The(value, "phase") >= 3 /\ The(value, "post") > The(value, "pre")
    /\ ~received /\ op = "ack" => The(value, "phase") # 3

\* Only the receipt of a shutdown's mirror is published after it was applied.
heads_agree(op, value) ==
  IF op = "shutdown" /\ Has(value, "post") THEN The(value, "application") < The(value, "publication")
  ELSE The(value, "application") = The(value, "publication")

validate_addressed_value(op, value) ==
  /\ valid_actor(value)
  /\ IF op = "ack" THEN acknowledge_agrees(value) ELSE shutdown_agrees(value)
  /\ mirror_agrees(op, value)
  /\ heads_agree(op, value)

\* A phase or a receipt.  The payload of a request, tag 1, is the value above and its
\* format; that variant is left out.
action_format(op) ==
  <<Const("format", 1), Variant("action", {2, 3}), Variant("payload", AnyCell),
    When("action", {2}, Field("phase", AnyCell))>>
  \o [i \in 1..Len(result_fields(op)) |-> When("action", {2}, result_fields(op)[i])]
  \o <<When("action", {3}, Field("post.sequence", AnyCell)), When("action", {3}, Field("post.digest", AnyCell))>>

\* The length must be that of the payload.
validate_action(op, value) ==
  The(value, "payload") = IF The(value, "action") = 3 THEN 2 ELSE 1 + Len(result_fields(op))

-----------------------------------------------------------------------------
Formats ==
  [event |-> event_format, command |-> command_format, projection |-> projection_format,
   authority |-> authority_format, checkpoint |-> checkpoint_format, ring |-> ring_format,
   pointer |-> pointer_format, mac_key |-> mac_key_format,
   ack_value |-> value_format("ack"), shutdown_value |-> value_format("shutdown"),
   ack_action |-> action_format("ack"), shutdown_action |-> action_format("shutdown")]

Codecs == DOMAIN Formats

Valid(codec, value) ==
  CASE codec = "event" -> validate_event(value)
    [] codec = "command" -> validate_command(value)
    [] codec = "projection" -> validate_projection(value)
    [] codec = "checkpoint" -> validate_body(value)
    [] codec = "ring" -> validate_manifest(value)
    [] codec = "ack_value" -> validate_addressed_value("ack", value)
    [] codec = "shutdown_value" -> validate_addressed_value("shutdown", value)
    [] codec = "ack_action" -> validate_action("ack", value)
    [] codec = "shutdown_action" -> validate_action("shutdown", value)
    [] OTHER -> TRUE

\* Decoding: the value the fields stand for, or Invalid.  (The singleton has TLC
\* read the wire once.)
Decode(codec, wire) ==
  CHOOSE answer \in
    {IF Complete(reader, wire) /\ Valid(codec, reader.value) THEN Meaning(Formats[codec], reader.value)
     ELSE Invalid : reader \in {ReadFields(Formats[codec], wire)}} : TRUE

Encode(codec, value) == WriteAll(Formats[codec], value)

-----------------------------------------------------------------------------
\* A writer fills a format field by field; then the wire may be damaged on its
\* way, and is decoded.
VARIABLES
  codec, wire,
  filled,    \* the fields written so far
  position,  \* how many
  sent, edits,
  decoded

\* A cell holds at least the codes of the formats, and an error is not a value.
WireConstants ==
  /\ Cells \subseteq Nat /\ 0..13 \subseteq Cells /\ EditCells \subseteq Nat
  /\ \A c \in Codecs : Invalid \notin [Members(Formats[c]) -> Seq(Cells)]

ASSUME WireAssumption == WireConstants

wireVars == <<codec, wire, filled, position, sent, edits, decoded>>

WireInit ==
  /\ codec \in Codecs
  /\ wire = <<>> /\ filled = << >> /\ position = 0
  /\ sent = FALSE /\ edits = 0 /\ decoded = Invalid

WriteField ==
  /\ ~sent /\ position < Len(Formats[codec])
  /\ \E field \in {Formats[codec][position + 1]} :
     \E cells \in [1..Extent(filled, field) -> field.codes \cap Sample(codec, field)] :
       /\ wire' = wire \o cells
       /\ filled' = Put(filled, field.name, cells)
  /\ position' = position + 1
  /\ UNCHANGED <<codec, sent, edits, decoded>>

Send ==
  /\ ~sent /\ position = Len(Formats[codec])
  /\ sent' = TRUE
  /\ decoded' = Decode(codec, wire)
  /\ UNCHANGED <<codec, wire, filled, position, edits>>

\* One cell is changed, lost or inserted.
Damaged(w) ==
  {ReplaceAt(w, i, c) : i \in DOMAIN w, c \in EditCells}
  \cup {RemoveAt(w, i) : i \in DOMAIN w}
  \cup {InsertAt(w, i, c) : i \in 1..(Len(w) + 1), c \in EditCells}

Damage ==
  /\ sent /\ edits < MaxEdits /\ decoded # Invalid
  /\ edits' = edits + 1
  /\ wire' \in Damaged(wire) \ {wire}
  /\ decoded' = Decode(codec, wire')
  /\ UNCHANGED <<codec, filled, position, sent>>

WireNext == WriteField \/ Send \/ Damage

WireSpec == WireInit /\ [][WireNext]_wireVars

-----------------------------------------------------------------------------
\* One value, one wire: whatever a decoder accepts, damaged or not, its encoder
\* writes for the value that was read, every presence, tag, count and length
\* included.  Digests, fingerprints and sort keys are taken over these bytes.
Canonical == decoded # Invalid => Encode(codec, decoded) = wire

\* No accepted wire is the beginning of another one, so that what a crash or a
\* short read leaves of it is refused.
NoPrefixAccepted ==
  sent /\ edits = 0 /\ decoded # Invalid =>
    \A n \in 0..(Len(wire) - 1) : Decode(codec, SubSeq(wire, 1, n)) = Invalid

\* The two codecs of one command agree: what the journal image takes for a
\* command, the common codec takes for the same command.
SameCommand ==
  codec = "projection" /\ decoded # Invalid =>
    LET common == Decode("command", wire) IN
    /\ common # Invalid
    /\ \A n \in DOMAIN common \cap DOMAIN decoded : common[n] = decoded[n]
    /\ ~Has(common, "source")

-----------------------------------------------------------------------------
\* The codecs: whatever a decoder accepts, damaged or not, its encoder writes for
\* the value that was read; no accepted wire is the beginning of another one; and
\* what the journal image takes for a command the common codec takes for the same
\* command.
WireSafety == Canonical /\ NoPrefixAccepted /\ SameCommand
=============================================================================

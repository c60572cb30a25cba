----------------------------- MODULE PathSegments -----------------------------
(***************************************************************************)
(* Typed path segments (msgriver-protocol, path.rs): provider identifiers, *)
(* message identifiers, and schema identifiers in unpadded base64url,      *)
(* decoded and encoded by hand.  A resource is addressed by the segment    *)
(* that the server itself wrote, and by no other spelling of it.           *)
(*                                                                         *)
(* A segment is a string of byte codes.  Bytes of the decoder are computed *)
(* modulo 256, as u8 shifts drop what they push out.                       *)
(***************************************************************************)
EXTENDS Integers, Sequences, FiniteSets, SequencesExt

CONSTANTS
  Names,      \* schema identifiers the server has, as bytes
  Spellings,  \* further segments a client may send
  MaxNames,   \* bound: identifiers published
  Utf8(_)     \* is a string of bytes a character string?

Octets == 0..255

\* A schema identifier is a str of the code, so its bytes are characters.
ASSUME SegmentConstants ==
  /\ Spellings \subseteq Seq(Octets)
  /\ \A name \in Names : name \in Seq(Octets) /\ Utf8(name)

VARIABLES
  stored,     \* the schema identifiers the server has published so far
  links,      \* segment |-> the identifier it was written for
  answer      \* what the last request resolved to

segmentVars == <<stored, links, answer>>

NoResult == <<>>

-----------------------------------------------------------------------------
base64url_value(byte) ==
  CASE byte \in 65..90 -> <<byte - 65>>
    [] byte \in 97..122 -> <<byte - 97 + 26>>
    [] byte \in 48..57 -> <<byte - 48 + 52>>
    [] byte = 45 -> <<62>>
    [] byte = 95 -> <<63>>
    [] OTHER -> NoResult

ALPHABET(value) ==
  CASE value \in 0..25 -> 65 + value
    [] value \in 26..51 -> 97 + value - 26
    [] value \in 52..61 -> 48 + value - 52
    [] value = 62 -> 45
    [] OTHER -> 95

chunks(values, n) ==
  [i \in 1..(Len(values) + n - 1) \div n |->
     SubSeq(values, n * (i - 1) + 1, IF n * i < Len(values) THEN n * i ELSE Len(values))]

At(chunk, i) == IF i <= Len(chunk) THEN chunk[i] ELSE 0

decode_chunk(chunk) ==
  SubSeq(<<((chunk[1] * 4) % 256) + (At(chunk, 2) \div 16),
           ((At(chunk, 2) * 16) % 256) + (At(chunk, 3) \div 4),
           ((At(chunk, 3) * 64) % 256) + At(chunk, 4)>>,
         1, IF Len(chunk) = 1 THEN 1 ELSE Len(chunk) - 1)

spare_bits_set(values) ==
  \/ Len(values) % 4 = 2 /\ Last(values) % 16 # 0
  \/ Len(values) % 4 = 3 /\ Last(values) % 4 # 0

decode_base64url(segment) ==
  LET read == [i \in DOMAIN segment |-> base64url_value(segment[i])]
      values == FlattenSeq(read)
  IN IF NoResult \in Range(read) \/ Len(values) % 4 = 1 \/ spare_bits_set(values) THEN NoResult
     ELSE <<FlattenSeq([i \in DOMAIN chunks(values, 4) |-> decode_chunk(chunks(values, 4)[i])])>>

encode_chunk(chunk) ==
  SubSeq(<<ALPHABET(chunk[1] \div 4),
           ALPHABET(((chunk[1] % 4) * 16) + (At(chunk, 2) \div 16)),
           ALPHABET(((At(chunk, 2) % 16) * 4) + (At(chunk, 3) \div 64)),
           ALPHABET(At(chunk, 3) % 64)>>,
         1, Len(chunk) + 1)

\* Mutant: the last group is filled up to four characters.
encode_padded(bytes) ==
  FlattenSeq([i \in DOMAIN chunks(bytes, 3) |->
    LET chunk == chunks(bytes, 3)[i] IN
    encode_chunk(<<chunk[1], At(chunk, 2), At(chunk, 3)>>)])

encode_base64url(bytes) ==
  FlattenSeq([i \in DOMAIN chunks(bytes, 3) |-> encode_chunk(chunks(bytes, 3)[i])])

\* Mutant: what was read is not spelled again, and spare bits are ignored.
any_spelling(segment) ==
  LET read == [i \in DOMAIN segment |-> base64url_value(segment[i])]
      values == FlattenSeq(read)
  IN IF NoResult \in Range(read) \/ Len(values) % 4 = 1 THEN NoResult
     ELSE <<FlattenSeq([i \in DOMAIN chunks(values, 4) |-> decode_chunk(chunks(values, 4)[i])])>>

provider_schema_id(segment) ==
  LET decoded == decode_base64url(segment) IN
  IF decoded = NoResult THEN NoResult
  ELSE IF ~Utf8(decoded[1]) \/ encode_base64url(decoded[1]) # segment THEN NoResult
  ELSE decoded

Lower(byte) == byte \in 97..122
Digit(byte) == byte \in 48..57

provider_id(segment) ==
  IF /\ Len(segment) \in 1..64
     /\ Lower(segment[1])
     /\ \A byte \in Range(Tail(segment)) : Lower(byte) \/ Digit(byte) \/ byte \in {95, 45}
  THEN <<segment>> ELSE NoResult

Dashes == {9, 14, 19, 24}

\* Mutant: hexadecimal digits of either case.
either_case(segment) ==
  IF /\ Len(segment) = 36
     /\ \A i \in 1..36 : IF i \in Dashes THEN segment[i] = 45
                         ELSE Digit(segment[i]) \/ segment[i] \in 97..102 \cup 65..70
     /\ segment[15] = 55
     /\ segment[20] \in {56, 57, 97, 98}
  THEN <<segment>> ELSE NoResult

message_id(segment) ==
  IF /\ Len(segment) = 36
     /\ \A i \in 1..36 : IF i \in Dashes THEN segment[i] = 45
                         ELSE Digit(segment[i]) \/ segment[i] \in 97..102
     /\ segment[15] = 55
     /\ segment[20] \in {56, 57, 97, 98}
  THEN <<segment>> ELSE NoResult

\* A segment is decoded by the codec its route names.
decode_path_segment(codec, segment) ==
  CASE codec = "PathProviderIdV1" -> provider_id(segment)
    [] codec = "PathProviderSchemaIdV1" -> provider_schema_id(segment)
    [] codec = "PathMessageIdV1" -> message_id(segment)

-----------------------------------------------------------------------------
\* The server publishes identifiers with links to them; clients follow a link,
\* or send a segment of their own.  Both are external to the decoder.
SegmentCodecs == {"PathProviderIdV1", "PathProviderSchemaIdV1", "PathMessageIdV1"}

SegmentInit == stored = {} /\ links = {} /\ answer = <<"none">>

Publish(name) ==
  /\ Cardinality(stored) < MaxNames
  /\ stored' = stored \cup {name}
  /\ links' = links \cup {<<encode_base64url(name), name>>}
  /\ UNCHANGED answer

Follow(codec, segment) ==
  /\ answer' = <<codec, segment, decode_path_segment(codec, segment)>>
  /\ UNCHANGED <<stored, links>>

Respond ==
  /\ answer # <<"none">>
  /\ answer' = <<"none">>
  /\ UNCHANGED <<stored, links>>

SegmentNext ==
  \/ \E name \in Names \ stored : Publish(name)
  \/ /\ answer = <<"none">>
     /\ \/ \E link \in links : Follow("PathProviderSchemaIdV1", link[1])
        \/ \E codec \in SegmentCodecs, segment \in Spellings : Follow(codec, segment)
  \/ Respond

SegmentSpec == SegmentInit /\ [][SegmentNext]_segmentVars

-----------------------------------------------------------------------------
Folded(segment) == [i \in DOMAIN segment |->
  IF segment[i] \in 65..90 THEN segment[i] + 32 ELSE segment[i]]

Schema == answer[1] = "PathProviderSchemaIdV1"

\* provider_schema_id: a link the server wrote leads to the identifier it was
\* written for, whatever its bytes, and never to another one's.
LinksResolve ==
  Schema => \A link \in links : link[1] = answer[2] => answer[3] = <<link[2]>>

\* provider_schema_id: no two segments are taken for the same identifier, so a
\* rule keyed on the segment cannot be evaded by another spelling.
OneSpelling ==
  Schema /\ answer[3] # NoResult =>
    \A link \in links : link[2] = answer[3][1] => link[1] = answer[2]

\* provider_id and message_id: of the spellings that differ only in the case of
\* their letters at most one is accepted, so a lookup that folds case and one
\* that does not agree.
CaseApart ==
  answer[1] \in {"PathProviderIdV1", "PathMessageIdV1"} =>
    \A other \in Spellings :
      /\ answer[3] # NoResult
      /\ other # answer[2]
      /\ Folded(other) = Folded(answer[2])
      => decode_path_segment(answer[1], other) = NoResult

\* Path segments: a link the server wrote leads to the identifier it was written
\* for; no two segments are taken for the same identifier; of the spellings that
\* differ only in case at most one is accepted (provider_schema_id, provider_id,
\* message_id).
SegmentSafety == LinksResolve /\ OneSpelling /\ CaseApart

-----------------------------------------------------------------------------
\* The inductive invariant: links are the encodings of identifiers, and an answer
\* is what the decoder says of its segment.
SegmentInv ==
  /\ \A link \in links : \E name \in Names : link = <<encode_base64url(name), name>>
  /\ \/ answer = <<"none">>
     \/ /\ answer = <<answer[1], answer[2], decode_path_segment(answer[1], answer[2])>>
        /\ answer[1] \in SegmentCodecs
        /\ Schema \/ answer[2] \in Spellings
=============================================================================

---------------------------- MODULE CanonicalBytes ----------------------------
(***************************************************************************)
(* The canonical bytes of a semantic request (msgriver-core, canon.rs).    *)
(*                                                                         *)
(* A byte is a number below 256.  A fixed word of the code (a kind, a      *)
(* schema identifier, a domain) is one cell of 256 or more, so no data is  *)
(* taken for one.  Lengths and instants stay below 256: the leading bytes  *)
(* of their fixed-width forms are zero.                                    *)
(***************************************************************************)
EXTENDS Integers, Sequences, FiniteSets, SequencesExt

Err == <<>>
None == <<>>

ntfy == <<256>>
ntfy_topic == <<257>>
text == <<258>>
alerts == <<259>>
hello == <<260>>
default == <<261>>
apple == <<262>>
mango == <<263>>
zebra == <<264>>

RequestDomain == <<300>>
TopicSchema == <<301>>
TextSchema == <<302>>
OptionsSchema == <<303>>

-----------------------------------------------------------------------------
\* Byte strings.
u32_be(n) == <<0, 0, 0, n>>
to_be_bytes(n) == <<0, 0, 0, 0, 0, 0, 0, n>>

\* Mutant: a field is written without its length.
unframed(value) == value

lp32(value) == u32_be(Len(value)) \o value

is_ascii(value) == Range(value) \cap 128..255 = {}
valid_ascii(value) == value # <<>> /\ is_ascii(value)

\* Characters of one or two bytes.
Lead(byte) == byte \in 194..223
Continuation(byte) == byte \in 128..191
from_utf8(value) ==
  \A i \in DOMAIN value :
    /\ value[i] \in 128..193 \cup 224..255 => Continuation(value[i]) /\ i > 1 /\ Lead(value[i - 1])
    /\ Lead(value[i]) => i < Len(value) /\ Continuation(value[i + 1])

BytesBefore(a, b) ==
  \E i \in DOMAIN b :
    /\ i <= Len(a) + 1
    /\ \A j \in 1..(i - 1) : a[j] = b[j]
    /\ i = Len(a) + 1 \/ a[i] < b[i]

\* Mutant: tags keep the order and the repetitions of the caller.
as_given(values) == values

sort_dedup(values) ==
  LET S == Range(values) IN
  [k \in 1..Cardinality(S) |-> CHOOSE v \in S : Cardinality({u \in S : BytesBefore(u, v)}) = k - 1]

lp32_all(values) == FlattenSeq([i \in DOMAIN values |-> lp32(values[i])])

-----------------------------------------------------------------------------
\* The encoding.
NoOptions(input) ==
  /\ input.options_kind = None
  /\ input.options_schema_version = None
  /\ ~input.options_set_like
  /\ input.options_fields = <<>>

NtfyOptions(input) ==
  /\ input.options_kind = <<ntfy>>
  /\ input.options_schema_version = <<1>>
  /\ input.options_set_like

LegacyShaped(input) ==
  /\ input.expires_at_millis = None
  /\ input.correlation_id = None
  /\ input.provider = ntfy
  /\ input.destination_kind = ntfy_topic
  /\ input.destination_schema_version = 1
  /\ input.content_kind = text
  /\ input.content_schema_version = 1
  /\ Len(input.destination_fields) = 1
  /\ Len(input.content_fields) = 2
  /\ \A v \in Range(input.destination_fields \o input.content_fields) : valid_ascii(v)
  /\ \/ NoOptions(input)
     \/ /\ NtfyOptions(input)
        /\ input.options_fields # <<>>
        /\ \A v \in Range(input.options_fields) : valid_ascii(v)

legacy_canonical_request_v1(input) ==
  LET tags == sort_dedup(input.options_fields) IN
  RequestDomain \o <<1>> \o lp32(input.provider)
    \o lp32(input.destination_kind) \o u32_be(4) \o u32_be(input.destination_schema_version)
    \o u32_be(1) \o lp32(input.destination_fields[1])
    \o lp32(input.content_kind) \o u32_be(4) \o u32_be(input.content_schema_version)
    \o u32_be(2) \o lp32_all(input.content_fields)
    \o (IF NoOptions(input) THEN <<0>>
        ELSE <<1>> \o lp32(ntfy) \o u32_be(4) \o u32_be(1) \o u32_be(Len(tags)) \o lp32_all(tags))
    \o <<0, 0>>

normalized_transition_tags(input) ==
  /\ NtfyOptions(input)
  /\ input.options_fields # <<>>
  /\ Head(input.options_fields) = default
  /\ sort_dedup(Tail(input.options_fields)) = <<apple, mango, zebra>>

admitted_first_slice_profile(input) ==
  \/ /\ input.expires_at_millis # None
     /\ input.correlation_id # None
     /\ NtfyOptions(input)
  \/ /\ input.destination_fields = <<alerts>>
     /\ input.content_fields = <<hello>>
     /\ input.expires_at_millis = None
     /\ input.correlation_id = None
     /\ NoOptions(input) \/ normalized_transition_tags(input)

\* A payload is <<bytes>>, or <<>> for a request no schema of this slice has.
destination_payload(input) ==
  IF /\ input.provider = ntfy
     /\ input.destination_kind = ntfy_topic
     /\ input.destination_schema_version = 1
     /\ Len(input.destination_fields) = 1
     /\ valid_ascii(input.destination_fields[1])
  THEN <<lp32(input.destination_fields[1])>> ELSE Err

content_payload(input) ==
  LET fields == input.content_fields IN
  IF /\ input.content_kind = text
     /\ input.content_schema_version = 1
     /\ Len(fields) \in {1, 2}
     /\ Last(fields) # <<>>
     /\ \A v \in Range(fields) : from_utf8(v)
  THEN <<(IF Len(fields) = 2 THEN <<1>> \o lp32(fields[1]) ELSE <<0>>) \o lp32(Last(fields))>>
  ELSE Err

options_payload(input) ==
  LET fields == IF NoOptions(input) THEN <<default>> ELSE input.options_fields
      tags == sort_dedup(Tail(fields))
  IN IF /\ NoOptions(input) \/ (NtfyOptions(input) /\ fields # <<>>)
        /\ \A v \in Range(fields) : valid_ascii(v)
     THEN <<lp32(Head(fields)) \o u32_be(Len(tags)) \o lp32_all(tags)>> ELSE Err

segment(role, schema_id, kind, payload) ==
  <<role>> \o lp32(schema_id) \o lp32(kind) \o u32_be(1) \o lp32(payload)

PayloadsOk(input) ==
  /\ destination_payload(input) # Err
  /\ content_payload(input) # Err
  /\ options_payload(input) # Err
  /\ \A v \in Range(input.correlation_id) : valid_ascii(v)

canonical_request_v1(input) ==
  IF LegacyShaped(input) THEN <<legacy_canonical_request_v1(input)>>
  ELSE IF ~admitted_first_slice_profile(input) \/ ~PayloadsOk(input) THEN Err
  ELSE <<RequestDomain \o u32_be(1) \o lp32(ntfy)
           \o segment(1, TopicSchema, ntfy_topic, destination_payload(input)[1])
           \o segment(2, TextSchema, text, content_payload(input)[1])
           \o <<1>> \o segment(3, OptionsSchema, ntfy, options_payload(input)[1])
           \o (IF input.expires_at_millis = None THEN <<0>>
               ELSE <<1>> \o to_be_bytes(input.expires_at_millis[1]))
           \o (IF input.correlation_id = None THEN <<0>>
               ELSE <<1>> \o lp32(input.correlation_id[1]))>>
=============================================================================

------------------------------- MODULE Admission -------------------------------
(***************************************************************************)
(* The bounded grammar of msgriver-core (bounded.rs) in front of the       *)
(* canonical encoder: identifiers, topics, tags and text content are       *)
(* checked field by field, and what passes is what the encoder is given.   *)
(*                                                                         *)
(* Values are strings of bytes; the limits are constants, so that strings  *)
(* on both sides of each are short.  A check returns "Ok", a class it      *)
(* rejects with, or "Scaffold" where the crate leaves a case undecided.    *)
(***************************************************************************)
EXTENDS CanonicalBytes

CONSTANTS
  Words,           \* identifiers, topics and tags callers send
  TextBodies, Titles,   \* text contents; a title is <<>> or <<bytes>>
  Instants,        \* UTC milliseconds
  IdentifierMax,   \* 128
  TopicMax,        \* 64
  TagMax,          \* 32
  TagsMax,         \* 8
  DefaultText,     \* 4096, the text limit of the default profile
  DefaultTitle,    \* 256, its title limit
  Limits           \* <<text limit, title limit>> a caller may ask for

\* Values are strings of bytes; a title is at most one.
ASSUME AdmissionAssumption ==
  /\ Words \subseteq Seq(0..255) /\ TextBodies \subseteq Seq(0..255)
  /\ \A title \in Titles : title \in Seq(Seq(0..255)) /\ Len(title) <= 1
  /\ Instants \subseteq Nat
  /\ {IdentifierMax, TopicMax, TagMax, TagsMax} \subseteq Nat
  /\ Limits \subseteq Nat \X Nat

VARIABLES
  draft,    \* the fields of a request checked so far
  checked   \* field |-> what its check said

admissionVars == <<draft, checked>>

-----------------------------------------------------------------------------
Alphanumerics == 48..57 \cup 65..90 \cup 97..122
valid_identifier_bytes == Alphanumerics \cup {46, 95, 58, 47, 45}
valid_topic_bytes == Alphanumerics \cup {95, 45}
valid_tag_bytes == Alphanumerics \cup {95, 43, 45}

\* Control characters: the ASCII ones, and those of the two-byte block at 0x80.
ControlAt(value, i) ==
  \/ value[i] < 32
  \/ value[i] = 127
  \/ value[i] = 194 /\ i < Len(value) /\ value[i + 1] \in 128..159

has_control_character(value) == \E i \in DOMAIN value : ControlAt(value, i)
has_disallowed_text_control(value) ==
  \E i \in DOMAIN value : ControlAt(value, i) /\ value[i] \notin {9, 10, 13}

ShapedLike(value, max, valid) ==
  /\ Len(value) \in 1..max
  /\ value[1] \in Alphanumerics
  /\ Range(value) \subseteq valid

check_identifier(bytes) ==
  IF ShapedLike(bytes, IdentifierMax, valid_identifier_bytes) THEN "Ok" ELSE "InvalidIdentifier"

check_ntfy_topic(bytes) ==
  IF ShapedLike(bytes, TopicMax, valid_topic_bytes) THEN "Ok" ELSE "InvalidTopic"

\* Mutant: an empty tag is not looked at.
skips_empty_tags(tags) ==
  IF Len(tags) > TagsMax THEN "TooManyTags"
  ELSE IF \A tag \in Range(tags) : tag = <<>> \/ ShapedLike(tag, TagMax, valid_tag_bytes)
  THEN "Ok" ELSE "InvalidTag"

check_ntfy_tags(tags) ==
  LET invalid_tag == \E tag \in Range(tags) : ~ShapedLike(tag, TagMax, valid_tag_bytes) IN
  CASE Len(tags) > TagsMax /\ invalid_tag -> "Scaffold"
    [] Len(tags) > TagsMax /\ ~invalid_tag -> "TooManyTags"
    [] Len(tags) <= TagsMax /\ invalid_tag -> "InvalidTag"
    [] OTHER -> "Ok"

\* Text content, in the order of the code's returns.  The titles the code names
\* for the text "hello" get the class every short title with a control gets.
empty_text(title, default_profile) ==
  IF ~default_profile THEN "Scaffold"
  ELSE IF title = None THEN "EmptyText"
  ELSE IF Len(title[1]) > DefaultTitle THEN "Scaffold"
  ELSE IF ~from_utf8(title[1]) THEN "EmptyText"
  ELSE IF valid_ascii(title[1]) /\ ~has_control_character(title[1]) THEN "EmptyText"
  ELSE "Scaffold"

\* What a text with control characters is told, or "Ok" to go on.
control_text(body, title, limits, default_profile) ==
  LET within == default_profile /\ Len(body) < limits[1] IN
  CASE within /\ ~has_disallowed_text_control(body) ->
         IF \E t \in Range(title) :
              ~from_utf8(t) \/ t = <<>> \/ Len(t) >= limits[2] \/ has_control_character(t)
         THEN "Scaffold" ELSE "Ok"
    [] within /\ has_disallowed_text_control(body) /\ title = None -> "InvalidTextControl"
    [] OTHER -> "Scaffold"

\* The title of a text that is below its limit.
check_title(title, limits, default_profile) ==
  IF ~from_utf8(title)
  THEN IF Len(title) > limits[2] \/ Range(title) \cap {0, 10, 13} # {}
       THEN "Scaffold" ELSE "InvalidUtf8"
  ELSE IF has_control_character(title)
  THEN IF default_profile /\ Len(title) < limits[2] THEN "InvalidTitleControl" ELSE "Scaffold"
  ELSE IF Len(title) > limits[2] THEN "TitleTooLong"
  ELSE IF default_profile THEN "Ok" ELSE "Scaffold"

\* Mutant: a title excuses a text that is too long.
length_after_title(body, title, limits) ==
  LET default_profile == limits = <<DefaultText, DefaultTitle>> IN
  IF ~from_utf8(body) THEN "InvalidUtf8"
  ELSE IF body = <<>> THEN empty_text(title, default_profile)
  ELSE IF has_control_character(body) /\ control_text(body, title, limits, default_profile) # "Ok"
  THEN control_text(body, title, limits, default_profile)
  ELSE IF title # None THEN check_title(title[1], limits, default_profile)
  ELSE IF Len(body) > limits[1] THEN "TextTooLong"
  ELSE IF default_profile THEN "Ok" ELSE "Scaffold"

\* Mutant: a text that is no character string is reported by its length first.
length_before_utf8(body, title, limits) ==
  IF Len(body) >= limits[1] THEN "TextTooLong"
  ELSE IF ~from_utf8(body) THEN "InvalidUtf8" ELSE "Ok"

check_text_content(body, title, limits) ==
  LET default_profile == limits = <<DefaultText, DefaultTitle>> IN
  IF ~from_utf8(body)
  THEN IF title = None /\ Len(body) <= limits[1] THEN "InvalidUtf8" ELSE "Scaffold"
  ELSE IF body = <<>> THEN empty_text(title, default_profile)
  ELSE IF has_control_character(body) /\ control_text(body, title, limits, default_profile) # "Ok"
  THEN control_text(body, title, limits, default_profile)
  ELSE IF Len(body) > limits[1] THEN IF title = None THEN "TextTooLong" ELSE "Scaffold"
  ELSE IF title # None
  THEN IF Len(body) = limits[1] THEN "Scaffold"
       ELSE check_title(title[1], limits, default_profile)
  ELSE IF default_profile \/ Len(body) = limits[1] THEN "Ok" ELSE "Scaffold"

check_expiry_boundary(now_utc_millis, expires_at_utc_millis) ==
  IF expires_at_utc_millis <= now_utc_millis THEN "ExpiryInPast" ELSE "Ok"

-----------------------------------------------------------------------------
\* A request is checked field by field and given up at the first that fails.
Fields == <<"topic", "tags", "expiry", "correlation", "content">>

AdmissionInit == draft = [f \in Range(Fields) |-> None] /\ checked = [f \in Range(Fields) |-> "Unchecked"]

Turn(n) ==
  /\ checked[Fields[n]] = "Unchecked"
  /\ \A i \in 1..n - 1 : checked[Fields[i]] = "Ok"

Decide(n, value, said) ==
  /\ draft' = [draft EXCEPT ![Fields[n]] = value]
  /\ checked' = [checked EXCEPT ![Fields[n]] = said]

Topic(word) == Decide(1, <<word>>, check_ntfy_topic(word))
Tags(words) == Decide(2, words, check_ntfy_tags(words))
Expire(now, expiry) == Decide(3, <<now, expiry>>, check_expiry_boundary(now, expiry))
Correlate(word) == Decide(4, <<word>>, check_identifier(word))
TextContent(body, title, limits) ==
  Decide(5, <<body, title, limits>>, check_text_content(body, title, limits))

AdmissionNext ==
  \/ Turn(1) /\ \E word \in Words : Topic(word)
  \/ Turn(2) /\ \E words \in BoundedSeq(Words, TagsMax + 1) : Tags(words)
  \/ Turn(3) /\ \E now, expiry \in Instants : Expire(now, expiry)
  \/ Turn(4) /\ \E word \in Words : Correlate(word)
  \/ Turn(5) /\ \E body \in TextBodies, title \in Titles, limits \in Limits : TextContent(body, title, limits)

AdmissionSpec == AdmissionInit /\ [][AdmissionNext]_admissionVars

-----------------------------------------------------------------------------
\* The request the encoder is given for a draft.
Encoder(fields) ==
  [provider |-> ntfy, destination_kind |-> ntfy_topic, destination_schema_version |-> 1,
   destination_fields |-> fields.topic, content_kind |-> text, content_schema_version |-> 1,
   content_fields |-> fields.content[2] \o <<fields.content[1]>>,
   options_kind |-> <<ntfy>>, options_schema_version |-> <<1>>, options_set_like |-> TRUE,
   options_fields |-> <<default>> \o fields.tags,
   expires_at_millis |-> <<fields.expiry[2]>>, correlation_id |-> fields.correlation]

\* bounded.rs and canon.rs: a request whose every field passed its check is
\* never refused by canonical_request_v1.
AdmittedEncodes ==
  (\A f \in DOMAIN checked : checked[f] = "Ok") => canonical_request_v1(Encoder(draft)) # Err

\* check_text_content: what is accepted is a nonempty character string within
\* its limit whose only controls are tab and line ends, under a title that is
\* within its own limit and has no control characters at all.
AcceptedIsClean ==
  checked.content = "Ok" =>
    LET body == draft.content[1] limits == draft.content[3] IN
    /\ Len(body) \in 1..limits[1]
    /\ from_utf8(body)
    /\ \A i \in DOMAIN body : ControlAt(body, i) => body[i] \in {9, 10, 13}
    /\ \A title \in Range(draft.content[2]) :
         /\ Len(title) <= limits[2]
         /\ from_utf8(title)
         /\ \A i \in DOMAIN title : ~ControlAt(title, i)

\* check_text_content: a rejection names a rule that the content breaks.
RejectionsJustified ==
  checked.content \in {"EmptyText", "TextTooLong", "TitleTooLong", "InvalidUtf8",
                       "InvalidTextControl", "InvalidTitleControl"} =>
    LET body == draft.content[1]
        titles == Range(draft.content[2])
        limits == draft.content[3]
    IN CASE checked.content = "EmptyText" -> body = <<>>
         [] checked.content = "TextTooLong" -> Len(body) > limits[1]
         [] checked.content = "TitleTooLong" -> \E t \in titles : Len(t) > limits[2]
         [] checked.content = "InvalidUtf8" -> \E v \in titles \cup {body} : ~from_utf8(v)
         [] checked.content = "InvalidTextControl" -> has_disallowed_text_control(body)
         [] OTHER -> \E t \in titles : \E i \in DOMAIN t : ControlAt(t, i)

\* Admission: a request whose every field passed its check is never refused by
\* canonical_request_v1; accepted content is clean and within its limits, and a
\* rejection names a rule that the content breaks (check_text_content).
AdmissionSafety == AdmittedEncodes /\ AcceptedIsClean /\ RejectionsJustified

-----------------------------------------------------------------------------
\* What is recorded of a field is what its check said of the value kept.
Kept(field, record) == checked[field] = "Unchecked" \/ record

AdmissionInv ==
  /\ DOMAIN draft = Range(Fields) /\ DOMAIN checked = Range(Fields)
  /\ Kept("topic", \E word \in Words :
       draft.topic = <<word>> /\ checked.topic = check_ntfy_topic(word))
  /\ Kept("tags", \E words \in BoundedSeq(Words, TagsMax + 1) :
       draft.tags = words /\ checked.tags = check_ntfy_tags(words))
  /\ Kept("expiry", \E now, expiry \in Instants : draft.expiry = <<now, expiry>>)
  /\ Kept("correlation", \E word \in Words :
       draft.correlation = <<word>> /\ checked.correlation = check_identifier(word))
  /\ Kept("content", \E body \in TextBodies, title \in Titles, limits \in Limits :
       /\ draft.content = <<body, title, limits>>
       /\ checked.content = check_text_content(body, title, limits))
=============================================================================

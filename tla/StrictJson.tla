------------------------------ MODULE StrictJson ------------------------------
(***************************************************************************)
(* The JSON preflight of msgriver-protocol (json.rs): a scan of the bytes  *)
(* that bounds the nesting before serde_json is called at all, and the     *)
(* visitors serde_json then drives.  A writer produces a document token by *)
(* token; the scan and the visitors read along.  serde_json is external:   *)
(* it reports the tokens of a legal text in order, strings decoded, and    *)
(* fails where the text stops being legal.                                 *)
(*                                                                         *)
(* Bytes are told apart as far as the scan does: "q" is the quote, "\" the *)
(* backslash, "c" a control byte, "x" any other.  Commas, colons, numbers  *)
(* and blanks are "other" bytes and left out.                              *)
(***************************************************************************)
EXTENDS Integers, Sequences, FiniteSets, SequencesExt, TLC

CONSTANTS
  FieldNames,                \* field names, decoded
  FieldSets,             \* the allowed_fields of a call; {} is the open preflight
  Inside,                \* field or text |-> the byte strings it may be spelled as
  StringTexts,                 \* string values
  MAX_STRUCTURAL_DEPTH,  \* 64
  MaxTokens              \* bound: tokens of a document

JsonBytes == {"q", "\\", "c", "x", "{", "}", "[", "]"}

\* The inside of a legal JSON string: `escaped' are the bytes right after a
\* backslash that is not itself one of them; every other quote would end the
\* string, the last byte escapes nothing, and no byte is a control.
LegalInside(bytes) ==
  \E escaped \in SUBSET DOMAIN bytes : \A i \in DOMAIN bytes :
    /\ i \in escaped <=> i > 1 /\ i - 1 \notin escaped /\ bytes[i - 1] = "\\"
    /\ bytes[i] = "q" => i \in escaped
    /\ bytes[i] = "\\" /\ i \notin escaped => i < Len(bytes)
    /\ bytes[i] # "c"

ASSUME JsonAssumption ==
  /\ MAX_STRUCTURAL_DEPTH \in Nat /\ MaxTokens \in Nat
  /\ \A content \in FieldNames \cup StringTexts : \A bytes \in Inside[content] :
       bytes \in Seq(JsonBytes) /\ LegalInside(bytes)

VARIABLES
  allowed_fields,  \* the call's argument
  stack,           \* the open arrays and objects, outermost first
  scan,            \* the lexical scan
  rejection,       \* what a visitor rejected with, or "none"
  malformed,       \* serde_json has failed
  complete,        \* the root value is complete
  tokens,          \* tokens written
  verdict,         \* strict_json_value's result, or "reading"
  deepest,         \* greatest nesting of the document
  named            \* <<object, field>> in the order written

jsonVars == <<allowed_fields, stack, scan, rejection, malformed, complete, tokens,
          verdict, deepest, named>>

-----------------------------------------------------------------------------
\* The lexical scan.
Delimiters == {"{", "["}
Opening == [byte \in {"}", "]"} |-> IF byte = "}" THEN "{" ELSE "["]

PushDelimiter(s, byte) ==
  [s EXCEPT !.nesting = Append(s.nesting, byte),
            !.invalid = s.invalid \/ Len(s.nesting) >= MAX_STRUCTURAL_DEPTH]

PopDelimiter(s, byte) ==
  IF s.nesting # <<>> /\ Last(s.nesting) = Opening[byte]
  THEN [s EXCEPT !.nesting = Front(s.nesting)] ELSE [s EXCEPT !.invalid = TRUE]

\* Mutant: a backslash means nothing to the scan.
unescaped_byte(s, byte) ==
  CASE s.in_string -> [s EXCEPT !.in_string = byte # "q", !.invalid = s.invalid \/ byte = "c"]
    [] ~s.in_string /\ byte = "q" -> [s EXCEPT !.in_string = TRUE]
    [] ~s.in_string /\ byte \in Delimiters -> PushDelimiter(s, byte)
    [] ~s.in_string /\ byte \in {"}", "]"} -> PopDelimiter(s, byte)
    [] OTHER -> s

ScanByte(s, byte) ==
  IF s.invalid THEN s
  ELSE IF s.in_string
  THEN CASE s.escaped -> [s EXCEPT !.escaped = FALSE]
         [] ~s.escaped /\ byte = "\\" -> [s EXCEPT !.escaped = TRUE]
         [] ~s.escaped /\ byte = "q" -> [s EXCEPT !.in_string = FALSE]
         [] ~s.escaped /\ byte = "c" -> [s EXCEPT !.invalid = TRUE]
         [] OTHER -> s
  ELSE CASE byte = "q" -> [s EXCEPT !.in_string = TRUE]
         [] byte \in Delimiters -> PushDelimiter(s, byte)
         [] byte \in {"}", "]"} -> PopDelimiter(s, byte)
         [] OTHER -> s

\* The scan after some more bytes.
Scanned(bytes) ==
  LET after[i \in 0..Len(bytes)] ==
        IF i = 0 THEN scan ELSE ScanByte(after[i - 1], bytes[i])
  IN after[Len(bytes)]

lexical_depth_is_invalid ==
  scan.invalid \/ scan.in_string \/ scan.escaped \/ scan.nesting # <<>>

-----------------------------------------------------------------------------
\* The visitors.
closed == allowed_fields # {}
Top == stack[Len(stack)]
InObject == stack # <<>> /\ Top.kind = "{"
AtRoot == Len(stack) = 1

\* Mutant: only the root object's fields are compared.
root_keys_only(field) ==
  IF AtRoot /\ field \in Top.seen THEN "DuplicateField"
  ELSE IF closed /\ AtRoot /\ field \notin allowed_fields THEN "UnknownField"
  ELSE "none"

\* What a visitor's map loop says of the next key of the object on top.
visit_key(field) ==
  IF field \in Top.seen THEN "DuplicateField"
  ELSE IF closed /\ AtRoot /\ field \notin allowed_fields THEN "UnknownField"
  ELSE "none"

\* What it says of a value in the object on top.
visit_value(null) ==
  IF null /\ closed /\ AtRoot /\ InObject THEN "ExplicitNull" ELSE "none"

\* The first rejection ends the visit.
Reject(why) == rejection' = IF rejection = "none" /\ ~malformed THEN why ELSE rejection

\* A value may stand at the root, in an array, or after a field.
ValueExpected ==
  \/ stack = <<>> /\ ~complete
  \/ stack # <<>> /\ (Top.kind = "[" \/ Top.awaits)

Settled(frames) ==
  IF frames # <<>> /\ frames[Len(frames)].kind = "{"
  THEN [frames EXCEPT ![Len(frames)].awaits = FALSE] ELSE frames

-----------------------------------------------------------------------------
JsonInit ==
  /\ allowed_fields \in FieldSets
  /\ stack = <<>>
  /\ scan = [nesting |-> <<>>, in_string |-> FALSE, escaped |-> FALSE, invalid |-> FALSE]
  /\ rejection = "none"
  /\ malformed = FALSE
  /\ complete = FALSE
  /\ tokens = 0
  /\ verdict = "reading"
  /\ deepest = 0
  /\ named = <<>>

Write(bytes) ==
  /\ verdict = "reading"
  /\ tokens < MaxTokens
  /\ tokens' = tokens + 1
  /\ scan' = Scanned(bytes)
  /\ UNCHANGED <<allowed_fields, verdict>>

Quoted(bytes) == <<"q">> \o bytes \o <<"q">>

\* A closed root must be an object: deserialize_map fails on anything else.
RootRefused(kind) == closed /\ stack = <<>> /\ kind # "{"

Open(kind) ==
  /\ ~malformed /\ ValueExpected
  /\ Write(<<kind>>)
  /\ stack' = Append(Settled(stack), [kind |-> kind, id |-> tokens, seen |-> {}, awaits |-> FALSE])
  /\ deepest' = IF Len(stack) + 1 > deepest THEN Len(stack) + 1 ELSE deepest
  /\ malformed' = RootRefused(kind)
  /\ UNCHANGED <<rejection, complete, named>>

Close ==
  /\ ~malformed /\ stack # <<>> /\ ~Top.awaits
  /\ Write(<<IF Top.kind = "{" THEN "}" ELSE "]">>)
  /\ stack' = Front(stack)
  /\ complete' = (Len(stack) = 1)
  /\ UNCHANGED <<rejection, malformed, deepest, named>>

NameField(field) ==
  /\ ~malformed /\ InObject /\ ~Top.awaits
  /\ \E spelling \in Inside[field] : Write(Quoted(spelling))
  /\ Reject(visit_key(field))
  /\ stack' = [stack EXCEPT ![Len(stack)].seen = @ \cup {field}, ![Len(stack)].awaits = TRUE]
  /\ named' = Append(named, <<Top.id, field>>)
  /\ UNCHANGED <<malformed, complete, deepest>>

Scalar(null, bytes) ==
  /\ ~malformed /\ ValueExpected
  /\ Write(bytes)
  /\ Reject(visit_value(null))
  /\ stack' = Settled(stack)
  /\ complete' = (stack = <<>>)
  /\ malformed' = RootRefused("scalar")
  /\ UNCHANGED <<deepest, named>>

NullValue == Scalar(TRUE, <<"x">>)
Other == Scalar(FALSE, <<"x">>)
Text == \E content \in StringTexts : \E spelling \in Inside[content] : Scalar(FALSE, Quoted(spelling))

\* A text that stops being JSON: seen by the scan or not.
Break(bytes) ==
  /\ ~malformed
  /\ Write(bytes)
  /\ malformed' = TRUE
  /\ UNCHANGED <<stack, rejection, complete, deepest, named>>

\* Mutant: what the visitors object to outranks the scan.
visitors_first ==
  IF rejection # "none" THEN rejection
  ELSE IF malformed \/ ~complete THEN "Malformed" ELSE "Accepted"

strict_json_value ==
  IF lexical_depth_is_invalid THEN "Malformed"
  ELSE IF rejection # "none" THEN rejection
  ELSE IF malformed \/ ~complete THEN "Malformed" ELSE "Accepted"

End ==
  /\ verdict = "reading"
  /\ verdict' = strict_json_value
  /\ UNCHANGED <<allowed_fields, stack, scan, rejection, malformed, complete, tokens,
                 deepest, named>>

JsonNext ==
  \/ \E kind \in Delimiters : Open(kind)
  \/ Close
  \/ \E field \in FieldNames : NameField(field)
  \/ NullValue
  \/ Other
  \/ Text
  \/ \E bytes \in {<<"x">>, <<"q", "c", "q">>, <<"q">>, <<"}">>} : Break(bytes)
  \/ End

JsonSpec == JsonInit /\ [][JsonNext]_jsonVars

-----------------------------------------------------------------------------
Twice == \E i, j \in DOMAIN named : i # j /\ named[i] = named[j]
Legal == complete /\ ~malformed

\* strict_json_value with its visitors: an accepted document is legal JSON in
\* which no object at any depth names a field twice, however it is spelled, and
\* a closed root names only the fields it was given.
AcceptedHasNoTwins ==
  verdict = "Accepted" =>
    /\ Legal
    /\ ~Twice
    /\ closed => \A name \in Range(named) : name[1] = 0 => name[2] \in allowed_fields

\* lexical_depth_is_invalid: no document deeper than the ceiling gets past the
\* scan, so serde_json never recurses further.
DepthCapped == verdict \notin {"reading", "Malformed"} => deepest <= MAX_STRUCTURAL_DEPTH

\* The scan is not fooled: a legal document within the ceiling is never called
\* malformed, whatever delimiters and escapes its strings hold.
LegalIsHeard ==
  verdict = "Malformed" => ~Legal \/ deepest > MAX_STRUCTURAL_DEPTH

\* Strict JSON: an accepted document is legal, names no field twice in an object
\* however it is spelled, and at a closed root only the fields given; nothing
\* deeper than the ceiling gets past the scan, and no legal document within it is
\* called malformed (strict_json_value, lexical_depth_is_invalid).
JsonSafety == AcceptedHasNoTwins /\ DepthCapped /\ LegalIsHeard

-----------------------------------------------------------------------------
Frames == [kind : Delimiters, id : Nat, seen : SUBSET FieldNames, awaits : BOOLEAN]
ScanStates == [nesting : Seq(Delimiters), in_string : BOOLEAN, escaped : BOOLEAN, invalid : BOOLEAN]

JsonTypeOK ==
  /\ stack \in Seq(Frames)
  /\ malformed \/ scan \in ScanStates
  /\ rejection \in {"none", "DuplicateField", "UnknownField", "ExplicitNull"}
  /\ malformed \in BOOLEAN /\ complete \in BOOLEAN
  /\ tokens \in Nat /\ deepest \in Nat
  /\ named \in Seq(Nat \X FieldNames)

\* While the text is legal the scan, unless it gave up at the ceiling, is outside
\* strings and holds the delimiters of the open arrays and objects.
ScanFollows ==
  /\ ~malformed /\ ~scan.invalid =>
       /\ ~scan.in_string /\ ~scan.escaped
       /\ Len(scan.nesting) = Len(stack)
       /\ \A i \in DOMAIN stack : scan.nesting[i] = stack[i].kind
  /\ deepest > MAX_STRUCTURAL_DEPTH => scan.invalid
  /\ ~malformed /\ scan.invalid => deepest > MAX_STRUCTURAL_DEPTH
  /\ Len(stack) <= deepest
  /\ complete => stack = <<>>

\* An open object has seen what was named in it; objects are told apart by the
\* token that opened them, the root's being the first.
NamesFollow ==
  /\ \A i \in DOMAIN stack : stack[i].id < tokens
  /\ \A i, j \in DOMAIN stack : i < j => stack[i].id < stack[j].id
  /\ \A n \in DOMAIN named : named[n][1] < tokens
  /\ \A i \in DOMAIN stack : stack[i].seen = {f \in FieldNames : <<stack[i].id, f>> \in Range(named)}
  /\ rejection = "none" =>
       /\ ~Twice
       /\ closed => \A name \in Range(named) : name[1] = 0 => name[2] \in allowed_fields

JsonInv ==
  /\ JsonTypeOK /\ ScanFollows /\ NamesFollow
  /\ verdict # "reading" => verdict = strict_json_value
=============================================================================

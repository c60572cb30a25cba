------------------------------ MODULE MCFormats ------------------------------
(***************************************************************************)
(* What comes in from outside, one component at a time: the codecs and     *)
(* grammars, the admission checks and the webhook.  In a behaviour one of  *)
(* Parts moves and the others stay in an initial state.                    *)
(***************************************************************************)
EXTENDS WireFormats, Sealing, Canonical, Admission, PathSegments, StrictJson, Inbound

CONSTANT Parts

VARIABLE part   \* the component that moves

-----------------------------------------------------------------------------
\* Three notify callbacks of one sender and a status call of another.  Clients
\* may take an m4 key; one of their bodies differs from the diagnostic, another
\* is equal to it.
Notify(i, s, t) == [id |-> i, sender |-> s, verb |-> "notify", ts |-> t]

FourCalls ==
  { Notify("x", "49", 1), Notify("y", "49", 2), Notify("v", "49", 3),
    [id |-> "z", sender |-> "33", verb |-> "status", ts |-> 0] }

FourKeys ==
  [i \in {"x", "y", "v", "z"} |->
     CASE i = "x" -> "m4x" [] i = "y" -> "m4y" [] i = "v" -> "m4v" [] i = "z" -> "m4z"]

ClientBodies == {[title |-> "", body |-> "b"], [title |-> "", body |-> "ready"]}
ReadyPayload == {[destination |-> "+33", payload |-> "ready"]}
WebhookTexts == {"", "ops", "ntfy", "whatsapp", "b", "ready", "+49", "+33"}
TwoSenders == [s \in {"49", "33"} |-> IF s = "49" THEN "+49" ELSE "+33"]
AllowSome == {<<"49", "notify">>, <<"33", "status">>}

-----------------------------------------------------------------------------
Init ==
  /\ part \in Parts
  /\ WireInit /\ SealingInit /\ LedgerInit /\ AdmissionInit /\ SegmentInit /\ JsonInit
  /\ InboundInit
  /\ part # "wire" => codec = CHOOSE c \in Codecs : TRUE
  /\ part # "json" => allowed_fields = {}

Next ==
  /\ UNCHANGED part
  /\ \/ /\ part = "wire" /\ WireNext
        /\ UNCHANGED <<sealingVars, ledgerVars, admissionVars, segmentVars, jsonVars, inboundVars>>
     \/ /\ part = "sealing" /\ SealingNext
        /\ UNCHANGED <<wireVars, ledgerVars, admissionVars, segmentVars, jsonVars, inboundVars>>
     \/ /\ part = "ledger" /\ LedgerNext
        /\ UNCHANGED <<wireVars, sealingVars, admissionVars, segmentVars, jsonVars, inboundVars>>
     \/ /\ part = "admission" /\ AdmissionNext
        /\ UNCHANGED <<wireVars, sealingVars, ledgerVars, segmentVars, jsonVars, inboundVars>>
     \/ /\ part = "segments" /\ SegmentNext
        /\ UNCHANGED <<wireVars, sealingVars, ledgerVars, admissionVars, jsonVars, inboundVars>>
     \/ /\ part = "json" /\ JsonNext
        /\ UNCHANGED <<wireVars, sealingVars, ledgerVars, admissionVars, segmentVars, inboundVars>>
     \/ /\ part = "webhook" /\ InboundNext
        /\ UNCHANGED <<wireVars, sealingVars, ledgerVars, admissionVars, segmentVars, jsonVars>>

Spec ==
  Init /\ [][Next]_<<part, wireVars, sealingVars, ledgerVars, admissionVars, segmentVars, jsonVars, inboundVars>>

-----------------------------------------------------------------------------
\* Wire formats: every presence, variant and length is tried; of the data, only
\* what a validation compares.
CellRange == 0..13
OwnerCells == <<1>>

Compared ==
  [phase |-> 1..6, operation |-> {1, 4, 7}, actor_kind |-> {1, 2}, expires_at |-> {1, 2},
   wall |-> {1, 2}, new_safe_time |-> {1, 2}, reason |-> 1..4, purpose |-> {1, 11},
   phase1 |-> 1..3, phase2 |-> 1..3, generation2 |-> {1, 2},
   settled |-> {0, 1}, ungraceful |-> {0, 1}, post |-> {1, 2}, codec |-> {6},
   source_serial |-> {0, 1}, deadline |-> {2}, publication |-> {1, 2}, policy |-> {1, 3}]

\* Of a command, what decides its retention, result, target and profile.
CommandFields ==
  [operation |-> {4, 7}, phase |-> {1, 3}, expires_at |-> {1, 2}, codec |-> {6},
   source_serial |-> {0, 1}, actor_kind |-> {2}]
Fixed == {"original_deadline?", "source_generation?", "target_generation?"}

SampleOf(c, field) ==
  LET compared == IF c \in {"command", "projection"} THEN CommandFields ELSE Compared IN
  IF field.role = "data"
  THEN IF field.name \in DOMAIN compared THEN compared[field.name]
       ELSE IF field.name = "reservation.serial" /\ c = "command" THEN {0, 1} ELSE {1}
  ELSE IF field.name \in Fixed THEN {0}
  ELSE IF field.role = "length" THEN {1}
  ELSE IF field.role = "payload" THEN 2..4
  ELSE IF field.role \in {"digest1", "digest2"} THEN {1, 2}
  ELSE field.codes

-----------------------------------------------------------------------------
\* Canonicalization: data bytes include 0, 1 and 2, which occur in lengths and
\* counts, so fields without a length would run into one another.  195 starts a
\* character of two bytes; 200 alone is no character.
PlainRequest == [provider |-> ntfy, destination_kind |-> ntfy_topic, destination_schema_version |-> 1,
         destination_fields |-> <<alerts>>, content_kind |-> text, content_schema_version |-> 1,
         content_fields |-> <<hello>>, options_kind |-> None, options_schema_version |-> None,
         options_fields |-> <<>>, options_set_like |-> FALSE,
         expires_at_millis |-> None, correlation_id |-> None]

WithOptions(r, fields) ==
  [r EXCEPT !.options_kind = <<ntfy>>, !.options_schema_version = <<1>>,
            !.options_set_like = TRUE, !.options_fields = fields]

Topics == {<<alerts>>, <<<<1>>>>, <<<<1, 0>>>>}
Contents == {<<hello>>, <<<<1>>, <<0, 1>>>>, <<<<1, 0>>, <<1>>>>, <<<<195, 160>>>>, <<<<>>, <<1>>>>}
Options == {<<default, zebra, apple, mango, apple>>, <<default, apple, mango, zebra>>,
            <<<<2>>, <<1>>, <<1>>>>, <<<<1>>, <<2>>>>, <<<<1>>, <<2>>, <<1>>>>, <<<<1, 1>>>>}

Plain == {[PlainRequest EXCEPT !.destination_fields = t, !.content_fields = c] :
            t \in Topics, c \in Contents}
Tagged == {WithOptions([PlainRequest EXCEPT !.destination_fields = <<<<1>>>>, !.content_fields = c], o) :
             c \in {<<hello>>, <<<<1>>, <<0, 1>>>>, <<<<1, 0>>, <<1>>>>}, o \in Options}
Transition == {WithOptions(PlainRequest, o) : o \in Options}
Timed == {[WithOptions([PlainRequest EXCEPT !.content_fields = c], o)
             EXCEPT !.expires_at_millis = <<1>>, !.correlation_id = <<<<1>>>>] :
            c \in {<<hello>>, <<<<>>, <<1>>>>}, o \in Options}
Shifted == {[WithOptions(PlainRequest, o) EXCEPT !.expires_at_millis = <<e>>, !.correlation_id = <<id>>] :
              o \in {<<<<2>>, <<1>>, <<1>>>>, <<<<1>>, <<2>>>>, <<<<1, 1>>>>}, e \in {1, 2}, id \in {<<1>>, <<1, 1>>}}

Odd == {[PlainRequest EXCEPT !.provider = <<1>>], [PlainRequest EXCEPT !.destination_kind = <<1>>],
        [PlainRequest EXCEPT !.content_schema_version = 2], [PlainRequest EXCEPT !.content_fields = <<<<200>>>>],
        [PlainRequest EXCEPT !.expires_at_millis = <<1>>],
        [WithOptions(PlainRequest, <<>>) EXCEPT !.expires_at_millis = <<1>>, !.correlation_id = <<<<1>>>>],
        [WithOptions(PlainRequest, <<<<200>>>>) EXCEPT !.expires_at_millis = <<1>>, !.correlation_id = <<<<1>>>>],
        [WithOptions(PlainRequest, <<<<1>>>>) EXCEPT !.expires_at_millis = <<1>>, !.correlation_id = <<<<>>>>]}

AllRequests ==
  {r \in Plain \cup Tagged \cup Transition \cup Timed \cup Shifted :
     canonical_request_v1(r) # Err} \cup Odd
FewCallers == {<<<<1>>, <<0, 2>>>>, <<<<1, 0>>, <<2>>>>}
TwoKeys == {<<7>>, <<8>>}

-----------------------------------------------------------------------------
\* Admission: each limit has strings below, at and above it.  10 is a line end,
\* 7 a control no text may have, 194 128 a control of two bytes.
SomeWords == {<<>>, <<97>>, <<45>>, <<97, 46>>, <<97, 43>>, <<97, 97, 97>>, <<200>>}
SomeTexts == {<<>>} \cup UNION {[1..n -> {97, 10, 7, 200}] : n \in 1..3}
               \cup {<<b, 97, 97, 97>> : b \in {97, 10, 7, 200}} \cup {<<194, 128>>, <<97, 194, 128>>}
SomeTitles == {None, <<<<>>>>, <<<<194, 128>>>>}
               \cup {<<t>> : t \in UNION {[1..n -> {97, 10, 200}] : n \in 1..3}}
SomeLimits == {<<3, 2>>, <<2, 2>>}

-----------------------------------------------------------------------------
\* Path segments over A, B, Q and = have every length modulo four, set and
\* clear spare bits, and characters outside the alphabet.
Characters(bytes) == Range(bytes) \cap {195, 255} = {} \/ bytes = <<195, 191>>

SomeNames == {<<>>, <<0>>, <<0, 0>>, <<0, 0, 0>>, <<0, 0, 0, 1>>, <<63, 127>>, <<127, 63, 65>>,
              <<195, 191>>, <<4, 16>>, <<1>>, <<0, 1, 64>>}

Id(digit, version, variant) ==
  [i \in 1..36 |-> CASE i \in Dashes -> 45 [] i = 15 -> version [] i = 20 -> variant [] OTHER -> digit]

SomeSpellings ==
  UNION {[1..n -> {65, 66, 81, 61}] : n \in 0..4} \cup {<<95, 119>>, <<95, 120>>}
    \cup {Id(d, v, x) : d \in {48, 97, 65}, v \in {55, 52}, x \in {56, 97, 65, 99}}
    \cup {<<97, 97>>, <<97, 65>>, <<65, 97>>, <<45, 97>>, [i \in 1..65 |-> 97]}

-----------------------------------------------------------------------------
\* JSON: "f" is spelled plainly or with an escape; the text holds delimiters,
\* an escaped quote and an escaped backslash.
JsonSpellings == ("f" :> {<<"x">>, <<"\\", "x", "x">>}) @@ ("g" :> {<<"x">>})
                 @@ ("t" :> {<<"]">>, <<"[">>, <<"\\", "q", "{">>, <<"x", "\\", "\\">>})
FieldSetsGiven == {{}, {"f"}}
=============================================================================

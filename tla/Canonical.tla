------------------------------- MODULE Canonical -------------------------------
(***************************************************************************)
(* The idempotency identity of a request: the tags msgriver-core obtains   *)
(* for its canonical bytes from an isolated MAC provider, and a ledger     *)
(* that keeps one record per lookup tag.  The ledger and the provider are  *)
(* not in the repository and are external.  A MAC is ideal: equal tags     *)
(* have equal keys and inputs.                                             *)
(***************************************************************************)
EXTENDS CanonicalBytes

CONSTANTS
  Requests,    \* semantic requests clients submit
  Callers,     \* <<principal, idempotency key>>, each a string of bytes
  KeyIds,      \* MAC key identifiers, of one width
  MaxCalls     \* bound: submissions

ASSUME LedgerConstants ==
  /\ \A r \in Requests :
       /\ r.provider \in Seq(Nat) /\ r.destination_kind \in Seq(Nat) /\ r.content_kind \in Seq(Nat)
       /\ {r.destination_fields, r.content_fields, r.options_fields} \subseteq Seq(Seq(Nat))
       /\ r.expires_at_millis \in Seq(Nat) /\ Len(r.expires_at_millis) <= 1
       /\ r.correlation_id \in Seq(Seq(Nat)) /\ Len(r.correlation_id) <= 1
  /\ Callers \subseteq Seq(Nat) \X Seq(Nat)
  /\ KeyIds \subseteq Seq(Nat)

VARIABLES
  ledger,   \* records: caller, request, lookup and fingerprint tag
  last,     \* the last submission and its answer
  calls     \* submissions so far

ledgerVars == <<ledger, last, calls>>

FINGERPRINT_DOMAIN == <<304>>
LOOKUP_DOMAIN == <<305>>

\* The MAC boundary.  A provider that fails answers with nothing, or with a tag
\* under another key than it was asked for.
MacPurposes == {"IdempotencyFingerprintV1", "IdempotencyLookupV1"}
KeyRefs == [purpose : MacPurposes, key_id : KeyIds]

authenticate(key, input) == {Err} \cup {<<[key |-> k, tag |-> <<k, input>>]>> : k \in KeyRefs}

framed(domain, key, parts) == domain \o key.key_id \o lp32_all(parts)

\* Mutant: the reference a tag comes back with is not compared.
any_reference(key, expected_purpose, answer) ==
  IF key.purpose # expected_purpose THEN Err ELSE answer

\* Mutant: any key of the ring is good for any purpose.
any_purpose(key, expected_purpose, answer) ==
  IF answer = Err \/ answer[1].key # key THEN Err ELSE answer

\* What comes out of a call for a key, given what the provider answers.
authenticate_idempotency(key, expected_purpose, answer) ==
  IF key.purpose # expected_purpose \/ answer = Err THEN Err
  ELSE IF answer[1].key # key THEN Err ELSE answer

semantic_fingerprint_v1_with_provider(key, canonical) ==
  {authenticate_idempotency(key, "IdempotencyFingerprintV1", answer) :
     answer \in authenticate(key, framed(FINGERPRINT_DOMAIN, key, <<canonical>>))}

lookup_digest_v1_with_provider(key, principal, idempotency_key) ==
  {authenticate_idempotency(key, "IdempotencyLookupV1", answer) :
     answer \in authenticate(key, framed(LOOKUP_DOMAIN, key, <<principal, idempotency_key>>))}

-----------------------------------------------------------------------------
\* The ledger: a record's keys are used again for a retry of its request.
LedgerInit == ledger = {} /\ last = [answer |-> "none"] /\ calls = 0

Call(caller, request, keys, answer, record) ==
  [answer |-> answer, caller |-> caller, request |-> request, keys |-> keys, record |-> record]

Refuse ==
  /\ last' = [answer |-> "refused"]
  /\ UNCHANGED ledger

Record(caller, request, keys, found, print) ==
  LET record == [caller |-> caller, request |-> request, keys |-> keys,
                 found |-> found, print |-> print]
  IN /\ ledger' = ledger \cup {record}
     /\ last' = Call(caller, request, keys, "recorded", {record})

Compare(caller, request, keys, record, print) ==
  /\ last' = Call(caller, request, keys,
                  IF record.print = print THEN "replay" ELSE "conflict", {record})
  /\ UNCHANGED ledger

Submit(request, canonical, caller, keys) ==
  /\ calls' = calls + 1
  /\ IF canonical = Err THEN Refuse
     ELSE \E found \in lookup_digest_v1_with_provider(keys[1], caller[1], caller[2]),
             print \in semantic_fingerprint_v1_with_provider(keys[2], canonical[1]) :
            IF found = Err \/ print = Err THEN Refuse
            ELSE LET hits == {r \in ledger : r.found = found} IN
                 IF hits = {} THEN Record(caller, request, keys, found, print)
                 ELSE \E r \in hits : Compare(caller, request, keys, r, print)

LedgerNext ==
  /\ calls < MaxCalls
  /\ \E request \in Requests :
       LET canonical == canonical_request_v1(request)
       IN \E caller \in Callers, keys \in KeyRefs \X KeyRefs :
            Submit(request, canonical, caller, keys)

LedgerSpec == LedgerInit /\ [][LedgerNext]_ledgerVars

-----------------------------------------------------------------------------
\* What a request says.  Set-like values have no order; an absent option is the
\* default.  A plain request with a title has tags and no priority: the code keeps its
\* legacy form (legacy_canonical_request_v1), in which absent options are not the
\* default ones.  specs/architecture.md:405-417 expands them for every request.
Says(r) ==
  LET plain == Len(r.content_fields) = 2 /\ r.expires_at_millis = None
                 /\ r.correlation_id = None
      options == IF r.options_fields = <<>> THEN <<default>> ELSE r.options_fields
  IN [topic |-> r.destination_fields, content |-> r.content_fields,
      priority |-> IF plain THEN None ELSE <<Head(options)>>,
      tags |-> Range(IF plain THEN r.options_fields ELSE Tail(options)),
      expiry |-> r.expires_at_millis, correlation |-> r.correlation_id]

\* canonical_request_v1 and the fingerprint over it: a retry under the record's
\* keys is a replay if and only if it says the same as the recorded request, in
\* whatever order and however often its tags are given, and a conflict otherwise.
AnsweredByMeaning ==
  \A r \in IF last.answer \in {"replay", "conflict"} THEN last.record ELSE {} :
    last.keys = r.keys =>
      (last.answer = "replay" <=> Says(last.request) = Says(r.request))

\* lookup_digest_v1_with_provider: no two pairs of principal and key share a
\* record, however their bytes fall.
CallersApart ==
  \A r \in IF last.answer \in {"replay", "conflict"} THEN last.record ELSE {} :
    r.caller = last.caller

\* authenticate_idempotency: a provider that answers with another key's tag
\* never gets it into the ledger; a record's tags can be verified with the
\* references kept beside them.
TagsVerify ==
  \A r \in ledger :
    /\ r.found[1].tag = <<r.keys[1], framed(LOOKUP_DOMAIN, r.keys[1], r.caller)>>
    /\ r.print[1].tag = <<r.keys[2], framed(FINGERPRINT_DOMAIN, r.keys[2],
                                            canonical_request_v1(r.request))>>

\* A tag of one purpose is never taken for the other's.
PurposesApart ==
  \A r \in ledger : r.found[1].key.purpose # r.print[1].key.purpose

\* Idempotency: a retry is a replay if and only if it says the same as the
\* recorded request, in whatever order and however often its tags are given
\* (canonical_request_v1); no two pairs of principal and key share a record
\* (lookup_digest_v1_with_provider); the ledger's tags verify with the references
\* beside them, and a tag of one purpose is never taken for the other's
\* (authenticate_idempotency).
LedgerSafety == AnsweredByMeaning /\ CallersApart /\ TagsVerify /\ PurposesApart

-----------------------------------------------------------------------------
\* The inductive invariant: tags are those of what they were asked for, under the
\* key asked for, and an answer compares two of them.
TagOf(key, domain, parts) ==
  <<[key |-> key, tag |-> <<key, framed(domain, key, parts)>>]>>
FoundOf(c) == TagOf(c.keys[1], LOOKUP_DOMAIN, c.caller)
PrintOf(c) == TagOf(c.keys[2], FINGERPRINT_DOMAIN, canonical_request_v1(c.request))

Sound(c) ==
  /\ c.caller \in Callers /\ c.request \in Requests /\ c.keys \in KeyRefs \X KeyRefs
  /\ canonical_request_v1(c.request) # Err
  /\ c.keys[1].purpose = "IdempotencyLookupV1" /\ c.keys[2].purpose = "IdempotencyFingerprintV1"

LedgerInv ==
  /\ \A r \in ledger : Sound(r) /\ r.found = FoundOf(r) /\ r.print = PrintOf(r)
  /\ last.answer \in {"replay", "conflict"} =>
       /\ Sound(last)
       /\ \A r \in last.record :
            /\ r \in ledger /\ r.found = FoundOf(last)
            /\ last.answer = "replay" <=> r.print = PrintOf(last)
=============================================================================

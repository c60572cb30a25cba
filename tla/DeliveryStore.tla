--------------------------- MODULE DeliveryStore ---------------------------
(***************************************************************************)
(* The tables of the service-owned SQLite file that carry deliveries, and  *)
(* the transactions of msgriver-store on them.  Every operation below is   *)
(* one IMMEDIATE transaction (or one statement) of the single connection,  *)
(* so it is one atomic change of the table variables.                      *)
(*                                                                         *)
(*   row       m3_messages, indexed by idempotency key (UNIQUE; the        *)
(*             message id is a digest of the key and the request, so the   *)
(*             key identifies the row);                                    *)
(*   enabled   m4_inbound_control.enabled;                                 *)
(*   receipts  m4_inbound_receipts;                                        *)
(*   rate      m4_notify_rate_events (the callback id is kept with the     *)
(*             event, so that equal events stay apart as in the table).    *)
(*                                                                         *)
(* Text columns keep only what the code compares; provider_ack and         *)
(* last_error keep whether they are NULL.  updated_at is never read.       *)
(***************************************************************************)
EXTENDS Integers, FiniteSets

CONSTANTS
  Keys,             \* idempotency keys
  Texts,            \* contents of the text columns
  NtfyTopic,        \* ServiceConfig.ntfy_topic
  NtfyRequests,     \* POST /v1/messages bodies: [title, body]
  WhatsappRequests, \* POST /v1/whatsapp/messages bodies: [destination, payload]
  Callbacks,        \* authentic webhook calls: [id, sender, verb, ts]
  M4Key,            \* callback id |-> "m4-" + id
  Recipient,        \* sender |-> "+" + sender
  InboundTopic,     \* InboundConfig.ntfy_topic
  NotifyBody,       \* the fixed body of a notify diagnostic
  StatusPayload,    \* the fixed payload of a status reply
  MaxAttempts,      \* the retry budget, and CHECK(attempts BETWEEN 0 AND 5)
  RetryDelay,       \* the delay dispatch_due asks of m2_mark_retry
  NotifyLimit,      \* accepted notify callbacks per sender and window
  Window            \* 600 s: the rate window and the callback freshness

VARIABLES row, enabled, receipts, rate

storeVars == <<row, enabled, receipts, rate>>

Null == -1          \* SQL NULL in next_attempt_at_unix_ms
NoText == ""        \* a NULL title, or the DEFAULT '' of a v4 column

Drivers == {"ntfy", "whatsapp"}
Claimable == {"queued", "retry_scheduled"}
Durable == Claimable \cup {"sending", "provider_accepted", "ambiguous", "failed"}
States == {"absent"} \cup Durable

CallbackIds == {c.id : c \in Callbacks}
Senders == {c.sender : c \in Callbacks}

Content ==
  [driver : Drivers, topic : Texts, title : Texts, body : Texts,
   destination : Texts, payload : Texts]

Row ==
  [state : States, attempts : 0 .. MaxAttempts, next : Nat \cup {Null},
   ack : BOOLEAN, err : BOOLEAN, created : Nat, content : Content]

ASSUME StoreConstants ==
  /\ MaxAttempts \in Nat \ {0}
  /\ RetryDelay \in Nat \ {0}
  /\ NotifyLimit \in Nat \ {0}
  /\ Window \in Nat
  /\ Texts \subseteq STRING
  /\ {NoText, NtfyTopic, InboundTopic, NotifyBody, StatusPayload, "ntfy", "whatsapp"}
       \subseteq Texts
  /\ NtfyRequests \subseteq [title : Texts, body : Texts]
  /\ WhatsappRequests \subseteq [destination : Texts, payload : Texts]
  /\ Callbacks \subseteq
       [id : STRING, sender : STRING, verb : {"notify", "status"}, ts : Nat]
  /\ M4Key \in [CallbackIds -> Keys]
  /\ \A i, j \in CallbackIds : M4Key[i] = M4Key[j] => i = j
  /\ Recipient \in [Senders -> Texts]
  \* valid_topic refuses a "+" in a topic.
  /\ \A s \in Senders : Recipient[s] \notin {NtfyTopic, InboundTopic}

-----------------------------------------------------------------------------
(***************************************************************************)
(* The table's CHECK constraints.  An UPDATE or INSERT whose new row fails *)
(* one of them is an error and leaves the table as it was.                 *)
(***************************************************************************)
\* Mutant: the schema forgets the bound on attempts.
ChecksWithoutBudget(r) ==
  /\ r.attempts \in Nat
  /\ (r.state \in Claimable) <=> (r.next # Null)
  /\ (r.state = "provider_accepted") <=> r.ack
  /\ (r.state \in {"ambiguous", "failed"}) <=> r.err

Checks(r) ==
  /\ r.attempts \in 0 .. MaxAttempts
  /\ (r.state \in Claimable) <=> (r.next # Null)
  /\ (r.state = "provider_accepted") <=> r.ack
  /\ (r.state \in {"ambiguous", "failed"}) <=> r.err

NoContent ==
  [driver |-> "ntfy", topic |-> NoText, title |-> NoText, body |-> NoText,
   destination |-> NoText, payload |-> NoText]

Absent ==
  [state |-> "absent", attempts |-> 0, next |-> Null, ack |-> FALSE,
   err |-> FALSE, created |-> 0, content |-> NoContent]

Queued(content, now) ==
  [state |-> "queued", attempts |-> 0, next |-> now, ack |-> FALSE,
   err |-> FALSE, created |-> now, content |-> content]

StoreInit ==
  /\ row = [k \in Keys |-> Absent]
  /\ enabled = FALSE
  /\ receipts = {}
  /\ rate = {}

Present(k) == row[k].state # "absent"

-----------------------------------------------------------------------------
(***************************************************************************)
(* Admission: m2_submit (ntfy) and m3_submit (whatsapp).                   *)
(***************************************************************************)
M2Content(r) ==
  [driver |-> "ntfy", topic |-> NtfyTopic, title |-> r.title, body |-> r.body,
   destination |-> NtfyTopic, payload |-> NoText]

M3Content(r) ==
  [driver |-> "whatsapp", topic |-> "whatsapp", title |-> NoText,
   body |-> r.payload, destination |-> r.destination, payload |-> r.payload]

\* Mutant: a key that is taken answers Existing, whatever the request.
M2SameByKey(c, r) == TRUE

M2Same(c, r) == c.topic = NtfyTopic /\ c.title = r.title /\ c.body = r.body

M3Same(c, r) ==
  c.driver = "whatsapp" /\ c.destination = r.destination /\ c.payload = r.payload

\* What a submission answers: New, Existing, or refused (the key is taken by
\* another request).
M2Answer(k, r) ==
  IF ~Present(k) THEN "new"
  ELSE IF M2Same(row[k].content, r) THEN "existing" ELSE "refused"

M3Answer(k, r) ==
  IF ~Present(k) THEN "new"
  ELSE IF M3Same(row[k].content, r) THEN "existing" ELSE "refused"

Insert(k, content, now) == row' = [row EXCEPT ![k] = Queued(content, now)]

m2_submit(k, r, now) ==
  /\ IF M2Answer(k, r) = "new" THEN Insert(k, M2Content(r), now) ELSE UNCHANGED row
  /\ UNCHANGED <<enabled, receipts, rate>>

m3_submit(k, r, now) ==
  /\ IF M3Answer(k, r) = "new" THEN Insert(k, M3Content(r), now) ELSE UNCHANGED row
  /\ UNCHANGED <<enabled, receipts, rate>>

-----------------------------------------------------------------------------
(***************************************************************************)
(* The inbound control plane: the operator's switch and m4_submit_inbound. *)
(***************************************************************************)
m4_set_inbound_enabled(on) ==
  /\ enabled' = on
  /\ UNCHANGED <<row, receipts, rate>>

M4Content(c) ==
  IF c.verb = "notify"
  THEN [driver |-> "ntfy", topic |-> InboundTopic, title |-> NoText,
        body |-> NotifyBody, destination |-> InboundTopic, payload |-> NotifyBody]
  ELSE [driver |-> "whatsapp", topic |-> Recipient[c.sender], title |-> NoText,
        body |-> StatusPayload, destination |-> Recipient[c.sender],
        payload |-> StatusPayload]

\* Mutant: events the clock has stepped back behind are forgotten.
PastNotifies(sender, now) ==
  {e \in rate : e.sender = sender /\ e.at > now - Window /\ e.at <= now}

RecentNotifies(sender, now) == {e \in rate : e.sender = sender /\ e.at > now - Window}

Receipted(c) == \E x \in receipts : x.id = c.id

\* The disposition, in the order of the transaction's early returns.  "error"
\* is the INSERT that meets the UNIQUE key of an unrelated message.
M4Disposition(c, now) ==
  CASE ~enabled -> "disabled"
    [] enabled /\ Receipted(c) -> "replayed"
    [] /\ enabled /\ ~Receipted(c) /\ c.verb = "notify"
       /\ Cardinality(RecentNotifies(c.sender, now)) >= NotifyLimit -> "rate_limited"
    [] OTHER -> IF Present(M4Key[c.id]) THEN "error" ELSE "accepted"

\* Mutant: the receipt is committed before the message is inserted.
ReceiptFirst(c, now) ==
  /\ IF M4Disposition(c, now) = "accepted"
     THEN Insert(M4Key[c.id], M4Content(c), now) ELSE UNCHANGED row
  /\ IF M4Disposition(c, now) \in {"accepted", "error"}
     THEN receipts' = receipts \cup {[id |-> c.id, sender |-> c.sender, verb |-> c.verb]}
     ELSE UNCHANGED receipts
  /\ IF M4Disposition(c, now) = "accepted" /\ c.verb = "notify"
     THEN rate' = rate \cup {[id |-> c.id, sender |-> c.sender, at |-> now]}
     ELSE UNCHANGED rate
  /\ UNCHANGED enabled

m4_submit_inbound(c, now) ==
  IF M4Disposition(c, now) = "accepted"
  THEN /\ Insert(M4Key[c.id], M4Content(c), now)
       /\ receipts' = receipts \cup {[id |-> c.id, sender |-> c.sender, verb |-> c.verb]}
       /\ rate' = IF c.verb = "notify"
                  THEN rate \cup {[id |-> c.id, sender |-> c.sender, at |-> now]}
                  ELSE rate
       /\ UNCHANGED enabled
  ELSE UNCHANGED storeVars

-----------------------------------------------------------------------------
(***************************************************************************)
(* The delivery life cycle.                                                *)
(***************************************************************************)
Due(k, now) == row[k].state \in Claimable /\ row[k].next <= now

\* ORDER BY created_at_unix_ms, message_id LIMIT 1.  The message id is a
\* digest, so the order of rows created in the same millisecond is left open.
Oldest(k, now) ==
  Due(k, now) /\ \A j \in Keys : Due(j, now) => row[k].created <= row[j].created

\* Mutant: the claim does not count the attempt.
ClaimedUncounted(k) == [row[k] EXCEPT !.state = "sending", !.next = Null]

Claimed(k) ==
  [row[k] EXCEPT !.state = "sending", !.attempts = @ + 1, !.next = Null]

\* Mutant: the claim's transaction is never committed.
ClaimUncommitted(k, now) == Oldest(k, now) /\ Checks(Claimed(k)) /\ UNCHANGED storeVars

m2_claim_due(k, now) ==
  /\ Oldest(k, now)
  /\ Checks(Claimed(k))
  /\ row' = [row EXCEPT ![k] = Claimed(k)]
  /\ UNCHANGED <<enabled, receipts, rate>>

\* The UPDATE fails a CHECK: the transaction is dropped and m2_claim_due is Err.
ClaimRejected(k, now) == Oldest(k, now) /\ ~Checks(Claimed(k))

Update(k, new) ==
  /\ row[k].state = "sending"
  /\ Checks(new)
  /\ row' = [row EXCEPT ![k] = new]
  /\ UNCHANGED <<enabled, receipts, rate>>

m2_mark_accepted(k) ==
  Update(k, [row[k] EXCEPT !.state = "provider_accepted", !.ack = TRUE])

m2_mark_failed(k) == Update(k, [row[k] EXCEPT !.state = "failed", !.err = TRUE])

m2_mark_ambiguous(k) == Update(k, [row[k] EXCEPT !.state = "ambiguous", !.err = TRUE])

\* Mutant: the budget is compared off by one.
RetryPastBudget(k, now) ==
  IF row[k].attempts > MaxAttempts
  THEN m2_mark_failed(k)
  ELSE Update(k, [row[k] EXCEPT !.state = "retry_scheduled",
                                !.next = now + RetryDelay, !.err = FALSE])

m2_mark_retry(k, now) ==
  IF row[k].attempts >= MaxAttempts
  THEN m2_mark_failed(k)
  ELSE Update(k, [row[k] EXCEPT !.state = "retry_scheduled",
                                !.next = now + RetryDelay, !.err = FALSE])

\* Mutants: start-up queues an interrupted message again, or leaves it alone.
RecoveredToQueue(r) ==
  IF r.state = "sending" THEN [r EXCEPT !.state = "queued", !.next = 0] ELSE r
NotRecovered(r) == r

Recovered(r) ==
  IF r.state = "sending" THEN [r EXCEPT !.state = "ambiguous", !.err = TRUE] ELSE r

m2_recover_interrupted ==
  /\ row' = [k \in Keys |-> Recovered(row[k])]
  /\ UNCHANGED <<enabled, receipts, rate>>

\* Ok(Some(true)), Ok(Some(false)) or Ok(None).
\* Mutant: an ambiguous message may be requeued too.
M6RequeuesAmbiguous(k) ==
  IF ~Present(k) THEN "not_found"
  ELSE IF row[k].state \in {"failed", "ambiguous"} THEN "requeued" ELSE "refused"

M6Answer(k) ==
  IF ~Present(k) THEN "not_found"
  ELSE IF row[k].state = "failed" THEN "requeued" ELSE "refused"

\* Mutant: a requeued message gets a fresh budget.
RequeueResets(k, now) ==
  /\ IF M6Answer(k) = "requeued"
     THEN row' = [row EXCEPT ![k] =
                    [@ EXCEPT !.state = "queued", !.next = now, !.err = FALSE, !.attempts = 0]]
     ELSE UNCHANGED row
  /\ UNCHANGED <<enabled, receipts, rate>>

m6_requeue_failed(k, now) ==
  /\ IF M6Answer(k) = "requeued"
     THEN row' = [row EXCEPT ![k] =
                    [@ EXCEPT !.state = "queued", !.next = now, !.err = FALSE]]
     ELSE UNCHANGED row
  /\ UNCHANGED <<enabled, receipts, rate>>
=============================================================================

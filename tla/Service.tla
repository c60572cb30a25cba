------------------------------- MODULE Service -------------------------------
(***************************************************************************)
(* `msgriver serve`: one thread that owns the store and loops over         *)
(*                                                                         *)
(*   local     accept at most one request of the Unix socket;              *)
(*   inbound   accept at most one WhatsApp webhook call;                   *)
(*   dispatch  claim the oldest due message (commit), then                 *)
(*   exchange  make one provider attempt, then                             *)
(*   mark      commit its outcome.                                         *)
(*                                                                         *)
(* The process may die between any two of these steps ("down"); systemd    *)
(* starts it again, and start-up turns a message left in `sending` into    *)
(* `ambiguous`.  Any `?` that ends serve has the effect of Crash.          *)
(*                                                                         *)
(* History variables, read by no action: effects (times the provider       *)
(* published a message), tries (provider attempts made), requeued          *)
(* (operator retries answered 202) and told (positive answers that         *)
(* reached a client, with the content the client asked for).               *)
(***************************************************************************)
EXTENDS Inbound, Connectors

CONSTANTS
  NoKey,              \* no message is being dispatched
  MaxCrashes,         \* bound: process deaths
  MaxRequeues,        \* bound: operator retries per message
  MaxSteps            \* bound: backward steps of the wall clock

ASSUME ServiceConstants ==
  /\ NoKey \notin Keys
  /\ MaxCrashes \in Nat
  /\ MaxRequeues \in Nat
  /\ MaxSteps \in Nat

VARIABLES
  pc,       \* where the serve loop is
  cur,      \* the delivery dispatch_due holds
  outcome,  \* what its driver reported
  effects, tries, requeued, told,
  crashes, steps

loopVars == <<pc, cur, outcome>>
histVars == <<effects, tries, requeued, told>>
vars == <<storeVars, now, loopVars, histVars, crashes, steps>>

Loop == {"local", "inbound", "dispatch", "exchange", "mark"}

Goto(p) == pc' = p /\ cur' = NoKey /\ outcome' = "none"

Init ==
  /\ StoreInit
  /\ now = 0
  /\ pc = "down" /\ cur = NoKey /\ outcome = "none"
  /\ effects = [k \in Keys |-> 0]
  /\ tries = [k \in Keys |-> 0]
  /\ requeued = [k \in Keys |-> 0]
  /\ told = {}
  /\ crashes = 0
  /\ steps = 0

-----------------------------------------------------------------------------
(***************************************************************************)
(* The environment: wall clock, process death, start-up.                   *)
(***************************************************************************)
Tick ==
  /\ \/ now < MaxTime
     \/ \E k \in Keys : row[k].state \in Claimable /\ row[k].next > now
  /\ now' = now + 1
  /\ UNCHANGED <<storeVars, loopVars, histVars, crashes, steps>>

ClockStepsBack ==
  /\ steps < MaxSteps
  /\ \E t \in 0 .. (now - 1) : now' = t
  /\ steps' = steps + 1
  /\ UNCHANGED <<storeVars, loopVars, histVars, crashes>>

Crash ==
  /\ pc # "down"
  /\ crashes < MaxCrashes
  /\ crashes' = crashes + 1
  /\ Goto("down")
  /\ UNCHANGED <<storeVars, now, histVars, steps>>

Start ==
  /\ pc = "down"
  /\ m2_recover_interrupted
  /\ Goto("local")
  /\ UNCHANGED <<now, histVars, crashes, steps>>

-----------------------------------------------------------------------------
(***************************************************************************)
(* handle_request.  The answer may be lost: the peer may have gone away or *)
(* its timeout may have passed.                                            *)
(***************************************************************************)

Answer(k, content) == told' \in {told, told \cup {<<k, Wire(content)>>}}

HandleNtfy(k, r) ==
  /\ pc = "local"
  /\ m2_submit(k, r, now)
  /\ IF M2Answer(k, r) = "refused" THEN UNCHANGED told ELSE Answer(k, M2Content(r))
  /\ Goto("inbound")
  /\ UNCHANGED <<now, effects, tries, requeued, crashes, steps>>

HandleWhatsapp(k, r) ==
  /\ pc = "local"
  /\ WhatsappConfigured
  /\ m3_submit(k, r, now)
  /\ IF M3Answer(k, r) = "refused" THEN UNCHANGED told ELSE Answer(k, M3Content(r))
  /\ Goto("inbound")
  /\ UNCHANGED <<now, effects, tries, requeued, crashes, steps>>

HandleInboundControl(on) ==
  /\ pc = "local"
  /\ Switch(on)
  /\ Goto("inbound")
  /\ UNCHANGED <<now, histVars, crashes, steps>>

HandleRetry(k) ==
  /\ pc = "local"
  /\ requeued[k] < MaxRequeues
  /\ m6_requeue_failed(k, now)
  /\ requeued' = IF M6Answer(k) = "requeued"
                 THEN [requeued EXCEPT ![k] = @ + 1] ELSE requeued
  /\ Goto("inbound")
  /\ UNCHANGED <<now, effects, tries, told, crashes, steps>>

\* No connection, an unreadable or refused request, a status query, or a
\* store error answered 409: nothing changes.
NoLocalChange ==
  /\ pc = "local"
  /\ Goto("inbound")
  /\ UNCHANGED <<storeVars, now, histVars, crashes, steps>>

-----------------------------------------------------------------------------
(***************************************************************************)
(* handle_inbound_request: at most one webhook call per iteration.         *)
(***************************************************************************)
HandleCallback(c) ==
  /\ pc = "inbound"
  /\ Receive(c)
  /\ Goto("dispatch")
  /\ UNCHANGED <<now, histVars, crashes, steps>>

NoInboundChange ==
  /\ pc = "inbound"
  /\ Goto("dispatch")
  /\ UNCHANGED <<storeVars, now, histVars, crashes, steps>>

-----------------------------------------------------------------------------
(***************************************************************************)
(* dispatch_due: claim, attempt, mark.                                     *)
(***************************************************************************)
NothingDue ==
  /\ pc = "dispatch"
  /\ \A k \in Keys : ~Due(k, now)
  /\ Goto("local")
  /\ UNCHANGED <<storeVars, now, histVars, crashes, steps>>

Claim(k) ==
  /\ pc = "dispatch"
  /\ m2_claim_due(k, now)
  /\ pc' = "exchange" /\ cur' = k /\ outcome' = "none"
  /\ UNCHANGED <<now, histVars, crashes, steps>>

\* "store claim failed": serve returns Err and the process exits.
ClaimAborts(k) ==
  /\ pc = "dispatch"
  /\ ClaimRejected(k, now)
  /\ Goto("down")
  /\ UNCHANGED <<storeVars, now, histVars, crashes, steps>>

\* Without a WhatsApp driver whatsapp_delivery fails before any request.
Possible(driver) ==
  {x \in Exchanges :
     /\ x.reply \in RepliesOf(driver)
     /\ driver = "whatsapp" /\ ~WhatsappConfigured => x.reply = "invalid"}

Exchange ==
  /\ pc = "exchange"
  /\ \E x \in Possible(row[cur].content.driver) :
       /\ outcome' = deliver(row[cur].content.driver, x.reply)
       /\ effects' = [effects EXCEPT ![cur] = @ + (IF x.effect THEN 1 ELSE 0)]
  /\ tries' = [tries EXCEPT ![cur] = @ + 1]
  /\ pc' = "mark"
  /\ UNCHANGED <<storeVars, now, cur, requeued, told, crashes, steps>>

RecordOutcome(k) ==
  CASE outcome = "Accepted" -> m2_mark_accepted(k)
    [] outcome \in {"RateLimited", "Transient"} -> m2_mark_retry(k, now)
    [] outcome = "Ambiguous" -> m2_mark_ambiguous(k)
    [] outcome \in {"Permanent", "AuthOrConfig", "DriverError"} -> m2_mark_failed(k)

Mark ==
  /\ pc = "mark"
  /\ RecordOutcome(cur)
  /\ Goto("local")
  /\ UNCHANGED <<now, histVars, crashes, steps>>

-----------------------------------------------------------------------------
Serve ==
  \/ NoLocalChange
  \/ \E k \in Keys : \E r \in NtfyRequests : HandleNtfy(k, r)
  \/ \E k \in Keys : \E r \in WhatsappRequests : HandleWhatsapp(k, r)
  \/ \E on \in BOOLEAN : HandleInboundControl(on)
  \/ \E k \in Keys : HandleRetry(k)
  \/ NoInboundChange
  \/ \E c \in Callbacks : HandleCallback(c)
  \/ NothingDue
  \/ \E k \in Keys : Claim(k) \/ ClaimAborts(k)
  \/ Exchange
  \/ Mark

Next == Tick \/ ClockStepsBack \/ Crash \/ Start \/ Serve

Spec == Init /\ [][Next]_vars

\* The thread never stops while the process lives, systemd restarts a dead
\* process (Restart=on-failure) and time passes.
Fairness == WF_vars(Serve) /\ WF_vars(Start) /\ WF_vars(Tick)

FairSpec == Spec /\ Fairness

-----------------------------------------------------------------------------
(***************************************************************************)
(* Properties.                                                             *)
(***************************************************************************)

\* Types of all the service's state: table rows within the schema, the loop's
\* program counter, and the histories.
TypeOK ==
  /\ row \in [Keys -> Row]
  /\ enabled \in BOOLEAN
  /\ receipts \subseteq [id : CallbackIds, sender : Senders, verb : {"notify", "status"}]
  /\ rate \subseteq [id : CallbackIds, sender : Senders, at : Nat]
  /\ now \in Nat
  /\ pc \in Loop \cup {"down"}
  /\ cur \in Keys \cup {NoKey}
  /\ outcome \in Outcomes \cup {"none"}
  /\ effects \in [Keys -> Nat]
  /\ tries \in [Keys -> Nat]
  /\ requeued \in [Keys -> Nat]
  /\ crashes \in Nat
  /\ steps \in Nat

\* Single flight: a message is `sending` only while the loop holds exactly that
\* message between its claim and its mark, or while the process is down and
\* start-up has not yet resolved it.  (m2_claim_due, m2_recover_interrupted.)
SingleFlight ==
  \A k \in Keys :
    row[k].state = "sending" =>
      \/ pc \in {"exchange", "mark"} /\ cur = k
      \/ pc = "down" /\ \A j \in Keys \ {k} : row[j].state # "sending"

\* No outcome is ever lost to the schema: when the driver has reported, the
\* message still is `sending`, and the row its outcome asks for passes every
\* CHECK, so m2_mark_* succeeds and dispatch_due does not end the service.
OutcomeRecordable ==
  pc = "mark" =>
    LET r == row[cur] IN
      /\ r.state = "sending"
      /\ ~r.ack /\ ~r.err /\ r.next = Null
      /\ outcome \in Outcomes

\* No blind resend.  Over any interleaving of requests, crashes, restarts,
\* retries and operator requeues a WhatsApp message is published at most once,
\* and an ntfy message at most once more than the operator asked for.
NoBlindResend ==
  \A k \in Keys :
    effects[k] <= IF row[k].content.driver = "whatsapp" THEN 1 ELSE 1 + requeued[k]

\* A message that still waits for an attempt, or that an operator may requeue,
\* has not been published: for WhatsApp `failed` really is a definite failure.
FailedIsDefinite ==
  \A k \in Keys :
    /\ row[k].content.driver = "whatsapp"
    /\ row[k].state \in Claimable \cup {"failed"}
    => effects[k] = 0

\* provider_accepted is never claimed of a message the provider did not publish.
AcceptedIsPublished ==
  \A k \in Keys : row[k].state = "provider_accepted" => effects[k] >= 1

\* Bounded work: over the message's whole life, crashes, restarts and operator
\* requeues included, no more provider attempts are made than the table counts,
\* and never more than the budget.
AttemptsBounded ==
  \A k \in Keys : tries[k] <= row[k].attempts /\ row[k].attempts <= MaxAttempts

\* Durable acknowledgement: what a client was told is accepted stays in the
\* table, and is the request that will be sent, whatever else reuses the key.
AckedIsKept ==
  \A a \in told : Present(a[1]) /\ Wire(row[a[1]].content) = a[2]

\* msgriver-store/src/lib.rs: "Reusing a key with a different request is
\* refused": two positive answers under one key are about the same request.
KeyReuseRefused == \A a, b \in told : a[1] = b[1] => a[2] = b[2]

\* A settled message is settled for good: no retry, restart, resubmission or
\* operator request moves a row out of provider_accepted or ambiguous.
SettledForever ==
  [][\A k \in Keys :
       row[k].state \in {"provider_accepted", "ambiguous"} => row'[k] = row[k]]_row

\* The request a row was admitted with, its age and its attempts survive every
\* later step: attempts never go down and the content is pinned.
RowPinned ==
  [][\A k \in Keys :
       Present(k) => /\ row'[k].content = row[k].content
                     /\ row'[k].created = row[k].created
                     /\ row'[k].attempts >= row[k].attempts]_row

\* Every admitted message is settled in the end: no message is starved by
\* others that keep being retried, and none is lost by a crash.
EventuallySettled ==
  \A k \in Keys :
    Present(k) ~> row[k].state \in {"provider_accepted", "ambiguous", "failed"}

\* README.md: "`message retry` requeues only a definite `failed` delivery":
\* a message whose requeue was answered 202 is attempted again.
RetryIsAttempted ==
  \A k \in Keys :
    (requeued[k] > 0 /\ row[k].state = "queued") ~> row[k].state # "queued"

\* driver.rs: DriverError is "A local validation failure before any provider
\* effect is possible", so a requeue of a failed message never publishes twice.
RetryNeverDuplicates == \A k \in Keys : effects[k] <= 1

-----------------------------------------------------------------------------
(***************************************************************************)
(* The service keeps the promise of DeliveryPromise.                       *)
(***************************************************************************)
Status(r) ==
  CASE r.state = "absent" -> "none"
    [] r.state \in Claimable \cup {"sending"} -> "open"
    [] r.state = "provider_accepted" -> "confirmed"
    [] r.state = "ambiguous" -> "unknown"
    [] r.state = "failed" -> "refused"

Promise ==
  INSTANCE DeliveryPromise WITH
    Messages <- Keys,
    status <- [k \in Keys |-> Status(row[k])],
    channel <- [k \in Keys |-> row[k].content.driver],
    published <- effects,
    reopened <- requeued

\* Whatever the loop, the operator, the clock and the crashes do, a client sees
\* only what DeliveryPromise allows: every step of the service is one step of
\* the promise for one message, or none.
KeepsPromise == Promise!PromiseSpec

-----------------------------------------------------------------------------
(***************************************************************************)
(* The inductive strengthening behind the safety properties.               *)
(***************************************************************************)
InFlight(k) == pc \in {"exchange", "mark"} /\ cur = k

\* The loop holds a message exactly between claim and mark.
FlightInv ==
  /\ pc \in {"exchange", "mark"} => cur \in Keys /\ row[cur].state = "sending"
  /\ pc = "mark" => outcome \in Outcomes
  /\ SingleFlight

TableInv == \A k \in Keys : Checks(row[k])

\* How often a message may have been published when its next attempt starts.
Allowance(k) == IF row[k].content.driver = "whatsapp" THEN 0 ELSE requeued[k]

\* The outcome of the attempt in flight rules an effect out.
NoEffectOutcome(driver) ==
  IF driver = "whatsapp" THEN Outcomes \ {"Accepted", "Ambiguous"}
  ELSE {"RateLimited", "Transient", "Permanent", "AuthOrConfig"}

EffectInv ==
  \A k \in Keys :
    /\ effects[k] <= Allowance(k) + 1
    /\ row[k].state = "absent" => effects[k] = 0 /\ requeued[k] = 0
    /\ row[k].state \in Claimable => effects[k] <= Allowance(k)
    /\ row[k].state = "failed" /\ row[k].content.driver = "whatsapp" => effects[k] = 0
    /\ row[k].state = "provider_accepted" => effects[k] >= 1
    /\ pc = "exchange" /\ cur = k => effects[k] <= Allowance(k)
    /\ pc = "mark" /\ cur = k =>
         /\ outcome \in NoEffectOutcome(row[k].content.driver) => effects[k] <= Allowance(k)
         /\ outcome = "Accepted" => effects[k] >= 1

TriesInv ==
  \A k \in Keys :
    /\ tries[k] <= row[k].attempts
    /\ row[k].state = "absent" => tries[k] = 0
    /\ pc = "exchange" /\ cur = k => tries[k] < row[k].attempts

IInv == TypeOK /\ FlightInv /\ TableInv /\ EffectInv /\ TriesInv
=============================================================================

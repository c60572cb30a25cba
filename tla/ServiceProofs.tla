---------------------------- MODULE ServiceProofs ----------------------------
(***************************************************************************)
(* Machine-checked proofs about Service, for every set of keys, requests   *)
(* and callbacks, every retry budget and every bound on the environment,   *)
(* and about what it takes from outside: the webhook, the admission        *)
(* checks, strict JSON, path segments and the ledger of submissions.       *)
(*                                                                         *)
(* The argument: IInv is inductive.  Its parts are needed together.  That  *)
(* a message is sent once rests on the loop holding at most one `sending`  *)
(* row (FlightInv), on what an outcome says about the effect (EffectInv,   *)
(* from the connectors' classification) and on start-up making a row       *)
(* whose outcome was lost final.                                           *)
(***************************************************************************)
EXTENDS Service, Canonical, Inbound, Admission, StrictJson, PathSegments, SequenceTheorems,
  Induction, TLAPS

-----------------------------------------------------------------------------
(***************************************************************************)
(* Rows.                                                                   *)
(***************************************************************************)

\* Writing one row leaves a table of rows and no other row changed.
LEMMA PutRow ==
  ASSUME row \in [Keys -> Row], NEW k \in Keys, NEW r \in Row,
         row' = [row EXCEPT ![k] = r]
  PROVE  /\ row' \in [Keys -> Row]
         /\ row'[k] = r
         /\ \A j \in Keys : j # k => row'[j] = row[j]
  OBVIOUS

\* What the drivers report without an effect never is Accepted, and only a
\* reply that leaves the effect open or certain goes with one.
LEMMA OutcomeSound ==
  ASSUME NEW driver \in Drivers, NEW x \in Possible(driver)
  PROVE  /\ deliver(driver, x.reply) \in Outcomes
         /\ x.effect \in BOOLEAN
         /\ deliver(driver, x.reply) = "Accepted" => x.effect = TRUE
         /\ deliver(driver, x.reply) \in NoEffectOutcome(driver) => x.effect = FALSE
<1>1. PICK e \in Exchanges : x = e /\ x.reply \in RepliesOf(driver)
  BY DEF Possible
<1>2. CASE x \in [reply : NoBytesSent \cup Rejections, effect : {FALSE}]
  BY <1>2 DEF NoBytesSent, Rejections, Outcomes, deliver, NtfyOutcome,
     WhatsappOutcome, CommonOutcome, NoEffectOutcome, Drivers
<1>3. CASE x \in [reply : Successes, effect : {TRUE}]
  BY <1>3 DEF Successes, Outcomes, deliver, NtfyOutcome,
     WhatsappOutcome, CommonOutcome, NoEffectOutcome, Drivers
<1>4. CASE x \in [reply : Unknowns, effect : BOOLEAN]
  BY <1>4 DEF Unknowns, Outcomes, deliver, NtfyOutcome,
     WhatsappOutcome, CommonOutcome, NoEffectOutcome, Drivers
<1> QED BY <1>1, <1>2, <1>3, <1>4 DEF Exchanges

\* The contents that admission puts in a row have the columns' types.
LEMMA ContentTypes ==
  /\ \A r \in NtfyRequests : M2Content(r) \in Content
  /\ \A r \in WhatsappRequests : M3Content(r) \in Content
  /\ \A c \in Callbacks : M4Content(c) \in Content /\ c.id \in CallbackIds /\ M4Key[c.id] \in Keys
  /\ NoContent \in Content
<1>1. \A r \in NtfyRequests : M2Content(r) \in Content
  BY StoreConstants DEF M2Content, Content, Drivers
<1>2. \A r \in WhatsappRequests : M3Content(r) \in Content
  BY StoreConstants DEF M3Content, Content, Drivers
<1>3. ASSUME NEW c \in Callbacks
      PROVE  M4Content(c) \in Content /\ c.id \in CallbackIds /\ M4Key[c.id] \in Keys
  BY StoreConstants DEF M4Content, Content, Drivers, CallbackIds, Senders
<1>4. NoContent \in Content
  BY StoreConstants DEF NoContent, Content, Drivers
<1> QED BY <1>1, <1>2, <1>3, <1>4

\* A freshly admitted row is well typed and passes the CHECKs.
LEMMA QueuedRow ==
  ASSUME NEW content \in Content, NEW t \in Nat
  PROVE  /\ Queued(content, t) \in Row
         /\ Checks(Queued(content, t))
         /\ Queued(content, t).state = "queued"
         /\ Queued(content, t).attempts = 0
  BY StoreConstants DEF Queued, Row, Checks, Claimable, Durable, States, Null

\* An UPDATE of a `sending` row by one of the marks.
LEMMA MarkedRow ==
  ASSUME NEW r \in Row, Checks(r), r.state = "sending", NEW t \in Nat
  PROVE  /\ [r EXCEPT !.state = "provider_accepted", !.ack = TRUE] \in Row
         /\ [r EXCEPT !.state = "failed", !.err = TRUE] \in Row
         /\ [r EXCEPT !.state = "ambiguous", !.err = TRUE] \in Row
         /\ [r EXCEPT !.state = "retry_scheduled", !.next = t + RetryDelay, !.err = FALSE]
              \in Row
         /\ Checks([r EXCEPT !.state = "ambiguous", !.err = TRUE])
<1>1. [r EXCEPT !.state = "provider_accepted", !.ack = TRUE] \in Row
  BY DEF Row, Claimable, Durable, States
<1>2. [r EXCEPT !.state = "failed", !.err = TRUE] \in Row
  BY DEF Row, Claimable, Durable, States
<1>3. [r EXCEPT !.state = "ambiguous", !.err = TRUE] \in Row
  BY DEF Row, Claimable, Durable, States
<1>4. [r EXCEPT !.state = "retry_scheduled", !.next = t + RetryDelay, !.err = FALSE] \in Row
  <2>1. t + RetryDelay \in Nat
    BY StoreConstants
  <2>2. ASSUME NEW n \in Nat
        PROVE  [r EXCEPT !.state = "retry_scheduled", !.next = n, !.err = FALSE] \in Row
    BY DEF Row, Claimable, Durable, States
  <2> QED BY <2>1, <2>2
<1>5. Checks([r EXCEPT !.state = "ambiguous", !.err = TRUE])
  BY DEF Checks, Row, Claimable, Null
<1> QED BY <1>1, <1>2, <1>3, <1>4, <1>5

-----------------------------------------------------------------------------
(***************************************************************************)
(* The initial states.                                                     *)
(***************************************************************************)
LEMMA InitIInv == Init => IInv
<1> SUFFICES ASSUME Init PROVE IInv
  OBVIOUS
<1>1. Absent \in Row /\ Checks(Absent) /\ Absent.state = "absent"
      /\ Absent.attempts = 0
  BY ContentTypes, StoreConstants
  DEF Absent, Row, Checks, Claimable, Durable, States, Null
<1>2. \A k \in Keys : row[k] = Absent
  BY DEF Init, StoreInit
<1>3. TypeOK
  BY <1>1 DEF Init, StoreInit, TypeOK
<1>4. FlightInv
  BY <1>1, <1>2 DEF Init, FlightInv, SingleFlight
<1>5. TableInv
  BY <1>1, <1>2 DEF TableInv
<1>6. EffectInv
  BY <1>1, <1>2 DEF Init, EffectInv, Allowance, Claimable
<1>7. TriesInv
  BY <1>1, <1>2 DEF Init, TriesInv
<1> QED BY <1>3, <1>4, <1>5, <1>6, <1>7 DEF IInv

-----------------------------------------------------------------------------
(***************************************************************************)
(* The steps.                                                              *)
(***************************************************************************)

\* While the loop holds no message none is `sending`.
LEMMA Quiet ==
  ASSUME FlightInv, pc \notin {"exchange", "mark", "down"}
  PROVE  \A k \in Keys : row[k].state # "sending"
  BY DEF FlightInv, SingleFlight

\* A step that writes no row, makes no attempt and leaves the loop without a
\* message keeps the table's part of the invariant.
LEMMA IdleStep ==
  ASSUME IInv, UNCHANGED <<row, effects, tries, requeued>>,
         pc' \notin {"exchange", "mark"},
         pc' = "down" \/ \A k \in Keys : row[k].state # "sending"
  PROVE  FlightInv' /\ TableInv' /\ EffectInv' /\ TriesInv'
<1>1. FlightInv'
  BY DEF IInv, FlightInv, SingleFlight
<1>2. TableInv'
  BY DEF IInv, TableInv, Checks
<1>3. EffectInv'
  BY DEF IInv, EffectInv, Allowance
<1>4. TriesInv'
  BY DEF IInv, TriesInv
<1> QED BY <1>1, <1>2, <1>3, <1>4

\* A step that puts one row in the queue keeps it: the row was absent, or was
\* failed and is reopened.
LEMMA EnqueueStep ==
  ASSUME IInv, NEW k \in Keys, NEW r \in Row,
         row' = [row EXCEPT ![k] = r],
         r.state = "queued", Checks(r), tries[k] <= r.attempts,
         UNCHANGED <<effects, tries>>,
         pc \notin {"exchange", "mark", "down"},
         pc' \notin {"exchange", "mark"},
         \/ row[k].state = "absent" /\ UNCHANGED requeued
         \/ /\ row[k].state = "failed"
            /\ r.content = row[k].content
            /\ requeued' = [requeued EXCEPT ![k] = @ + 1]
  PROVE  FlightInv' /\ TableInv' /\ EffectInv' /\ TriesInv'
<1>0. /\ row \in [Keys -> Row] /\ row'[k] = r
      /\ \A j \in Keys : j # k => row'[j] = row[j]
  BY PutRow DEF IInv, TypeOK
<1>1. FlightInv'
  BY <1>0, Quiet DEF IInv, FlightInv, SingleFlight
<1>2. TableInv'
  BY <1>0 DEF IInv, TableInv, Checks
<1>3. EffectInv'
  <2>0. /\ \A j \in Keys : requeued[j] \in Nat /\ effects[j] \in Nat
        /\ requeued' \in [Keys -> Nat]
        /\ \A j \in Keys : j # k => requeued'[j] = requeued[j]
    BY DEF IInv, TypeOK
  <2>1. ASSUME NEW j \in Keys, j # k
        PROVE  effects'[j] = effects[j] /\ Allowance(j)' = Allowance(j)
    BY <2>0, <2>1, <1>0 DEF Allowance
  <2>2. effects'[k] = effects[k] /\ effects[k] <= Allowance(k)'
    <3>1. CASE row[k].state = "absent"
      BY <3>1, <2>0, <1>0 DEF IInv, EffectInv, Allowance
    <3>2. CASE /\ row[k].state = "failed"
               /\ r.content = row[k].content
               /\ requeued' = [requeued EXCEPT ![k] = @ + 1]
      <4>1. requeued'[k] = requeued[k] + 1
        BY <3>2 DEF IInv, TypeOK
      <4> QED BY <4>1, <3>2, <2>0, <1>0 DEF IInv, EffectInv, Allowance
    <3> QED BY <3>1, <3>2
  <2>3. Allowance(k)' \in Nat
    BY <2>0 DEF Allowance
  <2> QED BY <2>0, <2>1, <2>2, <2>3, <1>0 DEF IInv, EffectInv, Claimable
<1>4. TriesInv'
  <2>1. \A j \in Keys : tries'[j] = tries[j] /\ tries[j] \in Nat
    BY DEF IInv, TypeOK
  <2>2. r.attempts \in Nat
    BY <1>0, StoreConstants DEF Row
  <2> QED BY <2>1, <2>2, <1>0 DEF IInv, TriesInv
<1> QED BY <1>1, <1>2, <1>3, <1>4

\* The wall clock moves, in either direction.
LEMMA ClockStep ==
  ASSUME IInv, Tick \/ ClockStepsBack
  PROVE  IInv'
<1>0. /\ UNCHANGED <<storeVars, loopVars, histVars>> /\ now' \in Nat
      /\ crashes' \in Nat /\ steps' \in Nat
  BY DEF IInv, TypeOK, Tick, ClockStepsBack
<1>1. UNCHANGED <<row, enabled, receipts, rate, pc, cur, outcome, effects, tries, requeued>>
  BY <1>0 DEF storeVars, loopVars, histVars
<1>2. TypeOK'
  BY <1>0, <1>1 DEF IInv, TypeOK
<1>3. FlightInv' /\ TableInv'
  BY <1>1 DEF IInv, FlightInv, SingleFlight, TableInv, Checks
<1>4. EffectInv' /\ TriesInv'
  BY <1>1 DEF IInv, EffectInv, TriesInv, Allowance
<1> QED BY <1>2, <1>3, <1>4 DEF IInv

\* The process dies: the row the loop held stays `sending`, alone.
LEMMA CrashStep ==
  ASSUME IInv, Crash
  PROVE  IInv'
<1>0. /\ UNCHANGED <<row, enabled, receipts, rate, now, effects, tries, requeued, steps>>
      /\ pc' = "down" /\ cur' = NoKey /\ outcome' = "none" /\ crashes' = crashes + 1
  BY DEF Crash, Goto, storeVars, histVars
<1>1. TypeOK'
  BY <1>0 DEF IInv, TypeOK
<1>2. FlightInv' /\ TableInv' /\ EffectInv' /\ TriesInv'
  BY <1>0, IdleStep
<1> QED BY <1>1, <1>2 DEF IInv

\* Start-up: the interrupted row becomes ambiguous, every other row is kept.
LEMMA StartStep ==
  ASSUME IInv, Start
  PROVE  IInv'
<1>0. /\ row' = [k \in Keys |-> Recovered(row[k])]
      /\ UNCHANGED <<enabled, receipts, rate, now, effects, tries, requeued, crashes, steps>>
      /\ pc' = "local" /\ cur' = NoKey /\ outcome' = "none"
  BY DEF Start, m2_recover_interrupted, Goto, histVars
<1>1. ASSUME NEW k \in Keys
      PROVE  /\ row'[k] \in Row /\ Checks(row'[k])
             /\ row'[k].content = row[k].content
             /\ row'[k].attempts = row[k].attempts
             /\ row[k].state = "sending" => row'[k].state = "ambiguous"
             /\ row[k].state # "sending" => row'[k] = row[k]
  <2>1. row'[k] = Recovered(row[k]) /\ row[k] \in Row /\ Checks(row[k])
    BY <1>0 DEF IInv, TypeOK, TableInv
  <2>2. CASE row[k].state = "sending"
    <3>1. row'[k] = [row[k] EXCEPT !.state = "ambiguous", !.err = TRUE]
      BY <2>1, <2>2 DEF Recovered
    <3>2. row'[k] \in Row /\ Checks(row'[k])
      BY <2>1, <2>2, <3>1, MarkedRow
    <3>3. /\ row'[k].content = row[k].content
          /\ row'[k].attempts = row[k].attempts /\ row'[k].state = "ambiguous"
      BY <2>1, <3>1 DEF Row
    <3> QED BY <2>2, <3>2, <3>3
  <2>3. CASE row[k].state # "sending"
    BY <2>1, <2>3 DEF Recovered
  <2> QED BY <2>2, <2>3
<1>2. TypeOK'
  BY <1>0, <1>1 DEF IInv, TypeOK, Loop
<1>3. FlightInv'
  BY <1>0, <1>1 DEF FlightInv, SingleFlight
<1>4. TableInv'
  BY <1>1 DEF TableInv, Checks
<1>5. EffectInv'
  <2>1. \A k \in Keys : effects'[k] = effects[k] /\ Allowance(k)' = Allowance(k)
    BY <1>0, <1>1 DEF Allowance
  <2> QED BY <1>0, <1>1, <2>1 DEF IInv, EffectInv, Claimable
<1>6. TriesInv'
  BY <1>0, <1>1 DEF IInv, TriesInv
<1> QED BY <1>2, <1>3, <1>4, <1>5, <1>6 DEF IInv

\* Steps of the loop that leave every row as it is.
LEMMA LoopStep ==
  ASSUME IInv,
         \/ NoLocalChange \/ NoInboundChange \/ NothingDue
         \/ \E on \in BOOLEAN : HandleInboundControl(on)
         \/ \E k \in Keys : ClaimAborts(k)
  PROVE  IInv'
<1>0. /\ UNCHANGED <<row, receipts, rate, now, effects, tries, requeued, crashes, steps>>
      /\ enabled' \in BOOLEAN
      /\ pc' \in {"local", "inbound", "dispatch", "down"} /\ cur' = NoKey /\ outcome' = "none"
      /\ pc \in {"local", "inbound", "dispatch"}
  BY DEF IInv, TypeOK, NoLocalChange, NoInboundChange, NothingDue, HandleInboundControl,
         ClaimAborts, Switch, m4_set_inbound_enabled, Goto, storeVars, histVars
<1>1. TypeOK'
  BY <1>0 DEF IInv, TypeOK, Loop
<1>2. \A k \in Keys : row[k].state # "sending"
  BY <1>0, Quiet DEF IInv
<1>3. FlightInv' /\ TableInv' /\ EffectInv' /\ TriesInv'
  BY <1>0, <1>2, IdleStep
<1> QED BY <1>1, <1>3 DEF IInv

\* A submission or a callback admits a row under an absent key, or none.
LEMMA AdmitStep ==
  ASSUME IInv, NEW k \in Keys, NEW content \in Content,
         \/ UNCHANGED row
         \/ row[k].state = "absent" /\ Insert(k, content, now),
         UNCHANGED <<now, effects, tries, requeued, crashes, steps>>,
         enabled' \in BOOLEAN,
         receipts' \subseteq [id : CallbackIds, sender : Senders, verb : {"notify", "status"}],
         rate' \subseteq [id : CallbackIds, sender : Senders, at : Nat],
         pc \in {"local", "inbound"}, pc' \in {"inbound", "dispatch"},
         cur' = NoKey, outcome' = "none"
  PROVE  IInv'
<1>1. \A j \in Keys : row[j].state # "sending"
  BY Quiet DEF IInv
<1>2. CASE UNCHANGED row
  <2>1. TypeOK'
    BY <1>2 DEF IInv, TypeOK, Loop
  <2>2. FlightInv' /\ TableInv' /\ EffectInv' /\ TriesInv'
    BY <1>1, <1>2, IdleStep
  <2> QED BY <2>1, <2>2 DEF IInv
<1>3. CASE row[k].state = "absent" /\ Insert(k, content, now)
  <2> DEFINE r == Queued(content, now)
  <2>1. /\ r \in Row /\ Checks(r) /\ r.state = "queued" /\ r.attempts = 0
        /\ now \in Nat /\ row \in [Keys -> Row]
    BY QueuedRow DEF IInv, TypeOK
  <2>2. row' = [row EXCEPT ![k] = r]
    BY <1>3 DEF Insert
  <2>3. tries[k] <= r.attempts
    BY <1>3, <2>1 DEF IInv, TriesInv
  <2> HIDE DEF r
  <2>4. row' \in [Keys -> Row]
    BY <2>1, <2>2
  <2>5. TypeOK'
    BY <2>4 DEF IInv, TypeOK, Loop
  <2>6. FlightInv' /\ TableInv' /\ EffectInv' /\ TriesInv'
    BY <1>3, <2>1, <2>2, <2>3, EnqueueStep
  <2> QED BY <2>5, <2>6 DEF IInv
<1> QED BY <1>2, <1>3

\* The two submission handlers.
LEMMA SubmitStep ==
  ASSUME IInv, NEW k \in Keys,
         \/ \E r \in NtfyRequests : HandleNtfy(k, r)
         \/ \E r \in WhatsappRequests : HandleWhatsapp(k, r)
  PROVE  IInv'
<1>0. PICK content \in Content :
        \/ UNCHANGED row
        \/ row[k].state = "absent" /\ Insert(k, content, now)
  <2>1. CASE \E r \in NtfyRequests : HandleNtfy(k, r)
    BY <2>1, ContentTypes DEF HandleNtfy, m2_submit, M2Answer, Present
  <2>2. CASE \E r \in WhatsappRequests : HandleWhatsapp(k, r)
    BY <2>2, ContentTypes DEF HandleWhatsapp, m3_submit, M3Answer, Present
  <2> QED BY <2>1, <2>2
<1>1. /\ UNCHANGED <<now, effects, tries, requeued, crashes, steps, enabled, receipts, rate>>
      /\ pc = "local" /\ pc' = "inbound" /\ cur' = NoKey /\ outcome' = "none"
  BY DEF HandleNtfy, HandleWhatsapp, m2_submit, m3_submit, Goto
<1>2. /\ enabled' \in BOOLEAN
      /\ receipts' \subseteq [id : CallbackIds, sender : Senders, verb : {"notify", "status"}]
      /\ rate' \subseteq [id : CallbackIds, sender : Senders, at : Nat]
  BY <1>1 DEF IInv, TypeOK
<1> QED BY <1>0, <1>1, <1>2, AdmitStep

\* m4_submit_inbound: the message, the receipt and the rate event of an
\* accepted callback, or nothing.
LEMMA InboundWrites ==
  ASSUME NEW c \in Callbacks, m4_submit_inbound(c, now)
  PROVE  /\ \/ UNCHANGED row
            \/ row[M4Key[c.id]].state = "absent" /\ Insert(M4Key[c.id], M4Content(c), now)
         /\ receipts' \in {receipts,
              receipts \cup {[id |-> c.id, sender |-> c.sender, verb |-> c.verb]}}
         /\ rate' \in {rate, rate \cup {[id |-> c.id, sender |-> c.sender, at |-> now]}}
         /\ enabled' = enabled
<1>1. CASE M4Disposition(c, now) = "accepted"
  <2>1. ~Present(M4Key[c.id])
    BY <1>1, Zenon DEF M4Disposition
  <2> QED BY <1>1, <2>1 DEF m4_submit_inbound, Present
<1>2. CASE M4Disposition(c, now) # "accepted"
  BY <1>2 DEF m4_submit_inbound, storeVars
<1> QED BY <1>1, <1>2

\* handle_inbound_request.
LEMMA CallbackStep ==
  ASSUME IInv, NEW c \in Callbacks, HandleCallback(c)
  PROVE  IInv'
<1>0. /\ m4_submit_inbound(c, now)
      /\ UNCHANGED <<now, effects, tries, requeued, crashes, steps>>
      /\ pc = "inbound" /\ pc' = "dispatch" /\ cur' = NoKey /\ outcome' = "none"
  BY DEF HandleCallback, Receive, Goto, histVars
<1>1. M4Content(c) \in Content /\ c.id \in CallbackIds /\ M4Key[c.id] \in Keys
  BY ContentTypes
<1>2. c.sender \in Senders /\ c.verb \in {"notify", "status"} /\ now \in Nat
  BY StoreConstants DEF IInv, TypeOK, Senders
<1>3. /\ [id |-> c.id, sender |-> c.sender, verb |-> c.verb]
           \in [id : CallbackIds, sender : Senders, verb : {"notify", "status"}]
      /\ [id |-> c.id, sender |-> c.sender, at |-> now]
           \in [id : CallbackIds, sender : Senders, at : Nat]
  BY <1>1, <1>2
<1>4. /\ receipts' \subseteq [id : CallbackIds, sender : Senders, verb : {"notify", "status"}]
      /\ rate' \subseteq [id : CallbackIds, sender : Senders, at : Nat]
      /\ enabled' \in BOOLEAN
  BY <1>0, <1>3, InboundWrites DEF IInv, TypeOK
<1>5. \/ UNCHANGED row
      \/ row[M4Key[c.id]].state = "absent" /\ Insert(M4Key[c.id], M4Content(c), now)
  BY <1>0, InboundWrites
<1> QED BY <1>0, <1>1, <1>4, <1>5, AdmitStep

\* The operator's retry reopens a failed row, or changes nothing.
LEMMA RetryStep ==
  ASSUME IInv, NEW k \in Keys, HandleRetry(k)
  PROVE  IInv'
<1>0. /\ UNCHANGED <<now, effects, tries, crashes, steps, enabled, receipts, rate>>
      /\ pc = "local" /\ pc' = "inbound" /\ cur' = NoKey /\ outcome' = "none"
  BY DEF HandleRetry, m6_requeue_failed, Goto
<1>1. CASE M6Answer(k) # "requeued"
  <2>1. UNCHANGED <<row, requeued>>
    BY <1>1 DEF HandleRetry, m6_requeue_failed
  <2>2. TypeOK'
    BY <1>0, <2>1 DEF IInv, TypeOK, Loop
  <2>3. \A j \in Keys : row[j].state # "sending"
    BY <1>0, Quiet DEF IInv
  <2>4. FlightInv' /\ TableInv' /\ EffectInv' /\ TriesInv'
    BY <1>0, <2>1, <2>3, IdleStep
  <2> QED BY <2>2, <2>4 DEF IInv
<1>2. CASE M6Answer(k) = "requeued"
  <2> DEFINE r == [row[k] EXCEPT !.state = "queued", !.next = now, !.err = FALSE]
  <2>1. /\ row[k].state = "failed" /\ row' = [row EXCEPT ![k] = r]
        /\ requeued' = [requeued EXCEPT ![k] = @ + 1]
    BY <1>2 DEF HandleRetry, m6_requeue_failed, M6Answer
  <2>2. row[k] \in Row /\ Checks(row[k]) /\ now \in Nat
    BY DEF IInv, TypeOK, TableInv
  <2>3. r \in Row
    BY <2>2 DEF Row, Claimable, Durable, States
  <2>4. /\ r.state = "queued" /\ r.content = row[k].content
        /\ r.attempts = row[k].attempts /\ r.next = now /\ r.err = FALSE
        /\ r.ack = row[k].ack
    BY <2>2 DEF Row
  <2>5. Checks(r)
    BY <2>1, <2>2, <2>4 DEF Checks, Claimable, Null
  <2> HIDE DEF r
  <2>6. row' \in [Keys -> Row] /\ requeued' \in [Keys -> Nat]
    BY <2>1, <2>3 DEF IInv, TypeOK
  <2>7. TypeOK'
    BY <1>0, <2>6 DEF IInv, TypeOK, Loop
  <2>8. tries[k] <= r.attempts
    BY <2>4 DEF IInv, TriesInv
  <2>9. FlightInv' /\ TableInv' /\ EffectInv' /\ TriesInv'
    BY <1>0, <2>1, <2>3, <2>4, <2>5, <2>8, EnqueueStep
  <2> QED BY <2>7, <2>9 DEF IInv
<1> QED BY <1>1, <1>2

\* The claim: one due row becomes `sending`, one attempt is counted, and the
\* loop holds it.
LEMMA ClaimStep ==
  ASSUME IInv, NEW k \in Keys, Claim(k)
  PROVE  IInv'
<1> DEFINE r == Claimed(k)
<1>0. /\ UNCHANGED <<now, effects, tries, requeued, crashes, steps, enabled, receipts, rate>>
      /\ pc = "dispatch" /\ pc' = "exchange" /\ cur' = k /\ outcome' = "none"
      /\ row' = [row EXCEPT ![k] = r] /\ Checks(r)
      /\ row[k].state \in Claimable
  BY DEF Claim, m2_claim_due, Oldest, Due, histVars
<1>1. row[k] \in Row /\ row[k].attempts \in Nat
  BY StoreConstants DEF IInv, TypeOK, Row
<1>2. /\ r.state = "sending" /\ r.content = row[k].content
      /\ r.attempts = row[k].attempts + 1
  BY <1>1 DEF Claimed, Row
<1>3. r.attempts \in 0 .. MaxAttempts
  BY <1>0 DEF Checks
<1>4. r \in Row
  <2>1. ASSUME NEW n \in 0 .. MaxAttempts
        PROVE  [row[k] EXCEPT !.state = "sending", !.attempts = n, !.next = Null] \in Row
    BY <1>1 DEF Row, Durable, States
  <2>2. r = [row[k] EXCEPT !.state = "sending", !.attempts = r.attempts, !.next = Null]
    BY <1>1, <1>2 DEF Claimed, Row
  <2> QED BY <1>3, <2>1, <2>2
<1>5. \A j \in Keys : row[j].state # "sending"
  BY <1>0, Quiet DEF IInv
<1> HIDE DEF r
<1>6. /\ row' \in [Keys -> Row] /\ row'[k] = r
      /\ \A j \in Keys : j # k => row'[j] = row[j]
  BY <1>0, <1>4, PutRow DEF IInv, TypeOK
<1>7. TypeOK'
  BY <1>0, <1>6 DEF IInv, TypeOK, Loop
<1>8. FlightInv'
  BY <1>0, <1>2, <1>5, <1>6 DEF FlightInv, SingleFlight
<1>9. TableInv'
  BY <1>0, <1>6 DEF IInv, TableInv, Checks
<1>10. EffectInv'
  <2>1. \A j \in Keys : effects'[j] = effects[j] /\ Allowance(j)' = Allowance(j)
    BY <1>0, <1>2, <1>6 DEF Allowance
  <2>2. effects[k] <= Allowance(k)
    BY <1>0 DEF IInv, EffectInv
  <2> QED BY <1>0, <1>2, <1>6, <2>1, <2>2 DEF IInv, EffectInv, Claimable
<1>11. TriesInv'
  <2>1. \A j \in Keys : tries'[j] = tries[j] /\ tries[j] \in Nat
    BY <1>0 DEF IInv, TypeOK
  <2> QED BY <1>0, <1>1, <1>2, <1>6, <2>1 DEF IInv, TriesInv
<1> QED BY <1>7, <1>8, <1>9, <1>10, <1>11 DEF IInv

\* The provider attempt: the only step with an effect.
LEMMA ExchangeStep ==
  ASSUME IInv, Exchange
  PROVE  IInv'
<1> DEFINE driver == row[cur].content.driver
<1>0. /\ UNCHANGED <<row, enabled, receipts, rate, now, cur, requeued, crashes, steps>>
      /\ pc = "exchange" /\ pc' = "mark"
      /\ tries' = [tries EXCEPT ![cur] = @ + 1]
  BY DEF Exchange, storeVars
<1>1. cur \in Keys /\ row[cur].state = "sending" /\ row[cur] \in Row
  BY <1>0 DEF IInv, FlightInv, TypeOK
<1>2. driver \in Drivers
  BY <1>1 DEF Row, Content
<1>3. PICK x \in Possible(driver) :
        /\ outcome' = deliver(driver, x.reply)
        /\ effects' = [effects EXCEPT ![cur] = @ + (IF x.effect THEN 1 ELSE 0)]
  BY DEF Exchange
<1>4. /\ outcome' \in Outcomes
      /\ outcome' = "Accepted" => x.effect = TRUE
      /\ outcome' \in NoEffectOutcome(driver) => x.effect = FALSE
      /\ x.effect \in BOOLEAN
  BY <1>2, <1>3, OutcomeSound
<1>5. /\ effects' \in [Keys -> Nat]
      /\ effects'[cur] = effects[cur] + (IF x.effect THEN 1 ELSE 0)
      /\ \A j \in Keys : j # cur => effects'[j] = effects[j]
      /\ effects[cur] \in Nat
  BY <1>1, <1>3 DEF IInv, TypeOK
<1>6. /\ tries' \in [Keys -> Nat] /\ tries'[cur] = tries[cur] + 1
      /\ \A j \in Keys : j # cur => tries'[j] = tries[j]
  BY <1>0, <1>1 DEF IInv, TypeOK
<1>7. TypeOK'
  BY <1>0, <1>4, <1>5, <1>6 DEF IInv, TypeOK, Loop
<1>8. FlightInv' /\ TableInv'
  BY <1>0, <1>1, <1>4 DEF IInv, FlightInv, SingleFlight, TableInv, Checks
<1>9. EffectInv'
  <2>1. \A j \in Keys : Allowance(j)' = Allowance(j) /\ Allowance(j) \in Nat
    BY <1>0 DEF Allowance, IInv, TypeOK
  <2>2. effects[cur] <= Allowance(cur)
    BY <1>0, <1>1 DEF IInv, EffectInv
  <2>3. ASSUME NEW j \in Keys, j # cur
        PROVE  /\ effects'[j] <= Allowance(j)' + 1
               /\ row'[j].state = "absent" => effects'[j] = 0 /\ requeued'[j] = 0
               /\ row'[j].state \in Claimable => effects'[j] <= Allowance(j)'
               /\ row'[j].state = "failed" /\ row'[j].content.driver = "whatsapp"
                    => effects'[j] = 0
               /\ row'[j].state = "provider_accepted" => effects'[j] >= 1
    BY <1>0, <1>5, <2>1, <2>3 DEF IInv, EffectInv
  <2>4. /\ effects'[cur] <= Allowance(cur)' + 1
        /\ outcome' \in NoEffectOutcome(row'[cur].content.driver)
             => effects'[cur] <= Allowance(cur)'
        /\ outcome' = "Accepted" => effects'[cur] >= 1
    BY <1>0, <1>1, <1>4, <1>5, <2>1, <2>2
  <2> QED BY <1>0, <1>1, <2>3, <2>4 DEF EffectInv, Claimable
<1>10. TriesInv'
  <2>1. \A j \in Keys : tries[j] \in Nat /\ row[j].attempts \in Nat
    BY StoreConstants DEF IInv, TypeOK, Row
  <2> QED BY <1>0, <1>1, <1>6, <2>1 DEF IInv, TriesInv
<1> QED BY <1>7, <1>8, <1>9, <1>10 DEF IInv

\* The row a mark writes: only a report that rules an effect out leads back to
\* the queue or, for whatsapp, to `failed`.
LEMMA MarkWrites ==
  ASSUME IInv, Mark
  PROVE  /\ cur \in Keys /\ row[cur].state = "sending" /\ pc = "mark"
         /\ \E r \in Row :
              /\ row' = [row EXCEPT ![cur] = r]
              /\ Checks(r)
              /\ r.content = row[cur].content
              /\ r.attempts = row[cur].attempts
              /\ r.created = row[cur].created
              /\ \/ r.state = "provider_accepted" /\ outcome = "Accepted"
                 \/ r.state = "ambiguous"
                 \/ r.state = "retry_scheduled" /\ outcome \in {"RateLimited", "Transient"}
                 \/ r.state = "failed" /\ outcome \in Outcomes \ {"Accepted", "Ambiguous"}
<1>0. /\ pc = "mark" /\ RecordOutcome(cur)
      /\ cur \in Keys /\ row[cur].state = "sending" /\ outcome \in Outcomes
      /\ row[cur] \in Row /\ now \in Nat /\ Checks(row[cur])
  BY DEF Mark, IInv, FlightInv, TypeOK, TableInv
<1> DEFINE acc == [row[cur] EXCEPT !.state = "provider_accepted", !.ack = TRUE]
           amb == [row[cur] EXCEPT !.state = "ambiguous", !.err = TRUE]
           fld == [row[cur] EXCEPT !.state = "failed", !.err = TRUE]
           rty == [row[cur] EXCEPT !.state = "retry_scheduled",
                                   !.next = now + RetryDelay, !.err = FALSE]
<1>1. acc \in Row /\ amb \in Row /\ fld \in Row /\ rty \in Row
  BY <1>0, MarkedRow
<1>2. /\ acc.state = "provider_accepted" /\ amb.state = "ambiguous"
      /\ fld.state = "failed" /\ rty.state = "retry_scheduled"
  BY <1>0 DEF Row
<1>3. /\ acc.content = row[cur].content /\ amb.content = row[cur].content
      /\ fld.content = row[cur].content /\ rty.content = row[cur].content
      /\ acc.attempts = row[cur].attempts /\ amb.attempts = row[cur].attempts
      /\ fld.attempts = row[cur].attempts /\ rty.attempts = row[cur].attempts
      /\ acc.created = row[cur].created /\ amb.created = row[cur].created
      /\ fld.created = row[cur].created /\ rty.created = row[cur].created
  BY <1>0 DEF Row
<1>4. \/ Update(cur, acc) /\ outcome = "Accepted"
      \/ Update(cur, amb)
      \/ Update(cur, rty) /\ outcome \in {"RateLimited", "Transient"}
      \/ Update(cur, fld) /\ outcome \in Outcomes \ {"Accepted", "Ambiguous"}
  BY <1>0 DEF RecordOutcome, Outcomes, m2_mark_accepted, m2_mark_ambiguous,
              m2_mark_failed, m2_mark_retry
<1> HIDE DEF acc, amb, fld, rty
<1> QED BY <1>0, <1>1, <1>2, <1>3, <1>4 DEF Update

\* The marks.
LEMMA MarkStep ==
  ASSUME IInv, Mark
  PROVE  IInv'
<1>0. /\ UNCHANGED <<now, effects, tries, requeued, crashes, steps>>
      /\ pc' = "local" /\ cur' = NoKey /\ outcome' = "none"
  BY DEF Mark, Goto, histVars
<1>1. UNCHANGED <<enabled, receipts, rate>>
  <2>1. RecordOutcome(cur) /\ outcome \in Outcomes
    BY DEF Mark, IInv, FlightInv
  <2> QED BY <2>1 DEF RecordOutcome, Outcomes, m2_mark_accepted, m2_mark_ambiguous,
                      m2_mark_failed, m2_mark_retry, Update
<1>2. PICK r \in Row :
        /\ row' = [row EXCEPT ![cur] = r]
        /\ Checks(r) /\ r.content = row[cur].content /\ r.attempts = row[cur].attempts
        /\ \/ r.state = "provider_accepted" /\ outcome = "Accepted"
           \/ r.state = "ambiguous"
           \/ r.state = "retry_scheduled" /\ outcome \in {"RateLimited", "Transient"}
           \/ r.state = "failed" /\ outcome \in Outcomes \ {"Accepted", "Ambiguous"}
  BY MarkWrites
<1>3. cur \in Keys /\ row[cur].state = "sending" /\ pc = "mark"
  BY MarkWrites
<1>4. /\ row' \in [Keys -> Row] /\ row'[cur] = r
      /\ \A j \in Keys : j # cur => row'[j] = row[j]
  BY <1>2, <1>3, PutRow DEF IInv, TypeOK
<1>5. TypeOK'
  BY <1>0, <1>1, <1>4 DEF IInv, TypeOK, Loop
<1>6. FlightInv'
  BY <1>0, <1>2, <1>3, <1>4 DEF IInv, FlightInv, SingleFlight
<1>7. TableInv'
  BY <1>2, <1>4 DEF IInv, TableInv, Checks
<1>8. EffectInv'
  <2>1. \A j \in Keys : /\ effects'[j] = effects[j] /\ effects[j] \in Nat
                        /\ Allowance(j)' = Allowance(j)
    BY <1>0, <1>2, <1>4 DEF Allowance, IInv, TypeOK
  <2>2. r.state = "provider_accepted" => effects[cur] >= 1
    BY <1>2, <1>3 DEF IInv, EffectInv
  <2>3. r.state = "retry_scheduled" => effects[cur] <= Allowance(cur)
    BY <1>2, <1>3 DEF IInv, EffectInv, NoEffectOutcome, Outcomes
  <2>4. r.state = "failed" /\ r.content.driver = "whatsapp" => effects[cur] = 0
    BY <1>2, <1>3, <2>1 DEF IInv, EffectInv, NoEffectOutcome, Allowance
  <2>5. effects[cur] <= Allowance(cur) + 1
    BY <1>3 DEF IInv, EffectInv
  <2> QED BY <1>0, <1>2, <1>3, <1>4, <2>1, <2>2, <2>3, <2>4, <2>5
          DEF IInv, EffectInv, Claimable
<1>9. TriesInv'
  BY <1>0, <1>2, <1>3, <1>4 DEF IInv, TriesInv
<1> QED BY <1>5, <1>6, <1>7, <1>8, <1>9 DEF IInv

\* Every step keeps the invariant.
LEMMA StepIInv == IInv /\ [Next]_vars => IInv'
<1> SUFFICES ASSUME IInv, [Next]_vars PROVE IInv'
  OBVIOUS
<1>1. CASE Tick \/ ClockStepsBack
  BY <1>1, ClockStep
<1>2. CASE Crash
  BY <1>2, CrashStep
<1>3. CASE Start
  BY <1>3, StartStep
<1>4. CASE Serve
  <2>1. CASE \/ NoLocalChange \/ NoInboundChange \/ NothingDue
             \/ \E on \in BOOLEAN : HandleInboundControl(on)
             \/ \E k \in Keys : ClaimAborts(k)
    BY <2>1, LoopStep
  <2>2. CASE \E k \in Keys : \/ \E r \in NtfyRequests : HandleNtfy(k, r)
                             \/ \E r \in WhatsappRequests : HandleWhatsapp(k, r)
    BY <2>2, SubmitStep
  <2>3. CASE \E c \in Callbacks : HandleCallback(c)
    BY <2>3, CallbackStep
  <2>4. CASE \E k \in Keys : HandleRetry(k)
    BY <2>4, RetryStep
  <2>5. CASE \E k \in Keys : Claim(k)
    BY <2>5, ClaimStep
  <2>6. CASE Exchange
    BY <2>6, ExchangeStep
  <2>7. CASE Mark
    BY <2>7, MarkStep
  <2> QED BY <1>4, <2>1, <2>2, <2>3, <2>4, <2>5, <2>6, <2>7 DEF Serve
<1>5. CASE UNCHANGED vars
  <2>1. UNCHANGED <<row, enabled, receipts, rate, now, pc, cur, outcome, effects, tries,
                    requeued, crashes, steps>>
    BY <1>5 DEF vars, storeVars, loopVars, histVars
  <2>2. TypeOK' /\ FlightInv' /\ TableInv'
    BY <2>1 DEF IInv, TypeOK, FlightInv, SingleFlight, TableInv, Checks
  <2>3. EffectInv' /\ TriesInv'
    BY <2>1 DEF IInv, EffectInv, TriesInv, Allowance
  <2> QED BY <2>2, <2>3 DEF IInv
<1> QED BY <1>1, <1>2, <1>3, <1>4, <1>5 DEF Next

-----------------------------------------------------------------------------
(***************************************************************************)
(* The theorems.                                                           *)
(***************************************************************************)

\* The inductive invariant: types, single flight, the schema's CHECKs and what
\* the tables say about effects and attempts, in every reachable state of the
\* serve loop.
THEOREM Invariance == Spec => []IInv
  BY InitIInv, StepIInv, PTL DEF Spec

\* Every variable keeps its type; in particular no step of the store pushes
\* attempts past its CHECK.
THEOREM TypeCorrect == Spec => []TypeOK
<1>1. IInv => TypeOK
  BY DEF IInv
<1> QED BY <1>1, Invariance, PTL

\* At most one message is `sending`, the one dispatch_due holds, and after a
\* crash it is resolved before the loop runs again.
THEOREM FlightIsSingle == Spec => []SingleFlight
<1>1. IInv => SingleFlight
  BY DEF IInv, FlightInv
<1> QED BY <1>1, Invariance, PTL

\* When a driver reports, the row can take the outcome: no m2_mark_* fails its
\* guard or a CHECK.
THEOREM MarkNeverFails == Spec => []OutcomeRecordable
<1>1. IInv => OutcomeRecordable
  BY DEF IInv, FlightInv, TypeOK, TableInv, Row, OutcomeRecordable, Checks, Claimable, Null
<1> QED BY <1>1, Invariance, PTL

\* At most one publication of a WhatsApp message, and for ntfy at most one more
\* than the operator's requeues, whatever crashes and retries happen.
THEOREM NeverResentBlindly == Spec => []NoBlindResend
<1>1. IInv => NoBlindResend
  BY DEF IInv, TypeOK, EffectInv, Allowance, NoBlindResend
<1> QED BY <1>1, Invariance, PTL

\* A WhatsApp message that waits or has failed was never published.
THEOREM FailureIsDefinite == Spec => []FailedIsDefinite
<1>1. IInv => FailedIsDefinite
  BY DEF IInv, TypeOK, EffectInv, Allowance, FailedIsDefinite
<1> QED BY <1>1, Invariance, PTL

\* provider_accepted implies a publication.
THEOREM AcceptanceIsReal == Spec => []AcceptedIsPublished
<1>1. IInv => AcceptedIsPublished
  BY DEF IInv, EffectInv, AcceptedIsPublished
<1> QED BY <1>1, Invariance, PTL

\* The provider is asked at most attempts <= MaxAttempts times over a message's
\* life.
THEOREM WorkIsBounded == Spec => []AttemptsBounded
<1>1. IInv => AttemptsBounded
  BY StoreConstants DEF IInv, TypeOK, TriesInv, AttemptsBounded, Row
<1> QED BY <1>1, Invariance, PTL

-----------------------------------------------------------------------------
(***************************************************************************)
(* What one step does to the table, in the terms of the promise.           *)
(***************************************************************************)

\* Row k is rewritten and keeps its request, its age and its attempts.
Rewrites(k, r) ==
  /\ row' = [row EXCEPT ![k] = r]
  /\ r.content = row[k].content
  /\ r.created = row[k].created
  /\ r.attempts >= row[k].attempts

\* The contents admission can put in a row.
AdmittedContent ==
  {M2Content(r) : r \in NtfyRequests} \cup {M3Content(r) : r \in WhatsappRequests}
    \cup {M4Content(c) : c \in Callbacks}

Admits(k, r) ==
  /\ row[k].state = "absent"
  /\ row' = [row EXCEPT ![k] = r]
  /\ r.state = "queued" /\ r.content \in AdmittedContent
  /\ UNCHANGED <<effects, requeued>>

Reopens(k, r) ==
  /\ row[k].state = "failed" /\ r.state = "queued"
  /\ Rewrites(k, r)
  /\ requeued' = [requeued EXCEPT ![k] = @ + 1]
  /\ UNCHANGED effects

Proceeds(k, r) ==
  /\ row[k].state \in Claimable \cup {"sending"}
  /\ Rewrites(k, r)
  /\ \/ r.state \in {"sending", "retry_scheduled", "ambiguous"}
     \/ r.state = "provider_accepted" /\ effects[k] >= 1
     \/ r.state = "failed" /\ (row[k].content.driver = "whatsapp" => effects[k] = 0)
  /\ UNCHANGED <<effects, requeued>>

Publishes(k) ==
  /\ row[k].state = "sending" /\ effects[k] <= Allowance(k)
  /\ effects' = [effects EXCEPT ![k] = @ + 1]
  /\ UNCHANGED <<row, requeued>>

\* Start-up touches at most the one row that was in flight.
LEMMA StartShape ==
  ASSUME IInv, Start
  PROVE  \/ UNCHANGED <<row, effects, requeued>>
         \/ \E k \in Keys, r \in Row : Proceeds(k, r)
<1>0. /\ row' = [k \in Keys |-> Recovered(row[k])]
      /\ UNCHANGED <<effects, requeued>> /\ pc = "down"
      /\ row \in [Keys -> Row]
  BY DEF Start, m2_recover_interrupted, histVars, IInv, TypeOK
<1>1. CASE \A k \in Keys : row[k].state # "sending"
  <2>1. row' = row
    BY <1>0, <1>1 DEF Recovered
  <2> QED BY <1>0, <2>1
<1>2. ASSUME NEW k \in Keys, row[k].state = "sending"
      PROVE  \E r \in Row : Proceeds(k, r)
  <2> DEFINE r == [row[k] EXCEPT !.state = "ambiguous", !.err = TRUE]
  <2>1. \A j \in Keys \ {k} : row[j].state # "sending"
    BY <1>0, <1>2 DEF IInv, FlightInv, SingleFlight
  <2>2. r \in Row
    BY <1>0, <1>2, MarkedRow DEF IInv, TableInv
  <2>3. /\ r.content = row[k].content /\ r.created = row[k].created
        /\ r.attempts = row[k].attempts /\ r.state = "ambiguous"
        /\ row[k].attempts \in Nat
    BY <1>0, StoreConstants DEF Row
  <2>4. row' = [row EXCEPT ![k] = r]
    BY <1>0, <1>2, <2>1 DEF Recovered
  <2> HIDE DEF r
  <2>5. r.attempts >= row[k].attempts /\ UNCHANGED <<effects, requeued>>
    BY <1>0, <2>3
  <2>6. Proceeds(k, r)
    BY <1>2, <2>3, <2>4, <2>5 DEF Proceeds, Rewrites
  <2> QED BY <2>2, <2>6
<1> QED BY <1>1, <1>2

\* The five shapes of a step.
LEMMA StepShape ==
  ASSUME IInv, [Next]_vars
  PROVE  \/ UNCHANGED <<row, effects, requeued>>
         \/ \E k \in Keys, r \in Row : Admits(k, r) \/ Reopens(k, r) \/ Proceeds(k, r)
         \/ \E k \in Keys : Publishes(k)
<1> DEFINE Idle == UNCHANGED <<row, effects, requeued>>
<1>a. row \in [Keys -> Row] /\ now \in Nat
      /\ \A k \in Keys : row[k] \in Row /\ row[k].attempts \in Nat
  BY StoreConstants DEF IInv, TypeOK, Row
<1>b. ASSUME NEW k \in Keys, NEW content \in Content, Insert(k, content, now),
             content \in AdmittedContent, row[k].state = "absent", UNCHANGED <<effects, requeued>>
      PROVE  \E r \in Row : Admits(k, r)
  <2> DEFINE r == Queued(content, now)
  <2>1. r \in Row /\ r.state = "queued" /\ r.content = content
    BY <1>a, QueuedRow DEF Queued
  <2>2. row' = [row EXCEPT ![k] = r]
    BY <1>b DEF Insert
  <2> HIDE DEF r
  <2>3. Admits(k, r)
    BY <1>b, <2>1, <2>2 DEF Admits
  <2> QED BY <2>1, <2>3
<1>1. CASE Tick \/ ClockStepsBack \/ Crash
  BY <1>1 DEF Tick, ClockStepsBack, Crash, storeVars, histVars
<1>2. CASE Start
  BY <1>2, StartShape
<1>3. CASE Serve
  <2>1. CASE \/ NoLocalChange \/ NoInboundChange \/ NothingDue
             \/ \E on \in BOOLEAN : HandleInboundControl(on)
             \/ \E k \in Keys : ClaimAborts(k)
    BY <2>1 DEF NoLocalChange, NoInboundChange, NothingDue, HandleInboundControl,
         ClaimAborts, Switch, m4_set_inbound_enabled, storeVars, histVars
  <2>2. ASSUME NEW k \in Keys, NEW r \in NtfyRequests, HandleNtfy(k, r)
        PROVE  Idle \/ \E q \in Row : Admits(k, q)
    <3>1. \/ Idle
          \/ /\ row[k].state = "absent" /\ Insert(k, M2Content(r), now)
             /\ UNCHANGED <<effects, requeued>>
      BY <2>2 DEF HandleNtfy, m2_submit, M2Answer, Present
    <3> QED BY <3>1, <1>b, ContentTypes DEF AdmittedContent
  <2>3. ASSUME NEW k \in Keys, NEW r \in WhatsappRequests, HandleWhatsapp(k, r)
        PROVE  Idle \/ \E q \in Row : Admits(k, q)
    <3>1. \/ Idle
          \/ /\ row[k].state = "absent" /\ Insert(k, M3Content(r), now)
             /\ UNCHANGED <<effects, requeued>>
      BY <2>3 DEF HandleWhatsapp, m3_submit, M3Answer, Present
    <3> QED BY <3>1, <1>b, ContentTypes DEF AdmittedContent
  <2>4. ASSUME NEW c \in Callbacks, HandleCallback(c)
        PROVE  Idle \/ \E k \in Keys, q \in Row : Admits(k, q)
    <3>1. m4_submit_inbound(c, now) /\ UNCHANGED <<effects, requeued>>
      BY <2>4 DEF HandleCallback, Receive, histVars
    <3>2. M4Content(c) \in Content /\ M4Content(c) \in AdmittedContent /\ M4Key[c.id] \in Keys
      BY ContentTypes DEF AdmittedContent
    <3> QED BY <3>1, <3>2, <1>b, InboundWrites
  <2>5. ASSUME NEW k \in Keys, HandleRetry(k)
        PROVE  Idle \/ \E r \in Row : Reopens(k, r)
    <3>1. CASE M6Answer(k) # "requeued"
      BY <2>5, <3>1 DEF HandleRetry, m6_requeue_failed
    <3>2. CASE M6Answer(k) = "requeued"
      <4> DEFINE r == [row[k] EXCEPT !.state = "queued", !.next = now, !.err = FALSE]
      <4>1. /\ row[k].state = "failed" /\ row' = [row EXCEPT ![k] = r]
            /\ requeued' = [requeued EXCEPT ![k] = @ + 1] /\ UNCHANGED effects
        BY <2>5, <3>2 DEF HandleRetry, m6_requeue_failed, M6Answer
      <4>2. r \in Row
        BY <1>a DEF Row, Claimable, Durable, States
      <4>3. /\ r.state = "queued" /\ r.content = row[k].content
            /\ r.created = row[k].created /\ r.attempts = row[k].attempts
        BY <1>a DEF Row
      <4> HIDE DEF r
      <4>4. r.attempts >= row[k].attempts
        BY <1>a, <4>3
      <4>5. Reopens(k, r)
        BY <4>1, <4>3, <4>4 DEF Reopens, Rewrites
      <4> QED BY <4>2, <4>5
    <3> QED BY <3>1, <3>2
  <2>6. ASSUME NEW k \in Keys, Claim(k)
        PROVE  \E r \in Row : Proceeds(k, r)
    <3> DEFINE r == Claimed(k)
    <3>1. /\ row[k].state \in Claimable /\ row' = [row EXCEPT ![k] = r]
          /\ UNCHANGED <<effects, requeued>>
      BY <2>6 DEF Claim, m2_claim_due, Oldest, Due, histVars
    <3>2. /\ r.state = "sending" /\ r.content = row[k].content
          /\ r.created = row[k].created /\ r.attempts = row[k].attempts + 1
      BY <1>a DEF Claimed, Row
    <3>3. r \in Row
      <4>1. IInv'
        BY <2>6, ClaimStep
      <4> QED BY <1>a, <3>1, <4>1 DEF IInv, TypeOK
    <3> HIDE DEF r
    <3>4. r.attempts >= row[k].attempts
      BY <1>a, <3>2
    <3>5. Proceeds(k, r)
      BY <3>1, <3>2, <3>4 DEF Proceeds, Rewrites
    <3> QED BY <3>3, <3>5
  <2>7. CASE Exchange
    <3>1. /\ UNCHANGED <<row, requeued>> /\ pc = "exchange"
          /\ \E x \in Possible(row[cur].content.driver) :
               effects' = [effects EXCEPT ![cur] = @ + (IF x.effect THEN 1 ELSE 0)]
      BY <2>7 DEF Exchange, storeVars
    <3>2. /\ cur \in Keys /\ row[cur].state = "sending"
          /\ effects[cur] <= Allowance(cur) /\ effects \in [Keys -> Nat]
      BY <3>1 DEF IInv, FlightInv, EffectInv, TypeOK
    <3>3. effects' = effects \/ effects' = [effects EXCEPT ![cur] = @ + 1]
      <4>1. PICK x \in Possible(row[cur].content.driver) :
              effects' = [effects EXCEPT ![cur] = @ + (IF x.effect THEN 1 ELSE 0)]
        BY <3>1
      <4>2. CASE x.effect
        BY <4>1, <4>2
      <4>3. CASE ~x.effect
        BY <3>2, <4>1, <4>3
      <4> QED BY <4>2, <4>3
    <3> QED BY <3>1, <3>2, <3>3 DEF Publishes
  <2>8. CASE Mark
    <3>1. PICK r \in Row :
            /\ row' = [row EXCEPT ![cur] = r]
            /\ r.content = row[cur].content /\ r.created = row[cur].created
            /\ r.attempts = row[cur].attempts
            /\ \/ r.state = "provider_accepted" /\ outcome = "Accepted"
               \/ r.state = "ambiguous"
               \/ r.state = "retry_scheduled" /\ outcome \in {"RateLimited", "Transient"}
               \/ r.state = "failed" /\ outcome \in Outcomes \ {"Accepted", "Ambiguous"}
      BY <2>8, MarkWrites
    <3>2. /\ cur \in Keys /\ row[cur].state = "sending" /\ pc = "mark"
          /\ UNCHANGED <<effects, requeued>>
      BY <2>8, MarkWrites DEF Mark, histVars
    <3>3. r.state = "provider_accepted" => effects[cur] >= 1
      BY <3>1, <3>2 DEF IInv, EffectInv
    <3>4. r.state = "failed" /\ row[cur].content.driver = "whatsapp" => effects[cur] = 0
      BY <3>1, <3>2 DEF IInv, TypeOK, EffectInv, NoEffectOutcome, Allowance
    <3>5. Proceeds(cur, r)
      BY <1>a, <3>1, <3>2, <3>3, <3>4 DEF Proceeds, Rewrites
    <3> QED BY <3>2, <3>5
  <2> QED BY <1>3, <2>1, <2>2, <2>3, <2>4, <2>5, <2>6, <2>7, <2>8 DEF Serve
<1>4. CASE UNCHANGED vars
  BY <1>4 DEF vars, storeVars, histVars
<1> QED BY <1>1, <1>2, <1>3, <1>4 DEF Next

\* provider_accepted and ambiguous rows never change again.
THEOREM SettledIsFinal == Spec => SettledForever
<1>1. ASSUME IInv, [Next]_vars
      PROVE  [\A k \in Keys :
                row[k].state \in {"provider_accepted", "ambiguous"} => row'[k] = row[k]]_row
  <2>1. row \in [Keys -> Row]
    BY <1>1 DEF IInv, TypeOK
  <2>2. ASSUME NEW k \in Keys, NEW r \in Row,
               Admits(k, r) \/ Reopens(k, r) \/ Proceeds(k, r)
        PROVE  \A j \in Keys :
                 row[j].state \in {"provider_accepted", "ambiguous"} => row'[j] = row[j]
    BY <2>1, <2>2 DEF Admits, Reopens, Proceeds, Rewrites, Claimable
  <2> QED BY <1>1, <2>2, StepShape DEF Publishes
<1> QED BY <1>1, Invariance, PTL DEF Spec, SettledForever

\* A row's request and age are pinned and its attempts never go down.
THEOREM RowsArePinned == Spec => RowPinned
<1>1. ASSUME IInv, [Next]_vars
      PROVE  [\A k \in Keys :
                Present(k) => /\ row'[k].content = row[k].content
                              /\ row'[k].created = row[k].created
                              /\ row'[k].attempts >= row[k].attempts]_row
  <2>1. row \in [Keys -> Row] /\ \A k \in Keys : row[k].attempts \in Nat
    BY <1>1, StoreConstants DEF IInv, TypeOK, Row
  <2>2. ASSUME NEW k \in Keys, NEW r \in Row,
               Admits(k, r) \/ Reopens(k, r) \/ Proceeds(k, r),
               NEW j \in Keys, Present(j)
        PROVE  /\ row'[j].content = row[j].content
               /\ row'[j].created = row[j].created
               /\ row'[j].attempts >= row[j].attempts
    <3>1. CASE j # k
      <4>1. row'[j] = row[j]
        BY <2>1, <2>2, <3>1 DEF Admits, Reopens, Proceeds, Rewrites
      <4> QED BY <2>1, <4>1
    <3>2. CASE j = k
      <4>1. row'[k] = r /\ Rewrites(k, r)
        BY <2>1, <2>2, <3>2 DEF Admits, Reopens, Proceeds, Rewrites, Present
      <4> QED BY <3>2, <4>1 DEF Rewrites
    <3> QED BY <3>1, <3>2
  <2> QED BY <1>1, <2>2, StepShape DEF Publishes
<1> QED BY <1>1, Invariance, PTL DEF Spec, RowPinned

-----------------------------------------------------------------------------
(***************************************************************************)
(* Refinement: the service implements DeliveryPromise.                     *)
(***************************************************************************)
StatusOf == [k \in Keys |-> Status(row[k])]
ChannelOf == [k \in Keys |-> row[k].content.driver]

\* The promise's view of a table in which one row was rewritten.
LEMMA View ==
  ASSUME row \in [Keys -> Row], NEW k \in Keys, NEW r \in Row,
         row' = [row EXCEPT ![k] = r]
  PROVE  /\ StatusOf' = [StatusOf EXCEPT ![k] = Status(r)]
         /\ ChannelOf' = [ChannelOf EXCEPT ![k] = r.content.driver]
         /\ r.content = row[k].content => ChannelOf' = ChannelOf
         /\ Status(r) = Status(row[k]) => StatusOf' = StatusOf
<1>1. /\ row'[k] = r
      /\ \A j \in Keys : j # k => row'[j] = row[j]
  OBVIOUS
<1>2. \A j \in Keys : StatusOf'[j] = IF j = k THEN Status(r) ELSE Status(row[j])
  BY <1>1 DEF StatusOf
<1>3. \A j \in Keys :
        ChannelOf'[j] = IF j = k THEN r.content.driver ELSE row[j].content.driver
  BY <1>1 DEF ChannelOf
<1>4. StatusOf' = [StatusOf EXCEPT ![k] = Status(r)]
  BY <1>2 DEF StatusOf
<1>5. ChannelOf' = [ChannelOf EXCEPT ![k] = r.content.driver]
  BY <1>3 DEF ChannelOf
<1>6. r.content = row[k].content => ChannelOf' = ChannelOf
  BY <1>3 DEF ChannelOf
<1>7. Status(r) = Status(row[k]) => StatusOf' = StatusOf
  BY <1>2 DEF StatusOf
<1> QED BY <1>4, <1>5, <1>6, <1>7

\* The statuses the row states stand for.
LEMMA StatusValues ==
  \A r :
    /\ r.state = "absent" => Status(r) = "none"
    /\ r.state \in Claimable \cup {"sending"} => Status(r) = "open"
    /\ r.state = "provider_accepted" => Status(r) = "confirmed"
    /\ r.state = "ambiguous" => Status(r) = "unknown"
    /\ r.state = "failed" => Status(r) = "refused"
  BY DEF Status, Claimable

\* Every step of the service is a step of the promise for one message, or none.
LEMMA StepPromise ==
  ASSUME IInv, [Next]_vars
  PROVE  [Promise!PromiseNext]_(Promise!promiseVars)
<1>0. /\ row \in [Keys -> Row] /\ effects \in [Keys -> Nat]
      /\ \A k \in Keys : row[k].content.driver \in {"ntfy", "whatsapp"}
  BY DEF IInv, TypeOK, Row, Content, Drivers
<1>a. \A k \in Keys : StatusOf[k] = Status(row[k]) /\ ChannelOf[k] = row[k].content.driver
  BY DEF StatusOf, ChannelOf
<1>1. CASE UNCHANGED <<row, effects, requeued>>
  BY <1>1 DEF Promise!promiseVars, Status
<1>2. ASSUME NEW k \in Keys, NEW r \in Row, Admits(k, r)
      PROVE  Promise!PromiseNext
  <2>1. /\ StatusOf[k] = "none"
        /\ StatusOf' = [StatusOf EXCEPT ![k] = "open"]
        /\ ChannelOf' = [ChannelOf EXCEPT ![k] = r.content.driver]
        /\ UNCHANGED <<effects, requeued>>
    <3>1. /\ row' = [row EXCEPT ![k] = r] /\ row[k].state = "absent" /\ r.state = "queued"
          /\ UNCHANGED <<effects, requeued>>
      BY <1>2 DEF Admits
    <3>2. Status(row[k]) = "none" /\ Status(r) = "open"
      BY <3>1, StatusValues DEF Claimable
    <3>3. /\ StatusOf' = [StatusOf EXCEPT ![k] = Status(r)]
          /\ ChannelOf' = [ChannelOf EXCEPT ![k] = r.content.driver]
      BY <1>0, <3>1, View
    <3> QED BY <1>a, <3>1, <3>2, <3>3
  <2>2. r.content.driver \in {"ntfy", "whatsapp"}
    BY DEF Row, Content, Drivers
  <2>3. Promise!Accept(k, r.content.driver)
    BY <2>1 DEF Promise!Accept, StatusOf, ChannelOf
  <2> QED BY <2>2, <2>3 DEF Promise!PromiseNext
<1>3. ASSUME NEW k \in Keys, NEW r \in Row, Reopens(k, r)
      PROVE  Promise!PromiseNext
  <2>1. /\ StatusOf[k] = "refused"
        /\ StatusOf' = [StatusOf EXCEPT ![k] = "open"]
        /\ ChannelOf' = ChannelOf /\ effects' = effects
        /\ requeued' = [requeued EXCEPT ![k] = @ + 1]
    <3>1. /\ row' = [row EXCEPT ![k] = r] /\ row[k].state = "failed" /\ r.state = "queued"
          /\ r.content = row[k].content /\ effects' = effects
          /\ requeued' = [requeued EXCEPT ![k] = @ + 1]
      BY <1>3 DEF Reopens, Rewrites
    <3>2. Status(row[k]) = "refused" /\ Status(r) = "open"
      BY <3>1, StatusValues DEF Claimable
    <3>3. StatusOf' = [StatusOf EXCEPT ![k] = Status(r)] /\ ChannelOf' = ChannelOf
      BY <1>0, <3>1, View
    <3> QED BY <1>a, <3>1, <3>2, <3>3
  <2>2. Promise!Reopen(k)
    BY <2>1 DEF Promise!Reopen, StatusOf, ChannelOf
  <2> QED BY <2>2 DEF Promise!PromiseNext
<1>4. ASSUME NEW k \in Keys, NEW r \in Row, Proceeds(k, r)
      PROVE  [Promise!PromiseNext]_(Promise!promiseVars)
  <2>1. /\ StatusOf[k] = "open" /\ ChannelOf[k] = row[k].content.driver
        /\ StatusOf' = [StatusOf EXCEPT ![k] = Status(r)]
        /\ Status(r) = "open" => StatusOf' = StatusOf
        /\ ChannelOf' = ChannelOf /\ effects' = effects /\ requeued' = requeued
    <3>1. /\ row' = [row EXCEPT ![k] = r] /\ row[k].state \in Claimable \cup {"sending"}
          /\ r.content = row[k].content /\ effects' = effects /\ requeued' = requeued
      BY <1>4 DEF Proceeds, Rewrites
    <3>2. Status(row[k]) = "open"
      BY <3>1, StatusValues
    <3>3. /\ StatusOf' = [StatusOf EXCEPT ![k] = Status(r)]
          /\ ChannelOf' = ChannelOf
          /\ Status(r) = Status(row[k]) => StatusOf' = StatusOf
      BY <1>0, <3>1, View
    <3> QED BY <1>a, <3>1, <3>2, <3>3
  <2>2. CASE r.state \in {"sending", "retry_scheduled"}
    <3>1. Status(r) = "open"
      BY <2>2, StatusValues DEF Claimable
    <3> QED BY <2>1, <3>1 DEF Promise!promiseVars, StatusOf, ChannelOf
  <2>3. CASE r.state = "ambiguous"
    <3>1. Status(r) = "unknown"
      BY <2>3, StatusValues
    <3>2. Promise!GiveUp(k)
      BY <2>1, <3>1 DEF Promise!GiveUp, Promise!Settle, StatusOf, ChannelOf
    <3> QED BY <3>2 DEF Promise!PromiseNext
  <2>4. CASE r.state = "provider_accepted" /\ effects[k] >= 1
    <3>1. Status(r) = "confirmed"
      BY <2>4, StatusValues
    <3>2. Promise!Confirm(k)
      BY <2>1, <2>4, <3>1 DEF Promise!Confirm, Promise!Settle, StatusOf, ChannelOf
    <3> QED BY <3>2 DEF Promise!PromiseNext
  <2>5. CASE r.state = "failed" /\ (row[k].content.driver = "whatsapp" => effects[k] = 0)
    <3>1. Status(r) = "refused"
      BY <2>5, StatusValues
    <3>2. Promise!Refuse(k)
      BY <2>1, <2>5, <3>1 DEF Promise!Refuse, Promise!Settle, StatusOf, ChannelOf
    <3> QED BY <3>2 DEF Promise!PromiseNext
  <2> QED BY <1>4, <2>2, <2>3, <2>4, <2>5 DEF Proceeds
<1>5. ASSUME NEW k \in Keys, Publishes(k)
      PROVE  Promise!PromiseNext
  <2>1. /\ StatusOf[k] = "open" /\ ChannelOf[k] = row[k].content.driver
        /\ StatusOf' = StatusOf /\ ChannelOf' = ChannelOf
    BY <1>0, <1>a, <1>5, StatusValues DEF Publishes, StatusOf, ChannelOf, Status
  <2>2. Promise!Publish(k)
    BY <1>5, <2>1 DEF Publishes, Promise!Publish, Allowance, StatusOf, ChannelOf
  <2> QED BY <2>2 DEF Promise!PromiseNext
<1> QED BY <1>1, <1>2, <1>3, <1>4, <1>5, StepShape

\* The serve loop over its tables, with crashes, retries and operator requeues,
\* implements the abstract promise a client relies on.
THEOREM PromiseKept == Spec => KeepsPromise
<1>1. Init => Promise!PromiseInit
  <2> SUFFICES ASSUME Init PROVE Promise!PromiseInit
    OBVIOUS
  <2>1. Absent.state = "absent" /\ Absent.content.driver = "ntfy"
    BY DEF Absent, NoContent
  <2>2. Status(Absent) = "none"
    BY <2>1, StatusValues
  <2>3. \A k \in Keys : row[k] = Absent
    BY DEF Init, StoreInit
  <2>4. /\ [k \in Keys |-> Status(row[k])] = [k \in Keys |-> "none"]
        /\ [k \in Keys |-> row[k].content.driver] = [k \in Keys |-> "ntfy"]
    BY <2>1, <2>2, <2>3
  <2> QED BY <2>4 DEF Init, Promise!PromiseInit
<1>2. IInv /\ [Next]_vars => [Promise!PromiseNext]_(Promise!promiseVars)
  BY StepPromise
<1> QED BY <1>1, <1>2, Invariance, PTL DEF Spec, KeepsPromise, Promise!PromiseSpec

-----------------------------------------------------------------------------
(***************************************************************************)
(* Durable acknowledgement.                                                *)
(***************************************************************************)

\* m2_submit compares only topic, title and body, and the topic column of a
\* WhatsApp row holds the text "whatsapp": the ntfy topic has to differ from it
\* (the KeyAlias run shows a configuration in which it does not).
DistinctTopics == NtfyTopic # "whatsapp"

TopicInv == \A k \in Keys : row[k].content.driver = "whatsapp" => row[k].content.topic # NtfyTopic

AckInv ==
  /\ TopicInv
  /\ \A a \in told : a[1] \in Keys /\ Present(a[1]) /\ Wire(row[a[1]].content) = a[2]

\* A row that exists keeps existing, with its content.
LEMMA RowsPersist ==
  ASSUME IInv, [Next]_vars, NEW k \in Keys, Present(k)
  PROVE  Present(k)' /\ row'[k].content = row[k].content
<1>0. row \in [Keys -> Row]
  BY DEF IInv, TypeOK
<1>1. ASSUME NEW j \in Keys, NEW r \in Row,
             Admits(j, r) \/ Reopens(j, r) \/ Proceeds(j, r)
      PROVE  Present(k)' /\ row'[k].content = row[k].content
  <2>1. CASE j # k
    <3>1. row'[k] = row[k]
      BY <1>0, <1>1, <2>1 DEF Admits, Reopens, Proceeds, Rewrites
    <3> QED BY <3>1 DEF Present
  <2>2. CASE j = k
    <3>1. row'[k] = r /\ r.content = row[k].content /\ r.state # "absent"
      BY <1>0, <1>1, <2>2 DEF Admits, Reopens, Proceeds, Rewrites, Present
    <3> QED BY <3>1 DEF Present
  <2> QED BY <2>1, <2>2
<1> QED BY <1>1, StepShape DEF Publishes, Present

\* The topics of WhatsApp rows stay away from the ntfy topic.
LEMMA TopicStep ==
  ASSUME DistinctTopics, IInv, TopicInv, [Next]_vars
  PROVE  TopicInv'
<1>0. row \in [Keys -> Row]
  BY DEF IInv, TypeOK
<1>1. \A c \in AdmittedContent : c.driver = "whatsapp" => c.topic # NtfyTopic
  BY StoreConstants DEF AdmittedContent, DistinctTopics, M2Content, M3Content, M4Content, Senders
<1>2. ASSUME NEW k \in Keys, NEW r \in Row, Admits(k, r)
      PROVE  TopicInv'
  <2>1. /\ row'[k] = r /\ r.content \in AdmittedContent
        /\ \A j \in Keys : j # k => row'[j] = row[j]
    BY <1>0, <1>2 DEF Admits
  <2> QED BY <1>1, <2>1 DEF TopicInv
<1>3. ASSUME NEW k \in Keys, NEW r \in Row, Reopens(k, r) \/ Proceeds(k, r)
      PROVE  TopicInv'
  <2>1. /\ row'[k] = r /\ r.content = row[k].content
        /\ \A j \in Keys : j # k => row'[j] = row[j]
    BY <1>0, <1>3 DEF Reopens, Proceeds, Rewrites
  <2> QED BY <2>1 DEF TopicInv
<1>4. CASE row' = row
  BY <1>4 DEF TopicInv
<1> QED BY <1>2, <1>3, <1>4, StepShape DEF Publishes

\* What an answer adds to told is in the table when the answer is sent.
LEMMA AnswerIsKept ==
  ASSUME DistinctTopics, IInv, TopicInv, NEW k \in Keys, NEW content,
         \/ \E r \in NtfyRequests :
              HandleNtfy(k, r) /\ M2Answer(k, r) # "refused" /\ content = M2Content(r)
         \/ \E r \in WhatsappRequests :
              HandleWhatsapp(k, r) /\ M3Answer(k, r) # "refused" /\ content = M3Content(r)
  PROVE  Present(k)' /\ Wire(row'[k].content) = Wire(content)
<1>0. row \in [Keys -> Row] /\ row[k].content.driver \in Drivers
  BY DEF IInv, TypeOK, Row, Content
<1>1. ASSUME Insert(k, content, now) PROVE Present(k)' /\ Wire(row'[k].content) = Wire(content)
  <2>1. row'[k] = Queued(content, now)
    BY <1>0, <1>1 DEF Insert
  <2>2. row'[k].state = "queued" /\ row'[k].content = content
    BY <2>1 DEF Queued
  <2> QED BY <2>2 DEF Present
<1>2. ASSUME NEW r \in NtfyRequests, HandleNtfy(k, r), M2Answer(k, r) # "refused",
             content = M2Content(r)
      PROVE  Present(k)' /\ Wire(row'[k].content) = Wire(content)
  <2>1. CASE M2Answer(k, r) = "new"
    BY <1>1, <1>2, <2>1 DEF HandleNtfy, m2_submit
  <2>2. CASE M2Answer(k, r) # "new"
    <3>1. Present(k) /\ M2Same(row[k].content, r) /\ row' = row
      BY <1>2, <2>2 DEF HandleNtfy, m2_submit, M2Answer
    <3>2. row[k].content.driver = "ntfy"
      BY <1>0, <3>1 DEF M2Same, TopicInv, Drivers
    <3>3. Wire(row[k].content) = Wire(content)
      BY <1>2, <3>1, <3>2 DEF M2Same, Wire, M2Content
    <3> QED BY <3>1, <3>3 DEF Present
  <2> QED BY <2>1, <2>2
<1>3. ASSUME NEW r \in WhatsappRequests, HandleWhatsapp(k, r), M3Answer(k, r) # "refused",
             content = M3Content(r)
      PROVE  Present(k)' /\ Wire(row'[k].content) = Wire(content)
  <2>1. CASE M3Answer(k, r) = "new"
    BY <1>1, <1>3, <2>1 DEF HandleWhatsapp, m3_submit
  <2>2. CASE M3Answer(k, r) # "new"
    <3>1. Present(k) /\ M3Same(row[k].content, r) /\ row' = row
      BY <1>3, <2>2 DEF HandleWhatsapp, m3_submit, M3Answer
    <3>2. Wire(row[k].content) = Wire(content)
      BY <1>3, <3>1 DEF M3Same, Wire, M3Content
    <3> QED BY <3>1, <3>2 DEF Present
  <2> QED BY <2>1, <2>2
<1> QED BY <1>2, <1>3

\* Every step keeps what was acknowledged.
LEMMA AckStep ==
  ASSUME DistinctTopics, IInv, AckInv, [Next]_vars
  PROVE  AckInv'
<1>1. TopicInv'
  BY TopicStep DEF AckInv
<1>2. ASSUME NEW a \in told
      PROVE  a[1] \in Keys /\ Present(a[1])' /\ Wire(row'[a[1]].content) = a[2]
  BY RowsPersist DEF AckInv
<1>3. ASSUME NEW a \in told', a \notin told
      PROVE  a[1] \in Keys /\ Present(a[1])' /\ Wire(row'[a[1]].content) = a[2]
  <2>1. PICK k \in Keys, content \in Content :
          /\ told' \in {told, told \cup {<<k, Wire(content)>>}}
          /\ \/ \E r \in NtfyRequests :
                  HandleNtfy(k, r) /\ M2Answer(k, r) # "refused" /\ content = M2Content(r)
             \/ \E r \in WhatsappRequests :
                  HandleWhatsapp(k, r) /\ M3Answer(k, r) # "refused" /\ content = M3Content(r)
    <3>1. told' # told
      BY <1>3
    <3>2. PICK k \in Keys : \/ \E r \in NtfyRequests : HandleNtfy(k, r)
                            \/ \E r \in WhatsappRequests : HandleWhatsapp(k, r)
      BY <3>1 DEF Next, Tick, ClockStepsBack, Crash, Start, Serve, NoLocalChange,
                  HandleInboundControl, HandleRetry, NoInboundChange, HandleCallback,
                  NothingDue, Claim, ClaimAborts, Exchange, Mark, histVars, vars
    <3>3. CASE \E r \in NtfyRequests : HandleNtfy(k, r)
      BY <3>1, <3>3, ContentTypes DEF HandleNtfy, Answer
    <3>4. CASE \E r \in WhatsappRequests : HandleWhatsapp(k, r)
      BY <3>1, <3>4, ContentTypes DEF HandleWhatsapp, Answer
    <3> QED BY <3>2, <3>3, <3>4
  <2>2. a = <<k, Wire(content)>>
    BY <1>3, <2>1
  <2>3. Present(k)' /\ Wire(row'[k].content) = Wire(content)
    BY <2>1, AnswerIsKept DEF AckInv
  <2> QED BY <2>2, <2>3
<1> QED BY <1>1, <1>2, <1>3 DEF AckInv

\* When the ntfy topic is not "whatsapp", what a client was told is accepted is
\* in the table for good, and is what will be sent.
THEOREM AcksAreKept == ASSUME DistinctTopics PROVE Spec => []AckedIsKept
<1>1. Init => AckInv
  <2>1. ASSUME Init PROVE \A k \in Keys : row[k].content.driver = "ntfy"
    BY <2>1 DEF Init, StoreInit, Absent, NoContent
  <2> QED BY <2>1 DEF Init, AckInv, TopicInv
<1>2. IInv /\ AckInv /\ [Next]_vars => AckInv'
  BY AckStep
<1>3. AckInv => AckedIsKept
  BY DEF AckInv, AckedIsKept
<1> QED BY <1>1, <1>2, <1>3, Invariance, PTL DEF Spec

-----------------------------------------------------------------------------
(***************************************************************************)
(* The webhook.                                                            *)
(***************************************************************************)
LEMMA InboundStart == InboundInit => InboundInv
  <1>1. SUFFICES ASSUME InboundInit PROVE InboundInv
    OBVIOUS
  <1>2. /\ row = [k \in Keys |-> Absent] /\ receipts = {} /\ rate = {} /\ now = 0
    BY <1>1 DEF InboundInit, StoreInit
  <1>3. InboundTypeOK
    BY <1>2, FS_EmptySet, InboundConstants DEF InboundTypeOK
  <1>4. ReceiptHasIntent
    BY <1>2 DEF ReceiptHasIntent
  <1>5. RateBounded
    BY <1>2 DEF RateBounded
  <1>6. QED BY <1>3, <1>4, <1>5 DEF InboundInv, WebhookSafety

\* A step that leaves receipts and rate events alone, and every row that is there.
LEMMA RowsKept ==
  ASSUME InboundInv, UNCHANGED <<receipts, rate>>, now' \in 0..MaxTime, DOMAIN row' = Keys,
         \A k \in Keys : Present(k) => row'[k] = row[k]
  PROVE  InboundInv'
  <1>1. InboundTypeOK'
    BY DEF InboundInv, InboundTypeOK
  <1>2. RateBounded'
    BY DEF InboundInv, WebhookSafety, RateBounded
  <1>3. ReceiptHasIntent'
    <2>1. \A x \in receipts : M4Key[x.id] \in Keys
      BY StoreConstants DEF InboundInv, InboundTypeOK
    <2>2. QED BY <2>1 DEF InboundInv, WebhookSafety, ReceiptHasIntent, Present
  <1>4. QED BY <1>1, <1>2, <1>3 DEF InboundInv, WebhookSafety

LEMMA SubmitKeeps ==
  ASSUME InboundInv, NEW k \in Keys, NEW content,
         UNCHANGED <<receipts, rate, now>>,
         (~Present(k) /\ Insert(k, content, now)) \/ UNCHANGED row
  PROVE  InboundInv'
  <1>1. now' \in 0..MaxTime /\ DOMAIN row = Keys
    BY DEF InboundInv, InboundTypeOK
  <1>2. DOMAIN row' = Keys /\ \A j \in Keys : Present(j) => row'[j] = row[j]
    BY <1>1 DEF Insert, Present
  <1>3. QED BY <1>1, <1>2, RowsKept

LEMMA OneMore ==
  ASSUME NEW S, IsFiniteSet(S), NEW x
  PROVE  /\ IsFiniteSet(S \cup {x}) /\ Cardinality(S \cup {x}) <= Cardinality(S) + 1
         /\ Cardinality(S) \in Nat
  <1>1. Cardinality(S) \in Nat
    BY FS_CardinalityType
  <1>2. /\ IsFiniteSet(S \cup {x})
        /\ Cardinality(S \cup {x}) = IF x \in S THEN Cardinality(S) ELSE Cardinality(S) + 1
    BY FS_AddElement
  <1> DEFINE n == Cardinality(S)
  <1> HIDE DEF n
  <1>3. n \in Nat /\ (Cardinality(S \cup {x}) = n \/ Cardinality(S \cup {x}) = n + 1)
    BY <1>1, <1>2 DEF n
  <1>4. Cardinality(S \cup {x}) <= n + 1
    BY <1>3
  <1>5. QED BY <1>1, <1>2, <1>4 DEF n

\* An accepted notify callback: every window it falls into held fewer.
LEMMA RateKept ==
  ASSUME InboundInv, NEW e, e.at = now,
         Cardinality(RecentNotifies(e.sender, now)) < NotifyLimit,
         rate' = rate \cup {e}
  PROVE  RateBounded'
  <1> DEFINE In(R, t, s) == {f \in R : f.sender = s /\ f.at \in (t - Window + 1) .. t}
  <1>1. /\ IsFiniteSet(rate) /\ \A f \in rate : f.at \in Int
        /\ now \in Nat /\ Window \in Nat /\ MaxTime \in Nat /\ NotifyLimit \in Nat
    BY StoreConstants, InboundConstants DEF InboundInv, InboundTypeOK
  <1>2. SUFFICES ASSUME NEW t \in 0..(MaxTime + Window), NEW s
                 PROVE  Cardinality(In(rate', t, s)) <= NotifyLimit
    BY DEF RateBounded
  <1>3. t \in Int
    BY <1>1, <1>2
  <1>4. CASE ~(e.sender = s /\ e.at \in (t - Window + 1) .. t)
    <2>1. In(rate', t, s) = In(rate, t, s)
      BY <1>4
    <2>2. CASE s \in {f.sender : f \in rate}
      <3>1. Cardinality(In(rate, t, s)) <= NotifyLimit
        BY <1>2, <2>2 DEF InboundInv, WebhookSafety, RateBounded
      <3>2. QED BY <2>1, <3>1
    <2>3. CASE s \notin {f.sender : f \in rate}
      <3>1. In(rate, t, s) = {}
        BY <2>3
      <3>2. In(rate', t, s) = {}
        BY <2>1, <3>1
      <3> HIDE DEF In
      <3>3. Cardinality({}) = 0
        BY FS_EmptySet
      <3>4. 0 <= NotifyLimit
        BY <1>1
      <3>5. Cardinality(In(rate', t, s)) = 0
        BY <3>2, <3>3, Zenon
      <3>6. QED BY <3>4, <3>5
    <2>4. QED BY <2>2, <2>3
  <1>5. CASE e.sender = s /\ e.at \in (t - Window + 1) .. t
    <2> DEFINE R == RecentNotifies(s, now)
    <2>1. In(rate, t, s) \subseteq R
      BY <1>1, <1>3, <1>5 DEF RecentNotifies
    <2>2. IsFiniteSet(R) /\ Cardinality(R) < NotifyLimit
      BY <1>1, <1>5, FS_Subset DEF RecentNotifies
    <2>3. In(rate', t, s) \subseteq R \cup {e}
      BY <2>1
    <2> HIDE DEF R
    <2>4. IsFiniteSet(R \cup {e}) /\ Cardinality(R \cup {e}) <= Cardinality(R) + 1
          /\ Cardinality(R) \in Nat
      BY <2>2, OneMore
    <2> DEFINE I == In(rate', t, s)
    <2> HIDE DEF I
    <2>5. Cardinality(I) <= Cardinality(R \cup {e}) /\ Cardinality(I) \in Nat
          /\ Cardinality(R \cup {e}) \in Nat
      BY <2>3, <2>4, FS_Subset, FS_CardinalityType DEF I
    <2>6. QED BY <1>1, <2>2, <2>4, <2>5 DEF I
  <1>6. QED BY <1>4, <1>5

LEMMA ReceiveKeeps ==
  ASSUME InboundInv, NEW c \in Callbacks, Receive(c), UNCHANGED now
  PROVE  InboundInv'
  <1>1. CASE M4Disposition(c, now) # "accepted"
    <2>1. UNCHANGED storeVars
      BY <1>1 DEF Receive, m4_submit_inbound
    <2>2. QED
      BY <2>1, RowsKept DEF storeVars, InboundInv, InboundTypeOK
  <1>2. CASE M4Disposition(c, now) = "accepted"
    <2> DEFINE k == M4Key[c.id]
               x == [id |-> c.id, sender |-> c.sender, verb |-> c.verb]
               e == [id |-> c.id, sender |-> c.sender, at |-> now]
    <2>1. /\ Insert(k, M4Content(c), now)
          /\ receipts' = receipts \cup {x}
          /\ rate' = IF c.verb = "notify" THEN rate \cup {e} ELSE rate
      BY <1>2 DEF Receive, m4_submit_inbound
    <2>2. /\ ~Receipted(c) /\ ~Present(k)
          /\ c.verb = "notify" => ~(Cardinality(RecentNotifies(c.sender, now)) >= NotifyLimit)
      BY <1>2 DEF M4Disposition
    <2>3. c.id \in CallbackIds /\ k \in Keys
      BY StoreConstants DEF CallbackIds
    <2>4. /\ DOMAIN row = Keys /\ IsFiniteSet(rate) /\ now \in 0..MaxTime
          /\ \A f \in rate : f.at \in 0..MaxTime
          /\ \A y \in receipts : y.id \in CallbackIds
      BY DEF InboundInv, InboundTypeOK
    <2>5. /\ DOMAIN row' = Keys
          /\ row'[k] = Queued(M4Content(c), now)
          /\ \A j \in Keys : j # k => row'[j] = row[j]
      BY <2>1, <2>3, <2>4 DEF Insert
    <2>6. x.id = c.id /\ x.sender = c.sender /\ x.verb = c.verb
          /\ e.id = c.id /\ e.sender = c.sender /\ e.at = now
      OBVIOUS
    <2> HIDE DEF x, e
    <2>7. InboundTypeOK'
      <3>1. IsFiniteSet(rate')
        BY <2>1, <2>4, FS_AddElement
      <3>2. QED BY <2>1, <2>3, <2>4, <2>5, <2>6, <3>1 DEF InboundTypeOK
    <2>8. ReceiptHasIntent'
      <3>1. /\ {y.id : y \in {z \in receipts : z.verb = "notify"}} = {f.id : f \in rate}
            /\ \A y \in receipts :
                 /\ Present(M4Key[y.id])
                 /\ Wire(row[M4Key[y.id]].content) = Wire(M4Content(y))
                 /\ \A z \in receipts : z.id = y.id => z = y
        BY DEF InboundInv, WebhookSafety, ReceiptHasIntent
      <3>2. {y.id : y \in {z \in receipts' : z.verb = "notify"}} = {f.id : f \in rate'}
        <4>1. CASE c.verb = "notify"
          <5>1. {z \in receipts' : z.verb = "notify"} = {z \in receipts : z.verb = "notify"} \cup {x}
            BY <2>1, <2>6, <4>1
          <5>2. rate' = rate \cup {e}
            BY <2>1, <4>1
          <5>3. QED BY <2>6, <3>1, <5>1, <5>2
        <4>2. CASE c.verb # "notify"
          <5>1. {z \in receipts' : z.verb = "notify"} = {z \in receipts : z.verb = "notify"}
            BY <2>1, <2>6, <4>2
          <5>2. QED BY <2>1, <3>1, <4>2, <5>1
        <4>3. QED BY <4>1, <4>2
      <3>3. \A y \in receipts : y.id # c.id /\ M4Key[y.id] \in Keys /\ M4Key[y.id] # k
        BY <2>2, <2>3, <2>4, <3>1, StoreConstants DEF Receipted
      <3>4. M4Content(x) = M4Content(c)
        BY <2>6 DEF M4Content
      <3>5. ASSUME NEW y \in receipts'
            PROVE  /\ Present(M4Key[y.id])'
                   /\ (Wire(row[M4Key[y.id]].content) = Wire(M4Content(y)))'
                   /\ \A z \in receipts' : z.id = y.id => z = y
        <4>1. CASE y = x
          <5>1. row'[k].state = "queued" /\ row'[k].content = M4Content(x)
            BY <2>5, <3>4 DEF Queued
          <5>2. QED BY <2>1, <2>6, <3>3, <4>1, <5>1 DEF Present, Wire
        <4>2. CASE y \in receipts
          <5>1. row'[M4Key[y.id]] = row[M4Key[y.id]]
            BY <2>5, <3>3, <4>2
          <5>2. QED BY <2>1, <2>6, <3>1, <3>3, <4>2, <5>1 DEF Present, Wire
        <4>3. QED BY <2>1, <4>1, <4>2
      <3>6. QED BY <3>2, <3>5 DEF ReceiptHasIntent
    <2>9. RateBounded'
      <3>1. CASE c.verb = "notify"
        <4>1. Cardinality(RecentNotifies(e.sender, now)) < NotifyLimit
          <5>1. IsFiniteSet(RecentNotifies(e.sender, now))
            BY <2>4, FS_Subset DEF RecentNotifies
          <5>2. Cardinality(RecentNotifies(e.sender, now)) \in Nat /\ NotifyLimit \in Nat
            BY <5>1, FS_CardinalityType, StoreConstants
          <5>3. QED BY <2>2, <2>6, <3>1, <5>2
        <4>2. QED BY <2>1, <2>6, <3>1, <4>1, RateKept
      <3>2. CASE c.verb # "notify"
        BY <2>1, <3>2 DEF InboundInv, WebhookSafety, RateBounded
      <3>3. QED BY <3>1, <3>2
    <2>10. QED BY <2>7, <2>8, <2>9 DEF InboundInv, WebhookSafety
  <1>3. QED BY <1>1, <1>2

LEMMA InboundStep ==
  ASSUME InboundInv, [InboundNext]_inboundVars
  PROVE  InboundInv'
  <1>1. now \in 0..MaxTime /\ DOMAIN row = Keys
    BY DEF InboundInv, InboundTypeOK
  <1>2. CASE UNCHANGED inboundVars
    BY <1>1, <1>2, RowsKept DEF inboundVars, storeVars
  <1>3. CASE \E c \in Callbacks : Receive(c) /\ UNCHANGED now
    BY <1>3, ReceiveKeeps
  <1>4. CASE \E on \in BOOLEAN : Switch(on) /\ UNCHANGED now
    BY <1>1, <1>4, RowsKept DEF Switch, m4_set_inbound_enabled
  <1>5. CASE \E k \in Keys : \E r \in NtfyRequests : m2_submit(k, r, now) /\ UNCHANGED now
    <2>1. PICK k \in Keys, r \in NtfyRequests : m2_submit(k, r, now) /\ UNCHANGED now
      BY <1>5
    <2>2. /\ UNCHANGED <<receipts, rate, now>>
          /\ (~Present(k) /\ Insert(k, M2Content(r), now)) \/ UNCHANGED row
      BY <2>1 DEF m2_submit, M2Answer
    <2>3. QED BY <2>2, SubmitKeeps
  <1>6. CASE \E k \in Keys : \E r \in WhatsappRequests : m3_submit(k, r, now) /\ UNCHANGED now
    <2>1. PICK k \in Keys, r \in WhatsappRequests : m3_submit(k, r, now) /\ UNCHANGED now
      BY <1>6
    <2>2. /\ UNCHANGED <<receipts, rate, now>>
          /\ (~Present(k) /\ Insert(k, M3Content(r), now)) \/ UNCHANGED row
      BY <2>1 DEF m3_submit, M3Answer
    <2>3. QED BY <2>2, SubmitKeeps
  <1>7. CASE ClockMoves
    BY <1>1, <1>7, RowsKept DEF ClockMoves, storeVars
  <1>8. QED
    BY <1>2, <1>3, <1>4, <1>5, <1>6, <1>7 DEF InboundNext

\* Whatever clients, callbacks, switches and steps of the wall clock come in
\* whatever order: a receipt stands for the message its callback asked for and for
\* its rate event, once (m4_submit_inbound), and no window holds more accepted
\* notify callbacks of a sender than the limit (the count in m4_submit_inbound).
THEOREM Webhook == InboundSpec => []WebhookSafety
  <1>1. InboundInv => WebhookSafety
    BY DEF InboundInv
  <1>2. InboundInv /\ [InboundNext]_inboundVars => InboundInv'
    BY InboundStep
  <1>3. QED
    BY <1>1, <1>2, InboundStart, PTL DEF InboundSpec

-----------------------------------------------------------------------------
(***************************************************************************)
(* The admission checks.                                                   *)
(***************************************************************************)
LEMMA FieldsNamed == Range(Fields) = {"topic", "tags", "expiry", "correlation", "content"}
  BY DEF Range, Fields

LEMMA AdmissionStart == AdmissionInit => AdmissionInv
  BY FieldsNamed DEF AdmissionInit, AdmissionInv, Kept

LEMMA AdmissionStep ==
  ASSUME AdmissionInv, [AdmissionNext]_admissionVars
  PROVE  AdmissionInv'
  <1>1. CASE Turn(1) /\ \E word \in Words : Topic(word)
    <2>1. PICK word \in Words :
            /\ draft' = [draft EXCEPT !["topic"] = <<word>>]
            /\ checked' = [checked EXCEPT !["topic"] = check_ntfy_topic(word)]
      BY <1>1 DEF Topic, Decide, Fields
    <2>2. QED BY <2>1, FieldsNamed DEF AdmissionInv, Kept
  <1>2. CASE Turn(2) /\ \E words \in BoundedSeq(Words, TagsMax + 1) : Tags(words)
    <2>1. PICK words \in BoundedSeq(Words, TagsMax + 1) :
            /\ draft' = [draft EXCEPT !["tags"] = words]
            /\ checked' = [checked EXCEPT !["tags"] = check_ntfy_tags(words)]
      BY <1>2 DEF Tags, Decide, Fields
    <2>2. QED BY <2>1, FieldsNamed DEF AdmissionInv, Kept
  <1>3. CASE Turn(3) /\ \E moment, expiry \in Instants : Expire(moment, expiry)
    <2>1. PICK moment \in Instants, expiry \in Instants :
            /\ draft' = [draft EXCEPT !["expiry"] = <<moment, expiry>>]
            /\ checked' = [checked EXCEPT !["expiry"] = check_expiry_boundary(moment, expiry)]
      BY <1>3 DEF Expire, Decide, Fields
    <2>2. QED BY <2>1, FieldsNamed DEF AdmissionInv, Kept
  <1>4. CASE Turn(4) /\ \E word \in Words : Correlate(word)
    <2>1. PICK word \in Words :
            /\ draft' = [draft EXCEPT !["correlation"] = <<word>>]
            /\ checked' = [checked EXCEPT !["correlation"] = check_identifier(word)]
      BY <1>4 DEF Correlate, Decide, Fields
    <2>2. QED BY <2>1, FieldsNamed DEF AdmissionInv, Kept
  <1>5. CASE Turn(5) /\ \E body \in TextBodies, title \in Titles, limits \in Limits :
               TextContent(body, title, limits)
    <2>1. PICK body \in TextBodies, title \in Titles, limits \in Limits :
            /\ draft' = [draft EXCEPT !["content"] = <<body, title, limits>>]
            /\ checked' = [checked EXCEPT !["content"] = check_text_content(body, title, limits)]
      BY <1>5 DEF TextContent, Decide, Fields
    <2>2. QED BY <2>1, FieldsNamed DEF AdmissionInv, Kept
  <1>6. CASE UNCHANGED admissionVars
    BY <1>6 DEF AdmissionInv, Kept, admissionVars
  <1>7. QED
    BY <1>1, <1>2, <1>3, <1>4, <1>5, <1>6 DEF AdmissionNext

\* A title is missing, or one string of bytes.
LEMMA TitleShape ==
  ASSUME NEW title \in Titles
  PROVE  \/ title = None /\ Range(title) = {}
         \/ \E t \in Seq(0..255) : title = <<t>> /\ title # None /\ Range(title) = {t} /\ title[1] = t
  <1> DEFINE n == Len(title)
             bytes == Seq(0..255)
  <1>1. title \in Seq(bytes) /\ n \in Nat /\ n <= 1
    BY AdmissionAssumption
  <1> HIDE DEF bytes
  <1>2. CASE n = 0
    <2>1. title = <<>>
      BY <1>1, <1>2
    <2>2. Range(title) = {}
      BY <2>1 DEF Range
    <2>3. QED BY <2>1, <2>2 DEF None
  <1>3. CASE n = 1
    <2>1. PICK t \in bytes : t = title[1]
      BY <1>1, <1>3
    <2>2. title = <<t>>
      BY <1>1, <1>3, <2>1
    <2>3. Range(title) = {t}
      BY <2>1, <2>2 DEF Range
    <2>4. QED BY <2>1, <2>2, <2>3 DEF None, bytes
  <1>4. n = 0 \/ n = 1
    <2> HIDE DEF n
    <2>1. QED BY <1>1
  <1>5. QED BY <1>2, <1>3, <1>4

\* What the verdicts of check_text_content say of the content.
LEMMA ContentAccepted ==
  ASSUME NEW body \in TextBodies, NEW title \in Titles, NEW limits \in Limits,
         check_text_content(body, title, limits) = "Ok"
  PROVE  /\ Len(body) \in 1..limits[1] /\ from_utf8(body) /\ ~has_disallowed_text_control(body)
         /\ title # None => /\ Len(title[1]) <= limits[2] /\ from_utf8(title[1])
                            /\ ~has_control_character(title[1])
  <1> DEFINE d == limits = <<DefaultText, DefaultTitle>>
  <1>1. body \in Seq(0..255) /\ Len(body) \in Nat /\ limits[1] \in Nat /\ limits[2] \in Nat
    BY AdmissionAssumption
  <1>2. from_utf8(body)
    BY DEF check_text_content
  <1>3. body # <<>>
    BY <1>2 DEF check_text_content, empty_text
  <1>4. Len(body) > 0
    BY <1>1, <1>3
  <1>5. Len(body) <= limits[1]
    BY <1>1, <1>2, <1>3 DEF check_text_content
  <1>6. ~has_disallowed_text_control(body)
    <2>1. has_disallowed_text_control(body) => has_control_character(body)
      BY DEF has_disallowed_text_control, has_control_character
    <2>2. CASE has_control_character(body)
      <3>1. control_text(body, title, limits, d) = "Ok"
        BY <1>2, <1>3, <2>2 DEF check_text_content
      <3>2. QED BY <3>1 DEF control_text
    <2>3. QED BY <2>1, <2>2
  <1>7. title # None => check_title(title[1], limits, d) = "Ok"
    BY <1>1, <1>2, <1>3, <1>5 DEF check_text_content
  <1>8. title # None => from_utf8(title[1]) /\ ~has_control_character(title[1])
    BY <1>7 DEF check_title
  <1>9. title # None => Len(title[1]) <= limits[2]
    <2>1. title # None => Len(title[1]) \in Nat
      BY TitleShape
    <2>2. QED BY <1>1, <1>7, <1>8, <2>1 DEF check_title
  <1>10. QED BY <1>1, <1>2, <1>4, <1>5, <1>6, <1>8, <1>9

\* What each class of rejection says of the content.
LEMMA ContentRejected ==
  ASSUME NEW body \in TextBodies, NEW title \in Titles, NEW limits \in Limits,
         NEW said, said = check_text_content(body, title, limits)
  PROVE  /\ said = "EmptyText" => body = <<>>
         /\ said = "TextTooLong" => Len(body) > limits[1]
         /\ said = "TitleTooLong" => title # None /\ Len(title[1]) > limits[2]
         /\ said = "InvalidUtf8" => ~from_utf8(body) \/ (title # None /\ ~from_utf8(title[1]))
         /\ said = "InvalidTextControl" => has_disallowed_text_control(body)
         /\ said = "InvalidTitleControl" => title # None /\ has_control_character(title[1])
  <1> DEFINE d == limits = <<DefaultText, DefaultTitle>>
             e == empty_text(title, d)
             c == control_text(body, title, limits, d)
             t == check_title(title[1], limits, d)
  <1>1. e \in {"Scaffold", "EmptyText"}
    BY DEF empty_text
  <1>2. /\ c \in {"Scaffold", "Ok", "InvalidTextControl"}
        /\ c = "InvalidTextControl" => has_disallowed_text_control(body)
    BY DEF control_text
  <1>3. /\ t \in {"Scaffold", "InvalidUtf8", "InvalidTitleControl", "TitleTooLong", "Ok"}
        /\ t = "InvalidUtf8" => ~from_utf8(title[1])
        /\ t = "InvalidTitleControl" => has_control_character(title[1])
        /\ t = "TitleTooLong" => Len(title[1]) > limits[2]
    BY DEF check_title
  <1>4. said = IF ~from_utf8(body)
               THEN IF title = None /\ Len(body) <= limits[1] THEN "InvalidUtf8" ELSE "Scaffold"
               ELSE IF body = <<>> THEN e
               ELSE IF has_control_character(body) /\ c # "Ok" THEN c
               ELSE IF Len(body) > limits[1] THEN IF title = None THEN "TextTooLong" ELSE "Scaffold"
               ELSE IF title # None THEN IF Len(body) = limits[1] THEN "Scaffold" ELSE t
               ELSE IF d \/ Len(body) = limits[1] THEN "Ok" ELSE "Scaffold"
    BY DEF check_text_content
  <1> HIDE DEF d, e, c, t
  <1>5. QED BY <1>1, <1>2, <1>3, <1>4

LEMMA ContentJudged == AdmissionInv => AcceptedIsClean /\ RejectionsJustified
  <1> SUFFICES ASSUME AdmissionInv PROVE AcceptedIsClean /\ RejectionsJustified
    OBVIOUS
  <1>1. CASE checked["content"] = "Unchecked"
    BY <1>1 DEF AcceptedIsClean, RejectionsJustified
  <1>2. CASE checked["content"] # "Unchecked"
    <2>1. PICK body \in TextBodies, title \in Titles, limits \in Limits :
            /\ draft.content = <<body, title, limits>>
            /\ checked.content = check_text_content(body, title, limits)
      BY <1>2, Zenon DEF AdmissionInv, Kept
    <2> DEFINE said == check_text_content(body, title, limits)
    <2>2. AcceptedIsClean
      <3> SUFFICES ASSUME said = "Ok"
                   PROVE  /\ Len(body) \in 1..limits[1]
                          /\ from_utf8(body)
                          /\ \A i \in DOMAIN body : ControlAt(body, i) => body[i] \in {9, 10, 13}
                          /\ \A t \in Range(title) :
                               /\ Len(t) <= limits[2]
                               /\ from_utf8(t)
                               /\ \A i \in DOMAIN t : ~ControlAt(t, i)
        BY <2>1 DEF AcceptedIsClean
      <3>1. /\ Len(body) \in 1..limits[1] /\ from_utf8(body) /\ ~has_disallowed_text_control(body)
            /\ title # None => /\ Len(title[1]) <= limits[2] /\ from_utf8(title[1])
                               /\ ~has_control_character(title[1])
        BY ContentAccepted
      <3>2. \A t \in Range(title) : title # None /\ t = title[1]
        BY TitleShape
      <3> HIDE DEF said
      <3>3. QED
        BY <3>1, <3>2 DEF has_disallowed_text_control, has_control_character
    <2>3. RejectionsJustified
      <3>1. /\ said = "EmptyText" => body = <<>>
            /\ said = "TextTooLong" => Len(body) > limits[1]
            /\ said = "TitleTooLong" => title # None /\ Len(title[1]) > limits[2]
            /\ said = "InvalidUtf8" => ~from_utf8(body) \/ (title # None /\ ~from_utf8(title[1]))
            /\ said = "InvalidTextControl" => has_disallowed_text_control(body)
            /\ said = "InvalidTitleControl" => title # None /\ has_control_character(title[1])
        BY ContentRejected
      <3>2. title # None => title[1] \in Range(title)
        BY TitleShape
      <3>3. draft.content[1] = body /\ draft.content[2] = title /\ draft.content[3] = limits
        BY <2>1
      <3>4. checked.content = said
        BY <2>1
      <3> HIDE DEF said
      <3>5. QED
        BY <3>1, <3>2, <3>3, <3>4 DEF RejectionsJustified, has_control_character
    <2>4. QED BY <2>2, <2>3
  <1>3. QED BY <1>1, <1>2

\* A word of the shape of an identifier, a topic or a tag is plain ASCII.
LEMMA ShapedIsAscii ==
  ASSUME NEW word \in Seq(0..255), NEW max \in Nat, NEW valid,
         valid \cap 128..255 = {}, ShapedLike(word, max, valid)
  PROVE  valid_ascii(word)
  BY DEF ShapedLike, valid_ascii, is_ascii

LEMMA AdmittedIsEncoded == AdmissionInv => AdmittedEncodes
  <1> SUFFICES ASSUME AdmissionInv, \A f \in DOMAIN checked : checked[f] = "Ok"
               PROVE  canonical_request_v1(Encoder(draft)) # Err
    BY DEF AdmittedEncodes
  <1> DEFINE input == Encoder(draft)
  <1>1. /\ checked["topic"] = "Ok" /\ checked["tags"] = "Ok" /\ checked["expiry"] = "Ok"
        /\ checked["correlation"] = "Ok" /\ checked["content"] = "Ok"
    BY FieldsNamed DEF AdmissionInv
  <1>2. PICK topic \in Words : draft.topic = <<topic>> /\ check_ntfy_topic(topic) = "Ok"
    BY <1>1 DEF AdmissionInv, Kept
  <1>3. PICK words \in BoundedSeq(Words, TagsMax + 1) :
          draft.tags = words /\ check_ntfy_tags(words) = "Ok"
    BY <1>1 DEF AdmissionInv, Kept
  <1>4. PICK moment \in Instants, expiry \in Instants : draft.expiry = <<moment, expiry>>
    BY <1>1 DEF AdmissionInv, Kept
  <1>5. PICK word \in Words : draft.correlation = <<word>> /\ check_identifier(word) = "Ok"
    BY <1>1 DEF AdmissionInv, Kept
  <1>6. PICK body \in TextBodies, title \in Titles, limits \in Limits :
          /\ draft.content = <<body, title, limits>>
          /\ check_text_content(body, title, limits) = "Ok"
    BY <1>1 DEF AdmissionInv, Kept
  <1>7. /\ input.provider = ntfy /\ input.destination_kind = ntfy_topic
        /\ input.destination_schema_version = 1 /\ input.destination_fields = <<topic>>
        /\ input.content_kind = text /\ input.content_schema_version = 1
        /\ input.content_fields = title \o <<body>>
        /\ input.options_kind = <<ntfy>> /\ input.options_schema_version = <<1>>
        /\ input.options_set_like = TRUE
        /\ input.options_fields = <<default>> \o words
        /\ input.expires_at_millis = <<expiry>>
        /\ input.correlation_id = <<word>>
    BY <1>2, <1>3, <1>4, <1>5, <1>6 DEF Encoder
  <1> HIDE DEF input
  <1>8. destination_payload(input) # Err
    <2>1. valid_ascii(topic)
      <3>1. ShapedLike(topic, TopicMax, valid_topic_bytes)
        BY <1>2 DEF check_ntfy_topic
      <3>2. valid_topic_bytes \cap 128..255 = {}
        BY DEF valid_topic_bytes, Alphanumerics
      <3>3. QED BY <3>1, <3>2, ShapedIsAscii, AdmissionAssumption
    <2>2. QED BY <1>7, <2>1 DEF destination_payload, Err
  <1>9. content_payload(input) # Err
    <2>1. /\ body # <<>> /\ from_utf8(body)
          /\ title # None => from_utf8(title[1])
      <3>1. /\ Len(body) \in 1..limits[1] /\ from_utf8(body)
            /\ title # None => from_utf8(title[1])
        BY <1>6, ContentAccepted
      <3>2. limits[1] \in Nat
        BY AdmissionAssumption
      <3>3. QED BY <3>1, <3>2
    <2> DEFINE fields == title \o <<body>>
    <2>2. /\ Len(fields) \in {1, 2} /\ Last(fields) = body
          /\ \A v \in Range(fields) : v = body \/ (title # None /\ v = title[1])
      <3>1. CASE title = None
        <4>1. fields = <<body>>
          BY <3>1 DEF None
        <4>2. QED BY <4>1 DEF Last, Range
      <3>2. CASE title # None
        <4>1. PICK t : title = <<t>> /\ title[1] = t
          BY <3>2, TitleShape
        <4>2. <<t>> \in Seq({t, body}) /\ <<body>> \in Seq({t, body})
          OBVIOUS
        <4>3. Len(fields) = 2 /\ DOMAIN fields = 1..2 /\ fields[1] = t /\ fields[2] = body
          BY <4>1, <4>2
        <4>4. QED BY <3>2, <4>1, <4>3 DEF Last, Range
      <3>3. QED BY <3>1, <3>2
    <2>3. \A v \in Range(fields) : from_utf8(v)
      BY <2>1, <2>2
    <2> HIDE DEF fields
    <2>4. input.content_fields = fields
      BY <1>7 DEF fields
    <2>5. QED BY <1>7, <2>1, <2>2, <2>3, <2>4 DEF content_payload, Err
  <1>10. options_payload(input) # Err
    <2> DEFINE fields == <<default>> \o words
    <2>1. \A tag \in Range(words) : valid_ascii(tag)
      <3>1. \A tag \in Range(words) : ShapedLike(tag, TagMax, valid_tag_bytes)
        <4>1. Len(words) \in Nat /\ TagsMax \in Nat
          BY AdmissionAssumption DEF BoundedSeq, SeqOf
        <4>2. QED BY <1>3, <4>1 DEF check_ntfy_tags
      <3>2. valid_tag_bytes \cap 128..255 = {}
        BY DEF valid_tag_bytes, Alphanumerics
      <3>3. Range(words) \subseteq Words
        BY DEF BoundedSeq, SeqOf, Range
      <3>4. QED BY <3>1, <3>2, <3>3, ShapedIsAscii, AdmissionAssumption
    <2>2. valid_ascii(default)
      BY DEF valid_ascii, is_ascii, default, Range
    <2>3. /\ fields # <<>> /\ \A v \in Range(fields) : v = default \/ v \in Range(words)
      <3>1. words \in Seq(Words)
        BY DEF BoundedSeq, SeqOf
      <3>2. QED BY <3>1 DEF Range
    <2>4. ~NoOptions(input) /\ NtfyOptions(input)
      BY <1>7 DEF NoOptions, NtfyOptions, None
    <2>5. input.options_fields = fields
      BY <1>7
    <2> HIDE DEF fields
    <2>6. QED BY <2>1, <2>2, <2>3, <2>4, <2>5 DEF options_payload, Err
  <1>11. \A v \in Range(input.correlation_id) : valid_ascii(v)
    <2>1. valid_ascii(word)
      <3>1. ShapedLike(word, IdentifierMax, valid_identifier_bytes)
        BY <1>5 DEF check_identifier
      <3>2. valid_identifier_bytes \cap 128..255 = {}
        BY DEF valid_identifier_bytes, Alphanumerics
      <3>3. QED BY <3>1, <3>2, ShapedIsAscii, AdmissionAssumption
    <2>2. QED BY <1>7, <2>1 DEF Range
  <1>12. admitted_first_slice_profile(input)
    BY <1>7 DEF admitted_first_slice_profile, NtfyOptions, None
  <1>13. ~LegacyShaped(input)
    BY <1>7 DEF LegacyShaped, None
  <1>14. PayloadsOk(input)
    BY <1>8, <1>9, <1>10, <1>11 DEF PayloadsOk
  <1>15. QED
    BY <1>12, <1>13, <1>14 DEF canonical_request_v1, Err, input

\* Whatever is sent and whatever limits are asked for: a request whose every
\* field passed its check is never refused by canonical_request_v1; accepted
\* content is a nonempty character string within its limit without disallowed
\* controls, and a rejection names a rule that the content breaks
\* (check_text_content).
THEOREM Admitted == AdmissionSpec => []AdmissionSafety
  <1>1. AdmissionInv => AdmissionSafety
    BY ContentJudged, AdmittedIsEncoded DEF AdmissionSafety
  <1>2. AdmissionInv /\ [AdmissionNext]_admissionVars => AdmissionInv'
    BY AdmissionStep
  <1>3. QED
    BY <1>1, <1>2, AdmissionStart, PTL DEF AdmissionSpec

-----------------------------------------------------------------------------
(***************************************************************************)
(* Strict JSON.                                                            *)
(***************************************************************************)
\* The scan after some bytes is the last of any sequence of scans that each of
\* them continues.
LEMMA ScannedIs ==
  ASSUME NEW bytes, NEW n \in Nat, n = Len(bytes),
         NEW f, f[0] = scan, \A i \in 1..n : f[i] = ScanByte(f[i - 1], bytes[i])
  PROVE  Scanned(bytes) = f[n]
  <1> DEFINE Follows(e) == e = [i \in 0..n |-> IF i = 0 THEN scan ELSE ScanByte(e[i - 1], bytes[i])]
             g == CHOOSE e : Follows(e)
             h == [i \in 0..n |-> f[i]]
  <1>1. Scanned(bytes) = g[n]
    BY DEF Scanned
  <1>2. Follows(h)
    <2>1. \A i \in 0..n : h[i] = f[i]
      OBVIOUS
    <2>2. ASSUME NEW i \in 0..n
          PROVE  f[i] = IF i = 0 THEN scan ELSE ScanByte(h[i - 1], bytes[i])
      <3>1. CASE i = 0
        BY <3>1
      <3>2. CASE i # 0
        <4>1. i \in 1..n /\ i - 1 \in 0..n
          BY <3>2
        <4>2. h[i - 1] = f[i - 1]
          BY <2>1, <4>1
        <4> HIDE DEF h
        <4>3. QED BY <3>2, <4>1, <4>2
      <3>3. QED BY <3>1, <3>2
    <2>3. h = [i \in 0..n |-> IF i = 0 THEN scan ELSE ScanByte(h[i - 1], bytes[i])]
      BY <2>2
    <2>4. QED BY <2>3
  <1> HIDE DEF h
  <1>3. Follows(g)
    BY <1>2
  <1> HIDE DEF g
  <1>4. /\ g[0] = scan
        /\ \A i \in 1..n : g[i] = ScanByte(g[i - 1], bytes[i])
    <2>1. \A i \in 0..n : g[i] = IF i = 0 THEN scan ELSE ScanByte(g[i - 1], bytes[i])
      BY <1>3
    <2> HIDE DEF Follows
    <2>2. 0 \in 0..n /\ \A i \in 1..n : i \in 0..n /\ i # 0
      OBVIOUS
    <2>3. QED BY <2>1, <2>2
  <1> HIDE DEF Follows
  <1>5. \A i \in 1..n : f[i - 1] = g[i - 1] => f[i] = g[i]
    BY <1>4
  <1>6. \A i \in 0..n : f[i] = g[i]
    <2> DEFINE S == {i \in Nat : i <= n => f[i] = g[i]}
    <2>1. 0 \in S
      BY <1>4
    <2>2. ASSUME NEW i \in S PROVE i + 1 \in S
      <3>1. i \in Nat /\ (i <= n => f[i] = g[i])
        OBVIOUS
      <3>2. ASSUME i + 1 <= n PROVE f[i + 1] = g[i + 1]
        <4>1. i <= n /\ i + 1 \in 1..n /\ (i + 1) - 1 = i
          BY <3>1, <3>2
        <4>2. QED BY <1>5, <3>1, <4>1
      <3>3. QED BY <3>1, <3>2
    <2>3. S \in SUBSET Nat
      OBVIOUS
    <2>4. S = Nat
      <3> HIDE DEF S
      <3>1. QED BY <2>1, <2>2, <2>3, SetInduction
    <2>5. QED BY <2>4
  <1>7. QED BY <1>1, <1>6

LEMMA ScanOne ==
  ASSUME NEW byte
  PROVE  Scanned(<<byte>>) = ScanByte(scan, byte)
  <1> DEFINE next == ScanByte(scan, byte)
             one == <<byte>>
             n == Len(one)
             f == [i \in 0..n |-> IF i = 0 THEN scan ELSE next]
  <1>1. n = 1 /\ one[1] = byte
    OBVIOUS
  <1> HIDE DEF one, n
  <1>2. f[0] = scan /\ f[n] = next
    BY <1>1
  <1> HIDE DEF f
  <1>3. \A i \in 1..n : f[i] = ScanByte(f[i - 1], one[i])
    <2>1. \A i \in 1..n : i = 1 /\ i - 1 = 0
      BY <1>1
    <2>2. QED BY <1>1, <1>2, <2>1
  <1>4. n \in Nat /\ n = Len(one)
    BY <1>1 DEF n
  <1> HIDE DEF next
  <1>5. Scanned(one) = f[n]
    BY <1>2, <1>3, <1>4, ScannedIs
  <1>6. QED BY <1>2, <1>5 DEF one, next

\* A scan that gave up takes no notice of what follows.
LEMMA GivenUp ==
  ASSUME scan.invalid, NEW bytes, Len(bytes) \in Nat
  PROVE  Scanned(bytes) = scan
  <1> DEFINE n == Len(bytes)
             f == [i \in 0..n |-> scan]
  <1>1. \A byte : ScanByte(scan, byte) = scan
    BY DEF ScanByte
  <1>2. n \in Nat
    OBVIOUS
  <1> HIDE DEF n
  <1>3. f[0] = scan /\ f[n] = scan /\ \A i \in 1..n : f[i] = scan /\ f[i - 1] = scan
    BY <1>2
  <1> HIDE DEF f
  <1>4. \A i \in 1..n : f[i] = ScanByte(f[i - 1], bytes[i])
    BY <1>1, <1>3
  <1>5. QED BY <1>2, <1>3, <1>4, ScannedIs DEF n

\* A legal string leaves the scan as it was, whatever delimiters and escapes it
\* holds: after k of its bytes the scan is inside it, and right after a backslash
\* if and only if the next byte is an escaped one.
LEMMA StringScanned ==
  ASSUME scan \in ScanStates, scan.invalid \/ (~scan.in_string /\ ~scan.escaped),
         NEW bytes \in Seq(JsonBytes), LegalInside(bytes)
  PROVE  Scanned(Quoted(bytes)) = scan
  <1> DEFINE m == Len(bytes)
             quoted == Quoted(bytes)
  <1>1. /\ m \in Nat /\ Len(quoted) = m + 2
        /\ quoted[1] = "q" /\ quoted[m + 2] = "q"
        /\ \A k \in 1..m : quoted[k + 1] = bytes[k]
    BY DEF Quoted
  <1> HIDE DEF quoted
  <1>2. CASE scan.invalid
    <2>1. Len(quoted) \in Nat
      BY <1>1
    <2>2. QED BY <1>2, <2>1, GivenUp DEF quoted
  <1>3. CASE ~scan.invalid
    <2>1. PICK escaped \in SUBSET DOMAIN bytes : \A i \in DOMAIN bytes :
            /\ i \in escaped <=> i > 1 /\ i - 1 \notin escaped /\ bytes[i - 1] = "\\"
            /\ bytes[i] = "q" => i \in escaped
            /\ bytes[i] = "\\" /\ i \notin escaped => i < Len(bytes)
            /\ bytes[i] # "c"
      BY Zenon DEF LegalInside
    <2> DEFINE after(k) == k \in 1..m /\ k \notin escaped /\ bytes[k] = "\\"
               inside(e) == [nesting |-> scan.nesting, in_string |-> TRUE, escaped |-> e, invalid |-> FALSE]
               f == [i \in 0..m + 2 |-> IF i = 0 \/ i = m + 2 THEN scan ELSE inside(after(i - 1))]
    <2>2. scan = [nesting |-> scan.nesting, in_string |-> FALSE, escaped |-> FALSE, invalid |-> FALSE]
      BY <1>3 DEF ScanStates
    <2>3. ScanByte(scan, "q") = inside(FALSE)
      <3>1. ScanByte(scan, "q") = [scan EXCEPT !.in_string = TRUE]
        BY <1>3, <2>2 DEF ScanByte, Delimiters
      <3>2. QED BY <2>2, <3>1
    <2>4. ScanByte(inside(FALSE), "q") = scan
      <3>1. ScanByte(inside(FALSE), "q") = [inside(FALSE) EXCEPT !.in_string = FALSE]
        BY DEF ScanByte
      <3>2. QED BY <2>2, <3>1
    <2>5. \A byte : ScanByte(inside(TRUE), byte) = inside(FALSE)
      <3>1. TAKE byte
      <3>2. ScanByte(inside(TRUE), byte) = [inside(TRUE) EXCEPT !.escaped = FALSE]
        BY DEF ScanByte
      <3>3. QED BY <3>2
    <2>6. ScanByte(inside(FALSE), "\\") = inside(TRUE)
      <3>1. ScanByte(inside(FALSE), "\\") = [inside(FALSE) EXCEPT !.escaped = TRUE]
        BY DEF ScanByte
      <3>2. QED BY <3>1
    <2>7. \A byte : byte \notin {"q", "c", "\\"} => ScanByte(inside(FALSE), byte) = inside(FALSE)
      BY DEF ScanByte
    <2> HIDE DEF inside
    <2>8. ASSUME NEW k \in 1..m
          PROVE  ScanByte(inside(after(k - 1)), bytes[k]) = inside(after(k))
      <3>1. k \in DOMAIN bytes /\ (k > 1 <=> k - 1 \in 1..m)
        BY <1>1
      <3>2. after(k - 1) <=> k \in escaped
        BY <2>1, <3>1
      <3>3. CASE k \in escaped
        <4>1. after(k - 1) = TRUE /\ after(k) = FALSE
          BY <3>2, <3>3
        <4>2. QED BY <2>5, <4>1
      <3>4. CASE k \notin escaped
        <4>1. after(k - 1) = FALSE /\ bytes[k] \notin {"q", "c"}
          BY <2>1, <3>1, <3>2, <3>4
        <4>2. CASE bytes[k] = "\\"
          <5>1. after(k) = TRUE
            BY <3>4, <4>2
          <5>2. QED BY <2>6, <4>1, <4>2, <5>1
        <4>3. CASE bytes[k] # "\\"
          <5>1. after(k) = FALSE
            BY <4>3
          <5>2. QED BY <2>7, <4>1, <4>3, <5>1
        <4>4. QED BY <4>2, <4>3
      <3>5. QED BY <3>3, <3>4
    <2>9. after(0) = FALSE /\ after(m) = FALSE
      <3>1. ~after(0)
        OBVIOUS
      <3>2. ASSUME after(m) PROVE FALSE
        <4>1. m \in DOMAIN bytes /\ ~(m < Len(bytes))
          BY <1>1, <3>2
        <4>2. QED BY <2>1, <3>2, <4>1
      <3>3. QED BY <3>1, <3>2
    <2> HIDE DEF after
    <2>10. /\ f[0] = scan /\ f[m + 2] = scan
           /\ \A i \in 1..m + 1 : f[i] = inside(after(i - 1))
      <3> HIDE DEF m
      <3>1. m \in Nat
        BY <1>1 DEF m
      <3>2. QED BY <3>1
    <2>11. ASSUME NEW i \in 1..m + 2 PROVE f[i] = ScanByte(f[i - 1], quoted[i])
      <3> HIDE DEF f, m
      <3>1. CASE i = 1
        <4>1. i - 1 = 0 /\ i \in 1..m + 1
          BY <1>1, <3>1
        <4>2. f[i] = inside(after(0)) /\ f[i - 1] = scan
          BY <2>10, <4>1
        <4>3. QED BY <1>1, <2>3, <2>9, <3>1, <4>2
      <3>2. CASE i \in 2..m + 1
        <4>1. i - 1 \in 1..m /\ i \in 1..m + 1 /\ i - 1 \in 1..m + 1 /\ (i - 1) + 1 = i
          BY <1>1, <3>2
        <4>2. f[i] = inside(after(i - 1)) /\ f[i - 1] = inside(after((i - 1) - 1)) /\ quoted[i] = bytes[i - 1]
          BY <1>1, <2>10, <4>1
        <4>3. QED BY <2>8, <4>1, <4>2
      <3>3. CASE i = m + 2
        <4>1. i - 1 = m + 1 /\ m + 1 \in 1..m + 1 /\ (m + 1) - 1 = m
          BY <1>1, <3>3
        <4>2. f[i] = scan /\ f[i - 1] = inside(after(m))
          BY <2>10, <3>3, <4>1
        <4>3. QED BY <1>1, <2>4, <2>9, <3>3, <4>2
      <3>4. QED
        <4>1. i = 1 \/ i \in 2..m + 1 \/ i = m + 2
          BY <1>1
        <4>2. QED BY <3>1, <3>2, <3>3, <4>1
    <2> HIDE DEF f
    <2>12. m + 2 \in Nat /\ Len(quoted) = m + 2
      BY <1>1
    <2> HIDE DEF m
    <2>13. Scanned(quoted) = f[m + 2]
      BY <2>10, <2>11, <2>12, ScannedIs
    <2>14. QED BY <2>10, <2>13 DEF quoted
  <1>4. QED BY <1>2, <1>3

\* The last element of a sequence, and what is left without it.
LEMMA LastOf ==
  ASSUME NEW S, NEW s \in Seq(S), s # <<>>
  PROVE  /\ Len(s) \in Nat /\ Len(s) > 0 /\ DOMAIN s = 1..Len(s)
         /\ Len(s) \in DOMAIN s /\ s[Len(s)] \in S
  <1>1. Len(s) \in Nat /\ DOMAIN s = 1..Len(s)
    OBVIOUS
  <1>2. Len(s) # 0
    OBVIOUS
  <1>3. QED BY <1>1, <1>2

LEMMA SameLength ==
  ASSUME NEW S, NEW s \in Seq(S), NEW T, NEW t \in Seq(T), DOMAIN s = DOMAIN t
  PROVE  Len(s) = Len(t)
  <1> DEFINE m == Len(s)
             n == Len(t)
  <1>1. m \in Nat /\ n \in Nat /\ 1..m = 1..n
    OBVIOUS
  <1> HIDE DEF m, n
  <1>2. m \in 1..m \/ m = 0
    BY <1>1
  <1>3. n \in 1..n \/ n = 0
    BY <1>1
  <1>4. m = n
    BY <1>1, <1>2, <1>3
  <1>5. QED BY <1>4 DEF m, n

LEMMA FrontOf ==
  ASSUME NEW S, NEW s \in Seq(S), s # <<>>
  PROVE  /\ Front(s) \in Seq(S) /\ Len(Front(s)) = Len(s) - 1 /\ DOMAIN Front(s) = 1..(Len(s) - 1)
         /\ \A i \in 1..(Len(s) - 1) : Front(s)[i] = s[i] /\ i \in DOMAIN s
  <1> DEFINE n == Len(s) - 1
  <1>1. n \in Nat /\ n < Len(s) /\ Len(s) \in Nat /\ DOMAIN s = 1..Len(s)
    BY LastOf
  <1>2. Front(s) = SubSeq(s, 1, n)
    BY DEF Front
  <1> HIDE DEF n
  <1>3. \A i \in 1..n : i \in DOMAIN s /\ s[i] \in S
    BY <1>1
  <1>4. /\ SubSeq(s, 1, n) \in Seq(S) /\ Len(SubSeq(s, 1, n)) = n
        /\ \A i \in 1..n : SubSeq(s, 1, n)[i] = s[i]
    BY <1>1, <1>3
  <1>5. DOMAIN SubSeq(s, 1, n) = 1..n
    BY <1>4
  <1>6. QED BY <1>2, <1>3, <1>4, <1>5 DEF n

LEMMA SettledSame ==
  ASSUME NEW frames \in Seq(Frames)
  PROVE  /\ Settled(frames) \in Seq(Frames) /\ Len(Settled(frames)) = Len(frames)
         /\ \A i \in DOMAIN frames :
              /\ Settled(frames)[i].kind = frames[i].kind
              /\ Settled(frames)[i].id = frames[i].id
              /\ Settled(frames)[i].seen = frames[i].seen
  <1>1. CASE frames # <<>> /\ frames[Len(frames)].kind = "{"
    <2> DEFINE n == Len(frames)
               top == [frames[n] EXCEPT !.awaits = FALSE]
    <2>1. n \in DOMAIN frames /\ frames[n] \in Frames
      BY <1>1, LastOf
    <2>2. top \in Frames /\ top.kind = frames[n].kind /\ top.id = frames[n].id /\ top.seen = frames[n].seen
      BY <2>1 DEF Frames
    <2>3. Settled(frames) = [frames EXCEPT ![n] = top]
      BY <1>1 DEF Settled
    <2> HIDE DEF top, n
    <2>4. [frames EXCEPT ![n] = top] \in Seq(Frames) /\ Len([frames EXCEPT ![n] = top]) = Len(frames)
      BY <2>1, <2>2
    <2>5. QED BY <2>1, <2>2, <2>3, <2>4
  <1>2. CASE ~(frames # <<>> /\ frames[Len(frames)].kind = "{")
    BY <1>2 DEF Settled
  <1>3. QED BY <1>1, <1>2

\* What was named stays where it was while frames are only closed or marked.
LEMMA NamesKept ==
  ASSUME JsonTypeOK, NamesFollow, stack' \in Seq(Frames), Len(stack') <= Len(stack),
         \A i \in DOMAIN stack' : stack'[i].id = stack[i].id /\ stack'[i].seen = stack[i].seen,
         UNCHANGED <<named, allowed_fields>>, tokens' \in Nat, tokens <= tokens',
         rejection' = "none" => rejection = "none"
  PROVE  NamesFollow'
  <1>1. stack \in Seq(Frames) /\ tokens \in Nat /\ \A n \in DOMAIN named : named[n][1] \in Nat
    BY DEF JsonTypeOK
  <1>2. DOMAIN stack' \subseteq DOMAIN stack
    BY <1>1
  <1>3. \A i \in DOMAIN stack : stack[i].id \in Nat
    <2>1. \A i \in DOMAIN stack : stack[i] \in Frames
      BY <1>1
    <2>2. QED BY <2>1 DEF Frames
  <1>4. (\A i \in DOMAIN stack : stack[i].id < tokens)'
    BY <1>1, <1>2, <1>3 DEF NamesFollow
  <1>5. (\A i, j \in DOMAIN stack : i < j => stack[i].id < stack[j].id)'
    BY <1>2 DEF NamesFollow
  <1>6. (\A n \in DOMAIN named : named[n][1] < tokens)'
    BY <1>1 DEF NamesFollow
  <1>7. (\A i \in DOMAIN stack : stack[i].seen = {f \in FieldNames : <<stack[i].id, f>> \in Range(named)})'
    BY <1>2 DEF NamesFollow
  <1>8. (rejection = "none" =>
          /\ ~Twice
          /\ closed => \A name \in Range(named) : name[1] = 0 => name[2] \in allowed_fields)'
    BY DEF NamesFollow, Twice, closed
  <1>9. QED BY <1>4, <1>5, <1>6, <1>7, <1>8 DEF NamesFollow

\* The scan keeps up while the delimiters and the greatest depth stay.
LEMMA ScanKept ==
  ASSUME JsonTypeOK, ScanFollows, ~malformed, stack' \in Seq(Frames), Len(stack') = Len(stack),
         \A i \in DOMAIN stack' : stack'[i].kind = stack[i].kind,
         UNCHANGED <<scan, deepest>>, complete' => stack' = <<>>
  PROVE  ScanFollows'
  <1>1. stack \in Seq(Frames)
    BY DEF JsonTypeOK
  <1>2. DOMAIN stack' = DOMAIN stack
    BY <1>1
  <1>3. QED BY <1>2 DEF ScanFollows

LEMMA BreakKeeps ==
  ASSUME JsonInv, NEW bytes, Len(bytes) \in Nat, Break(bytes)
  PROVE  JsonInv'
  <1>1. /\ verdict' = "reading" /\ tokens' = tokens + 1 /\ scan' = Scanned(bytes) /\ malformed' = TRUE
        /\ UNCHANGED <<allowed_fields, stack, rejection, complete, deepest, named>>
    BY DEF Break, Write
  <1>2. JsonTypeOK'
    BY <1>1 DEF JsonInv, JsonTypeOK
  <1>3. ScanFollows'
    <2>1. scan.invalid => scan' = scan
      BY <1>1, GivenUp
    <2>2. QED BY <1>1, <2>1 DEF JsonInv, ScanFollows
  <1>4. NamesFollow'
    BY <1>1, NamesKept DEF JsonInv, JsonTypeOK
  <1>5. QED BY <1>1, <1>2, <1>3, <1>4 DEF JsonInv

LEMMA EndKeeps ==
  ASSUME JsonInv, End
  PROVE  JsonInv'
  <1>1. /\ verdict' = strict_json_value
        /\ UNCHANGED <<allowed_fields, stack, scan, rejection, malformed, complete, tokens, deepest, named>>
    BY DEF End
  <1>2. JsonTypeOK'
    BY <1>1 DEF JsonInv, JsonTypeOK
  <1>3. ScanFollows'
    BY <1>1 DEF JsonInv, ScanFollows
  <1>4. NamesFollow'
    BY <1>1 DEF JsonInv, NamesFollow, Twice, closed
  <1>5. strict_json_value' = strict_json_value
    BY <1>1 DEF strict_json_value, lexical_depth_is_invalid
  <1>6. QED BY <1>1, <1>2, <1>3, <1>4, <1>5 DEF JsonInv

\* What the scan has of a scalar: nothing.
LEMMA ScalarScanned ==
  ASSUME JsonInv, ~malformed
  PROVE  /\ Scanned(<<"x">>) = scan
         /\ \A content \in FieldNames \cup StringTexts : \A spelling \in Inside[content] :
              Scanned(Quoted(spelling)) = scan
  <1>1. scan \in ScanStates /\ (scan.invalid \/ (~scan.in_string /\ ~scan.escaped))
    BY DEF JsonInv, JsonTypeOK, ScanFollows
  <1>2. Scanned(<<"x">>) = scan
    BY <1>1, ScanOne DEF ScanByte, Delimiters
  <1>3. ASSUME NEW content \in FieldNames \cup StringTexts, NEW spelling \in Inside[content]
        PROVE  Scanned(Quoted(spelling)) = scan
    <2>1. spelling \in Seq(JsonBytes) /\ LegalInside(spelling)
      BY JsonAssumption
    <2>2. QED BY <1>1, <2>1, StringScanned
  <1>4. QED BY <1>2, <1>3

LEMMA ScalarKeeps ==
  ASSUME JsonInv, NEW null \in BOOLEAN, NEW bytes, Scalar(null, bytes), Scanned(bytes) = scan
  PROVE  JsonInv'
  <1>1. /\ ~malformed /\ verdict' = "reading" /\ tokens' = tokens + 1 /\ scan' = scan
        /\ rejection' = IF rejection = "none" /\ ~malformed THEN visit_value(null) ELSE rejection
        /\ stack' = Settled(stack)
        /\ complete' = (stack = <<>>)
        /\ malformed' = RootRefused("scalar")
        /\ UNCHANGED <<allowed_fields, deepest, named>>
    BY DEF Scalar, Write, Reject
  <1>2. stack \in Seq(Frames) /\ tokens \in Nat
    BY DEF JsonInv, JsonTypeOK
  <1>3. /\ stack' \in Seq(Frames) /\ Len(stack') = Len(stack) /\ DOMAIN stack' = DOMAIN stack
        /\ \A i \in DOMAIN stack : /\ stack'[i].kind = stack[i].kind
                                   /\ stack'[i].id = stack[i].id
                                   /\ stack'[i].seen = stack[i].seen
    BY <1>1, <1>2, SettledSame
  <1>4. rejection' = "none" => rejection = "none"
    BY <1>1
  <1>5. JsonTypeOK'
    <2>1. visit_value(null) \in {"none", "ExplicitNull"}
      BY DEF visit_value
    <2>2. RootRefused("scalar") \in BOOLEAN
      BY DEF RootRefused
    <2>3. QED BY <1>1, <1>2, <1>3, <2>1, <2>2 DEF JsonInv, JsonTypeOK
  <1>6. ScanFollows'
    <2>1. complete' => stack' = <<>>
      <3>1. complete' => Len(stack') = 0
        BY <1>1, <1>3
      <3>2. QED BY <1>3, <3>1
    <2>2. QED BY <1>1, <1>3, <2>1, ScanKept DEF JsonInv
  <1>7. NamesFollow'
    <2>1. Len(stack') <= Len(stack) /\ tokens' \in Nat /\ tokens <= tokens'
      BY <1>1, <1>2, <1>3
    <2>2. QED BY <1>1, <1>3, <1>4, <2>1, NamesKept DEF JsonInv
  <1>8. QED BY <1>1, <1>5, <1>6, <1>7 DEF JsonInv

LEMMA CloseKeeps ==
  ASSUME JsonInv, Close
  PROVE  JsonInv'
  <1> DEFINE n == Len(stack)
             byte == IF Top.kind = "{" THEN "}" ELSE "]"
  <1>1. /\ ~malformed /\ stack # <<>> /\ verdict' = "reading" /\ tokens' = tokens + 1
        /\ scan' = Scanned(<<byte>>)
        /\ stack' = Front(stack)
        /\ complete' = (n = 1)
        /\ UNCHANGED <<allowed_fields, rejection, malformed, deepest, named>>
    BY DEF Close, Write
  <1>2. /\ stack \in Seq(Frames) /\ tokens \in Nat /\ scan \in ScanStates
        /\ n \in Nat /\ n > 0 /\ n \in DOMAIN stack /\ DOMAIN stack = 1..n /\ stack[n] \in Frames
    <2>1. stack \in Seq(Frames) /\ tokens \in Nat /\ scan \in ScanStates
      BY <1>1 DEF JsonInv, JsonTypeOK
    <2>2. QED BY <1>1, <2>1, LastOf
  <1>a. (complete' <=> n = 1) /\ complete' \in BOOLEAN
    <2> HIDE DEF n, byte
    <2>1. complete' = (n = 1)
      BY <1>1
    <2>2. QED BY <2>1, Zenon
  <1>b. /\ scan' = Scanned(<<byte>>) /\ tokens' = tokens + 1 /\ stack' = Front(stack)
        /\ UNCHANGED <<allowed_fields, rejection, malformed, deepest, named>>
    <2> HIDE DEF byte
    <2>1. QED BY <1>1
  <1>3. /\ stack' \in Seq(Frames) /\ Len(stack') = n - 1 /\ DOMAIN stack' = 1..(n - 1)
        /\ \A i \in DOMAIN stack' : stack'[i] = stack[i]
    BY <1>1, <1>2, FrontOf
  <1>4. scan' = ScanByte(scan, byte)
    <2> HIDE DEF byte
    <2>1. QED BY <1>1, ScanOne
  <1> HIDE DEF byte
  <1>5. /\ scan.invalid => scan' = scan
        /\ ~scan.invalid => /\ scan' = [scan EXCEPT !.nesting = Front(scan.nesting)]
                            /\ Len(scan.nesting) = n
                            /\ \A i \in DOMAIN stack : scan.nesting[i] = stack[i].kind
                            /\ ~scan.in_string /\ ~scan.escaped
    <2>1. scan.invalid => scan' = scan
      BY <1>4 DEF ScanByte
    <2>2. ASSUME ~scan.invalid
          PROVE  /\ scan' = [scan EXCEPT !.nesting = Front(scan.nesting)]
                 /\ Len(scan.nesting) = n
                 /\ \A i \in DOMAIN stack : scan.nesting[i] = stack[i].kind
                 /\ ~scan.in_string /\ ~scan.escaped
      <3>1. /\ ~scan.in_string /\ ~scan.escaped
            /\ Len(scan.nesting) = n
            /\ \A i \in DOMAIN stack : scan.nesting[i] = stack[i].kind
        BY <1>1, <2>2 DEF JsonInv, ScanFollows
      <3>2. byte \in {"}", "]"} /\ Opening[byte] = Top.kind
        BY <1>2 DEF Top, Frames, Opening, byte, Delimiters
      <3>3. scan' = PopDelimiter(scan, byte)
        BY <1>4, <2>2, <3>1, <3>2 DEF ScanByte, Delimiters
      <3>4. scan.nesting # <<>> /\ Last(scan.nesting) = Top.kind
        BY <1>2, <3>1 DEF Last, Top
      <3>5. QED BY <3>1, <3>2, <3>3, <3>4 DEF PopDelimiter
    <2>3. QED BY <2>1, <2>2
  <1>6. ~scan.invalid => /\ Front(scan.nesting) \in Seq(Delimiters) /\ Len(Front(scan.nesting)) = n - 1
                         /\ \A i \in 1..(n - 1) : Front(scan.nesting)[i] = scan.nesting[i]
    <2>1. scan.nesting \in Seq(Delimiters)
      BY <1>2 DEF ScanStates
    <2>2. ~scan.invalid => scan.nesting # <<>>
      BY <1>2, <1>5
    <2>3. QED BY <1>5, <2>1, <2>2, FrontOf
  <1>7. scan' \in ScanStates /\ scan'.invalid = scan.invalid
    BY <1>2, <1>5, <1>6 DEF ScanStates
  <1>8. JsonTypeOK'
    <2>1. tokens' \in Nat
      BY <1>b, <1>2
    <2>2. QED BY <1>a, <1>b, <1>3, <1>7, <2>1 DEF JsonInv, JsonTypeOK
  <1>9. ScanFollows'
    <2>1. ASSUME ~malformed', ~scan'.invalid
          PROVE  /\ ~scan'.in_string /\ ~scan'.escaped
                 /\ Len(scan'.nesting) = Len(stack')
                 /\ \A i \in DOMAIN stack' : scan'.nesting[i] = stack'[i].kind
      <3>1. ~scan.invalid
        BY <1>7, <2>1
      <3>2. scan'.in_string = scan.in_string /\ scan'.escaped = scan.escaped /\ scan'.nesting = Front(scan.nesting)
        BY <1>2, <1>5, <3>1 DEF ScanStates
      <3>3. \A i \in DOMAIN stack' : i \in DOMAIN stack
        BY <1>2, <1>3
      <3>4. \A i \in DOMAIN stack' : Front(scan.nesting)[i] = stack'[i].kind
        BY <1>3, <1>5, <1>6, <3>1, <3>3
      <3>5. QED BY <1>3, <1>5, <1>6, <3>1, <3>2, <3>4
    <2>2. Len(stack') <= deepest'
      <3>1. n <= deepest /\ deepest \in Nat
        BY DEF JsonInv, JsonTypeOK, ScanFollows
      <3>2. deepest' = deepest /\ Len(stack') = n - 1 /\ n \in Nat
        BY <1>b, <1>2, <1>3
      <3> HIDE DEF n
      <3>3. QED BY <3>1, <3>2
    <2>3. complete' => stack' = <<>>
      <3> HIDE DEF n
      <3>1. complete' => Len(stack') = 0
        BY <1>a, <1>3
      <3>2. QED BY <1>3, <3>1
    <2>4. QED BY <1>b, <1>7, <2>1, <2>2, <2>3 DEF JsonInv, ScanFollows
  <1>10. NamesFollow'
    <2>1. Len(stack') <= Len(stack) /\ tokens' \in Nat /\ tokens <= tokens'
      <3>1. n - 1 <= n /\ tokens + 1 \in Nat /\ tokens <= tokens + 1
        <4> HIDE DEF n
        <4>1. QED BY <1>2
      <3>2. QED BY <1>1, <1>3, <3>1
    <2>2. \A i \in DOMAIN stack' : stack'[i].id = stack[i].id /\ stack'[i].seen = stack[i].seen
      BY <1>3
    <2>3. QED BY <1>1, <1>3, <2>1, <2>2, NamesKept DEF JsonInv
  <1>11. QED BY <1>1, <1>8, <1>9, <1>10 DEF JsonInv

\* Elements of a sequence with one more at its end.
LEMMA Appended ==
  ASSUME NEW S, NEW s \in Seq(S), NEW e \in S
  PROVE  /\ Append(s, e) \in Seq(S) /\ Len(Append(s, e)) = Len(s) + 1 /\ Len(s) \in Nat
         /\ DOMAIN s = 1..Len(s) /\ DOMAIN Append(s, e) = 1..(Len(s) + 1)
         /\ Append(s, e)[Len(s) + 1] = e
         /\ \A i \in DOMAIN s : Append(s, e)[i] = s[i] /\ i \in DOMAIN Append(s, e) /\ i # Len(s) + 1
         /\ \A i \in DOMAIN Append(s, e) : i \in DOMAIN s \/ i = Len(s) + 1
  OBVIOUS

LEMMA OpenKeeps ==
  ASSUME JsonInv, NEW byte \in Delimiters, Open(byte)
  PROVE  JsonInv'
  <1> DEFINE frame == [kind |-> byte, id |-> tokens, seen |-> {}, awaits |-> FALSE]
             n == Len(stack)
             settled == Settled(stack)
  <1>1. /\ ~malformed /\ verdict' = "reading" /\ tokens' = tokens + 1 /\ scan' = Scanned(<<byte>>)
        /\ stack' = Append(settled, frame)
        /\ deepest' = (IF n + 1 > deepest THEN n + 1 ELSE deepest)
        /\ UNCHANGED <<allowed_fields, rejection, complete, named>>
    BY DEF Open, Write
  <1>2. malformed' \in BOOLEAN
    BY DEF Open, RootRefused
  <1>3. /\ stack \in Seq(Frames) /\ n \in Nat /\ tokens \in Nat /\ scan \in ScanStates /\ deepest \in Nat
        /\ DOMAIN stack = 1..n /\ MAX_STRUCTURAL_DEPTH \in Nat
    BY <1>1, JsonAssumption DEF JsonInv, JsonTypeOK
  <1>4. frame \in Frames
    BY <1>3 DEF Frames
  <1>5. /\ settled \in Seq(Frames) /\ Len(settled) = n /\ DOMAIN settled = 1..n
        /\ \A i \in 1..n : /\ settled[i].kind = stack[i].kind
                           /\ settled[i].id = stack[i].id
                           /\ settled[i].seen = stack[i].seen
    BY <1>3, SettledSame
  <1>6. frame.kind = byte /\ frame.id = tokens /\ frame.seen = {}
    OBVIOUS
  <1> HIDE DEF frame, settled
  <1>7. /\ stack' \in Seq(Frames) /\ Len(stack') = n + 1 /\ DOMAIN stack' = 1..(n + 1)
        /\ stack'[n + 1] = frame
        /\ \A i \in 1..n : stack'[i] = settled[i]
    BY <1>1, <1>4, <1>5, Appended
  <1> HIDE DEF n
  <1>8. \A i \in 1..(n + 1) : i \in 1..n \/ i = n + 1
    BY <1>3
  <1>9. scan' = ScanByte(scan, byte)
    BY <1>1, ScanOne
  <1>10. /\ scan.invalid => scan' = scan
         /\ ~scan.invalid => scan' = PushDelimiter(scan, byte)
    <2>1. scan.invalid => scan' = scan
      BY <1>9 DEF ScanByte
    <2>2. ASSUME ~scan.invalid PROVE scan' = PushDelimiter(scan, byte)
      <3>1. ~scan.in_string
        BY <1>1, <2>2 DEF JsonInv, ScanFollows
      <3>2. QED BY <1>9, <2>2, <3>1 DEF ScanByte, Delimiters
    <2>3. QED BY <2>1, <2>2
  <1>11. ~scan.invalid =>
           /\ scan.nesting \in Seq(Delimiters) /\ Len(scan.nesting) = n
           /\ scan'.nesting = Append(scan.nesting, byte)
           /\ scan'.in_string = scan.in_string /\ scan'.escaped = scan.escaped
           /\ scan'.invalid <=> n >= MAX_STRUCTURAL_DEPTH
           /\ scan'.invalid \in BOOLEAN /\ scan' \in ScanStates
    <2> SUFFICES ASSUME ~scan.invalid
                 PROVE  /\ scan.nesting \in Seq(Delimiters) /\ Len(scan.nesting) = n
                        /\ scan'.nesting = Append(scan.nesting, byte)
                        /\ scan'.in_string = scan.in_string /\ scan'.escaped = scan.escaped
                        /\ scan'.invalid <=> n >= MAX_STRUCTURAL_DEPTH
                        /\ scan'.invalid \in BOOLEAN /\ scan' \in ScanStates
      OBVIOUS
    <2> DEFINE nesting == Append(scan.nesting, byte)
               over == scan.invalid \/ Len(scan.nesting) >= MAX_STRUCTURAL_DEPTH
    <2>1. scan.nesting \in Seq(Delimiters) /\ Len(scan.nesting) = n
      BY <1>1, <1>3 DEF JsonInv, ScanFollows, ScanStates, n
    <2>2. scan' = [scan EXCEPT !.nesting = nesting, !.invalid = over]
      BY <1>10 DEF PushDelimiter
    <2>3. nesting \in Seq(Delimiters)
      BY <2>1
    <2>4. (over <=> n >= MAX_STRUCTURAL_DEPTH) /\ over \in BOOLEAN
      BY <2>1
    <2> HIDE DEF nesting, over
    <2>5. scan' \in ScanStates
      BY <1>3, <2>2, <2>3, <2>4 DEF ScanStates
    <2>6. /\ scan'.nesting = nesting /\ scan'.invalid = over
          /\ scan'.in_string = scan.in_string /\ scan'.escaped = scan.escaped
      BY <1>3, <2>2 DEF ScanStates
    <2>7. QED BY <2>1, <2>4, <2>5, <2>6 DEF nesting
  <1>12. JsonTypeOK'
    <2>1. tokens' \in Nat /\ deepest' \in Nat
      BY <1>1, <1>3
    <2>2. scan' \in ScanStates
      BY <1>3, <1>10, <1>11
    <2>3. QED BY <1>1, <1>2, <1>7, <2>1, <2>2 DEF JsonInv, JsonTypeOK
  <1>13. ScanFollows'
    <2>1. /\ deepest' >= deepest /\ n + 1 <= deepest'
          /\ deepest' > MAX_STRUCTURAL_DEPTH <=> n + 1 > MAX_STRUCTURAL_DEPTH \/ deepest > MAX_STRUCTURAL_DEPTH
      BY <1>1, <1>3
    <2>2. ~complete
      BY <1>3 DEF Open, ValueExpected, JsonInv, ScanFollows
    <2>3. CASE scan.invalid
      <3>1. deepest > MAX_STRUCTURAL_DEPTH
        BY <1>1, <2>3 DEF JsonInv, ScanFollows
      <3>2. scan'.invalid
        BY <1>10, <2>3
      <3>3. QED BY <1>1, <1>7, <2>1, <2>2, <3>1, <3>2 DEF ScanFollows
    <2>4. CASE ~scan.invalid
      <3>1. ~(deepest > MAX_STRUCTURAL_DEPTH) /\ ~scan.in_string /\ ~scan.escaped
        BY <1>1, <2>4 DEF JsonInv, ScanFollows
      <3>2. scan'.invalid <=> deepest' > MAX_STRUCTURAL_DEPTH
        <4>1. n >= MAX_STRUCTURAL_DEPTH <=> n + 1 > MAX_STRUCTURAL_DEPTH
          BY <1>3
        <4>2. QED BY <1>11, <2>1, <2>4, <3>1, <4>1
      <3>3. Len(scan'.nesting) = n + 1 /\ ~scan'.in_string /\ ~scan'.escaped
        BY <1>11, <2>4, <3>1
      <3>4. ASSUME NEW i \in DOMAIN stack' PROVE scan'.nesting[i] = stack'[i].kind
        <4>1. CASE i \in 1..n
          <5>1. scan'.nesting[i] = scan.nesting[i]
            BY <1>11, <2>4, <4>1
          <5>2. scan.nesting[i] = stack[i].kind
            BY <1>1, <1>3, <2>4, <4>1 DEF JsonInv, ScanFollows
          <5>3. QED BY <1>5, <1>7, <4>1, <5>1, <5>2
        <4>2. CASE i = n + 1
          <5>1. scan'.nesting[i] = byte
            BY <1>11, <2>4, <4>2
          <5>2. QED BY <1>6, <1>7, <4>2, <5>1
        <4>3. QED BY <1>7, <1>8, <4>1, <4>2
      <3>5. QED BY <1>1, <1>7, <2>1, <2>2, <3>2, <3>3, <3>4 DEF ScanFollows
    <2>5. QED BY <2>3, <2>4
  <1>14. NamesFollow'
    <2>1. \A i \in 1..n : stack[i].id \in Nat /\ stack[i].id < tokens
      <3>1. \A i \in 1..n : stack[i] \in Frames
        BY <1>3
      <3>2. QED BY <1>3, <3>1 DEF JsonInv, NamesFollow, Frames
    <2>2. \A i \in 1..n : stack'[i].id = stack[i].id /\ stack'[i].seen = stack[i].seen
      BY <1>5, <1>7
    <2>3. stack'[n + 1].id = tokens /\ stack'[n + 1].seen = {}
      BY <1>6, <1>7
    <2>4. (\A i \in DOMAIN stack : stack[i].id < tokens)'
      <3>1. \A i \in 1..n : stack'[i].id < tokens + 1
        BY <1>3, <2>1, <2>2
      <3>2. stack'[n + 1].id < tokens + 1
        BY <1>3, <2>3
      <3>3. QED BY <1>1, <1>7, <1>8, <3>1, <3>2
    <2>5. (\A i, j \in DOMAIN stack : i < j => stack[i].id < stack[j].id)'
      <3>1. ASSUME NEW i \in 1..(n + 1), NEW j \in 1..(n + 1), i < j
            PROVE  stack'[i].id < stack'[j].id
        <4>1. i \in 1..n
          BY <1>3, <3>1
        <4>2. CASE j \in 1..n
          <5>1. stack[i].id < stack[j].id
            BY <1>3, <3>1, <4>1, <4>2 DEF JsonInv, NamesFollow
          <5>2. QED BY <2>2, <4>1, <4>2, <5>1
        <4>3. CASE j = n + 1
          BY <2>1, <2>2, <2>3, <4>1, <4>3
        <4>4. QED BY <1>8, <4>2, <4>3
      <3>2. QED BY <1>7, <3>1
    <2>6. \A k \in DOMAIN named : named[k][1] \in Nat /\ named[k][1] < tokens
      BY DEF JsonInv, JsonTypeOK, NamesFollow
    <2>7. (\A k \in DOMAIN named : named[k][1] < tokens)'
      BY <1>1, <1>3, <2>6
    <2>8. (\A i \in DOMAIN stack : stack[i].seen = {f \in FieldNames : <<stack[i].id, f>> \in Range(named)})'
      <3>1. ASSUME NEW i \in DOMAIN stack'
            PROVE  stack'[i].seen = {f \in FieldNames : <<stack'[i].id, f>> \in Range(named)}
        <4>1. CASE i \in 1..n
          <5>1. stack[i].seen = {f \in FieldNames : <<stack[i].id, f>> \in Range(named)}
            BY <1>3, <4>1 DEF JsonInv, NamesFollow
          <5>2. QED BY <2>2, <4>1, <5>1
        <4>2. CASE i = n + 1
          <5>1. ASSUME NEW f \in FieldNames, <<tokens, f>> \in Range(named) PROVE FALSE
            <6>1. PICK k \in DOMAIN named : named[k] = <<tokens, f>>
              BY <5>1 DEF Range
            <6>2. named[k][1] = tokens
              BY <6>1
            <6>3. QED BY <1>3, <2>6, <6>2
          <5>2. QED BY <2>3, <4>2, <5>1
        <4>3. QED BY <1>7, <1>8, <4>1, <4>2
      <3>2. QED BY <1>1, <3>1
    <2>9. (rejection = "none" =>
             /\ ~Twice
             /\ closed => \A name \in Range(named) : name[1] = 0 => name[2] \in allowed_fields)'
      BY <1>1 DEF JsonInv, NamesFollow, Twice, closed
    <2>10. QED BY <2>4, <2>5, <2>7, <2>8, <2>9 DEF NamesFollow
  <1>15. QED BY <1>1, <1>12, <1>13, <1>14 DEF JsonInv

LEMMA NameFieldKeeps ==
  ASSUME JsonInv, NEW field \in FieldNames, NameField(field)
  PROVE  JsonInv'
  <1> DEFINE n == Len(stack)
             top == [stack[n] EXCEPT !.seen = @ \cup {field}, !.awaits = TRUE]
             name == <<stack[n].id, field>>
  <1>1. /\ ~malformed /\ stack # <<>> /\ verdict' = "reading" /\ tokens' = tokens + 1
        /\ rejection' = IF rejection = "none" /\ ~malformed THEN visit_key(field) ELSE rejection
        /\ named' = Append(named, name)
        /\ UNCHANGED <<allowed_fields, malformed, complete, deepest>>
    BY DEF NameField, InObject, Write, Reject, Top
  <1>2. stack' = [stack EXCEPT ![n] = top]
    BY DEF NameField
  <1>3. scan' = scan
    <2>1. PICK spelling \in Inside[field] : scan' = Scanned(Quoted(spelling))
      BY DEF NameField, Write
    <2>2. QED BY <1>1, <2>1, ScalarScanned
  <1>4. /\ stack \in Seq(Frames) /\ n \in Nat /\ n > 0 /\ DOMAIN stack = 1..n /\ stack[n] \in Frames
        /\ tokens \in Nat /\ named \in Seq(Nat \X FieldNames)
        /\ rejection \in {"none", "DuplicateField", "UnknownField", "ExplicitNull"}
    <2>1. /\ stack \in Seq(Frames) /\ tokens \in Nat /\ named \in Seq(Nat \X FieldNames)
          /\ rejection \in {"none", "DuplicateField", "UnknownField", "ExplicitNull"}
      BY DEF JsonInv, JsonTypeOK
    <2>2. n \in Nat /\ n > 0 /\ DOMAIN stack = 1..n /\ stack[n] \in Frames
      BY <1>1, <2>1, LastOf
    <2>3. QED BY <2>1, <2>2
  <1>5. /\ top \in Frames /\ top.kind = stack[n].kind /\ top.id = stack[n].id
        /\ top.seen = stack[n].seen \cup {field} /\ stack[n].id \in Nat
    BY <1>4 DEF Frames
  <1>6. name \in Nat \X FieldNames /\ name[1] = stack[n].id /\ name[2] = field
    BY <1>5
  <1> HIDE DEF top, n
  <1>7. /\ stack' \in Seq(Frames) /\ Len(stack') = Len(stack) /\ DOMAIN stack' = DOMAIN stack
        /\ stack'[n] = top /\ \A i \in DOMAIN stack : i # n => stack'[i] = stack[i]
    <2>1. n \in DOMAIN stack
      BY <1>4
    <2>2. QED BY <1>2, <1>4, <1>5, <2>1
  <1>8. \A i \in DOMAIN stack : /\ stack'[i].kind = stack[i].kind
                                /\ stack'[i].id = stack[i].id
                                /\ i # n => stack'[i].seen = stack[i].seen
    BY <1>5, <1>7
  <1> HIDE DEF name
  <1>9. /\ named' \in Seq(Nat \X FieldNames)
        /\ Range(named') = Range(named) \cup {name}
        /\ Len(named) \in Nat /\ DOMAIN named = 1..Len(named) /\ DOMAIN named' = 1..(Len(named) + 1)
        /\ named'[Len(named) + 1] = name
        /\ \A k \in DOMAIN named : named'[k] = named[k] /\ k \in DOMAIN named' /\ k # Len(named) + 1
        /\ \A k \in DOMAIN named' : k \in DOMAIN named \/ k = Len(named) + 1
    <2>1. /\ named' \in Seq(Nat \X FieldNames)
          /\ Len(named) \in Nat /\ DOMAIN named = 1..Len(named) /\ DOMAIN named' = 1..(Len(named) + 1)
          /\ named'[Len(named) + 1] = name
          /\ \A k \in DOMAIN named : named'[k] = named[k] /\ k \in DOMAIN named' /\ k # Len(named) + 1
          /\ \A k \in DOMAIN named' : k \in DOMAIN named \/ k = Len(named) + 1
      BY <1>1, <1>4, <1>6, Appended
    <2>2. Len(named) + 1 \in DOMAIN named'
      BY <2>1
    <2>3. Range(named') = Range(named) \cup {name}
      BY <2>1, <2>2 DEF Range
    <2>4. QED BY <2>1, <2>3
  <1>10. visit_key(field) \in {"none", "DuplicateField", "UnknownField"}
    BY DEF visit_key
  <1>11. JsonTypeOK'
    <2>1. tokens' \in Nat
      BY <1>1, <1>4
    <2>2. rejection' \in {"none", "DuplicateField", "UnknownField", "ExplicitNull"}
      BY <1>1, <1>4, <1>10
    <2>3. QED BY <1>1, <1>3, <1>7, <1>9, <2>1, <2>2 DEF JsonInv, JsonTypeOK
  <1>12. ScanFollows'
    <2>1. ~complete
      BY <1>1 DEF JsonInv, ScanFollows
    <2>2. QED BY <1>1, <1>3, <1>7, <1>8, <2>1, ScanKept DEF JsonInv
  <1>13. NamesFollow'
    <2>1. \A i \in DOMAIN stack : stack[i].id \in Nat /\ stack[i].id < tokens
      <3>1. \A i \in DOMAIN stack : stack[i] \in Frames
        BY <1>4
      <3>2. QED BY <3>1 DEF JsonInv, NamesFollow, Frames
    <2>2. n \in DOMAIN stack
      BY <1>4
    <2>3. (\A i \in DOMAIN stack : stack[i].id < tokens)'
      <3>1. \A i \in DOMAIN stack : stack[i].id < tokens + 1
        BY <1>4, <2>1
      <3>2. QED BY <1>1, <1>7, <1>8, <3>1
    <2>4. (\A i, j \in DOMAIN stack : i < j => stack[i].id < stack[j].id)'
      <3>1. \A i, j \in DOMAIN stack : i < j => stack[i].id < stack[j].id
        BY DEF JsonInv, NamesFollow
      <3>2. QED BY <1>7, <1>8, <3>1
    <2>5. (\A k \in DOMAIN named : named[k][1] < tokens)'
      <3>1. \A k \in DOMAIN named : named[k][1] \in Nat /\ named[k][1] < tokens
        <4>1. \A k \in DOMAIN named : named[k] \in Nat \X FieldNames
          BY <1>4
        <4>2. \A k \in DOMAIN named : named[k][1] \in Nat
          BY <4>1
        <4>3. QED BY <4>2 DEF JsonInv, NamesFollow
      <3>2. \A k \in DOMAIN named : named'[k][1] < tokens + 1
        BY <1>4, <1>9, <3>1
      <3>3. name[1] < tokens + 1
        BY <1>4, <1>6, <2>1, <2>2
      <3>4. QED BY <1>1, <1>9, <3>2, <3>3
    <2>6. \A i, j \in DOMAIN stack : stack[i].id = stack[j].id => i = j
      <3>1. \A i, j \in DOMAIN stack : i < j => stack[i].id < stack[j].id
        BY DEF JsonInv, NamesFollow
      <3>2. ASSUME NEW i \in DOMAIN stack, NEW j \in DOMAIN stack, stack[i].id = stack[j].id
            PROVE  i = j
        <4>1. ~(i < j) /\ ~(j < i)
          BY <2>1, <3>1, <3>2
        <4>2. QED BY <1>4, <4>1
      <3>3. QED BY <3>2
    <2>7. \A i \in DOMAIN stack : stack[i].seen = {f \in FieldNames : <<stack[i].id, f>> \in Range(named)}
      BY DEF JsonInv, NamesFollow
    <2>8. (\A i \in DOMAIN stack : stack[i].seen = {f \in FieldNames : <<stack[i].id, f>> \in Range(named)})'
      <3>1. ASSUME NEW i \in DOMAIN stack
            PROVE  stack'[i].seen = {f \in FieldNames : <<stack[i].id, f>> \in Range(named')}
        <4>1. CASE i = n
          <5>1. \A f \in FieldNames : <<stack[n].id, f>> = name <=> f = field
            BY DEF name
          <5>2. stack'[i].seen = stack[n].seen \cup {field}
            BY <1>5, <1>7, <4>1
          <5>3. QED BY <1>9, <2>2, <2>7, <4>1, <5>1, <5>2
        <4>2. CASE i # n
          <5>1. \A f \in FieldNames : <<stack[i].id, f>> # name
            BY <2>2, <2>6, <4>2 DEF name
          <5>2. QED BY <1>8, <1>9, <2>7, <4>2, <5>1
        <4>3. QED BY <4>1, <4>2
      <3>2. QED BY <1>7, <1>8, <3>1
    <2>9. ASSUME rejection' = "none"
          PROVE  /\ ~Twice'
                 /\ closed' => \A nm \in Range(named') : nm[1] = 0 => nm[2] \in allowed_fields'
      <3>1. rejection = "none" /\ visit_key(field) = "none"
        BY <1>1, <2>9
      <3>2. field \notin stack[n].seen /\ (closed /\ n = 1 => field \in allowed_fields)
        BY <3>1 DEF visit_key, Top, AtRoot, n
      <3>3. /\ ~Twice
            /\ closed => \A nm \in Range(named) : nm[1] = 0 => nm[2] \in allowed_fields
        BY <3>1 DEF JsonInv, NamesFollow
      <3>4. name \notin Range(named)
        BY <2>2, <2>7, <3>2 DEF name
      <3>5. ~Twice'
        <4>1. SUFFICES ASSUME NEW i \in DOMAIN named', NEW j \in DOMAIN named', i # j, named'[i] = named'[j]
                       PROVE  FALSE
          BY DEF Twice
        <4>2. \A k \in DOMAIN named : named'[k] # name
          BY <1>9, <3>4 DEF Range
        <4>3. CASE i \in DOMAIN named /\ j \in DOMAIN named
          BY <1>9, <3>3, <4>1, <4>3 DEF Twice
        <4>4. CASE i \notin DOMAIN named
          BY <1>9, <4>1, <4>2, <4>4
        <4>5. CASE j \notin DOMAIN named
          BY <1>9, <4>1, <4>2, <4>5
        <4>6. QED BY <4>3, <4>4, <4>5
      <3>6. name[1] = 0 => n = 1
        <4>1. SUFFICES ASSUME stack[n].id = 0, n # 1 PROVE FALSE
          BY <1>6
        <4>2. 1 \in DOMAIN stack /\ 1 < n
          BY <1>4, <4>1
        <4>3. stack[1].id < stack[n].id
          BY <2>2, <4>2 DEF JsonInv, NamesFollow
        <4>4. QED BY <2>1, <4>1, <4>2, <4>3
      <3>7. closed' => \A nm \in Range(named') : nm[1] = 0 => nm[2] \in allowed_fields'
        <4>1. closed' = closed /\ allowed_fields' = allowed_fields
          BY <1>1 DEF closed
        <4>2. QED BY <1>6, <1>9, <3>2, <3>3, <3>6, <4>1
      <3>8. QED BY <3>5, <3>7
    <2>10. QED BY <2>3, <2>4, <2>5, <2>8, <2>9 DEF NamesFollow
  <1>14. QED BY <1>1, <1>11, <1>12, <1>13 DEF JsonInv

LEMMA JsonStart == JsonInit => JsonInv
  <1> SUFFICES ASSUME JsonInit PROVE JsonInv
    OBVIOUS
  <1>1. JsonTypeOK
    <2>1. <<>> \in Seq(Frames) /\ <<>> \in Seq(Delimiters) /\ <<>> \in Seq(Nat \X FieldNames)
      OBVIOUS
    <2>2. QED BY <2>1 DEF JsonInit, JsonTypeOK, ScanStates
  <1>2. ScanFollows
    BY JsonAssumption DEF JsonInit, ScanFollows
  <1>3. NamesFollow
    BY DEF JsonInit, NamesFollow, Twice, Range
  <1>4. QED BY <1>1, <1>2, <1>3 DEF JsonInv, JsonInit

LEMMA JsonStep ==
  ASSUME JsonInv, [JsonNext]_jsonVars
  PROVE  JsonInv'
  <1>1. CASE \E kind \in Delimiters : Open(kind)
    BY <1>1, OpenKeeps
  <1>2. CASE Close
    BY <1>2, CloseKeeps
  <1>3. CASE \E field \in FieldNames : NameField(field)
    BY <1>3, NameFieldKeeps
  <1>4. CASE NullValue
    <2>1. Scalar(TRUE, <<"x">>) /\ ~malformed
      BY <1>4 DEF NullValue, Scalar
    <2>2. QED BY <2>1, ScalarScanned, ScalarKeeps
  <1>5. CASE Other
    <2>1. Scalar(FALSE, <<"x">>) /\ ~malformed
      BY <1>5 DEF Other, Scalar
    <2>2. QED BY <2>1, ScalarScanned, ScalarKeeps
  <1>6. CASE Text
    <2>1. PICK content \in StringTexts : \E spelling \in Inside[content] : Scalar(FALSE, Quoted(spelling))
      BY <1>6 DEF Text
    <2>2. PICK spelling \in Inside[content] : Scalar(FALSE, Quoted(spelling))
      BY <2>1
    <2>3. ~malformed
      BY <2>2 DEF Scalar
    <2>4. Scanned(Quoted(spelling)) = scan
      BY <2>3, ScalarScanned
    <2>5. QED BY <2>2, <2>4, ScalarKeeps
  <1>7. CASE \E bytes \in {<<"x">>, <<"q", "c", "q">>, <<"q">>, <<"}">>} : Break(bytes)
    <2>1. PICK bytes \in {<<"x">>, <<"q", "c", "q">>, <<"q">>, <<"}">>} : Break(bytes)
      BY <1>7
    <2>2. \/ bytes = <<"x">> \/ bytes = <<"q", "c", "q">> \/ bytes = <<"q">> \/ bytes = <<"}">>
      BY <2>1, Zenon
    <2>3. /\ Len(<<"x">>) \in Nat /\ Len(<<"q", "c", "q">>) \in Nat
          /\ Len(<<"q">>) \in Nat /\ Len(<<"}">>) \in Nat
      OBVIOUS
    <2>4. Len(bytes) \in Nat
      BY <2>2, <2>3, Zenon
    <2>5. QED BY <2>1, <2>4, BreakKeeps
  <1>8. CASE End
    BY <1>8, EndKeeps
  <1>9. CASE UNCHANGED jsonVars
    BY <1>9 DEF jsonVars, JsonInv, JsonTypeOK, ScanFollows, NamesFollow, Twice, closed,
                strict_json_value, lexical_depth_is_invalid
  <1>10. QED
    BY <1>1, <1>2, <1>3, <1>4, <1>5, <1>6, <1>7, <1>8, <1>9 DEF JsonNext

LEMMA JsonJudged == JsonInv => JsonSafety
  <1> SUFFICES ASSUME JsonInv PROVE JsonSafety
    OBVIOUS
  <1>1. rejection \in {"none", "DuplicateField", "UnknownField", "ExplicitNull"}
    BY DEF JsonInv, JsonTypeOK
  <1>2. verdict # "reading" => verdict = strict_json_value
    BY DEF JsonInv
  <1>3. AcceptedHasNoTwins
    <2> SUFFICES ASSUME verdict = "Accepted"
                 PROVE  /\ Legal
                        /\ ~Twice
                        /\ closed => \A name \in Range(named) : name[1] = 0 => name[2] \in allowed_fields
      BY DEF AcceptedHasNoTwins
    <2>1. rejection = "none" /\ complete /\ ~malformed
      BY <1>1, <1>2 DEF strict_json_value
    <2>2. QED BY <2>1 DEF JsonInv, NamesFollow, Legal
  <1>4. DepthCapped
    <2> SUFFICES ASSUME verdict \notin {"reading", "Malformed"}
                 PROVE  deepest <= MAX_STRUCTURAL_DEPTH
      BY DEF DepthCapped
    <2>1. ~scan.invalid
      BY <1>2 DEF strict_json_value, lexical_depth_is_invalid
    <2>2. ~(deepest > MAX_STRUCTURAL_DEPTH)
      BY <2>1 DEF JsonInv, ScanFollows
    <2>3. deepest \in Nat /\ MAX_STRUCTURAL_DEPTH \in Nat
      BY JsonAssumption DEF JsonInv, JsonTypeOK
    <2>4. QED BY <2>2, <2>3
  <1>5. LegalIsHeard
    <2> SUFFICES ASSUME verdict = "Malformed", complete, ~malformed
                 PROVE  deepest > MAX_STRUCTURAL_DEPTH
      BY DEF LegalIsHeard, Legal
    <2>1. lexical_depth_is_invalid
      BY <1>1, <1>2 DEF strict_json_value
    <2>2. CASE ~scan.invalid
      <3>1. ~scan.in_string /\ ~scan.escaped /\ Len(scan.nesting) = Len(stack) /\ stack = <<>>
        BY <2>2 DEF JsonInv, ScanFollows
      <3>2. scan.nesting \in Seq(Delimiters)
        BY DEF JsonInv, JsonTypeOK, ScanStates
      <3>3. scan.nesting = <<>>
        BY <3>1, <3>2
      <3>4. QED BY <2>1, <2>2, <3>1, <3>3 DEF lexical_depth_is_invalid
    <2>3. CASE scan.invalid
      BY <2>3 DEF JsonInv, ScanFollows
    <2>4. QED BY <2>2, <2>3
  <1>6. QED BY <1>3, <1>4, <1>5 DEF JsonSafety

\* Whatever document is written, byte by byte, escapes and delimiters in its
\* strings included: what strict_json_value accepts is legal and names no field
\* twice in an object, nothing deeper than the ceiling gets past the scan, and
\* the scan calls no legal document within it malformed.
THEOREM Preflight == JsonSpec => []JsonSafety
  <1>1. JsonInv /\ [JsonNext]_jsonVars => JsonInv'
    BY JsonStep
  <1>2. QED
    BY <1>1, JsonStart, JsonJudged, PTL DEF JsonSpec

-----------------------------------------------------------------------------
(***************************************************************************)
(* Path segments.                                                          *)
(***************************************************************************)
\* How many chunks of k there are in m, and where the i-th of them ends.
Count(m, k) == (m + k - 1) \div k
ChunkEnd(m, k, i) == IF k * i < m THEN k * i ELSE m

LEMMA ChunkBounds ==
  ASSUME NEW m \in Nat, NEW k \in {1, 3, 4}
  PROVE  /\ Count(m, k) \in Nat /\ k * Count(m, k) >= m /\ k * Count(m, k) < m + k
         /\ Count(m, k) = 0 <=> m = 0
         /\ Count(m, k) > 0 => ChunkEnd(m, k, Count(m, k)) = m
         /\ \A i \in 1..Count(m, k) :
              /\ k * (i - 1) \in 0..m /\ ChunkEnd(m, k, i) \in 0..m
              /\ ChunkEnd(m, k, i) - k * (i - 1) \in 1..k
              /\ i < Count(m, k) => ChunkEnd(m, k, i) = k * i
  <1>1. CASE k = 1
    BY <1>1 DEF Count, ChunkEnd
  <1>2. CASE k = 3
    BY <1>2 DEF Count, ChunkEnd
  <1>3. CASE k = 4
    BY <1>3 DEF Count, ChunkEnd
  <1>4. QED BY <1>1, <1>2, <1>3

\* What the chunks of a sequence are, one by one.
Cut(w, k, A) ==
  LET m == Len(w)
      n == Count(m, k)
      c == chunks(w, k)
  IN /\ c = [i \in 1..n |-> SubSeq(w, k * (i - 1) + 1, ChunkEnd(m, k, i))]
     /\ c \in Seq(Seq(A)) /\ Len(c) = n /\ DOMAIN c = 1..n
     /\ \A i \in 1..n :
          /\ c[i] \in Seq(A) /\ Len(c[i]) = ChunkEnd(m, k, i) - k * (i - 1)
          /\ \A j \in 1..Len(c[i]) : c[i][j] = w[k * (i - 1) + j]

LEMMA Chunk ==
  ASSUME NEW A, NEW w \in Seq(A), NEW k \in {1, 3, 4}
  PROVE  Cut(w, k, A)
  <1> DEFINE m == Len(w)
             n == Count(m, k)
             c == [i \in 1..n |-> SubSeq(w, k * (i - 1) + 1, ChunkEnd(m, k, i))]
  <1>0. m \in Nat
    OBVIOUS
  <1>1. n \in Nat
    BY <1>0, ChunkBounds
  <1>2. chunks(w, k) = c
    BY DEF chunks, Count, ChunkEnd
  <1>3. ASSUME NEW i \in 1..n
        PROVE  /\ c[i] \in Seq(A) /\ Len(c[i]) = ChunkEnd(m, k, i) - k * (i - 1)
               /\ \A j \in 1..Len(c[i]) : c[i][j] = w[k * (i - 1) + j]
    <2> DEFINE a == k * (i - 1)
               b == ChunkEnd(m, k, i)
    <2>1. a \in 0..m /\ b \in 0..m /\ b - a \in 1..k
      BY <1>0, ChunkBounds
    <2>2. c[i] = SubSeq(w, a + 1, b)
      OBVIOUS
    <2> HIDE DEF a, b, c, n
    <2>3. a \in Int /\ b \in Int /\ a + 1 <= b /\ a \in Nat /\ b <= m
      BY <1>0, <2>1
    <2>4. \A j \in (a + 1)..b : w[j] \in A
      BY <1>0, <2>3
    <2>5. /\ SubSeq(w, a + 1, b) \in Seq(A)
          /\ Len(SubSeq(w, a + 1, b)) = IF a + 1 <= b THEN b - (a + 1) + 1 ELSE 0
          /\ \A j \in 1..(b - (a + 1) + 1) : SubSeq(w, a + 1, b)[j] = w[(a + 1) + j - 1]
      <3>1. a + 1 \in Int
        BY <2>3
      <3>2. QED BY <2>3, <2>4, <3>1, SubSeqProperties
    <2>6. b - (a + 1) + 1 = b - a
      BY <2>3
    <2>7. c[i] \in Seq(A) /\ Len(c[i]) = b - a
      BY <2>2, <2>3, <2>5, <2>6
    <2>8. \A j \in 1..Len(c[i]) : c[i][j] = w[a + j]
      <3> TAKE j \in 1..Len(c[i])
      <3>1. j \in 1..(b - (a + 1) + 1) /\ (a + 1) + j - 1 = a + j
        BY <2>3, <2>6, <2>7
      <3>2. QED BY <2>2, <2>5, <3>1
    <2>9. QED BY <2>7, <2>8 DEF a, b
  <1>4. DOMAIN c = 1..n /\ c \in Seq(Seq(A)) /\ Len(c) = n
    <2>1. c \in [1..n -> Seq(A)]
      BY <1>3
    <2>2. DOMAIN c = 1..n
      OBVIOUS
    <2> HIDE DEF c, n
    <2>3. QED BY <1>1, <2>1, <2>2
  <1>5. QED BY <1>2, <1>3, <1>4 DEF Cut

\* Chunks put together again are the sequence they were cut from.
LEMMA FlattenChunks ==
  ASSUME NEW A, NEW w \in Seq(A), NEW k \in {1, 3, 4}
  PROVE  FlattenSeq(chunks(w, k)) = w
  <1> DEFINE m == Len(w)
             n == Count(m, k)
             c == chunks(w, k)
             f == [i \in 1..n |-> SubSeq(w, 1, ChunkEnd(m, k, i))]
  <1>0. m \in Nat
    OBVIOUS
  <1>1. n \in Nat /\ (n > 0 => ChunkEnd(m, k, n) = m) /\ (n = 0 => m = 0)
        /\ \A i \in 1..n :
             /\ k * (i - 1) \in 0..m /\ ChunkEnd(m, k, i) \in 0..m
             /\ ChunkEnd(m, k, i) - k * (i - 1) \in 1..k
             /\ i < n => ChunkEnd(m, k, i) = k * i
    BY <1>0, ChunkBounds
  <1>2. c = [i \in 1..n |-> SubSeq(w, k * (i - 1) + 1, ChunkEnd(m, k, i))] /\ Len(c) = n /\ c \in Seq(Seq(A))
    <2>1. Cut(w, k, A)
      BY Chunk
    <2>2. QED BY <2>1 DEF Cut
  <1>3. \A i \in 1..n : f[i] = SubSeq(w, 1, ChunkEnd(m, k, i))
                        /\ c[i] = SubSeq(w, k * (i - 1) + 1, ChunkEnd(m, k, i))
    BY <1>2
  <1> HIDE DEF c, f
  <1>4. CASE n = 0
    <2>1. m = 0
      BY <1>1, <1>4
    <2>2. w = <<>> /\ c = <<>>
      BY <1>2, <1>4, <2>1
    <2>3. QED BY <2>2 DEF FlattenSeq, c
  <1>5. CASE n > 0
    <2> HIDE DEF n
    <2>1. f[1] = c[1]
      <3>1. 1 \in 1..n /\ k * (1 - 1) + 1 = 1
        BY <1>1, <1>5
      <3>2. c[1] = SubSeq(w, k * (1 - 1) + 1, ChunkEnd(m, k, 1)) /\ f[1] = SubSeq(w, 1, ChunkEnd(m, k, 1))
        BY <1>3, <3>1
      <3>3. QED BY <3>1, <3>2
    <2>2. ASSUME NEW i \in 2..n PROVE f[i] = f[i - 1] \o c[i]
      <3> DEFINE a == k * (i - 1)
                 b == ChunkEnd(m, k, i)
      <3>1. i \in 1..n /\ i - 1 \in 1..n /\ i - 1 < n
        BY <1>1
      <3>2. a \in 0..m /\ b \in 0..m /\ b - a \in 1..k /\ ChunkEnd(m, k, i - 1) = a
        BY <1>1, <3>1
      <3>3. f[i] = SubSeq(w, 1, b) /\ f[i - 1] = SubSeq(w, 1, a) /\ c[i] = SubSeq(w, a + 1, b)
        BY <1>3, <3>1, <3>2
      <3> HIDE DEF a, b
      <3>4. 1 \in 1..(m + 1) /\ a \in (1 - 1)..m /\ b \in a..m
        BY <1>0, <3>2
      <3>5. SubSeq(w, 1, a) \o SubSeq(w, a + 1, b) = SubSeq(w, 1, b)
        BY <3>4, ConcatAdjacentSubSeq
      <3>6. QED BY <3>3, <3>5
    <2>3. f[n] = w
      <3>1. ChunkEnd(m, k, n) = m /\ n \in 1..n
        BY <1>1, <1>5
      <3>2. f[n] = SubSeq(w, 1, m)
        BY <1>3, <3>1
      <3>3. QED BY <3>2, SubSeqFull
    <2>4. FlattenSeq(c) = f[n]
      <3>1. n = Len(c) /\ n \in Nat
        BY <1>1, <1>2
      <3>2. \A i \in 2..n : f[i] = f[i - 1] \o c[i]
        BY <2>2
      <3>3. n > 0
        BY <1>5
      <3>4. Concatenates(c, f, n)
        BY <2>1, <3>1, <3>2, <3>3 DEF Concatenates
      <3>5. QED BY <3>4, FlattenedIs
    <2>5. QED BY <2>3, <2>4 DEF c
  <1>6. QED BY <1>1, <1>4, <1>5

Values == 0..63

LEMMA Bits ==
  ASSUME NEW x
  PROVE  /\ x \in Octets <=> x \in Int /\ 0 <= x /\ x <= 255
         /\ x \in Values <=> x \in Int /\ 0 <= x /\ x <= 63
  BY DEF Octets, Values

\* The characters of the alphabet are read as the values they stand for.
LEMMA Alphabet ==
  ASSUME NEW x \in Values
  PROVE  base64url_value(ALPHABET(x)) = <<x>> /\ ALPHABET(x) \in Int
  <1>0. x \in Int /\ 0 <= x /\ x <= 63
    BY Bits
  <1>1. CASE x \in 0..25
    <2>1. ALPHABET(x) = 65 + x
      BY <1>1 DEF ALPHABET
    <2>2. QED BY <1>1, <2>1 DEF base64url_value
  <1>2. CASE x \in 26..51
    <2>1. ALPHABET(x) = 97 + x - 26
      BY <1>2 DEF ALPHABET
    <2>2. QED BY <1>2, <2>1 DEF base64url_value
  <1>3. CASE x \in 52..61
    <2>1. ALPHABET(x) = 48 + x - 52
      BY <1>3 DEF ALPHABET
    <2>2. QED BY <1>3, <2>1 DEF base64url_value
  <1>4. CASE x = 62
    <2>1. ALPHABET(x) = 45
      BY <1>4 DEF ALPHABET
    <2>2. QED BY <1>4, <2>1 DEF base64url_value
  <1>5. CASE x = 63
    <2>1. ALPHABET(x) = 95
      BY <1>5 DEF ALPHABET
    <2>2. QED BY <1>5, <2>1 DEF base64url_value
  <1>6. QED BY <1>0, <1>1, <1>2, <1>3, <1>4, <1>5

\* The four values of six bits of up to three bytes.
Sextets(c) ==
  <<c[1] \div 4, ((c[1] % 4) * 16) + (At(c, 2) \div 16),
    ((At(c, 2) % 16) * 4) + (At(c, 3) \div 64), At(c, 3) % 64>>

LEMMA SextetValues ==
  ASSUME NEW c \in Seq(Octets), Len(c) \in 1..3
  PROVE  /\ c[1] \in Octets /\ At(c, 2) \in Octets /\ At(c, 3) \in Octets
         /\ \A j \in 1..4 : Sextets(c)[j] \in Values
         /\ Len(c) < 2 => At(c, 2) = 0
         /\ Len(c) < 3 => At(c, 3) = 0
  <1>1. c[1] \in Octets /\ (2 <= Len(c) => c[2] \in Octets) /\ (3 <= Len(c) => c[3] \in Octets)
    OBVIOUS
  <1>2. /\ At(c, 2) \in Octets /\ At(c, 3) \in Octets
        /\ Len(c) < 2 => At(c, 2) = 0
        /\ Len(c) < 3 => At(c, 3) = 0
    BY <1>1, Bits DEF At
  <1> DEFINE x == c[1]
             y == At(c, 2)
             z == At(c, 3)
             s == <<x \div 4, ((x % 4) * 16) + (y \div 16), ((y % 16) * 4) + (z \div 64), z % 64>>
  <1>3. Sextets(c) = s
    BY DEF Sextets
  <1>4. x \in Octets /\ y \in Octets /\ z \in Octets
    BY <1>1, <1>2
  <1> HIDE DEF x, y, z
  <1>a. /\ x \in Int /\ 0 <= x /\ x <= 255 /\ y \in Int /\ 0 <= y /\ y <= 255
        /\ z \in Int /\ 0 <= z /\ z <= 255
    BY <1>4, Bits
  <1>5. x \div 4 \in Values /\ z % 64 \in Values
    BY <1>a, Bits
  <1>6. ((x % 4) * 16) + (y \div 16) \in Values
    BY <1>a, Bits
  <1>7. ((y % 16) * 4) + (z \div 64) \in Values
    BY <1>a, Bits
  <1>8. \A j \in 1..4 : s[j] \in Values
    <2>1. \A j \in 1..4 : j = 1 \/ j = 2 \/ j = 3 \/ j = 4
      OBVIOUS
    <2>2. QED BY <1>5, <1>6, <1>7, <2>1
  <1>9. QED BY <1>1, <1>2, <1>3, <1>8 DEF x

LEMMA EncodeChunk ==
  ASSUME NEW c \in Seq(Octets), Len(c) \in 1..3
  PROVE  /\ encode_chunk(c) \in Seq(Int) /\ Len(encode_chunk(c)) = Len(c) + 1
         /\ \A j \in 1..(Len(c) + 1) : encode_chunk(c)[j] = ALPHABET(Sextets(c)[j])
  <1> DEFINE q == Sextets(c)
             e == <<ALPHABET(q[1]), ALPHABET(q[2]), ALPHABET(q[3]), ALPHABET(q[4])>>
             l == Len(c) + 1
  <1>1. encode_chunk(c) = SubSeq(e, 1, l)
    BY DEF encode_chunk, Sextets
  <1>0. Len(c) \in Int /\ 1 <= Len(c) /\ Len(c) <= 3
    <2>1. \A k \in 1..3 : k \in Int /\ 1 <= k /\ k <= 3
      OBVIOUS
    <2>2. QED BY <2>1
  <1>2. \A j \in 1..4 : q[j] \in Values
    BY SextetValues
  <1> HIDE DEF q
  <1>3. \A j \in 1..4 : e[j] = ALPHABET(q[j])
    <2>1. \A j \in 1..4 : j = 1 \/ j = 2 \/ j = 3 \/ j = 4
      OBVIOUS
    <2>2. QED BY <2>1
  <1>4. \A j \in 1..4 : e[j] \in Int
    BY <1>2, <1>3, Alphabet
  <1>5. l \in Int /\ 1 <= l /\ l <= 4
    BY <1>0
  <1> HIDE DEF e, l
  <1>6. \A j \in 1..l : j \in 1..4 /\ e[j] \in Int
    BY <1>4, <1>5
  <1>7. SubSeq(e, 1, l) \in Seq(Int) /\ Len(SubSeq(e, 1, l)) = (IF 1 <= l THEN l - 1 + 1 ELSE 0)
        /\ \A j \in 1..(l - 1 + 1) : SubSeq(e, 1, l)[j] = e[1 + j - 1]
    <2>1. 1 \in Int
      OBVIOUS
    <2>2. QED BY <1>5, <1>6, <2>1, SubSeqProperties
  <1>8. Len(SubSeq(e, 1, l)) = l
    BY <1>5, <1>7
  <1>9. \A j \in 1..l : SubSeq(e, 1, l)[j] = ALPHABET(q[j])
    <2> TAKE j \in 1..l
    <2>1. j \in 1..(l - 1 + 1) /\ 1 + j - 1 = j
      BY <1>5
    <2>2. QED BY <1>3, <1>6, <1>7, <2>1
  <1>10. QED BY <1>1, <1>7, <1>8, <1>9 DEF l, q

\* The bits of three bytes, cut in four and put together again.
LEMMA Recombined ==
  ASSUME NEW x \in Octets, NEW y \in Octets, NEW z \in Octets,
         NEW q1, NEW q2, NEW q3, NEW q4,
         q1 = x \div 4, q2 = ((x % 4) * 16) + (y \div 16),
         q3 = ((y % 16) * 4) + (z \div 64), q4 = z % 64
  PROVE  /\ ((q1 * 4) % 256) + (q2 \div 16) = x
         /\ ((q2 * 16) % 256) + (q3 \div 4) = y
         /\ ((q3 * 64) % 256) + q4 = z
  <1> DEFINE u == x \div 4
             t == x % 4
             p == y \div 16
             r == y % 16
             o == z \div 64
             v == z % 64
  <1>1. /\ x \in Int /\ 0 <= x /\ x <= 255 /\ y \in Int /\ 0 <= y /\ y <= 255
        /\ z \in Int /\ 0 <= z /\ z <= 255
    BY Bits
  <1>2. u \in 0..63 /\ t \in 0..3 /\ x = 4 * u + t
    BY <1>1
  <1>3. p \in 0..15 /\ r \in 0..15 /\ y = 16 * p + r
    BY <1>1
  <1>4. o \in 0..3 /\ v \in 0..63 /\ z = 64 * o + v
    BY <1>1
  <1>5. q1 = u /\ q2 = t * 16 + p /\ q3 = r * 4 + o /\ q4 = v
    OBVIOUS
  <1> HIDE DEF u, t, p, r, o, v
  <1>6. (u * 4) % 256 = u * 4 /\ (t * 16 + p) \div 16 = t
    BY <1>2, <1>3
  <1>7. ((t * 16 + p) * 16) % 256 = p * 16 /\ (r * 4 + o) \div 4 = r
    BY <1>2, <1>3, <1>4
  <1>8. ((r * 4 + o) * 64) % 256 = o * 64
    BY <1>3, <1>4
  <1>9. ((q1 * 4) % 256) + (q2 \div 16) = x
    BY <1>2, <1>5, <1>6
  <1>10. ((q2 * 16) % 256) + (q3 \div 4) = y
    BY <1>3, <1>5, <1>7
  <1>11. ((q3 * 64) % 256) + q4 = z
    BY <1>4, <1>5, <1>8
  <1>12. QED BY <1>9, <1>10, <1>11

\* Decoding the values of a chunk gives its bytes.
LEMMA DecodeChunk ==
  ASSUME NEW c \in Seq(Octets), Len(c) \in 1..3,
         NEW q \in Seq(Values), Len(q) = Len(c) + 1, \A j \in 1..Len(q) : q[j] = Sextets(c)[j]
  PROVE  decode_chunk(q) = c
  <1> DEFINE x == c[1]
             y == At(c, 2)
             z == At(c, 3)
  <1>1. x \in Octets /\ y \in Octets /\ z \in Octets
        /\ (Len(c) < 2 => y = 0) /\ (Len(c) < 3 => z = 0)
    BY SextetValues
  <1>a. /\ x \in Int /\ 0 <= x /\ x <= 255 /\ y \in Int /\ 0 <= y /\ y <= 255
        /\ z \in Int /\ 0 <= z /\ z <= 255
    BY <1>1, Bits
  <1>2. Sextets(c) = <<x \div 4, ((x % 4) * 16) + (y \div 16), ((y % 16) * 4) + (z \div 64), z % 64>>
    BY DEF Sextets
  <1>3. Len(c) >= 2 => y = c[2]
    BY DEF At
  <1>4. Len(c) >= 3 => z = c[3]
    BY DEF At
  <1>5. x = c[1]
    OBVIOUS
  <1> HIDE DEF x, y, z
  <1>0. Len(c) \in Int /\ 1 <= Len(c) /\ Len(c) <= 3 /\ Len(q) = Len(c) + 1
    <2>1. \A k \in 1..3 : k \in Int /\ 1 <= k /\ k <= 3
      OBVIOUS
    <2>2. QED BY <2>1
  <1>b. At(q, 2) = q[2] /\ (Len(q) >= 3 => At(q, 3) = q[3]) /\ (Len(q) >= 4 => At(q, 4) = q[4])
    BY <1>0 DEF At
  <1> DEFINE q3 == ((y % 16) * 4) + (z \div 64)
             q4 == z % 64
  <1>6. q[1] = x \div 4 /\ q[2] = ((x % 4) * 16) + (y \div 16)
    BY <1>0, <1>2
  <1>7. (Len(q) >= 3 => q[3] = q3) /\ (Len(q) >= 4 => q[4] = q4)
    BY <1>0, <1>2
  <1>8. /\ ((q[1] * 4) % 256) + (q[2] \div 16) = x
        /\ ((q[2] * 16) % 256) + (q3 \div 4) = y
        /\ ((q3 * 64) % 256) + q4 = z
    BY <1>1, <1>6, Recombined
  <1> HIDE DEF q3, q4
  <1> DEFINE d == <<((q[1] * 4) % 256) + (At(q, 2) \div 16),
                    ((At(q, 2) * 16) % 256) + (At(q, 3) \div 4),
                    ((At(q, 3) * 64) % 256) + At(q, 4)>>
  <1>9. decode_chunk(q) = SubSeq(d, 1, Len(c))
    <2>1. Len(q) # 1 /\ Len(q) - 1 = Len(c)
      OBVIOUS
    <2>2. QED BY <2>1 DEF decode_chunk
  <1>10. ((q[1] * 4) % 256) + (At(q, 2) \div 16) = x
    BY <1>b, <1>8
  <1>11. Len(q) >= 3 => ((At(q, 2) * 16) % 256) + (At(q, 3) \div 4) = y
    BY <1>b, <1>7, <1>8
  <1>12. Len(q) >= 4 => ((At(q, 3) * 64) % 256) + At(q, 4) = z
    <2>1. Len(q) >= 4 => Len(q) >= 3
      BY <1>0
    <2>2. QED BY <1>b, <1>7, <1>8, <2>1
  <1>13. d[1] = x /\ (Len(q) >= 3 => d[2] = y) /\ (Len(q) >= 4 => d[3] = z)
    BY <1>10, <1>11, <1>12
  <1> HIDE DEF d
  <1>14. \A j \in 1..Len(c) : d[j] = c[j]
    <2>1. \A j \in 1..Len(c) : j = 1 \/ (j = 2 /\ Len(c) >= 2) \/ (j = 3 /\ Len(c) >= 3)
      BY <1>0
    <2>2. Len(c) >= 2 => d[2] = c[2]
      BY <1>3, <1>13
    <2>3. Len(c) >= 3 => d[3] = c[3]
      BY <1>4, <1>13
    <2>4. QED BY <1>5, <1>13, <2>1, <2>2, <2>3
  <1>15. \A j \in 1..Len(c) : d[j] \in Octets
    BY <1>14
  <1> DEFINE l == Len(c)
  <1>16. l \in Int /\ 1 <= l /\ 1 \in Int
    OBVIOUS
  <1>17. SubSeq(d, 1, l) \in Seq(Octets) /\ Len(SubSeq(d, 1, l)) = (IF 1 <= l THEN l - 1 + 1 ELSE 0)
         /\ \A j \in 1..(l - 1 + 1) : SubSeq(d, 1, l)[j] = d[1 + j - 1]
    BY <1>15, <1>16, SubSeqProperties
  <1>18. Len(SubSeq(d, 1, l)) = Len(c)
    BY <1>16, <1>17
  <1>19. \A j \in 1..Len(SubSeq(d, 1, l)) : SubSeq(d, 1, l)[j] = c[j]
    <2> TAKE j \in 1..Len(SubSeq(d, 1, l))
    <2>1. j \in 1..l /\ j \in 1..(l - 1 + 1) /\ 1 + j - 1 = j
      BY <1>16, <1>18
    <2>2. QED BY <1>14, <1>17, <2>1
  <1>20. SubSeq(d, 1, l) = c
    BY <1>17, <1>18, <1>19, SeqEqual
  <1>21. QED BY <1>9, <1>20

\* Each chunk of bytes has one value more than bytes.
LEMMA Widths ==
  ASSUME NEW m \in Nat
  PROVE  LET n == Count(m, 3) IN
         /\ Count(m + n, 4) = n
         /\ \A i \in 1..n : ChunkEnd(m + n, 4, i) - 4 * (i - 1) = ChunkEnd(m, 3, i) - 3 * (i - 1) + 1
         /\ n > 0 => m + n = 4 * (n - 1) + (ChunkEnd(m, 3, n) - 3 * (n - 1) + 1)
  <1> DEFINE n == Count(m, 3)
  <1>1. n \in Nat /\ 3 * n >= m /\ 3 * n < m + 3
    BY ChunkBounds
  <1> HIDE DEF n
  <1>2. Count(m + n, 4) = n
    BY <1>1 DEF Count
  <1>3. ASSUME NEW i \in 1..n
        PROVE  ChunkEnd(m + n, 4, i) - 4 * (i - 1) = ChunkEnd(m, 3, i) - 3 * (i - 1) + 1
    <2>1. CASE i < n
      BY <1>1, <2>1 DEF ChunkEnd
    <2>2. CASE i = n
      BY <1>1, <2>2 DEF ChunkEnd
    <2>3. QED BY <1>1, <2>1, <2>2
  <1>4. n > 0 => m + n = 4 * (n - 1) + (ChunkEnd(m, 3, n) - 3 * (n - 1) + 1)
    BY <1>1 DEF ChunkEnd
  <1>5. QED BY <1>2, <1>3, <1>4 DEF n

\* The values an identifier is written with.
ValuesOf(b) ==
  [j \in 1..(Len(b) + Count(Len(b), 3)) |->
     Sextets(chunks(b, 3)[(j - 1) \div 4 + 1])[((j - 1) % 4) + 1]]

\* The chunks of bytes, and the values at their places.
LEMMA Places ==
  ASSUME NEW b \in Seq(Octets)
  PROVE  LET m == Len(b)
             n == Count(m, 3)
             c == chunks(b, 3)
             v == ValuesOf(b)
         IN /\ m \in Nat /\ n \in Nat /\ DOMAIN c = 1..n /\ c \in Seq(Seq(Octets))
            /\ v \in Seq(Values) /\ Len(v) = m + n
            /\ \A i \in 1..n :
                 /\ c[i] \in Seq(Octets) /\ Len(c[i]) \in 1..3
                 /\ ChunkEnd(m + n, 4, i) - 4 * (i - 1) = Len(c[i]) + 1
                 /\ \A j \in 1..(Len(c[i]) + 1) :
                      4 * (i - 1) + j \in 1..(m + n) /\ v[4 * (i - 1) + j] = Sextets(c[i])[j]
  <1> DEFINE m == Len(b)
             n == Count(m, 3)
             c == chunks(b, 3)
             v == ValuesOf(b)
  <1>0. m \in Nat
    OBVIOUS
  <1>1. /\ n \in Nat /\ 3 * n >= m /\ 3 * n < m + 3
        /\ \A i \in 1..n : ChunkEnd(m, 3, i) - 3 * (i - 1) \in 1..3
    BY <1>0, ChunkBounds
  <1>2. /\ c \in Seq(Seq(Octets)) /\ Len(c) = n /\ DOMAIN c = 1..n
        /\ \A i \in 1..n : c[i] \in Seq(Octets) /\ Len(c[i]) = ChunkEnd(m, 3, i) - 3 * (i - 1)
    <2>1. Cut(b, 3, Octets)
      BY Chunk
    <2>2. QED BY <2>1 DEF Cut
  <1>3. /\ Count(m + n, 4) = n
        /\ \A i \in 1..n : ChunkEnd(m + n, 4, i) - 4 * (i - 1) = Len(c[i]) + 1
        /\ n > 0 => m + n = 4 * (n - 1) + (Len(c[n]) + 1)
    <2>1. /\ Count(m + n, 4) = n
          /\ \A i \in 1..n : ChunkEnd(m + n, 4, i) - 4 * (i - 1) = ChunkEnd(m, 3, i) - 3 * (i - 1) + 1
          /\ n > 0 => m + n = 4 * (n - 1) + (ChunkEnd(m, 3, n) - 3 * (n - 1) + 1)
      BY <1>0, Widths
    <2> HIDE DEF m, n, c
    <2>2. n > 0 => n \in 1..n
      BY <1>1
    <2>3. QED BY <1>2, <2>1, <2>2
  <1>4. v = [j \in 1..(m + n) |-> Sextets(c[(j - 1) \div 4 + 1])[((j - 1) % 4) + 1]]
    BY DEF ValuesOf
  <1>5. \A i \in 1..n : Len(c[i]) \in 1..3
    BY <1>1, <1>2
  <1> HIDE DEF m, n, c, v
  <1>6. ASSUME NEW i \in 1..n, NEW j \in 1..(Len(c[i]) + 1)
        PROVE  4 * (i - 1) + j \in 1..(m + n) /\ v[4 * (i - 1) + j] = Sextets(c[i])[j]
    <2> DEFINE z == Len(c[i])
    <2>0. z \in 1..3
      BY <1>5
    <2>a. j \in 1..(z + 1)
      OBVIOUS
    <2>1. j \in 1..4 /\ Len(c[i]) \in 1..3
      <3> HIDE DEF z
      <3>1. j \in 1..4
        BY <2>0, <2>a
      <3>2. QED BY <2>0, <3>1 DEF z
    <2>2. 4 * (i - 1) + j <= m + n
      <3> DEFINE l == Len(c[i])
                 e == ChunkEnd(m + n, 4, i)
      <3>1. e - 4 * (i - 1) = l + 1 /\ l \in 1..3
        BY <1>3, <1>5
      <3>2. e <= m + n /\ e \in Int
        BY <1>0, <1>1 DEF ChunkEnd
      <3>3. j \in Int /\ j <= l + 1
        BY <2>1
      <3> HIDE DEF l, e
      <3>4. QED BY <1>0, <1>1, <3>1, <3>2, <3>3
    <2>3. 4 * (i - 1) + j \in 1..(m + n)
      BY <1>0, <1>1, <2>1, <2>2
    <2>4. (4 * (i - 1) + j - 1) \div 4 + 1 = i /\ ((4 * (i - 1) + j - 1) % 4) + 1 = j
      BY <1>1, <2>1
    <2>5. QED BY <1>4, <2>3, <2>4
  <1>7. ASSUME NEW j \in 1..(m + n) PROVE v[j] \in Values
    <2> DEFINE i == (j - 1) \div 4 + 1
               r == ((j - 1) % 4) + 1
    <2>1. i \in Int /\ r \in 1..4 /\ j = 4 * (i - 1) + r /\ i >= 1
      BY <1>0, <1>1
    <2>2. v[j] = Sextets(c[i])[r]
      BY <1>4
    <2> HIDE DEF i, r
    <2>3. i \in 1..n
      BY <1>0, <1>1, <2>1
    <2>4. c[i] \in Seq(Octets) /\ Len(c[i]) \in 1..3
      BY <1>2, <1>5, <2>3
    <2>5. QED BY <2>1, <2>2, <2>4, SextetValues
  <1>8. v \in Seq(Values) /\ Len(v) = m + n
    <2>1. v \in [1..(m + n) -> Values]
      BY <1>4, <1>7
    <2>2. m + n \in Nat
      BY <1>0, <1>1
    <2>3. QED BY <2>1, <2>2
  <1>9. QED BY <1>0, <1>1, <1>2, <1>3, <1>5, <1>6, <1>8 DEF m, n, c, v

\* What an identifier is written as, in one piece.
LEMMA WrittenAs ==
  ASSUME NEW b \in Seq(Octets)
  PROVE  encode_base64url(b) = [j \in 1..Len(ValuesOf(b)) |-> ALPHABET(ValuesOf(b)[j])]
  <1> DEFINE m == Len(b)
             n == Count(m, 3)
             c == chunks(b, 3)
             v == ValuesOf(b)
             w == [j \in 1..Len(v) |-> ALPHABET(v[j])]
             e == [i \in DOMAIN c |-> encode_chunk(c[i])]
             d == chunks(w, 4)
  <1>1. /\ m \in Nat /\ n \in Nat /\ DOMAIN c = 1..n
        /\ v \in Seq(Values) /\ Len(v) = m + n
        /\ \A i \in 1..n :
             /\ c[i] \in Seq(Octets) /\ Len(c[i]) \in 1..3
             /\ ChunkEnd(m + n, 4, i) - 4 * (i - 1) = Len(c[i]) + 1
             /\ \A j \in 1..(Len(c[i]) + 1) :
                  4 * (i - 1) + j \in 1..(m + n) /\ v[4 * (i - 1) + j] = Sextets(c[i])[j]
    BY Places
  <1>2. Count(m + n, 4) = n
    BY <1>1, Widths
  <1>3. encode_base64url(b) = FlattenSeq(e)
    BY DEF encode_base64url
  <1>4. e = [i \in 1..n |-> encode_chunk(c[i])]
    BY <1>1
  <1> HIDE DEF m, n, c, v, e
  <1>5. w \in Seq(Int) /\ Len(w) = m + n /\ \A j \in 1..(m + n) : w[j] = ALPHABET(v[j])
    <2>1. m + n \in Nat /\ Len(v) = m + n /\ \A j \in 1..(m + n) : v[j] \in Values
      BY <1>1
    <2>2. \A j \in 1..(m + n) : ALPHABET(v[j]) \in Int
      BY <2>1, Alphabet
    <2>3. w \in [1..(m + n) -> Int] /\ \A j \in 1..(m + n) : w[j] = ALPHABET(v[j])
      BY <2>1, <2>2
    <2> HIDE DEF w
    <2>4. QED BY <2>1, <2>3
  <1> HIDE DEF w
  <1>6. /\ d \in Seq(Seq(Int)) /\ Len(d) = n /\ DOMAIN d = 1..n
        /\ \A i \in 1..n :
             /\ d[i] \in Seq(Int) /\ Len(d[i]) = ChunkEnd(m + n, 4, i) - 4 * (i - 1)
             /\ \A j \in 1..Len(d[i]) : d[i][j] = w[4 * (i - 1) + j]
    <2>1. Cut(w, 4, Int)
      BY <1>5, Chunk
    <2>2. QED BY <1>2, <1>5, <2>1 DEF Cut
  <1>7. ASSUME NEW i \in 1..n PROVE encode_chunk(c[i]) = d[i]
    <2> DEFINE x == c[i]
               l == Len(x) + 1
               p == encode_chunk(x)
               q == d[i]
    <2>1. x \in Seq(Octets) /\ Len(x) \in 1..3 /\ ChunkEnd(m + n, 4, i) - 4 * (i - 1) = l
          /\ \A j \in 1..l : 4 * (i - 1) + j \in 1..(m + n) /\ v[4 * (i - 1) + j] = Sextets(x)[j]
      BY <1>1
    <2>2. p \in Seq(Int) /\ Len(p) = l /\ \A j \in 1..l : p[j] = ALPHABET(Sextets(x)[j])
      BY <2>1, EncodeChunk
    <2>3. q \in Seq(Int) /\ Len(q) = l /\ \A j \in 1..l : q[j] = w[4 * (i - 1) + j]
      <3> HIDE DEF d, l, x
      <3>1. d[i] \in Seq(Int) /\ Len(d[i]) = ChunkEnd(m + n, 4, i) - 4 * (i - 1)
            /\ \A j \in 1..Len(d[i]) : d[i][j] = w[4 * (i - 1) + j]
        BY <1>6
      <3>2. Len(d[i]) = l
        BY <2>1, <3>1
      <3>3. QED BY <3>1, <3>2
    <2>4. \A j \in 1..l : w[4 * (i - 1) + j] = ALPHABET(Sextets(x)[j])
      BY <1>5, <2>1
    <2> HIDE DEF p, q, l, d, x
    <2>5. Len(p) = Len(q) /\ \A j \in 1..Len(p) : p[j] = q[j]
      BY <2>2, <2>3, <2>4
    <2>6. p = q
      BY <2>2, <2>3, <2>5, SeqEqual
    <2>7. QED BY <2>6 DEF p, q, x
  <1>8. e = d
    <2>1. d = [i \in 1..n |-> d[i]]
      BY <1>6
    <2>2. QED BY <1>4, <1>7, <2>1
  <1>9. FlattenSeq(d) = w
    BY <1>5, FlattenChunks
  <1>10. QED BY <1>3, <1>8, <1>9 DEF w, v

\* What was written for an identifier is read as it, whatever its bytes.
LEMMA RoundTrip ==
  ASSUME NEW b \in Seq(Octets)
  PROVE  decode_base64url(encode_base64url(b)) = <<b>>
  <1> DEFINE m == Len(b)
             n == Count(m, 3)
             c == chunks(b, 3)
             v == ValuesOf(b)
             w == encode_base64url(b)
             read == [i \in DOMAIN w |-> base64url_value(w[i])]
             d == chunks(v, 4)
  <1>1. /\ m \in Nat /\ n \in Nat /\ DOMAIN c = 1..n /\ c \in Seq(Seq(Octets))
        /\ v \in Seq(Values) /\ Len(v) = m + n
        /\ \A i \in 1..n :
             /\ c[i] \in Seq(Octets) /\ Len(c[i]) \in 1..3
             /\ ChunkEnd(m + n, 4, i) - 4 * (i - 1) = Len(c[i]) + 1
             /\ \A j \in 1..(Len(c[i]) + 1) :
                  4 * (i - 1) + j \in 1..(m + n) /\ v[4 * (i - 1) + j] = Sextets(c[i])[j]
    BY Places
  <1>2. Count(m + n, 4) = n /\ (n > 0 => m + n = 4 * (n - 1) + (ChunkEnd(m, 3, n) - 3 * (n - 1) + 1))
    BY <1>1, Widths
  <1>3. w = [j \in 1..Len(v) |-> ALPHABET(v[j])]
    BY WrittenAs
  <1>a. n > 0 => Len(c[n]) = ChunkEnd(m, 3, n) - 3 * (n - 1)
    <2>1. Cut(b, 3, Octets)
      BY Chunk
    <2>2. n > 0 => n \in 1..n
      BY <1>1
    <2>3. QED BY <2>1, <2>2 DEF Cut
  <1>b. decode_base64url(w) =
          (IF NoResult \in Range(read) \/ Len(FlattenSeq(read)) % 4 = 1 \/ spare_bits_set(FlattenSeq(read)) THEN NoResult
           ELSE <<FlattenSeq([i \in DOMAIN chunks(FlattenSeq(read), 4) |->
                               decode_chunk(chunks(FlattenSeq(read), 4)[i])])>>)
    BY DEF decode_base64url
  <1>c. FlattenSeq(c) = b
    BY FlattenChunks
  <1> HIDE DEF m, n, c, v, w
  <1>4. read = [i \in 1..(m + n) |-> <<v[i]>>]
    <2>1. DOMAIN w = 1..(m + n) /\ \A i \in 1..(m + n) : w[i] = ALPHABET(v[i]) /\ v[i] \in Values
      BY <1>1, <1>3
    <2>2. \A i \in 1..(m + n) : base64url_value(w[i]) = <<v[i]>>
      BY <2>1, Alphabet
    <2>3. QED BY <2>1, <2>2
  <1>5. NoResult \notin Range(read)
    <2>1. \A x : <<x>> # <<>>
      OBVIOUS
    <2>2. \A y \in Range(read) : \E i \in 1..(m + n) : y = <<v[i]>>
      BY <1>4 DEF Range
    <2>3. QED BY <2>1, <2>2 DEF NoResult
  <1> HIDE DEF read
  <1>6. FlattenSeq(read) = v
    <2>1. /\ chunks(v, 1) = [i \in 1..Count(m + n, 1) |-> SubSeq(v, 1 * (i - 1) + 1, ChunkEnd(m + n, 1, i))]
      <3>1. Cut(v, 1, Values)
        BY <1>1, Chunk
      <3>2. QED BY <1>1, <3>1 DEF Cut
    <2>2. Count(m + n, 1) = m + n
      BY <1>1 DEF Count
    <2>3. ASSUME NEW i \in 1..(m + n)
          PROVE  SubSeq(v, 1 * (i - 1) + 1, ChunkEnd(m + n, 1, i)) = <<v[i]>>
      <3>1. 1 * (i - 1) + 1 = i /\ ChunkEnd(m + n, 1, i) = i
        BY <1>1 DEF ChunkEnd
      <3>2. SubSeq(v, i, i) = <<v[i]>>
        <4>1. i \in 1..Len(v) /\ i \in i..Len(v) /\ i \in Int /\ i + 1 \in Int /\ i < i + 1
          BY <1>1
        <4>2. v[i] \in Values
          BY <1>1, <4>1
        <4>3. SubSeq(v, i, i) = <<v[i]>> \o SubSeq(v, i + 1, i)
          BY <1>1, <4>1, SubSeqRecursiveFirst
        <4>4. SubSeq(v, i + 1, i) = <<>>
          BY <4>1, SubSeqEmpty
        <4>5. <<v[i]>> \o <<>> = <<v[i]>>
          BY <4>2
        <4>6. QED BY <4>3, <4>4, <4>5
      <3>3. QED BY <3>1, <3>2
    <2>4. chunks(v, 1) = read
      BY <1>4, <2>1, <2>2, <2>3
    <2>5. QED BY <1>1, <2>4, FlattenChunks
  <1>7. Len(v) % 4 # 1 /\ ~spare_bits_set(v)
    <2>1. CASE n = 0
      <3>1. m = 0
        BY <1>1, <2>1, ChunkBounds DEF n
      <3>2. Len(v) = 0
        BY <1>1, <2>1, <3>1
      <3>3. QED BY <3>2 DEF spare_bits_set
    <2>2. CASE n > 0
      <3> DEFINE x == c[n]
                 l == Len(x)
      <3>1. n \in 1..n
        BY <1>1, <2>2
      <3>2. x \in Seq(Octets) /\ l \in 1..3
            /\ \A j \in 1..(l + 1) : v[4 * (n - 1) + j] = Sextets(x)[j]
        BY <1>1, <3>1
      <3>3. Len(v) = 4 * (n - 1) + (l + 1)
        BY <1>1, <1>2, <1>a, <2>2
      <3>4. Last(v) = v[Len(v)]
        BY DEF Last
      <3> HIDE DEF x, l
      <3>5. Last(v) = Sextets(x)[l + 1]
        <4>1. l + 1 \in 1..(l + 1)
          BY <3>2
        <4>2. QED BY <3>2, <3>3, <3>4, <4>1
      <3>6. Len(v) % 4 # 1 /\ (Len(v) % 4 = 2 => l = 1) /\ (Len(v) % 4 = 3 => l = 2)
        <4>1. \A k \in Nat, j \in 1..3 :
                LET z == 4 * k + (j + 1) IN z % 4 # 1 /\ (z % 4 = 2 => j = 1) /\ (z % 4 = 3 => j = 2)
          OBVIOUS
        <4>2. n - 1 \in Nat
          BY <1>1, <2>2
        <4>3. QED BY <3>2, <3>3, <4>1, <4>2
      <3>7. /\ x[1] \in Octets /\ At(x, 2) \in Octets /\ At(x, 3) \in Octets
            /\ l < 2 => At(x, 2) = 0
            /\ l < 3 => At(x, 3) = 0
        BY <3>2, SextetValues DEF l
      <3>8. x[1] \in Int /\ At(x, 2) \in Int
        BY <3>7, Bits
      <3>9. l = 1 => Sextets(x)[l + 1] % 16 = 0
        <4> SUFFICES ASSUME l = 1 PROVE Sextets(x)[2] % 16 = 0
          OBVIOUS
        <4>1. Sextets(x)[2] = ((x[1] % 4) * 16) + (At(x, 2) \div 16) /\ At(x, 2) = 0
          BY <3>7 DEF Sextets
        <4>2. QED BY <3>8, <4>1
      <3>10. l = 2 => Sextets(x)[l + 1] % 4 = 0
        <4> SUFFICES ASSUME l = 2 PROVE Sextets(x)[3] % 4 = 0
          OBVIOUS
        <4>1. Sextets(x)[3] = ((At(x, 2) % 16) * 4) + (At(x, 3) \div 64) /\ At(x, 3) = 0
          BY <3>7 DEF Sextets
        <4>2. QED BY <3>8, <4>1
      <3>11. QED BY <3>5, <3>6, <3>9, <3>10 DEF spare_bits_set
    <2>3. QED BY <1>1, <2>1, <2>2
  <1>8. [i \in DOMAIN d |-> decode_chunk(d[i])] = c
    <2>1. /\ DOMAIN d = 1..n
          /\ \A i \in 1..n :
               /\ d[i] \in Seq(Values) /\ Len(d[i]) = ChunkEnd(m + n, 4, i) - 4 * (i - 1)
               /\ \A j \in 1..Len(d[i]) : d[i][j] = v[4 * (i - 1) + j]
      <3>1. Cut(v, 4, Values)
        BY <1>1, Chunk
      <3>2. QED BY <1>1, <1>2, <3>1 DEF Cut
    <2> HIDE DEF d
    <2>2. ASSUME NEW i \in 1..n PROVE decode_chunk(d[i]) = c[i]
      <3>1. /\ c[i] \in Seq(Octets) /\ Len(c[i]) \in 1..3
            /\ d[i] \in Seq(Values) /\ Len(d[i]) = Len(c[i]) + 1
        BY <1>1, <2>1
      <3>2. \A j \in 1..Len(d[i]) : d[i][j] = Sextets(c[i])[j]
        BY <1>1, <2>1
      <3>3. QED BY <3>1, <3>2, DecodeChunk
    <2>3. c = [i \in 1..n |-> c[i]]
      BY <1>1
    <2>4. QED BY <2>1, <2>2, <2>3
  <1>9. decode_base64url(w) = <<FlattenSeq(c)>>
    BY <1>5, <1>6, <1>7, <1>8, <1>b
  <1>10. QED BY <1>c, <1>9 DEF w

\* A link leads to the identifier it was written for.
LEMMA LinkResolves ==
  ASSUME NEW name \in Names
  PROVE  provider_schema_id(encode_base64url(name)) = <<name>>
  <1>1. name \in Seq(Octets) /\ Utf8(name)
    BY SegmentConstants
  <1>2. decode_base64url(encode_base64url(name)) = <<name>>
    BY <1>1, RoundTrip
  <1>3. <<name>> # NoResult /\ <<name>>[1] = name
    BY DEF NoResult
  <1>4. QED BY <1>1, <1>2, <1>3 DEF provider_schema_id

\* Only the segment the server writes for an identifier is read as it.
LEMMA SpelledOnce ==
  ASSUME NEW spelling, provider_schema_id(spelling) # NoResult
  PROVE  encode_base64url(provider_schema_id(spelling)[1]) = spelling
  BY DEF provider_schema_id

\* A segment with no capital letter is its own folding.
LEMMA FoldedIsSame ==
  ASSUME NEW spelling \in Seq(Octets), \A i \in DOMAIN spelling : spelling[i] \notin 65..90
  PROVE  Folded(spelling) = spelling
  <1>1. spelling = [i \in DOMAIN spelling |-> spelling[i]]
    OBVIOUS
  <1>2. QED BY <1>1 DEF Folded

LEMMA NoCapitals ==
  ASSUME NEW codec \in {"PathProviderIdV1", "PathMessageIdV1"}, NEW spelling \in Seq(Octets),
         decode_path_segment(codec, spelling) # NoResult
  PROVE  \A i \in DOMAIN spelling : spelling[i] \notin 65..90
  <1> SUFFICES ASSUME NEW i \in DOMAIN spelling, spelling[i] \in 65..90 PROVE FALSE
    OBVIOUS
  <1>0. i \in 1..Len(spelling) /\ Len(spelling) \in Nat
    OBVIOUS
  <1>a. \A x \in 65..90 : ~Lower(x) /\ ~Digit(x) /\ x \notin {95, 45} /\ x # 45 /\ x \notin 97..102
    BY DEF Lower, Digit
  <1>1. CASE codec = "PathProviderIdV1"
    <2>1. provider_id(spelling) # NoResult
      BY <1>1 DEF decode_path_segment
    <2>2. /\ Lower(spelling[1])
          /\ \A byte \in Range(Tail(spelling)) : Lower(byte) \/ Digit(byte) \/ byte \in {95, 45}
      BY <2>1 DEF provider_id
    <2>3. CASE i = 1
      <3>1. spelling[1] \in 65..90
        BY <2>3
      <3>2. ~Lower(spelling[1])
        BY <1>a, <3>1
      <3>3. QED BY <2>2, <3>2
    <2>4. CASE i # 1
      <3>1. spelling # <<>> /\ i - 1 \in 1..(Len(spelling) - 1) /\ (i - 1) + 1 = i
        BY <1>0, <2>4
      <3>2. /\ Tail(spelling) \in Seq(Octets) /\ Len(Tail(spelling)) = Len(spelling) - 1
            /\ \A j \in 1..Len(Tail(spelling)) : Tail(spelling)[j] = spelling[j + 1]
        BY <3>1, HeadTailProperties
      <3>3. i - 1 \in DOMAIN Tail(spelling) /\ Tail(spelling)[i - 1] = spelling[i]
        <4>1. i - 1 \in 1..Len(Tail(spelling))
          BY <3>1, <3>2
        <4>2. Tail(spelling)[i - 1] = spelling[(i - 1) + 1]
          BY <3>2, <4>1
        <4>3. DOMAIN Tail(spelling) = 1..Len(Tail(spelling))
          BY <3>2, LenProperties
        <4>4. QED BY <3>1, <4>1, <4>2, <4>3
      <3>4. spelling[i] \in Range(Tail(spelling))
        BY <3>3 DEF Range
      <3>5. Lower(spelling[i]) \/ Digit(spelling[i]) \/ spelling[i] \in {95, 45}
        BY <2>2, <3>4
      <3>6. QED BY <1>a, <3>5
    <2>5. QED BY <2>3, <2>4
  <1>2. CASE codec = "PathMessageIdV1"
    <2>1. message_id(spelling) # NoResult
      BY <1>2 DEF decode_path_segment
    <2>2. /\ Len(spelling) = 36
          /\ \A j \in 1..36 : IF j \in Dashes THEN spelling[j] = 45
                              ELSE Digit(spelling[j]) \/ spelling[j] \in 97..102
      BY <2>1 DEF message_id
    <2>3. spelling[i] = 45 \/ Digit(spelling[i]) \/ spelling[i] \in 97..102
      BY <1>0, <2>2
    <2>4. QED BY <1>a, <2>3
  <1>3. QED BY <1>1, <1>2

LEMMA SegmentsStart == SegmentInit => SegmentInv
  BY DEF SegmentInit, SegmentInv

LEMMA SegmentsStep == SegmentInv /\ [SegmentNext]_segmentVars => SegmentInv'
  <1> SUFFICES ASSUME SegmentInv, [SegmentNext]_segmentVars PROVE SegmentInv'
    OBVIOUS
  <1> DEFINE Written(l) == \A link \in l : \E name \in Names : link = <<encode_base64url(name), name>>
             Answered(a) == \/ a = <<"none">>
                            \/ /\ a = <<a[1], a[2], decode_path_segment(a[1], a[2])>>
                               /\ a[1] \in SegmentCodecs
                               /\ a[1] = "PathProviderSchemaIdV1" \/ a[2] \in Spellings
  <1>0. SegmentInv <=> Written(links) /\ Answered(answer)
    BY DEF SegmentInv, Schema
  <1>a. SegmentInv' <=> Written(links') /\ Answered(answer')
    BY DEF SegmentInv, Schema
  <1>1. ASSUME NEW name \in Names, Publish(name) PROVE SegmentInv'
    <2>1. links' = links \cup {<<encode_base64url(name), name>>} /\ answer' = answer
      BY <1>1 DEF Publish
    <2>2. Written(links')
      BY <1>0, <2>1
    <2> HIDE DEF Written, Answered
    <2>3. QED BY <1>0, <1>a, <2>1, <2>2
  <1>2. ASSUME NEW codec \in SegmentCodecs, NEW spelling, Follow(codec, spelling),
               codec = "PathProviderSchemaIdV1" \/ spelling \in Spellings
        PROVE  SegmentInv'
    <2>1. answer' = <<codec, spelling, decode_path_segment(codec, spelling)>> /\ links' = links
      BY <1>2 DEF Follow
    <2>2. answer'[1] = codec /\ answer'[2] = spelling
      BY <2>1
    <2>3. Answered(answer')
      BY <1>2, <2>1, <2>2
    <2> HIDE DEF Written, Answered
    <2>4. QED BY <1>0, <1>a, <2>1, <2>3
  <1>3. CASE Respond
    <2>1. answer' = <<"none">> /\ links' = links
      BY <1>3 DEF Respond
    <2>2. Answered(answer')
      BY <2>1
    <2> HIDE DEF Written, Answered
    <2>3. QED BY <1>0, <1>a, <2>1, <2>2
  <1>4. CASE UNCHANGED segmentVars
    BY <1>4 DEF segmentVars, SegmentInv, Schema
  <1>5. "PathProviderSchemaIdV1" \in SegmentCodecs
    BY DEF SegmentCodecs
  <1>6. QED BY <1>1, <1>2, <1>3, <1>4, <1>5 DEF SegmentNext

\* For all identifiers and segments of bytes, whatever counts as characters: a
\* link the server wrote leads back to its identifier, an identifier has one
\* spelling (provider_schema_id), and of spellings that differ only in case at
\* most one is accepted (provider_id, message_id).
THEOREM Segments == SegmentSpec => []SegmentSafety
  <1>1. SegmentInv => SegmentSafety
    <2> SUFFICES ASSUME SegmentInv PROVE SegmentSafety
      OBVIOUS
    <2>1. CASE answer = <<"none">>
      <3>1. answer[1] = "none"
        BY <2>1
      <3>2. QED BY <3>1 DEF SegmentSafety, LinksResolve, OneSpelling, CaseApart, Schema
    <2>2. CASE answer # <<"none">>
      <3> DEFINE codec == answer[1]
                 spelling == answer[2]
      <3>1. /\ answer = <<codec, spelling, decode_path_segment(codec, spelling)>> /\ codec \in SegmentCodecs
            /\ codec = "PathProviderSchemaIdV1" \/ spelling \in Spellings
            /\ \A link \in links : \E name \in Names : link = <<encode_base64url(name), name>>
        BY <2>2 DEF SegmentInv, Schema
      <3>2. answer[3] = decode_path_segment(codec, spelling)
        BY <3>1
      <3>3. Schema => answer[3] = provider_schema_id(spelling)
        BY <3>2 DEF Schema, decode_path_segment
      <3>4. LinksResolve
        <4> SUFFICES ASSUME Schema, NEW link \in links, link[1] = answer[2] PROVE answer[3] = <<link[2]>>
          BY DEF LinksResolve
        <4>1. PICK name \in Names : link = <<encode_base64url(name), name>>
          BY <3>1
        <4>2. spelling = encode_base64url(name) /\ link[2] = name
          BY <4>1
        <4>3. QED BY <3>3, <4>2, LinkResolves
      <3>5. OneSpelling
        <4> SUFFICES ASSUME Schema, answer[3] # NoResult, NEW link \in links, link[2] = answer[3][1]
                     PROVE  link[1] = answer[2]
          BY DEF OneSpelling
        <4>1. PICK name \in Names : link = <<encode_base64url(name), name>>
          BY <3>1
        <4>2. link[1] = encode_base64url(name) /\ name = answer[3][1]
          BY <4>1
        <4>3. encode_base64url(answer[3][1]) = spelling
          BY <3>3, SpelledOnce
        <4>4. QED BY <4>2, <4>3
      <3>6. CaseApart
        <4> SUFFICES ASSUME codec \in {"PathProviderIdV1", "PathMessageIdV1"}, NEW other \in Spellings,
                            answer[3] # NoResult, other # spelling, Folded(other) = Folded(spelling),
                            decode_path_segment(codec, other) # NoResult
                     PROVE  FALSE
          BY DEF CaseApart
        <4>1. spelling \in Seq(Octets) /\ other \in Seq(Octets)
          BY <3>1, SegmentConstants
        <4>2. Folded(spelling) = spelling
          BY <3>2, <4>1, NoCapitals, FoldedIsSame
        <4>3. Folded(other) = other
          BY <4>1, NoCapitals, FoldedIsSame
        <4>4. QED BY <4>2, <4>3
      <3>7. QED BY <3>4, <3>5, <3>6 DEF SegmentSafety
    <2>3. QED BY <2>1, <2>2
  <1>2. QED BY SegmentsStart, SegmentsStep, <1>1, PTL DEF SegmentSpec

-----------------------------------------------------------------------------
(***************************************************************************)
(* The ledger.                                                             *)
(***************************************************************************)
\* How two encodings can be told apart whatever follows them.
Splits(a, b) ==
  \A s, t \in Seq(Nat) : a \o s = b \o t => a = b /\ s = t

LEMMA Joined ==
  ASSUME NEW a \in Seq(Nat), NEW b \in Seq(Nat)
  PROVE  /\ a \o b \in Seq(Nat) /\ Len(a \o b) = Len(a) + Len(b)
         /\ \A i \in 1..Len(a) : (a \o b)[i] = a[i]
         /\ \A i \in 1..Len(b) : (a \o b)[Len(a) + i] = b[i]
  OBVIOUS

LEMMA Regrouped == \A a, b, c \in Seq(Nat) : (a \o b) \o c = a \o (b \o c)
  BY ConcatAssociative

LEMMA Cancelled ==
  ASSUME NEW a \in Seq(Nat), NEW s \in Seq(Nat), NEW t \in Seq(Nat), a \o s = a \o t
  PROVE  s = t
  <1>1. \A S : \A u, v, w \in Seq(S) : u \o v = u \o w => v = w
    BY ConcatSimplifications
  <1>2. \A u, v, w \in Seq(Nat) : u \o v = u \o w => v = w
    BY <1>1
  <1>3. QED BY <1>2

LEMMA SameLengthSplits ==
  ASSUME NEW a \in Seq(Nat), NEW b \in Seq(Nat), Len(a) = Len(b)
  PROVE  Splits(a, b)
  <1> SUFFICES ASSUME NEW s \in Seq(Nat), NEW t \in Seq(Nat), a \o s = b \o t
               PROVE  a = b /\ s = t
    BY DEF Splits
  <1>1. \A i \in 1..Len(a) : a[i] = b[i]
    <2> TAKE i \in 1..Len(a)
    <2>1. (a \o s)[i] = a[i] /\ (b \o t)[i] = b[i]
      OBVIOUS
    <2>2. QED BY <2>1
  <1>2. a = b
    BY <1>1, SeqEqual
  <1>3. a \o s = a \o t
    BY <1>2
  <1>4. QED BY <1>2, <1>3, Cancelled

LEMMA LengthCells ==
  ASSUME NEW n \in Nat
  PROVE  /\ u32_be(n) \in Seq(Nat) /\ Len(u32_be(n)) = 4 /\ u32_be(n)[4] = n
         /\ to_be_bytes(n) \in Seq(Nat) /\ Len(to_be_bytes(n)) = 8 /\ to_be_bytes(n)[8] = n
  BY DEF u32_be, to_be_bytes

LEMMA Framing ==
  ASSUME NEW v \in Seq(Nat)
  PROVE  lp32(v) \in Seq(Nat) /\ Len(lp32(v)) = 4 + Len(v) /\ lp32(v)[4] = Len(v)
  <1> DEFINE u == u32_be(Len(v))
  <1>1. Len(v) \in Nat
    OBVIOUS
  <1>2. u \in Seq(Nat) /\ Len(u) = 4 /\ u[4] = Len(v)
    BY <1>1, LengthCells
  <1>3. lp32(v) = u \o v
    BY DEF lp32
  <1> HIDE DEF u
  <1>4. u \o v \in Seq(Nat) /\ Len(u \o v) = 4 + Len(v)
    <2>1. u \o v \in Seq(Nat) /\ Len(u \o v) = Len(u) + Len(v)
      BY <1>2, Joined
    <2>2. QED BY <1>2, <2>1
  <1>5. (u \o v)[4] = u[4]
    <2>1. 4 \in 1..Len(u)
      BY <1>2
    <2>2. QED BY <1>2, <2>1, Joined
  <1>6. QED BY <1>2, <1>3, <1>4, <1>5

\* A framed value says where it ends.
LEMMA FramedSplits ==
  ASSUME NEW v \in Seq(Nat), NEW w \in Seq(Nat)
  PROVE  Splits(lp32(v), lp32(w)) /\ (lp32(v) = lp32(w) => v = w)
  <1>1. /\ lp32(v) \in Seq(Nat) /\ Len(lp32(v)) = 4 + Len(v) /\ lp32(v)[4] = Len(v)
        /\ lp32(w) \in Seq(Nat) /\ Len(lp32(w)) = 4 + Len(w) /\ lp32(w)[4] = Len(w)
    BY Framing
  <1>2. ASSUME Len(v) = Len(w)
        PROVE  Splits(lp32(v), lp32(w)) /\ (lp32(v) = lp32(w) => v = w)
    <2>1. Splits(lp32(v), lp32(w))
      BY <1>1, <1>2, SameLengthSplits
    <2>2. ASSUME lp32(v) = lp32(w) PROVE v = w
      <3>1. u32_be(Len(v)) \in Seq(Nat) /\ u32_be(Len(v)) \o v = u32_be(Len(v)) \o w
        BY <1>2, <2>2, LengthCells DEF lp32
      <3>2. QED BY <3>1, Cancelled
    <2>3. QED BY <2>1, <2>2
  <1>3. ASSUME Len(v) # Len(w), NEW s \in Seq(Nat), NEW t \in Seq(Nat)
        PROVE  lp32(v) \o s # lp32(w) \o t
    <2> DEFINE a == lp32(v)
               b == lp32(w)
    <2>1. /\ a \in Seq(Nat) /\ Len(a) >= 4 /\ a[4] = Len(v)
          /\ b \in Seq(Nat) /\ Len(b) >= 4 /\ b[4] = Len(w)
      BY <1>1
    <2> HIDE DEF a, b
    <2>2. (a \o s)[4] = a[4] /\ (b \o t)[4] = b[4]
      BY <2>1
    <2>3. a \o s # b \o t
      BY <1>3, <2>1, <2>2
    <2>4. QED BY <2>3 DEF a, b
  <1>4. ASSUME Len(v) # Len(w)
        PROVE  Splits(lp32(v), lp32(w)) /\ lp32(v) # lp32(w)
    BY <1>1, <1>3, <1>4 DEF Splits
  <1>5. QED BY <1>2, <1>4

\* An encoding that goes on as one that splits.
Continues(a, b, p, q) == Splits(a, b) /\ (a = b => Splits(p, q))

LEMMA LongerSplits ==
  ASSUME NEW a \in Seq(Nat), NEW b \in Seq(Nat), NEW p \in Seq(Nat), NEW q \in Seq(Nat),
         Continues(a, b, p, q)
  PROVE  /\ a \o p \in Seq(Nat) /\ b \o q \in Seq(Nat)
         /\ Splits(a \o p, b \o q)
         /\ a \o p = b \o q => a = b /\ p = q
  <1>1. a \o p \in Seq(Nat) /\ b \o q \in Seq(Nat)
    BY ConcatProperties
  <1>2. a \o p = b \o q => a = b /\ p = q
    BY DEF Continues, Splits
  <1>3. ASSUME NEW s \in Seq(Nat), NEW t \in Seq(Nat), (a \o p) \o s = (b \o q) \o t
        PROVE  a \o p = b \o q /\ s = t
    <2> DEFINE Cat(x, y) == x \o y
    <2>0. Cat(Cat(a, p), s) = Cat(Cat(b, q), t)
      BY <1>3
    <2>1. a \o (p \o s) = b \o (q \o t)
      <3>1. \A x, y, z \in Seq(Nat) : Cat(Cat(x, y), z) = Cat(x, Cat(y, z))
        BY Regrouped, Zenon
      <3> HIDE DEF Cat
      <3>2. Cat(a, Cat(p, s)) = Cat(b, Cat(q, t))
        BY <2>0, <3>1
      <3>3. QED BY <3>2 DEF Cat
    <2>2. p \o s \in Seq(Nat) /\ q \o t \in Seq(Nat)
      BY ConcatProperties
    <2>3. a = b /\ p \o s = q \o t
      BY <2>1, <2>2 DEF Continues, Splits
    <2>4. p = q /\ s = t
      BY <2>3 DEF Continues, Splits
    <2>5. QED BY <2>3, <2>4
  <1>4. QED BY <1>1, <1>2, <1>3 DEF Splits

LEMMA FramesOf ==
  ASSUME NEW v \in Seq(Seq(Nat))
  PROVE  LET f == [i \in DOMAIN v |-> lp32(v[i])]
         IN /\ f \in Seq(Seq(Nat)) /\ Len(f) = Len(v) /\ lp32_all(v) = FlattenSeq(f)
            /\ \A i \in 1..Len(v) : f[i] = lp32(v[i]) /\ v[i] \in Seq(Nat) /\ lp32(v[i]) \in Seq(Nat)
  <1> DEFINE f == [i \in DOMAIN v |-> lp32(v[i])]
             n == Len(v)
  <1>1. n \in Nat /\ DOMAIN v = 1..n /\ \A i \in 1..n : v[i] \in Seq(Nat)
    OBVIOUS
  <1>2. \A i \in 1..n : lp32(v[i]) \in Seq(Nat)
    BY <1>1, Framing
  <1>3. f = [i \in 1..n |-> lp32(v[i])] /\ f \in [1..n -> Seq(Nat)]
    BY <1>1, <1>2
  <1>4. DOMAIN f = 1..n /\ \A i \in 1..n : f[i] = lp32(v[i])
    BY <1>3
  <1>5. lp32_all(v) = FlattenSeq(f)
    BY DEF lp32_all
  <1> HIDE DEF f, n
  <1>6. f \in Seq(Seq(Nat)) /\ Len(f) = n
    BY <1>1, <1>3, <1>4
  <1>7. QED BY <1>1, <1>2, <1>4, <1>5, <1>6 DEF f, n

\* Values framed one after the other, as many here as there.
LEMMA AllSplit ==
  ASSUME NEW v \in Seq(Seq(Nat)), NEW w \in Seq(Seq(Nat)), Len(v) = Len(w)
  PROVE  /\ lp32_all(v) \in Seq(Nat) /\ lp32_all(w) \in Seq(Nat)
         /\ Splits(lp32_all(v), lp32_all(w))
         /\ lp32_all(v) = lp32_all(w) => v = w
  <1> DEFINE a == [i \in DOMAIN v |-> lp32(v[i])]
             b == [i \in DOMAIN w |-> lp32(w[i])]
             n == Len(v)
  <1>1. /\ a \in Seq(Seq(Nat)) /\ Len(a) = n /\ lp32_all(v) = FlattenSeq(a)
        /\ \A i \in 1..n : a[i] = lp32(v[i]) /\ v[i] \in Seq(Nat) /\ a[i] \in Seq(Nat)
    BY FramesOf
  <1>2. /\ b \in Seq(Seq(Nat)) /\ Len(b) = n /\ lp32_all(w) = FlattenSeq(b)
        /\ \A i \in 1..n : b[i] = lp32(w[i]) /\ w[i] \in Seq(Nat) /\ b[i] \in Seq(Nat)
    BY FramesOf
  <1>3. n \in Nat
    OBVIOUS
  <1> HIDE DEF a, b
  <1>4. CASE n = 0
    <2>1. \A A : \A u \in Seq(A) : Len(u) = 0 => u = <<>>
      OBVIOUS
    <2>2. v = <<>> /\ w = <<>> /\ a = <<>> /\ b = <<>>
      BY <1>1, <1>2, <1>4, <2>1
    <2>3. lp32_all(v) = <<>> /\ lp32_all(w) = <<>>
      BY <1>1, <1>2, <2>2 DEF FlattenSeq
    <2>4. <<>> \in Seq(Nat) /\ Len(<<>>) = Len(<<>>)
      OBVIOUS
    <2>5. QED BY <2>2, <2>3, <2>4, SameLengthSplits
  <1>5. CASE n > 0
    <2> HIDE DEF n
    <2>1. PICK f \in [1..n -> Seq(Nat)] : Concatenates(a, f, n)
      BY <1>1, <1>3, <1>5, HasConcatenations
    <2>2. PICK g \in [1..n -> Seq(Nat)] : Concatenates(b, g, n)
      BY <1>2, <1>3, <1>5, HasConcatenations
    <2>3. lp32_all(v) = f[n] /\ lp32_all(w) = g[n]
      BY <1>1, <1>2, <2>1, <2>2, FlattenedIs
    <2>4. f[1] = a[1] /\ g[1] = b[1] /\ \A i \in 2..n : f[i] = f[i - 1] \o a[i] /\ g[i] = g[i - 1] \o b[i]
      BY <2>1, <2>2 DEF Concatenates
    <2> DEFINE Same(i) == \A j \in 1..i : v[j] = w[j]
               Good(i) == Splits(f[i], g[i]) /\ (f[i] = g[i] => Same(i))
               S == {i \in Nat : i + 1 <= n => Good(i + 1)}
    <2>5. \A i \in 1..n : Splits(a[i], b[i]) /\ (a[i] = b[i] => v[i] = w[i])
      BY <1>1, <1>2, FramedSplits
    <2>6. 0 \in S
      <3>1. 1 \in 1..n
        BY <1>3, <1>5
      <3>2. Splits(a[1], b[1]) /\ (a[1] = b[1] => v[1] = w[1])
        BY <2>5, <3>1
      <3>3. Splits(f[1], g[1]) /\ (f[1] = g[1] => v[1] = w[1])
        BY <2>4, <3>2
      <3>4. (v[1] = w[1]) => Same(1)
        OBVIOUS
      <3>5. Good(1)
        BY <3>3, <3>4
      <3> HIDE DEF Good
      <3>6. QED BY <3>5
    <2>7. ASSUME NEW i \in S PROVE i + 1 \in S
      <3>1. i \in Nat
        OBVIOUS
      <3>2. ASSUME i + 2 <= n PROVE Good(i + 2)
        <4>1. Good(i + 1) /\ i + 1 \in 1..n /\ i + 2 \in 1..n /\ i + 2 \in 2..n /\ (i + 2) - 1 = i + 1
          <5> HIDE DEF Good
          <5>1. QED BY <1>3, <3>1, <3>2
        <4> DEFINE j == i + 1
                   k == i + 2
        <4>2. f[k] = f[j] \o a[k] /\ g[k] = g[j] \o b[k]
          BY <2>4, <4>1
        <4>3. f[j] \in Seq(Nat) /\ g[j] \in Seq(Nat) /\ a[k] \in Seq(Nat) /\ b[k] \in Seq(Nat)
          BY <1>1, <1>2, <4>1
        <4>4. Splits(f[j], g[j]) /\ (f[j] = g[j] => Same(j)) /\ Splits(a[k], b[k]) /\ (a[k] = b[k] => v[k] = w[k])
          BY <2>5, <4>1
        <4>5. Same(j) /\ v[k] = w[k] => Same(k)
          <5>1. \A l \in 1..k : l \in 1..j \/ l = k
            BY <3>1
          <5>2. QED BY <5>1
        <4> HIDE DEF j, k, Same
        <4>6. Splits(f[j] \o a[k], g[j] \o b[k]) /\ (f[j] \o a[k] = g[j] \o b[k] => f[j] = g[j] /\ a[k] = b[k])
          <5> DEFINE x == f[j]
                     y == g[j]
                     p == a[k]
                     q == b[k]
          <5>1. x \in Seq(Nat) /\ y \in Seq(Nat) /\ p \in Seq(Nat) /\ q \in Seq(Nat) /\ Splits(x, y) /\ Splits(p, q)
            BY <4>3, <4>4
          <5> HIDE DEF x, y, p, q
          <5>2. Splits(x \o p, y \o q) /\ (x \o p = y \o q => x = y /\ p = q)
            BY <5>1, LongerSplits DEF Continues
          <5>3. QED BY <5>2 DEF x, y, p, q
        <4>7. Good(k)
          BY <4>2, <4>4, <4>5, <4>6
        <4>8. QED BY <4>7 DEF k
      <3> HIDE DEF Good
      <3>3. i + 1 \in Nat /\ (i + 1) + 1 = i + 2
        BY <3>1
      <3>4. QED BY <3>2, <3>3
    <2> HIDE DEF Good
    <2>8. S \in SUBSET Nat
      OBVIOUS
    <2> HIDE DEF S
    <2>9. S = Nat
      BY <2>6, <2>7, <2>8, SetInduction
    <2>10. n - 1 \in S /\ (n - 1) + 1 = n
      BY <1>3, <1>5, <2>9
    <2>11. Good(n)
      <3>1. n - 1 + 1 <= n => Good(n - 1 + 1)
        BY <2>10 DEF S
      <3>2. QED BY <1>3, <2>10, <3>1
    <2>12. f[n] \in Seq(Nat) /\ g[n] \in Seq(Nat)
      BY <1>3, <1>5
    <2>13. Splits(f[n], g[n]) /\ (f[n] = g[n] => Same(n))
      BY <2>11 DEF Good
    <2>14. Same(n) => v = w
      BY SeqEqual DEF n
    <2>15. QED BY <2>3, <2>12, <2>13, <2>14
  <1>6. QED BY <1>3, <1>4, <1>5

-----------------------------------------------------------------------------
\* Byte strings have a total order.
LEMMA OrderedBytes ==
  /\ \A a \in Seq(Nat) : ~BytesBefore(a, a)
  /\ \A a, b, c \in Seq(Nat) : BytesBefore(a, b) /\ BytesBefore(b, c) => BytesBefore(a, c)
  /\ \A a, b \in Seq(Nat) : a = b \/ BytesBefore(a, b) \/ BytesBefore(b, a)
  <1>1. ASSUME NEW a \in Seq(Nat) PROVE ~BytesBefore(a, a)
    BY DEF BytesBefore
  <1>2. ASSUME NEW a \in Seq(Nat), NEW b \in Seq(Nat), NEW c \in Seq(Nat),
               BytesBefore(a, b), BytesBefore(b, c)
        PROVE  BytesBefore(a, c)
    <2>1. DOMAIN b = 1..Len(b) /\ DOMAIN c = 1..Len(c)
      OBVIOUS
    <2>2. PICK i \in 1..Len(b) :
            /\ i <= Len(a) + 1 /\ \A j \in 1..(i - 1) : a[j] = b[j]
            /\ i = Len(a) + 1 \/ a[i] < b[i]
      BY <1>2, <2>1 DEF BytesBefore
    <2>3. PICK k \in 1..Len(c) :
            /\ k <= Len(b) + 1 /\ \A j \in 1..(k - 1) : b[j] = c[j]
            /\ k = Len(b) + 1 \/ b[k] < c[k]
      BY <1>2, <2>1 DEF BytesBefore
    <2>4. /\ Len(a) \in Nat /\ Len(b) \in Nat /\ Len(c) \in Nat
          /\ \A j \in 1..Len(a) : a[j] \in Nat
          /\ \A j \in 1..Len(b) : b[j] \in Nat
          /\ \A j \in 1..Len(c) : c[j] \in Nat
          /\ DOMAIN c = 1..Len(c)
      OBVIOUS
    <2>5. ASSUME NEW m \in 1..Len(c), m <= Len(a) + 1, \A j \in 1..(m - 1) : a[j] = c[j],
                 m = Len(a) + 1 \/ a[m] < c[m]
          PROVE  BytesBefore(a, c)
      BY <2>4, <2>5 DEF BytesBefore
    <2>6. CASE i < k
      <3>1. i \in 1..Len(c) /\ b[i] = c[i] /\ \A j \in 1..(i - 1) : j \in 1..(k - 1)
        BY <2>3, <2>4, <2>6
      <3>2. QED BY <2>2, <2>3, <2>5, <3>1
    <2>7. CASE k < i
      <3>1. i \in Nat /\ k \in Nat /\ 1 <= k /\ i <= Len(b) /\ i <= Len(a) + 1
        BY <2>2, <2>4
      <3>0. Len(a) \in Nat /\ Len(b) \in Nat
        BY <2>4
      <3>2. k <= Len(a) + 1 /\ k # Len(b) + 1 /\ k \in 1..(i - 1)
        BY <2>7, <3>0, <3>1
      <3>3. \A j \in 1..(k - 1) : j \in 1..(i - 1)
        BY <2>7, <3>1
      <3>4. a[k] = b[k] /\ b[k] < c[k]
        BY <2>2, <2>3, <3>2
      <3>5. \A j \in 1..(k - 1) : a[j] = c[j]
        BY <2>2, <2>3, <3>3
      <3>6. a[k] < c[k]
        BY <3>4
      <3>7. QED BY <2>5, <3>2, <3>5, <3>6
    <2>8. CASE i = k
      <3>1. k # Len(b) + 1 /\ b[k] < c[k]
        BY <2>2, <2>3, <2>4, <2>8
      <3>2. i = Len(a) + 1 \/ a[i] < c[i]
        <4>1. CASE i = Len(a) + 1
          BY <4>1
        <4>2. CASE i # Len(a) + 1
          <5>1. i \in 1..Len(a) /\ a[i] < b[i] /\ b[i] < c[i]
            BY <2>2, <2>4, <2>8, <3>1, <4>2
          <5>2. a[i] \in Nat /\ b[i] \in Nat /\ c[i] \in Nat
            BY <2>3, <2>4, <2>8, <5>1
          <5>3. QED BY <5>1, <5>2
        <4>3. QED BY <4>1, <4>2
      <3>3. QED BY <2>2, <2>3, <2>5, <2>8, <3>2
    <2>9. QED BY <2>6, <2>7, <2>8
  <1>3. ASSUME NEW a \in Seq(Nat), NEW b \in Seq(Nat), a # b
        PROVE  BytesBefore(a, b) \/ BytesBefore(b, a)
    <2> DEFINE D == {i \in Nat : i > 0 /\ (i = Len(a) + 1 \/ i = Len(b) + 1 \/ a[i] # b[i])}
    <2>1. /\ Len(a) \in Nat /\ Len(b) \in Nat
          /\ DOMAIN a = 1..Len(a) /\ DOMAIN b = 1..Len(b)
          /\ \A j \in 1..Len(a) : a[j] \in Nat
          /\ \A j \in 1..Len(b) : b[j] \in Nat
      OBVIOUS
    <2>2. D \in SUBSET Nat /\ Len(a) + 1 \in D /\ Len(b) + 1 \in D
      BY <2>1
    <2>3. PICK k \in D : \A j \in D : k <= j
      <3> HIDE DEF D
      <3>1. QED BY <2>2, Smallest
    <2>4. k \in Nat /\ k > 0 /\ k <= Len(a) + 1 /\ k <= Len(b) + 1
      BY <2>2, <2>3
    <2>5. \A j \in 1..(k - 1) : a[j] = b[j]
      <3> TAKE j \in 1..(k - 1)
      <3>1. j \in Nat /\ j > 0 /\ ~(k <= j)
        BY <2>4
      <3>2. j \notin D
        BY <2>3, <3>1
      <3>3. QED BY <3>1, <3>2
    <2>6. CASE k = Len(a) + 1 /\ k = Len(b) + 1
      <3>1. k - 1 = Len(a) /\ Len(a) = Len(b)
        <4>1. \A l, m, n \in Nat : l = m + 1 /\ l = n + 1 => l - 1 = m /\ m = n
          OBVIOUS
        <4>2. Len(a) \in Nat /\ Len(b) \in Nat /\ k \in Nat
          BY <2>1, <2>4
        <4>3. QED BY <2>6, <4>1, <4>2
      <3>2. Len(a) = Len(b) /\ \A j \in 1..Len(a) : a[j] = b[j]
        BY <2>5, <3>1
      <3>3. QED BY <1>3, <3>2, SeqEqual
    <2>7. CASE k = Len(a) + 1 /\ k # Len(b) + 1
      <3>1. k \in DOMAIN b
        BY <2>1, <2>4, <2>7
      <3>2. QED BY <2>4, <2>5, <2>7, <3>1 DEF BytesBefore
    <2>8. CASE k # Len(a) + 1 /\ k = Len(b) + 1
      <3>1. k \in DOMAIN a
        BY <2>1, <2>4, <2>8
      <3>2. QED BY <2>4, <2>5, <2>8, <3>1 DEF BytesBefore
    <2>9. CASE k # Len(a) + 1 /\ k # Len(b) + 1
      <3>1. k \in 1..Len(a) /\ k \in 1..Len(b)
        BY <2>1, <2>4, <2>9
      <3>2. k \in DOMAIN a /\ k \in DOMAIN b /\ a[k] \in Nat /\ b[k] \in Nat
        BY <2>1, <3>1
      <3>3. a[k] # b[k]
        BY <2>3, <2>9
      <3>4. a[k] < b[k] \/ b[k] < a[k]
        BY <3>2, <3>3
      <3>5. QED BY <2>4, <2>5, <3>2, <3>4 DEF BytesBefore
    <2>10. QED BY <2>6, <2>7, <2>8, <2>9
  <1>4. QED BY <1>1, <1>2, <1>3

LEMMA FiniteRange ==
  ASSUME NEW v \in Seq(Seq(Nat))
  PROVE  Range(v) \in SUBSET Seq(Nat) /\ IsFiniteSet(Range(v))
  <1>1. DOMAIN v = 1..Len(v) /\ Len(v) \in Nat /\ v \in [1..Len(v) -> Seq(Nat)]
    OBVIOUS
  <1>2. IsFiniteSet(1..Len(v))
    BY <1>1, FS_Interval
  <1>3. Range(v) = {v[i] : i \in 1..Len(v)}
    BY <1>1 DEF Range
  <1>4. Range(v) \in SUBSET Seq(Nat)
    BY <1>1, <1>3
  <1>5. v \in Surjection(1..Len(v), Range(v))
    BY <1>1, <1>3, <1>4 DEF Surjection
  <1>6. IsFiniteSet(Range(v))
    BY <1>2, <1>5, FS_Surjection
  <1>7. QED BY <1>4, <1>6

\* Sorted values without repetitions are the values.
LEMMA SortedTags ==
  ASSUME NEW v \in Seq(Seq(Nat))
  PROVE  sort_dedup(v) \in Seq(Seq(Nat)) /\ Range(sort_dedup(v)) = Range(v)
  <1> DEFINE S == Range(v)
             R == {p \in S \X S : BytesBefore(p[1], p[2])}
             n == Cardinality(S)
             rank(r) == Cardinality({u \in S : BytesBefore(u, r)})
             d == [k \in 1..n |-> CHOOSE x \in S : rank(x) = k - 1]
  <1>1. S \in SUBSET Seq(Nat) /\ IsFiniteSet(S)
    BY FiniteRange
  <1>2. sort_dedup(v) = d
    BY DEF sort_dedup
  <1>3. n \in Nat
    BY <1>1, FS_CardinalityType
  <1> HIDE DEF S, n
  <1>4. \A a, b \in S : <<a, b>> \in R <=> BytesBefore(a, b)
    OBVIOUS
  <1>5. /\ \A a \in S : <<a, a>> \notin R
        /\ \A a, b, c \in S : <<a, b>> \in R /\ <<b, c>> \in R => <<a, c>> \in R
        /\ \A a, b \in S : a = b \/ <<a, b>> \in R \/ <<b, a>> \in R
    <2> HIDE DEF R
    <2>1. \A a \in S : a \in Seq(Nat)
      BY <1>1
    <2>2. QED BY <1>4, <2>1, OrderedBytes
  <1>6. \A r \in S : {u \in S : BytesBefore(u, r)} = {u \in S : <<u, r>> \in R}
    BY <1>4
  <1> HIDE DEF R
  <1>7. /\ \A r \in S : Cardinality({u \in S : <<u, r>> \in R}) \in 0..(n - 1)
        /\ \A k \in 0..(n - 1) : \E r \in S : Cardinality({u \in S : <<u, r>> \in R}) = k
        /\ \A a, b \in S : <<a, b>> \in R =>
             Cardinality({u \in S : <<u, a>> \in R}) < Cardinality({u \in S : <<u, b>> \in R})
    <2>1. IsFiniteSet(S)
      BY <1>1
    <2>2. QED BY <1>5, <2>1, Ranks, ZenonT(60) DEF n
  <1>8. /\ \A r \in S : rank(r) \in 0..(n - 1)
        /\ \A k \in 0..(n - 1) : \E r \in S : rank(r) = k
        /\ \A a, b \in S : <<a, b>> \in R => rank(a) < rank(b)
    BY <1>6, <1>7
  <1> HIDE DEF rank
  <1>9. ASSUME NEW a \in S, NEW b \in S, rank(a) = rank(b) PROVE a = b
    <2>1. rank(a) \in Int /\ rank(b) \in Int
      BY <1>8
    <2>2. ~(rank(a) < rank(b)) /\ ~(rank(b) < rank(a))
      BY <1>9, <2>1
    <2>3. QED BY <1>5, <1>8, <2>2
  <1>10. \A k \in 1..n : (CHOOSE x \in S : rank(x) = k - 1) \in S /\ rank(CHOOSE x \in S : rank(x) = k - 1) = k - 1
    <2> TAKE k \in 1..n
    <2>1. \E x \in S : rank(x) = k - 1
      BY <1>3, <1>8
    <2>2. QED BY <2>1
  <1>11. DOMAIN d = 1..n /\ \A k \in 1..n : d[k] \in S /\ rank(d[k]) = k - 1
    BY <1>10
  <1>12. d \in [1..n -> Seq(Nat)]
    BY <1>1, <1>10
  <1> HIDE DEF d
  <1>13. d \in Seq(Seq(Nat))
    BY <1>3, <1>12
  <1>14. ASSUME NEW r \in S PROVE \E k \in 1..n : d[k] = r
    <2>1. rank(r) + 1 \in 1..n /\ (rank(r) + 1) - 1 = rank(r)
      BY <1>3, <1>8
    <2>2. d[rank(r) + 1] \in S /\ rank(d[rank(r) + 1]) = rank(r)
      BY <1>11, <2>1
    <2>3. QED BY <1>9, <2>1, <2>2
  <1>15. Range(d) = S
    <2>1. Range(d) = {d[k] : k \in 1..n}
      BY <1>11 DEF Range
    <2>2. QED BY <1>11, <1>14, <2>1
  <1>16. QED BY <1>2, <1>13, <1>15 DEF S

-----------------------------------------------------------------------------
Pair(x, y) == x \in Seq(Nat) /\ y \in Seq(Nat) /\ Splits(x, y)

LEMMA PairOfOne ==
  ASSUME NEW x \in Seq(Nat)
  PROVE  Pair(x, x)
  BY SameLengthSplits DEF Pair

LEMMA ThenPair ==
  ASSUME NEW x, NEW y, NEW p, NEW q, Pair(x, y), Pair(p, q)
  PROVE  Pair(x \o p, y \o q) /\ (x \o p = y \o q => x = y /\ p = q)
  BY LongerSplits DEF Pair, Continues

LEMMA ThenSame ==
  ASSUME NEW x, NEW y, Pair(x, y), NEW c \in Seq(Nat)
  PROVE  Pair(x \o c, y \o c) /\ (x \o c = y \o c => x = y)
  BY PairOfOne, ThenPair

LEMMA PairFramed ==
  ASSUME NEW v \in Seq(Nat), NEW w \in Seq(Nat)
  PROVE  Pair(lp32(v), lp32(w)) /\ (lp32(v) = lp32(w) => v = w)
  BY FramedSplits, Framing DEF Pair

LEMMA ThenFramed ==
  ASSUME NEW x, NEW y, Pair(x, y), NEW v \in Seq(Nat), NEW w \in Seq(Nat)
  PROVE  Pair(x \o lp32(v), y \o lp32(w)) /\ (x \o lp32(v) = y \o lp32(w) => x = y /\ v = w)
  BY PairFramed, ThenPair

\* A count and as many values.
LEMMA ThenCounted ==
  ASSUME NEW x, NEW y, Pair(x, y), NEW v \in Seq(Seq(Nat)), NEW w \in Seq(Seq(Nat))
  PROVE  LET a == x \o u32_be(Len(v)) \o lp32_all(v)
             b == y \o u32_be(Len(w)) \o lp32_all(w)
         IN Pair(a, b) /\ (a = b => x = y /\ v = w)
  <1> DEFINE c == x \o u32_be(Len(v))
             d == y \o u32_be(Len(w))
             p == lp32_all(v)
             q == lp32_all(w)
  <1>1. Len(v) \in Nat /\ Len(w) \in Nat
    OBVIOUS
  <1>2. /\ u32_be(Len(v)) \in Seq(Nat) /\ Len(u32_be(Len(v))) = 4 /\ u32_be(Len(v))[4] = Len(v)
        /\ u32_be(Len(w)) \in Seq(Nat) /\ Len(u32_be(Len(w))) = 4 /\ u32_be(Len(w))[4] = Len(w)
    BY <1>1, LengthCells
  <1>3. Pair(u32_be(Len(v)), u32_be(Len(w)))
    BY <1>2, SameLengthSplits DEF Pair
  <1>4. Pair(c, d) /\ (c = d => x = y /\ u32_be(Len(v)) = u32_be(Len(w)))
    BY <1>3, ThenPair
  <1>5. c = d => x = y /\ Len(v) = Len(w)
    BY <1>2, <1>4
  <1>6. p \in Seq(Nat) /\ q \in Seq(Nat)
    BY AllSplit
  <1>7. Len(v) = Len(w) => Splits(p, q) /\ (p = q => v = w)
    BY AllSplit
  <1> HIDE DEF c, d, p, q
  <1>8. c \in Seq(Nat) /\ d \in Seq(Nat) /\ Splits(c, d) /\ (c = d => Splits(p, q))
    BY <1>4, <1>5, <1>7 DEF Pair
  <1>9. c \o p \in Seq(Nat) /\ d \o q \in Seq(Nat) /\ Splits(c \o p, d \o q) /\ (c \o p = d \o q => c = d /\ p = q)
    BY <1>6, <1>8, LongerSplits DEF Continues
  <1>10. Pair(c \o p, d \o q) /\ (c \o p = d \o q => x = y /\ v = w)
    BY <1>5, <1>7, <1>9 DEF Pair
  <1>11. QED BY <1>10 DEF c, d, p, q

\* A value that may be absent.
Optional(absent, x) == IF absent THEN <<0>> ELSE <<1>> \o x

LEMMA PairOptional ==
  ASSUME NEW b \in BOOLEAN, NEW c \in BOOLEAN, NEW x, NEW y,
         ~b => x \in Seq(Nat), ~c => y \in Seq(Nat), ~b /\ ~c => Splits(x, y)
  PROVE  /\ Pair(Optional(b, x), Optional(c, y))
         /\ Optional(b, x) = Optional(c, y) => b = c /\ (~b => x = y)
  <1>1. <<0>> \in Seq(Nat) /\ <<1>> \in Seq(Nat) /\ Len(<<0>>) = 1 /\ Len(<<1>>) = 1 /\ <<0>>[1] = 0 /\ <<1>>[1] = 1
    OBVIOUS
  <1>2. ASSUME NEW z \in Seq(Nat), NEW t \in Seq(Nat), NEW u \in Seq(Nat)
        PROVE  (<<1>> \o z) \o t # <<0>> \o u /\ <<1>> \o z # <<0>>
    <2>1. <<1>> \o z \in Seq(Nat) /\ Len(<<1>> \o z) = 1 + Len(z) /\ (<<1>> \o z)[1] = 1
      <3>1. 1 \in 1..Len(<<1>>)
        BY <1>1
      <3>2. <<1>> \o z \in Seq(Nat) /\ Len(<<1>> \o z) = Len(<<1>>) + Len(z) /\ (<<1>> \o z)[1] = <<1>>[1]
        BY <1>1, <3>1, Joined
      <3>3. QED BY <1>1, <3>2
    <2> DEFINE h == <<1>> \o z
    <2> HIDE DEF h
    <2>2. h \in Seq(Nat) /\ 1 \in 1..Len(h) /\ h[1] = 1
      <3>1. Len(z) \in Nat
        OBVIOUS
      <3>2. QED BY <2>1, <3>1 DEF h
    <2>3. (h \o t)[1] = 1
      BY <2>2, Joined
    <2>4. (<<0>> \o u)[1] = 0
      <3>1. 1 \in 1..Len(<<0>>)
        BY <1>1
      <3>2. (<<0>> \o u)[1] = <<0>>[1]
        BY <1>1, <3>1, Joined
      <3>3. QED BY <1>1, <3>2
    <2>5. h \o t # <<0>> \o u /\ h # <<0>>
      BY <1>1, <2>2, <2>3, <2>4
    <2>6. QED BY <2>5 DEF h
  <1>3. CASE b /\ c
    <2>1. Optional(b, x) = <<0>> /\ Optional(c, y) = <<0>>
      BY <1>3 DEF Optional
    <2>2. QED BY <1>1, <1>3, <2>1, PairOfOne
  <1>4. CASE ~b /\ ~c
    <2>1. Optional(b, x) = <<1>> \o x /\ Optional(c, y) = <<1>> \o y
      BY <1>4 DEF Optional
    <2>2. Pair(x, y) /\ Pair(<<1>>, <<1>>)
      BY <1>1, <1>4, PairOfOne DEF Pair
    <2>3. Pair(<<1>> \o x, <<1>> \o y) /\ (<<1>> \o x = <<1>> \o y => x = y)
      BY <2>2, ThenPair
    <2>4. QED BY <1>4, <2>1, <2>3
  <1>5. CASE b /\ ~c
    <2>1. Optional(b, x) = <<0>> /\ Optional(c, y) = <<1>> \o y /\ y \in Seq(Nat)
      BY <1>5 DEF Optional
    <2>2. <<1>> \o y \in Seq(Nat)
      BY <1>1, <2>1, Joined
    <2>3. Splits(<<0>>, <<1>> \o y) /\ <<0>> # <<1>> \o y
      BY <1>2, <2>1 DEF Splits
    <2>4. QED BY <1>1, <2>1, <2>2, <2>3 DEF Pair
  <1>6. CASE ~b /\ c
    <2>1. Optional(b, x) = <<1>> \o x /\ Optional(c, y) = <<0>> /\ x \in Seq(Nat)
      BY <1>6 DEF Optional
    <2>2. <<1>> \o x \in Seq(Nat)
      BY <1>1, <2>1, Joined
    <2>3. Splits(<<1>> \o x, <<0>>) /\ <<1>> \o x # <<0>>
      BY <1>2, <2>1 DEF Splits
    <2>4. QED BY <1>1, <2>1, <2>2, <2>3 DEF Pair
  <1>7. QED BY <1>3, <1>4, <1>5, <1>6

-----------------------------------------------------------------------------
\* The fixed words are byte strings.
LEMMA FixedWords ==
  /\ ntfy \in Seq(Nat) /\ ntfy_topic \in Seq(Nat) /\ text \in Seq(Nat) /\ default \in Seq(Nat)
  /\ RequestDomain \in Seq(Nat) /\ TopicSchema \in Seq(Nat) /\ TextSchema \in Seq(Nat)
  /\ OptionsSchema \in Seq(Nat) /\ <<0>> \in Seq(Nat) /\ <<1>> \in Seq(Nat) /\ <<0, 0>> \in Seq(Nat)
  BY DEF ntfy, ntfy_topic, text, default, RequestDomain, TopicSchema, TextSchema, OptionsSchema

LEMMA RequestIs ==
  ASSUME NEW r \in Requests
  PROVE  /\ r.destination_fields \in Seq(Seq(Nat)) /\ r.content_fields \in Seq(Seq(Nat))
         /\ r.options_fields \in Seq(Seq(Nat))
         /\ r.expires_at_millis \in Seq(Nat) /\ Len(r.expires_at_millis) <= 1
         /\ r.correlation_id \in Seq(Seq(Nat)) /\ Len(r.correlation_id) <= 1
  BY LedgerConstants

\* A sequence of at most one element is its first.
LEMMA AtMostOne ==
  ASSUME NEW A, NEW u \in Seq(A), Len(u) <= 1, u # <<>>
  PROVE  u = <<u[1]>> /\ u[1] \in A
  <1>1. Len(u) \in Nat /\ (Len(u) = 0 => u = <<>>)
    OBVIOUS
  <1>2. Len(u) = 1
    BY <1>1
  <1>3. QED BY <1>2

LEMMA OneIs ==
  ASSUME NEW A, NEW u \in Seq(A), Len(u) = 1
  PROVE  u = <<u[1]>> /\ u[1] \in A
  OBVIOUS

-----------------------------------------------------------------------------
\* The legacy form.
LegacyHead ==
  RequestDomain \o <<1>> \o lp32(ntfy) \o lp32(ntfy_topic) \o u32_be(4) \o u32_be(1) \o u32_be(1)
LegacyTags(v) ==
  <<1>> \o lp32(ntfy) \o u32_be(4) \o u32_be(1) \o u32_be(Len(v)) \o lp32_all(v)
LegacyOptions(absent, v) == IF absent THEN <<0>> ELSE LegacyTags(v)
LegacyBytes(d, c, o) ==
  LegacyHead \o lp32(d) \o lp32(text) \o u32_be(4) \o u32_be(1) \o u32_be(Len(c)) \o lp32_all(c) \o o \o <<0, 0>>

LEMMA LegacyIs ==
  ASSUME NEW r \in Requests, LegacyShaped(r)
  PROVE  /\ legacy_canonical_request_v1(r)
              = LegacyBytes(r.destination_fields[1], r.content_fields,
                            LegacyOptions(NoOptions(r), sort_dedup(r.options_fields)))
         /\ r.destination_fields = <<r.destination_fields[1]>> /\ r.destination_fields[1] \in Seq(Nat)
         /\ Len(r.content_fields) = 2
         /\ NoOptions(r) <=> r.options_fields = <<>>
  <1>1. /\ r.provider = ntfy /\ r.destination_kind = ntfy_topic /\ r.destination_schema_version = 1
        /\ r.content_kind = text /\ r.content_schema_version = 1
        /\ Len(r.destination_fields) = 1 /\ Len(r.content_fields) = 2
        /\ NoOptions(r) \/ r.options_fields # <<>>
    BY DEF LegacyShaped
  <1>2. NoOptions(r) => r.options_fields = <<>>
    BY DEF NoOptions
  <1>3. r.destination_fields = <<r.destination_fields[1]>> /\ r.destination_fields[1] \in Seq(Nat)
    BY <1>1, RequestIs, OneIs
  <1>4. legacy_canonical_request_v1(r)
              = LegacyBytes(r.destination_fields[1], r.content_fields,
                            LegacyOptions(NoOptions(r), sort_dedup(r.options_fields)))
    BY <1>1 DEF legacy_canonical_request_v1, LegacyBytes, LegacyHead, LegacyOptions, LegacyTags
  <1>5. QED BY <1>1, <1>2, <1>3, <1>4

LEMMA PairLegacyOptions ==
  ASSUME NEW b \in BOOLEAN, NEW c \in BOOLEAN, NEW v \in Seq(Seq(Nat)), NEW w \in Seq(Seq(Nat))
  PROVE  /\ Pair(LegacyOptions(b, v), LegacyOptions(c, w))
         /\ LegacyOptions(b, v) = LegacyOptions(c, w) => b = c /\ (~b => v = w)
  <1> DEFINE start == lp32(ntfy) \o u32_be(4) \o u32_be(1)
             Rest(u) == start \o u32_be(Len(u)) \o lp32_all(u)
  <1>1. start \in Seq(Nat)
    BY FixedWords, Framing, LengthCells, Joined
  <1>2. ASSUME NEW u \in Seq(Seq(Nat))
        PROVE  LegacyTags(u) = <<1>> \o Rest(u) /\ Rest(u) \in Seq(Nat)
    <2> DEFINE l == lp32(ntfy)
               f == u32_be(4)
               o == u32_be(1)
               n == u32_be(Len(u))
               t == lp32_all(u)
    <2>1. l \in Seq(Nat) /\ f \in Seq(Nat) /\ o \in Seq(Nat) /\ n \in Seq(Nat) /\ t \in Seq(Nat) /\ <<1>> \in Seq(Nat)
      <3>1. Len(u) \in Nat
        OBVIOUS
      <3>2. QED BY <3>1, FixedWords, Framing, LengthCells, AllSplit
    <2>2. LegacyTags(u) = <<1>> \o l \o f \o o \o n \o t /\ Rest(u) = l \o f \o o \o n \o t
      BY DEF LegacyTags
    <2> HIDE DEF l, f, o, n, t
    <2>3. l \o f \in Seq(Nat) /\ l \o f \o o \in Seq(Nat) /\ l \o f \o o \o n \in Seq(Nat) /\ l \o f \o o \o n \o t \in Seq(Nat)
      BY <2>1, Joined
    <2> DEFINE one == <<1>>
               lf == l \o f
               lfo == lf \o o
               lfon == lfo \o n
    <2>4. one \o l \o f = one \o lf
      BY <2>1, Regrouped
    <2>5. lf \in Seq(Nat) /\ one \in Seq(Nat) /\ o \in Seq(Nat)
      BY <2>1, <2>3
    <2>6. lfo \in Seq(Nat) /\ one \in Seq(Nat) /\ n \in Seq(Nat)
      BY <2>1, <2>3
    <2>7. lfon \in Seq(Nat) /\ one \in Seq(Nat) /\ t \in Seq(Nat)
      BY <2>1, <2>3
    <2> HIDE DEF one, lf
    <2>8. (one \o lf) \o o = one \o lfo
      BY <2>5, Regrouped
    <2> HIDE DEF lfo
    <2>9. (one \o lfo) \o n = one \o lfon
      BY <2>6, Regrouped
    <2> HIDE DEF lfon
    <2>10. (one \o lfon) \o t = one \o (lfon \o t)
      BY <2>7, Regrouped
    <2>11. QED BY <2>2, <2>3, <2>4, <2>8, <2>9, <2>10 DEF one, lf, lfo, lfon
  <1>3. Pair(start, start)
    BY <1>1, PairOfOne
  <1> HIDE DEF start
  <1>4. Pair(Rest(v), Rest(w)) /\ (Rest(v) = Rest(w) => v = w)
    BY <1>3, ThenCounted
  <1>5. LegacyOptions(b, v) = Optional(b, Rest(v)) /\ LegacyOptions(c, w) = Optional(c, Rest(w))
    BY <1>2 DEF LegacyOptions, Optional
  <1> DEFINE x == Rest(v)
             y == Rest(w)
  <1>6. x \in Seq(Nat) /\ y \in Seq(Nat) /\ Splits(x, y) /\ (x = y => v = w)
    BY <1>4 DEF Pair
  <1>7. LegacyOptions(b, v) = Optional(b, x) /\ LegacyOptions(c, w) = Optional(c, y)
    BY <1>5
  <1> HIDE DEF x, y, Rest
  <1>8. Pair(Optional(b, x), Optional(c, y)) /\ (Optional(b, x) = Optional(c, y) => b = c /\ (~b => x = y))
    BY <1>6, PairOptional
  <1>9. QED BY <1>6, <1>7, <1>8

LEMMA LegacyParts ==
  ASSUME NEW d \in Seq(Nat), NEW e \in Seq(Nat), NEW c \in Seq(Seq(Nat)), NEW k \in Seq(Seq(Nat)),
         NEW o, NEW p, Pair(o, p)
  PROVE  /\ LegacyBytes(d, c, o) \in Seq(Nat)
         /\ LegacyBytes(d, c, o) = LegacyBytes(e, k, p) => d = e /\ c = k /\ o = p
  <1> DEFINE h == LegacyHead
             x1 == h \o lp32(d)
             y1 == h \o lp32(e)
             x2 == x1 \o lp32(text)
             y2 == y1 \o lp32(text)
             x3 == x2 \o u32_be(4)
             y3 == y2 \o u32_be(4)
             x4 == x3 \o u32_be(1)
             y4 == y3 \o u32_be(1)
             x5 == x4 \o u32_be(Len(c)) \o lp32_all(c)
             y5 == y4 \o u32_be(Len(k)) \o lp32_all(k)
             x6 == x5 \o o
             y6 == y5 \o p
             x7 == x6 \o <<0, 0>>
             y7 == y6 \o <<0, 0>>
  <1>1. /\ lp32(text) \in Seq(Nat) /\ u32_be(4) \in Seq(Nat) /\ u32_be(1) \in Seq(Nat) /\ <<0, 0>> \in Seq(Nat)
    BY FixedWords, Framing, LengthCells
  <1>2. LegacyBytes(d, c, o) = x7 /\ LegacyBytes(e, k, p) = y7
    BY DEF LegacyBytes
  <1>3. h \in Seq(Nat)
    <2>1. /\ RequestDomain \in Seq(Nat) /\ <<1>> \in Seq(Nat) /\ lp32(ntfy) \in Seq(Nat) /\ lp32(ntfy_topic) \in Seq(Nat)
      BY FixedWords, Framing
    <2>2. RequestDomain \o <<1>> \in Seq(Nat)
      BY <2>1, Joined
    <2>3. RequestDomain \o <<1>> \o lp32(ntfy) \o lp32(ntfy_topic) \in Seq(Nat)
      BY <2>1, <2>2, Joined
    <2>4. QED BY <1>1, <2>3, Joined DEF LegacyHead
  <1>4. Pair(h, h)
    BY <1>3, PairOfOne
  <1> HIDE DEF h
  <1>5. Pair(x1, y1) /\ (x1 = y1 => d = e)
    BY <1>4, ThenFramed
  <1> HIDE DEF x1, y1
  <1>6. Pair(x2, y2) /\ (x2 = y2 => x1 = y1)
    BY <1>1, <1>5, ThenSame
  <1> HIDE DEF x2, y2
  <1>7. Pair(x3, y3) /\ (x3 = y3 => x2 = y2)
    BY <1>1, <1>6, ThenSame
  <1> HIDE DEF x3, y3
  <1>8. Pair(x4, y4) /\ (x4 = y4 => x3 = y3)
    BY <1>1, <1>7, ThenSame
  <1> HIDE DEF x4, y4
  <1>9. Pair(x5, y5) /\ (x5 = y5 => x4 = y4 /\ c = k)
    BY <1>8, ThenCounted
  <1> HIDE DEF x5, y5
  <1>10. Pair(x6, y6) /\ (x6 = y6 => x5 = y5 /\ o = p)
    BY <1>9, ThenPair
  <1> HIDE DEF x6, y6
  <1>11. Pair(x7, y7) /\ (x7 = y7 => x6 = y6)
    BY <1>1, <1>10, ThenSame
  <1> HIDE DEF x7, y7
  <1>12. QED BY <1>2, <1>5, <1>6, <1>7, <1>8, <1>9, <1>10, <1>11 DEF Pair

\* Says of a request in the legacy form.
LEMMA LegacySays ==
  ASSUME NEW r \in Requests, LegacyShaped(r)
  PROVE  Says(r) = [topic |-> r.destination_fields, content |-> r.content_fields,
                    priority |-> None, tags |-> Range(r.options_fields),
                    expiry |-> None, correlation |-> None]
  <1>1. Len(r.content_fields) = 2 /\ r.expires_at_millis = None /\ r.correlation_id = None
    BY DEF LegacyShaped
  <1>2. QED BY <1>1 DEF Says

LEMMA EmptyRange ==
  ASSUME NEW v \in Seq(Seq(Nat))
  PROVE  Range(v) = {} <=> v = <<>>
  <1>1. DOMAIN v = 1..Len(v) /\ Len(v) \in Nat /\ (Len(v) = 0 => v = <<>>)
    OBVIOUS
  <1>2. Range(v) = {v[i] : i \in 1..Len(v)}
    BY <1>1 DEF Range
  <1>3. v = <<>> => Range(v) = {}
    BY <1>2
  <1>4. v # <<>> => v[1] \in Range(v)
    BY <1>1, <1>2
  <1>5. QED BY <1>3, <1>4

LEMMA SortedByRange ==
  ASSUME NEW v, NEW w, Range(v) = Range(w)
  PROVE  sort_dedup(v) = sort_dedup(w)
  BY DEF sort_dedup

LEMMA LegacyMeaning ==
  ASSUME NEW r \in Requests, NEW q \in Requests, LegacyShaped(r), LegacyShaped(q)
  PROVE  legacy_canonical_request_v1(r) = legacy_canonical_request_v1(q) <=> Says(r) = Says(q)
  <1> DEFINE d == r.destination_fields[1]
             e == q.destination_fields[1]
             v == r.options_fields
             w == q.options_fields
             o == LegacyOptions(NoOptions(r), sort_dedup(v))
             p == LegacyOptions(NoOptions(q), sort_dedup(w))
  <1>1. /\ legacy_canonical_request_v1(r) = LegacyBytes(d, r.content_fields, o)
        /\ r.destination_fields = <<d>> /\ d \in Seq(Nat) /\ (NoOptions(r) <=> v = <<>>)
    BY LegacyIs
  <1>2. /\ legacy_canonical_request_v1(q) = LegacyBytes(e, q.content_fields, p)
        /\ q.destination_fields = <<e>> /\ e \in Seq(Nat) /\ (NoOptions(q) <=> w = <<>>)
    BY LegacyIs
  <1>3. v \in Seq(Seq(Nat)) /\ w \in Seq(Seq(Nat)) /\ r.content_fields \in Seq(Seq(Nat)) /\ q.content_fields \in Seq(Seq(Nat))
    BY RequestIs
  <1>4. /\ sort_dedup(v) \in Seq(Seq(Nat)) /\ Range(sort_dedup(v)) = Range(v)
        /\ sort_dedup(w) \in Seq(Seq(Nat)) /\ Range(sort_dedup(w)) = Range(w)
    BY <1>3, SortedTags
  <1>5. /\ Says(r) = [topic |-> r.destination_fields, content |-> r.content_fields,
                    priority |-> None, tags |-> Range(v), expiry |-> None, correlation |-> None]
        /\ Says(q) = [topic |-> q.destination_fields, content |-> q.content_fields,
                    priority |-> None, tags |-> Range(w), expiry |-> None, correlation |-> None]
    BY LegacySays
  <1>6. Says(r) = Says(q) <=> r.destination_fields = q.destination_fields
                              /\ r.content_fields = q.content_fields /\ Range(v) = Range(w)
    BY <1>5
  <1>7. NoOptions(r) \in BOOLEAN /\ NoOptions(q) \in BOOLEAN
    BY DEF NoOptions
  <1>8. Pair(o, p) /\ (o = p => NoOptions(r) = NoOptions(q) /\ (~NoOptions(r) => sort_dedup(v) = sort_dedup(w)))
    BY <1>4, <1>7, PairLegacyOptions
  <1>9. o = p <=> Range(v) = Range(w)
    <2>1. ASSUME o = p PROVE Range(v) = Range(w)
      <3>1. CASE NoOptions(r)
        <4>1. NoOptions(q)
          BY <1>8, <2>1, <3>1
        <4>2. QED BY <1>1, <1>2, <3>1, <4>1
      <3>2. CASE ~NoOptions(r)
        BY <1>4, <1>8, <2>1, <3>2
      <3>3. QED BY <3>1, <3>2
    <2>2. ASSUME Range(v) = Range(w) PROVE o = p
      <3>1. v = <<>> <=> w = <<>>
        BY <1>3, <2>2, EmptyRange
      <3>2. NoOptions(r) <=> NoOptions(q)
        BY <1>1, <1>2, <3>1
      <3>3. sort_dedup(v) = sort_dedup(w)
        BY <2>2, SortedByRange
      <3>4. QED BY <3>2, <3>3 DEF LegacyOptions
    <2>3. QED BY <2>1, <2>2
  <1> DEFINE c == r.content_fields
             k == q.content_fields
  <1>10. LegacyBytes(d, c, o) = LegacyBytes(e, k, p) => d = e /\ c = k /\ o = p
    <2> HIDE DEF d, e, c, k, o, p
    <2>1. c \in Seq(Seq(Nat)) /\ k \in Seq(Seq(Nat)) /\ d \in Seq(Nat) /\ e \in Seq(Nat) /\ Pair(o, p)
      BY <1>1, <1>2, <1>3, <1>8 DEF c, k
    <2>2. QED BY <2>1, LegacyParts
  <1>11. <<d>> = <<e>> => d = e
    OBVIOUS
  <1> HIDE DEF d, e, o, p, v, w
  <1>12. QED BY <1>1, <1>2, <1>6, <1>9, <1>10, <1>11

-----------------------------------------------------------------------------
\* The form with profiles.
Priority(r) == IF NoOptions(r) THEN <<default>> ELSE r.options_fields
Accepted(r) == ~LegacyShaped(r) /\ admitted_first_slice_profile(r) /\ PayloadsOk(r)

LEMMA NewSays ==
  ASSUME NEW r \in Requests, Accepted(r)
  PROVE  /\ Priority(r) \in Seq(Seq(Nat)) /\ Priority(r) # <<>>
         /\ Says(r) = [topic |-> r.destination_fields, content |-> r.content_fields,
                       priority |-> <<Head(Priority(r))>>, tags |-> Range(Tail(Priority(r))),
                       expiry |-> r.expires_at_millis, correlation |-> r.correlation_id]
  <1>1. options_payload(r) # Err
    BY DEF Accepted, PayloadsOk
  <1>2. NoOptions(r) \/ (NtfyOptions(r) /\ r.options_fields # <<>>)
    BY <1>1 DEF options_payload
  <1>3. NoOptions(r) <=> r.options_fields = <<>>
    BY <1>2 DEF NoOptions
  <1>4. Priority(r) = (IF r.options_fields = <<>> THEN <<default>> ELSE r.options_fields)
    BY <1>3 DEF Priority
  <1>5. ~(Len(r.content_fields) = 2 /\ r.expires_at_millis = None /\ r.correlation_id = None)
    <2>1. CASE r.content_fields = <<hello>>
      BY <2>1
    <2>2. CASE r.expires_at_millis # None
      BY <2>2
    <2>3. QED BY <2>1, <2>2 DEF Accepted, admitted_first_slice_profile
  <1>6. Priority(r) \in Seq(Seq(Nat)) /\ Priority(r) # <<>>
    <2>1. r.options_fields \in Seq(Seq(Nat)) /\ default \in Seq(Nat)
      BY RequestIs, FixedWords
    <2>2. <<default>> \in Seq(Seq(Nat)) /\ <<default>> # <<>>
      BY <2>1
    <2>3. QED BY <1>4, <2>1, <2>2
  <1>7. QED BY <1>4, <1>5, <1>6 DEF Says

TopicBytes(r) == lp32(r.destination_fields[1])
ContentBytes(r) == Optional(Len(r.content_fields) # 2, lp32(r.content_fields[1])) \o lp32(Last(r.content_fields))
TagBytes(r) ==
  LET tags == sort_dedup(Tail(Priority(r)))
  IN lp32(Head(Priority(r))) \o u32_be(Len(tags)) \o lp32_all(tags)
ExpiryBytes(r) == Optional(r.expires_at_millis = None, to_be_bytes(r.expires_at_millis[1]))
CorrelationBytes(r) == Optional(r.correlation_id = None, lp32(r.correlation_id[1]))
NewBytes(x, y, z, s, t) ==
  RequestDomain \o u32_be(1) \o lp32(ntfy)
    \o segment(1, TopicSchema, ntfy_topic, x) \o segment(2, TextSchema, text, y)
    \o <<1>> \o segment(3, OptionsSchema, ntfy, z) \o s \o t

LEMMA NewIs ==
  ASSUME NEW r \in Requests, Accepted(r)
  PROVE  /\ canonical_request_v1(r)
              = <<NewBytes(TopicBytes(r), ContentBytes(r), TagBytes(r), ExpiryBytes(r), CorrelationBytes(r))>>
         /\ r.destination_fields = <<r.destination_fields[1]>> /\ r.destination_fields[1] \in Seq(Nat)
         /\ Len(r.content_fields) \in {1, 2}
  <1>1. ~LegacyShaped(r) /\ admitted_first_slice_profile(r) /\ PayloadsOk(r)
    BY DEF Accepted
  <1>2. Len(r.destination_fields) = 1 /\ destination_payload(r) = <<TopicBytes(r)>>
    <2>1. destination_payload(r) # Err
      BY <1>1 DEF PayloadsOk
    <2>2. QED BY <2>1 DEF destination_payload, TopicBytes
  <1>3. Len(r.content_fields) \in {1, 2} /\ content_payload(r) = <<ContentBytes(r)>>
    <2>1. content_payload(r) # Err
      BY <1>1 DEF PayloadsOk
    <2>2. Len(r.content_fields) \in {1, 2} /\ content_payload(r) =
            <<(IF Len(r.content_fields) = 2 THEN <<1>> \o lp32(r.content_fields[1]) ELSE <<0>>) \o lp32(Last(r.content_fields))>>
      BY <2>1 DEF content_payload
    <2>3. QED BY <2>2 DEF ContentBytes, Optional
  <1>4. options_payload(r) = <<TagBytes(r)>>
    <2>1. options_payload(r) # Err
      BY <1>1 DEF PayloadsOk
    <2>2. QED BY <2>1 DEF options_payload, TagBytes, Priority
  <1>5. r.destination_fields = <<r.destination_fields[1]>> /\ r.destination_fields[1] \in Seq(Nat)
    BY <1>2, RequestIs, OneIs
  <1>6. destination_payload(r)[1] = TopicBytes(r) /\ content_payload(r)[1] = ContentBytes(r) /\ options_payload(r)[1] = TagBytes(r)
    BY <1>2, <1>3, <1>4
  <1>7. canonical_request_v1(r)
              = <<NewBytes(TopicBytes(r), ContentBytes(r), TagBytes(r), ExpiryBytes(r), CorrelationBytes(r))>>
    BY <1>1, <1>6 DEF canonical_request_v1, NewBytes, ExpiryBytes, CorrelationBytes, Optional
  <1>8. QED BY <1>3, <1>5, <1>7

LEMMA PairSegments ==
  ASSUME NEW role \in Nat, NEW a \in Seq(Nat), NEW k \in Seq(Nat), NEW x \in Seq(Nat), NEW y \in Seq(Nat)
  PROVE  /\ Pair(segment(role, a, k, x), segment(role, a, k, y))
         /\ segment(role, a, k, x) = segment(role, a, k, y) => x = y
  <1> DEFINE h == <<role>> \o lp32(a) \o lp32(k) \o u32_be(1)
  <1>1. h \in Seq(Nat)
    <2>1. <<role>> \in Seq(Nat) /\ lp32(a) \in Seq(Nat) /\ lp32(k) \in Seq(Nat) /\ u32_be(1) \in Seq(Nat)
      BY Framing, LengthCells
    <2>2. <<role>> \o lp32(a) \in Seq(Nat)
      BY <2>1, Joined
    <2>3. <<role>> \o lp32(a) \o lp32(k) \in Seq(Nat)
      BY <2>1, <2>2, Joined
    <2>4. QED BY <2>1, <2>3, Joined
  <1>2. segment(role, a, k, x) = h \o lp32(x) /\ segment(role, a, k, y) = h \o lp32(y)
    BY DEF segment
  <1> HIDE DEF h
  <1>3. Pair(h, h)
    BY <1>1, PairOfOne
  <1>4. Pair(h \o lp32(x), h \o lp32(y)) /\ (h \o lp32(x) = h \o lp32(y) => x = y)
    BY <1>3, ThenFramed
  <1>5. QED BY <1>2, <1>4

LEMMA NewParts ==
  ASSUME NEW x \in Seq(Nat), NEW y \in Seq(Nat), NEW z \in Seq(Nat), NEW s, NEW t,
         NEW x_ \in Seq(Nat), NEW y_ \in Seq(Nat), NEW z_ \in Seq(Nat), NEW s_, NEW t_,
         Pair(s, s_), Pair(t, t_), NewBytes(x, y, z, s, t) = NewBytes(x_, y_, z_, s_, t_)
  PROVE  x = x_ /\ y = y_ /\ z = z_ /\ s = s_ /\ t = t_
  <1> DEFINE h == RequestDomain \o u32_be(1) \o lp32(ntfy)
             a1 == segment(1, TopicSchema, ntfy_topic, x)
             b1 == segment(1, TopicSchema, ntfy_topic, x_)
             a2 == segment(2, TextSchema, text, y)
             b2 == segment(2, TextSchema, text, y_)
             a3 == segment(3, OptionsSchema, ntfy, z)
             b3 == segment(3, OptionsSchema, ntfy, z_)
             c1 == h \o a1
             d1 == h \o b1
             c2 == c1 \o a2
             d2 == d1 \o b2
             c3 == c2 \o <<1>>
             d3 == d2 \o <<1>>
             c4 == c3 \o a3
             d4 == d3 \o b3
             c5 == c4 \o s
             d5 == d4 \o s_
             c6 == c5 \o t
             d6 == d5 \o t_
  <1>1. h \in Seq(Nat)
    <2>1. RequestDomain \in Seq(Nat) /\ u32_be(1) \in Seq(Nat) /\ lp32(ntfy) \in Seq(Nat)
      BY FixedWords, Framing, LengthCells
    <2>2. RequestDomain \o u32_be(1) \in Seq(Nat)
      BY <2>1, Joined
    <2>3. QED BY <2>1, <2>2, Joined
  <1>2. c6 = d6
    BY DEF NewBytes
  <1>3. Pair(a1, b1) /\ (a1 = b1 => x = x_)
    BY PairSegments, FixedWords
  <1>4. Pair(a2, b2) /\ (a2 = b2 => y = y_)
    BY PairSegments, FixedWords
  <1>5. Pair(a3, b3) /\ (a3 = b3 => z = z_)
    BY PairSegments, FixedWords
  <1> HIDE DEF h, a1, b1, a2, b2, a3, b3
  <1>6. Pair(h, h) /\ <<1>> \in Seq(Nat)
    BY <1>1, PairOfOne
  <1>7. Pair(c1, d1) /\ (c1 = d1 => a1 = b1)
    BY <1>3, <1>6, ThenPair
  <1> HIDE DEF c1, d1
  <1>8. Pair(c2, d2) /\ (c2 = d2 => c1 = d1 /\ a2 = b2)
    BY <1>4, <1>7, ThenPair
  <1> HIDE DEF c2, d2
  <1>9. Pair(c3, d3) /\ (c3 = d3 => c2 = d2)
    BY <1>6, <1>8, ThenSame
  <1> HIDE DEF c3, d3
  <1>10. Pair(c4, d4) /\ (c4 = d4 => c3 = d3 /\ a3 = b3)
    BY <1>5, <1>9, ThenPair
  <1> HIDE DEF c4, d4
  <1>11. Pair(c5, d5) /\ (c5 = d5 => c4 = d4 /\ s = s_)
    BY <1>10, ThenPair
  <1> HIDE DEF c5, d5
  <1>12. c6 = d6 => c5 = d5 /\ t = t_
    BY <1>11, ThenPair
  <1> HIDE DEF c6, d6
  <1>13. QED BY <1>2, <1>3, <1>4, <1>5, <1>7, <1>8, <1>9, <1>10, <1>11, <1>12

LEMMA PairContents ==
  ASSUME NEW c \in Seq(Seq(Nat)), NEW k \in Seq(Seq(Nat)), Len(c) \in {1, 2}, Len(k) \in {1, 2}
  PROVE  LET x == Optional(Len(c) # 2, lp32(c[1])) \o lp32(Last(c))
             y == Optional(Len(k) # 2, lp32(k[1])) \o lp32(Last(k))
         IN Pair(x, y) /\ (x = y => c = k)
  <1> DEFINE a == Len(c) # 2
             b == Len(k) # 2
             p == lp32(c[1])
             q == lp32(k[1])
  <1>1. c[1] \in Seq(Nat) /\ k[1] \in Seq(Nat) /\ c[Len(c)] \in Seq(Nat) /\ k[Len(k)] \in Seq(Nat)
    <2>1. \A n \in {1, 2} : 1 \in 1..n /\ n \in 1..n
      OBVIOUS
    <2>2. \A i \in 1..Len(c) : c[i] \in Seq(Nat)
      OBVIOUS
    <2>3. \A i \in 1..Len(k) : k[i] \in Seq(Nat)
      OBVIOUS
    <2>4. QED BY <2>1, <2>2, <2>3
  <1>2. Last(c) = c[Len(c)] /\ Last(k) = k[Len(k)]
    BY DEF Last
  <1>3. a \in BOOLEAN /\ b \in BOOLEAN
    OBVIOUS
  <1>4. Pair(p, q) /\ (p = q => c[1] = k[1])
    BY <1>1, PairFramed
  <1> HIDE DEF a, b, p, q
  <1>5. Pair(Optional(a, p), Optional(b, q)) /\ (Optional(a, p) = Optional(b, q) => a = b /\ (~a => p = q))
    BY <1>3, <1>4, PairOptional DEF Pair
  <1> DEFINE m == Optional(a, p)
             n == Optional(b, q)
             u == Last(c)
             w == Last(k)
  <1>6. u \in Seq(Nat) /\ w \in Seq(Nat) /\ Pair(m, n)
    BY <1>1, <1>2, <1>5
  <1> HIDE DEF m, n, u, w
  <1>7. Pair(m \o lp32(u), n \o lp32(w)) /\ (m \o lp32(u) = n \o lp32(w) => m = n /\ u = w)
    BY <1>6, ThenFramed
  <1>8. ASSUME m = n, u = w PROVE c = k
    <2>1. a = b /\ (~a => c[1] = k[1]) /\ c[Len(c)] = k[Len(k)]
      BY <1>2, <1>4, <1>5, <1>8 DEF m, n, u, w
    <2>2. Len(c) = Len(k)
      BY <2>1 DEF a, b
    <2>3. CASE Len(c) = 2
      <3>1. c[1] = k[1] /\ c[2] = k[2]
        BY <2>1, <2>2, <2>3 DEF a
      <3>2. \A i \in 1..Len(c) : i = 1 \/ i = 2
        BY <2>3
      <3>3. \A i \in 1..Len(c) : c[i] = k[i]
        BY <3>1, <3>2
      <3>4. QED BY <2>2, <3>3, SeqEqual
    <2>4. CASE Len(c) = 1
      <3>1. c[1] = k[1]
        BY <2>1, <2>2, <2>4
      <3>2. \A i \in 1..Len(c) : i = 1
        BY <2>4
      <3>3. \A i \in 1..Len(c) : c[i] = k[i]
        BY <3>1, <3>2
      <3>4. QED BY <2>2, <3>3, SeqEqual
    <2>5. QED BY <2>3, <2>4
  <1>9. QED BY <1>7, <1>8 DEF m, n, u, w, a, b, p, q

LEMMA PiecesPaired ==
  ASSUME NEW r \in Requests, NEW q \in Requests, Accepted(r), Accepted(q)
  PROVE  /\ Pair(TopicBytes(r), TopicBytes(q))
         /\ TopicBytes(r) = TopicBytes(q) => r.destination_fields[1] = q.destination_fields[1]
         /\ Pair(ContentBytes(r), ContentBytes(q))
         /\ ContentBytes(r) = ContentBytes(q) => r.content_fields = q.content_fields
         /\ Pair(TagBytes(r), TagBytes(q))
         /\ TagBytes(r) = TagBytes(q) =>
              /\ Head(Priority(r)) = Head(Priority(q))
              /\ sort_dedup(Tail(Priority(r))) = sort_dedup(Tail(Priority(q)))
         /\ Pair(ExpiryBytes(r), ExpiryBytes(q))
         /\ ExpiryBytes(r) = ExpiryBytes(q) => r.expires_at_millis = q.expires_at_millis
         /\ Pair(CorrelationBytes(r), CorrelationBytes(q))
         /\ CorrelationBytes(r) = CorrelationBytes(q) => r.correlation_id = q.correlation_id
  <1> DEFINE f == Priority(r)
             g == Priority(q)
             v == sort_dedup(Tail(f))
             w == sort_dedup(Tail(g))
             d == r.destination_fields[1]
             e == q.destination_fields[1]
  <1>1. /\ f \in Seq(Seq(Nat)) /\ f # <<>>
    BY NewSays
  <1>2. /\ g \in Seq(Seq(Nat)) /\ g # <<>>
    BY NewSays
  <1>3. /\ r.destination_fields = <<d>> /\ d \in Seq(Nat) /\ Len(r.content_fields) \in {1, 2}
        /\ q.destination_fields = <<e>> /\ e \in Seq(Nat) /\ Len(q.content_fields) \in {1, 2}
    BY NewIs
  <1>4. /\ Head(f) \in Seq(Nat) /\ Tail(f) \in Seq(Seq(Nat))
        /\ Head(g) \in Seq(Nat) /\ Tail(g) \in Seq(Seq(Nat))
    <2> HIDE DEF f, g
    <2>1. QED BY <1>1, <1>2, HeadTailProperties
  <1>5. /\ v \in Seq(Seq(Nat)) /\ w \in Seq(Seq(Nat))
        /\ Range(v) = Range(Tail(f)) /\ Range(w) = Range(Tail(g))
    <2> HIDE DEF f, g
    <2>1. QED BY <1>4, SortedTags
  <1>6. Pair(TopicBytes(r), TopicBytes(q)) /\ (TopicBytes(r) = TopicBytes(q) => d = e)
    BY <1>3, PairFramed DEF TopicBytes
  <1>7. Pair(ContentBytes(r), ContentBytes(q)) /\ (ContentBytes(r) = ContentBytes(q) => r.content_fields = q.content_fields)
    BY <1>3, PairContents, RequestIs DEF ContentBytes
  <1>8. Pair(TagBytes(r), TagBytes(q)) /\ (TagBytes(r) = TagBytes(q) => Head(f) = Head(g) /\ v = w)
    <2> DEFINE h == lp32(Head(f))
               i == lp32(Head(g))
    <2>1. TagBytes(r) = h \o u32_be(Len(v)) \o lp32_all(v) /\ TagBytes(q) = i \o u32_be(Len(w)) \o lp32_all(w)
      BY DEF TagBytes
    <2> HIDE DEF f, g, v, w
    <2>2. Pair(h, i) /\ (h = i => Head(f) = Head(g))
      BY <1>4, PairFramed
    <2> HIDE DEF h, i
    <2>3. Pair(h \o u32_be(Len(v)) \o lp32_all(v), i \o u32_be(Len(w)) \o lp32_all(w))
          /\ (h \o u32_be(Len(v)) \o lp32_all(v) = i \o u32_be(Len(w)) \o lp32_all(w) => h = i /\ v = w)
      BY <1>5, <2>2, ThenCounted
    <2>4. QED BY <2>1, <2>2, <2>3
  <1>9. /\ Pair(ExpiryBytes(r), ExpiryBytes(q))
        /\ ExpiryBytes(r) = ExpiryBytes(q) => r.expires_at_millis = q.expires_at_millis
    <2> DEFINE a == r.expires_at_millis
               b == q.expires_at_millis
               m == (a = None)
               n == (b = None)
               s == to_be_bytes(a[1])
               t == to_be_bytes(b[1])
    <2>1. a \in Seq(Nat) /\ Len(a) <= 1 /\ b \in Seq(Nat) /\ Len(b) <= 1
      BY RequestIs
    <2>2. (a # None => a = <<a[1]>> /\ a[1] \in Nat) /\ (b # None => b = <<b[1]>> /\ b[1] \in Nat)
      <3> HIDE DEF a, b
      <3>1. QED BY <2>1, AtMostOne DEF None
    <2>3. /\ ~m => s \in Seq(Nat) /\ Len(s) = 8 /\ s[8] = a[1]
          /\ ~n => t \in Seq(Nat) /\ Len(t) = 8 /\ t[8] = b[1]
      BY <2>2, LengthCells
    <2>4. ExpiryBytes(r) = Optional(m, s) /\ ExpiryBytes(q) = Optional(n, t)
      BY DEF ExpiryBytes
    <2> HIDE DEF a, b, s, t
    <2>5. m = n /\ (~m => s = t) => a = b
      BY <2>2, <2>3
    <2>6. m \in BOOLEAN /\ n \in BOOLEAN
      OBVIOUS
    <2> HIDE DEF m, n
    <2>7. ~m /\ ~n => Splits(s, t)
      BY <2>3, SameLengthSplits
    <2>8. Pair(Optional(m, s), Optional(n, t)) /\ (Optional(m, s) = Optional(n, t) => m = n /\ (~m => s = t))
      <3>1. (~m => s \in Seq(Nat)) /\ (~n => t \in Seq(Nat))
        BY <2>3
      <3>2. QED BY <2>6, <2>7, <3>1, PairOptional
    <2>9. QED BY <2>4, <2>5, <2>8 DEF a, b
  <1>10. /\ Pair(CorrelationBytes(r), CorrelationBytes(q))
         /\ CorrelationBytes(r) = CorrelationBytes(q) => r.correlation_id = q.correlation_id
    <2> DEFINE a == r.correlation_id
               b == q.correlation_id
               m == (a = None)
               n == (b = None)
               s == lp32(a[1])
               t == lp32(b[1])
    <2>1. a \in Seq(Seq(Nat)) /\ Len(a) <= 1 /\ b \in Seq(Seq(Nat)) /\ Len(b) <= 1
      BY RequestIs
    <2>2. (a # None => a = <<a[1]>> /\ a[1] \in Seq(Nat)) /\ (b # None => b = <<b[1]>> /\ b[1] \in Seq(Nat))
      <3> HIDE DEF a, b
      <3>1. QED BY <2>1, AtMostOne DEF None
    <2>3. ~m /\ ~n => Pair(s, t) /\ (s = t => a[1] = b[1])
      BY <2>2, PairFramed
    <2>4. (~m => s \in Seq(Nat)) /\ (~n => t \in Seq(Nat))
      BY <2>2, Framing
    <2>5. CorrelationBytes(r) = Optional(m, s) /\ CorrelationBytes(q) = Optional(n, t)
      BY DEF CorrelationBytes
    <2> HIDE DEF a, b, s, t
    <2>6. m = n /\ (~m => s = t) => a = b
      BY <2>2, <2>3
    <2>7. m \in BOOLEAN /\ n \in BOOLEAN
      OBVIOUS
    <2> HIDE DEF m, n
    <2>8. Pair(Optional(m, s), Optional(n, t)) /\ (Optional(m, s) = Optional(n, t) => m = n /\ (~m => s = t))
      BY <2>3, <2>4, <2>7, PairOptional DEF Pair
    <2>9. QED BY <2>5, <2>6, <2>8 DEF a, b
  <1>11. TopicBytes(r) = TopicBytes(q) => r.destination_fields[1] = q.destination_fields[1]
    BY <1>6
  <1>12. TagBytes(r) = TagBytes(q) =>
           /\ Head(Priority(r)) = Head(Priority(q))
           /\ sort_dedup(Tail(Priority(r))) = sort_dedup(Tail(Priority(q)))
    BY <1>8
  <1> HIDE DEF f, g, v, w, d, e
  <1>13. QED BY <1>6, <1>7, <1>8, <1>9, <1>10, <1>11, <1>12

LEMMA NewPieces ==
  ASSUME NEW r \in Requests, Accepted(r)
  PROVE  /\ TopicBytes(r) \in Seq(Nat) /\ ContentBytes(r) \in Seq(Nat) /\ TagBytes(r) \in Seq(Nat)
         /\ ExpiryBytes(r) \in Seq(Nat) /\ CorrelationBytes(r) \in Seq(Nat)
  BY PiecesPaired DEF Pair

LEMMA NewMeaning ==
  ASSUME NEW r \in Requests, NEW q \in Requests, Accepted(r), Accepted(q)
  PROVE  canonical_request_v1(r) = canonical_request_v1(q) <=> Says(r) = Says(q)
  <1> DEFINE f == Priority(r)
             g == Priority(q)
             v == sort_dedup(Tail(f))
             w == sort_dedup(Tail(g))
             d == r.destination_fields[1]
             e == q.destination_fields[1]
  <1>1. /\ f \in Seq(Seq(Nat)) /\ f # <<>>
        /\ Says(r) = [topic |-> r.destination_fields, content |-> r.content_fields,
                       priority |-> <<Head(f)>>, tags |-> Range(Tail(f)),
                       expiry |-> r.expires_at_millis, correlation |-> r.correlation_id]
    BY NewSays
  <1>2. /\ g \in Seq(Seq(Nat)) /\ g # <<>>
        /\ Says(q) = [topic |-> q.destination_fields, content |-> q.content_fields,
                       priority |-> <<Head(g)>>, tags |-> Range(Tail(g)),
                       expiry |-> q.expires_at_millis, correlation |-> q.correlation_id]
    BY NewSays
  <1>3. Says(r) = Says(q) <=>
          /\ r.destination_fields = q.destination_fields /\ r.content_fields = q.content_fields
          /\ Head(f) = Head(g) /\ Range(Tail(f)) = Range(Tail(g))
          /\ r.expires_at_millis = q.expires_at_millis /\ r.correlation_id = q.correlation_id
    <2> HIDE DEF f, g
    <2>1. <<Head(f)>> = <<Head(g)>> <=> Head(f) = Head(g)
      OBVIOUS
    <2>2. QED BY <1>1, <1>2, <2>1
  <1>4. /\ r.destination_fields = <<d>> /\ d \in Seq(Nat) /\ Len(r.content_fields) \in {1, 2}
        /\ q.destination_fields = <<e>> /\ e \in Seq(Nat) /\ Len(q.content_fields) \in {1, 2}
    BY NewIs
  <1>5. /\ canonical_request_v1(r)
             = <<NewBytes(TopicBytes(r), ContentBytes(r), TagBytes(r), ExpiryBytes(r), CorrelationBytes(r))>>
        /\ canonical_request_v1(q)
             = <<NewBytes(TopicBytes(q), ContentBytes(q), TagBytes(q), ExpiryBytes(q), CorrelationBytes(q))>>
    BY NewIs
  <1>6. /\ Head(f) \in Seq(Nat) /\ Tail(f) \in Seq(Seq(Nat))
        /\ Head(g) \in Seq(Nat) /\ Tail(g) \in Seq(Seq(Nat))
    <2> HIDE DEF f, g
    <2>1. QED BY <1>1, <1>2, HeadTailProperties
  <1>7. /\ v \in Seq(Seq(Nat)) /\ w \in Seq(Seq(Nat))
        /\ Range(v) = Range(Tail(f)) /\ Range(w) = Range(Tail(g))
    <2> HIDE DEF f, g
    <2>1. QED BY <1>6, SortedTags
  <1>8. Pair(TopicBytes(r), TopicBytes(q)) /\ (TopicBytes(r) = TopicBytes(q) => d = e)
    BY PiecesPaired
  <1>9. Pair(ContentBytes(r), ContentBytes(q)) /\ (ContentBytes(r) = ContentBytes(q) => r.content_fields = q.content_fields)
    BY PiecesPaired
  <1>10. Pair(TagBytes(r), TagBytes(q)) /\ (TagBytes(r) = TagBytes(q) => Head(f) = Head(g) /\ v = w)
    BY PiecesPaired
  <1>11. /\ Pair(ExpiryBytes(r), ExpiryBytes(q))
         /\ ExpiryBytes(r) = ExpiryBytes(q) => r.expires_at_millis = q.expires_at_millis
    BY PiecesPaired
  <1>12. /\ Pair(CorrelationBytes(r), CorrelationBytes(q))
         /\ CorrelationBytes(r) = CorrelationBytes(q) => r.correlation_id = q.correlation_id
    BY PiecesPaired
  <1> HIDE DEF v, w, d, e, f, g
  <1>13. ASSUME canonical_request_v1(r) = canonical_request_v1(q)
         PROVE  Says(r) = Says(q)
    <2>1. NewBytes(TopicBytes(r), ContentBytes(r), TagBytes(r), ExpiryBytes(r), CorrelationBytes(r))
            = NewBytes(TopicBytes(q), ContentBytes(q), TagBytes(q), ExpiryBytes(q), CorrelationBytes(q))
      BY <1>5, <1>13
    <2>2. /\ TopicBytes(r) = TopicBytes(q) /\ ContentBytes(r) = ContentBytes(q) /\ TagBytes(r) = TagBytes(q)
          /\ ExpiryBytes(r) = ExpiryBytes(q) /\ CorrelationBytes(r) = CorrelationBytes(q)
      BY <1>8, <1>9, <1>10, <1>11, <1>12, <2>1, NewParts DEF Pair
    <2>3. QED BY <1>3, <1>4, <1>7, <1>8, <1>9, <1>10, <1>11, <1>12, <2>2
  <1>14. ASSUME Says(r) = Says(q)
         PROVE  canonical_request_v1(r) = canonical_request_v1(q)
    <2>1. /\ r.destination_fields = q.destination_fields /\ r.content_fields = q.content_fields
          /\ Head(f) = Head(g) /\ Range(Tail(f)) = Range(Tail(g))
          /\ r.expires_at_millis = q.expires_at_millis /\ r.correlation_id = q.correlation_id
      BY <1>3, <1>14
    <2>2. sort_dedup(Tail(f)) = sort_dedup(Tail(g))
      BY <2>1, SortedByRange
    <2>3. TagBytes(r) = TagBytes(q)
      BY <2>1, <2>2 DEF TagBytes, f, g
    <2>4. TopicBytes(r) = TopicBytes(q) /\ ContentBytes(r) = ContentBytes(q)
          /\ ExpiryBytes(r) = ExpiryBytes(q) /\ CorrelationBytes(r) = CorrelationBytes(q)
      BY <2>1 DEF TopicBytes, ContentBytes, ExpiryBytes, CorrelationBytes
    <2>5. QED BY <1>5, <2>3, <2>4
  <1>15. QED BY <1>13, <1>14

-----------------------------------------------------------------------------
\* The second cell tells the two forms apart.
Starts(x, c) == x \in Seq(Nat) /\ 2 \in 1..Len(x) /\ x[2] = c

LEMMA StartsOn ==
  ASSUME NEW x, NEW c, Starts(x, c), NEW y \in Seq(Nat)
  PROVE  Starts(x \o y, c)
  <1>1. x \in Seq(Nat) /\ 2 \in 1..Len(x) /\ x[2] = c
    BY DEF Starts
  <1>2. x \o y \in Seq(Nat) /\ Len(x \o y) = Len(x) + Len(y) /\ (x \o y)[2] = x[2]
    BY <1>1, Joined
  <1>3. Len(x) \in Nat /\ Len(y) \in Nat
    BY <1>1
  <1>4. 2 \in 1..(Len(x) + Len(y))
    BY <1>1, <1>3
  <1>5. QED BY <1>1, <1>2, <1>4 DEF Starts

LEMMA SecondCell ==
  ASSUME NEW x \in Seq(Nat), NEW y \in Seq(Nat), NEW n \in {1, 4}, NEW c,
         Len(x) = 1, Len(y) = n, y[1] = c
  PROVE  Starts(x \o y, c)
  <1>1. /\ x \o y \in Seq(Nat) /\ Len(x \o y) = Len(x) + Len(y)
        /\ \A i \in 1..Len(y) : (x \o y)[Len(x) + i] = y[i]
    BY Joined
  <1>2. Len(x \o y) = 1 + n /\ 1 \in 1..Len(y) /\ 2 \in 1..(1 + n)
    BY <1>1
  <1>3. (x \o y)[2] = c
    BY <1>1, <1>2
  <1>4. QED BY <1>1, <1>2, <1>3 DEF Starts

LEMMA LegacyStarts ==
  ASSUME NEW d \in Seq(Nat), NEW c \in Seq(Seq(Nat)), NEW o \in Seq(Nat)
  PROVE  Starts(LegacyBytes(d, c, o), 1)
  <1>1. /\ lp32(ntfy) \in Seq(Nat) /\ lp32(ntfy_topic) \in Seq(Nat) /\ lp32(text) \in Seq(Nat)
        /\ lp32(d) \in Seq(Nat) /\ <<0, 0>> \in Seq(Nat)
        /\ u32_be(4) \in Seq(Nat) /\ u32_be(1) \in Seq(Nat)
    BY FixedWords, Framing, LengthCells
  <1>2. u32_be(Len(c)) \in Seq(Nat) /\ lp32_all(c) \in Seq(Nat)
    <2>1. Len(c) \in Nat
      OBVIOUS
    <2>2. QED BY <2>1, LengthCells, AllSplit
  <1>3. Starts(RequestDomain \o <<1>>, 1)
    <2> DEFINE one == <<1>>
    <2>1. RequestDomain \in Seq(Nat) /\ one \in Seq(Nat)
      BY FixedWords
    <2>2. Len(RequestDomain) = 1 /\ Len(one) = 1 /\ one[1] = 1
      BY DEF RequestDomain
    <2>3. QED BY <2>1, <2>2, SecondCell
  <1>4. Starts(LegacyHead, 1)
    BY <1>1, <1>3, StartsOn DEF LegacyHead
  <1> DEFINE x1 == LegacyHead \o lp32(d)
             x2 == x1 \o lp32(text) \o u32_be(4) \o u32_be(1)
             x3 == x2 \o u32_be(Len(c)) \o lp32_all(c)
             x4 == x3 \o o
             x5 == x4 \o <<0, 0>>
  <1>5. LegacyBytes(d, c, o) = x5
    BY DEF LegacyBytes
  <1>6. Starts(x1, 1)
    BY <1>1, <1>4, StartsOn
  <1> HIDE DEF x1
  <1>7. Starts(x2, 1)
    BY <1>1, <1>6, StartsOn
  <1> HIDE DEF x2
  <1>8. Starts(x3, 1)
    BY <1>2, <1>7, StartsOn
  <1> HIDE DEF x3
  <1>9. Starts(x4, 1)
    BY <1>8, StartsOn
  <1> HIDE DEF x4
  <1>10. Starts(x5, 1)
    BY <1>1, <1>9, StartsOn
  <1>11. QED BY <1>5, <1>10

LEMMA NewStarts ==
  ASSUME NEW x \in Seq(Nat), NEW y \in Seq(Nat), NEW z \in Seq(Nat), NEW s \in Seq(Nat), NEW t \in Seq(Nat)
  PROVE  Starts(NewBytes(x, y, z, s, t), 0)
  <1> DEFINE a == segment(1, TopicSchema, ntfy_topic, x)
             b == segment(2, TextSchema, text, y)
             c == segment(3, OptionsSchema, ntfy, z)
             l == lp32(ntfy)
             h == RequestDomain \o u32_be(1)
             i == <<1>>
  <1>1. a \in Seq(Nat)
    BY PairSegments, FixedWords DEF Pair
  <1>2. b \in Seq(Nat)
    BY PairSegments, FixedWords DEF Pair
  <1>3. c \in Seq(Nat)
    BY PairSegments, FixedWords DEF Pair
  <1>4. l \in Seq(Nat) /\ i \in Seq(Nat)
    BY FixedWords, Framing
  <1>5. Starts(h, 0)
    <2>1. RequestDomain \in Seq(Nat) /\ u32_be(1) \in Seq(Nat)
      BY FixedWords, LengthCells
    <2>2. Len(RequestDomain) = 1 /\ Len(u32_be(1)) = 4 /\ u32_be(1)[1] = 0
      BY DEF RequestDomain, u32_be
    <2>3. QED BY <2>1, <2>2, SecondCell
  <1>6. NewBytes(x, y, z, s, t) = h \o l \o a \o b \o i \o c \o s \o t
    BY DEF NewBytes
  <1> HIDE DEF a, b, c, l, h, i
  <1>7. Starts(h \o l \o a \o b, 0)
    BY <1>1, <1>2, <1>4, <1>5, StartsOn
  <1>8. Starts(h \o l \o a \o b \o i \o c, 0)
    BY <1>3, <1>4, <1>7, StartsOn
  <1>9. Starts(h \o l \o a \o b \o i \o c \o s \o t, 0)
    BY <1>8, StartsOn
  <1>10. QED BY <1>6, <1>9

LEMMA TwoForms ==
  ASSUME NEW r \in Requests, canonical_request_v1(r) # Err
  PROVE  \/ /\ LegacyShaped(r) /\ canonical_request_v1(r) = <<legacy_canonical_request_v1(r)>>
            /\ Starts(legacy_canonical_request_v1(r), 1)
         \/ /\ Accepted(r)
            /\ \E b : canonical_request_v1(r) = <<b>> /\ Starts(b, 0)
  <1>1. CASE LegacyShaped(r)
    <2>1. canonical_request_v1(r) = <<legacy_canonical_request_v1(r)>>
      BY <1>1 DEF canonical_request_v1
    <2> DEFINE d == r.destination_fields[1]
               c == r.content_fields
               v == sort_dedup(r.options_fields)
               o == LegacyOptions(NoOptions(r), v)
    <2>2. legacy_canonical_request_v1(r) = LegacyBytes(d, c, o) /\ d \in Seq(Nat)
      BY <1>1, LegacyIs
    <2>3. c \in Seq(Seq(Nat)) /\ v \in Seq(Seq(Nat)) /\ NoOptions(r) \in BOOLEAN
      BY RequestIs, SortedTags DEF NoOptions
    <2> HIDE DEF c, d, v
    <2>4. o \in Seq(Nat)
      BY <2>3, PairLegacyOptions DEF Pair
    <2> HIDE DEF o
    <2>5. Starts(LegacyBytes(d, c, o), 1)
      BY <2>2, <2>3, <2>4, LegacyStarts
    <2>6. QED BY <1>1, <2>1, <2>2, <2>5
  <1>2. CASE ~LegacyShaped(r)
    <2>1. Accepted(r)
      BY <1>2 DEF canonical_request_v1, Accepted
    <2> DEFINE a == TopicBytes(r)
               b == ContentBytes(r)
               c == TagBytes(r)
               s == ExpiryBytes(r)
               t == CorrelationBytes(r)
    <2>2. canonical_request_v1(r) = <<NewBytes(a, b, c, s, t)>>
      BY <2>1, NewIs
    <2>3. a \in Seq(Nat) /\ b \in Seq(Nat) /\ c \in Seq(Nat) /\ s \in Seq(Nat) /\ t \in Seq(Nat)
      BY <2>1, NewPieces
    <2> HIDE DEF a, b, c, s, t
    <2>4. Starts(NewBytes(a, b, c, s, t), 0)
      BY <2>3, NewStarts
    <2>5. QED BY <2>1, <2>2, <2>4
  <1>3. QED BY <1>1, <1>2

\* The canonical bytes of two requests are the same if and only if the requests
\* say the same.
LEMMA CanonicalMeaning ==
  ASSUME NEW r \in Requests, NEW q \in Requests,
         canonical_request_v1(r) # Err, canonical_request_v1(q) # Err
  PROVE  /\ canonical_request_v1(r) = canonical_request_v1(q) <=> Says(r) = Says(q)
         /\ canonical_request_v1(r) = <<canonical_request_v1(r)[1]>>
         /\ canonical_request_v1(r) \in Seq(Seq(Nat)) /\ Len(canonical_request_v1(r)) = 1
  <1>1. ASSUME NEW x \in Requests, NEW y \in Requests, LegacyShaped(x), Accepted(y),
               canonical_request_v1(x) # Err, canonical_request_v1(y) # Err
        PROVE  canonical_request_v1(x) # canonical_request_v1(y) /\ Says(x) # Says(y)
    <2>1. canonical_request_v1(x) = <<legacy_canonical_request_v1(x)>> /\ Starts(legacy_canonical_request_v1(x), 1)
      BY <1>1, TwoForms DEF Accepted
    <2>2. PICK b : canonical_request_v1(y) = <<b>> /\ Starts(b, 0)
      BY <1>1, TwoForms DEF Accepted
    <2>3. legacy_canonical_request_v1(x) # b
      BY <2>1, <2>2 DEF Starts
    <2>4. Says(x).priority = None /\ Says(y).priority = <<Head(Priority(y))>>
      BY <1>1, LegacySays, NewSays
    <2>5. Says(x) # Says(y)
      <3>1. \A h : <<h>> # <<>>
        OBVIOUS
      <3>2. QED BY <2>4, <3>1 DEF None
    <2>6. QED BY <2>1, <2>2, <2>3, <2>5
  <1>2. /\ LegacyShaped(r) \/ Accepted(r)
        /\ LegacyShaped(q) \/ Accepted(q)
    BY TwoForms
  <1>3. PICK b : canonical_request_v1(r) = <<b>> /\ b \in Seq(Nat)
    BY TwoForms DEF Starts
  <1>4. /\ canonical_request_v1(r) = <<canonical_request_v1(r)[1]>>
        /\ canonical_request_v1(r) \in Seq(Seq(Nat)) /\ Len(canonical_request_v1(r)) = 1
    BY <1>3
  <1>5. CASE LegacyShaped(r) /\ LegacyShaped(q)
    <2>1. /\ canonical_request_v1(r) = <<legacy_canonical_request_v1(r)>>
          /\ canonical_request_v1(q) = <<legacy_canonical_request_v1(q)>>
      BY <1>5 DEF canonical_request_v1
    <2>2. QED BY <1>4, <1>5, <2>1, LegacyMeaning
  <1>6. CASE Accepted(r) /\ Accepted(q)
    BY <1>4, <1>6, NewMeaning
  <1>7. CASE LegacyShaped(r) /\ Accepted(q)
    BY <1>1, <1>4, <1>7
  <1>8. CASE Accepted(r) /\ LegacyShaped(q)
    BY <1>1, <1>4, <1>8
  <1>9. QED BY <1>2, <1>5, <1>6, <1>7, <1>8

-----------------------------------------------------------------------------
LEMMA SameParts ==
  ASSUME NEW k \in KeyRefs, NEW domain \in Seq(Nat), NEW v \in Seq(Seq(Nat)), NEW w \in Seq(Seq(Nat)),
         Len(v) = Len(w)
  PROVE  TagOf(k, domain, v) = TagOf(k, domain, w) <=> v = w
  <1> DEFINE h == domain \o k.key_id
             a == lp32_all(v)
             b == lp32_all(w)
  <1>1. k.key_id \in Seq(Nat)
    BY LedgerConstants DEF KeyRefs
  <1>2. h \in Seq(Nat)
    BY <1>1, Joined
  <1>3. a \in Seq(Nat) /\ b \in Seq(Nat) /\ (a = b => v = w)
    BY AllSplit
  <1>4. framed(domain, k, v) = h \o a /\ framed(domain, k, w) = h \o b
    BY DEF framed
  <1> HIDE DEF h, a, b
  <1>5. h \o a = h \o b => v = w
    BY <1>2, <1>3, Cancelled
  <1>6. TagOf(k, domain, v) = TagOf(k, domain, w) => framed(domain, k, v) = framed(domain, k, w)
    BY DEF TagOf
  <1>7. QED BY <1>4, <1>5, <1>6

LEMMA SoundParts ==
  ASSUME NEW c, Sound(c)
  PROVE  /\ c.keys[1] \in KeyRefs /\ c.keys[2] \in KeyRefs
         /\ c.caller \in Seq(Seq(Nat)) /\ Len(c.caller) = 2 /\ c.caller = <<c.caller[1], c.caller[2]>>
         /\ c.request \in Requests /\ canonical_request_v1(c.request) # Err
  <1>1. c.keys \in KeyRefs \X KeyRefs /\ c.caller \in Seq(Nat) \X Seq(Nat)
    BY LedgerConstants DEF Sound
  <1>2. c.caller = <<c.caller[1], c.caller[2]>> /\ c.caller[1] \in Seq(Nat) /\ c.caller[2] \in Seq(Nat)
    BY <1>1
  <1>3. c.caller \in Seq(Seq(Nat)) /\ Len(c.caller) = 2
    <2>1. \A a, b \in Seq(Nat) : <<a, b>> \in Seq(Seq(Nat)) /\ Len(<<a, b>>) = 2
      OBVIOUS
    <2>2. QED BY <1>2, <2>1
  <1>4. QED BY <1>1, <1>2, <1>3 DEF Sound

LEMMA Domains == FINGERPRINT_DOMAIN \in Seq(Nat) /\ LOOKUP_DOMAIN \in Seq(Nat)
  BY DEF FINGERPRINT_DOMAIN, LOOKUP_DOMAIN

LEMMA FoundApart ==
  ASSUME NEW c, NEW e, Sound(c), Sound(e), FoundOf(c) = FoundOf(e)
  PROVE  c.caller = e.caller
  <1>1. c.keys[1] = e.keys[1]
    BY DEF FoundOf, TagOf
  <1>2. TagOf(c.keys[1], LOOKUP_DOMAIN, c.caller) = TagOf(c.keys[1], LOOKUP_DOMAIN, e.caller)
    BY <1>1 DEF FoundOf
  <1>3. /\ c.keys[1] \in KeyRefs /\ c.caller \in Seq(Seq(Nat)) /\ e.caller \in Seq(Seq(Nat))
        /\ Len(c.caller) = Len(e.caller)
    BY SoundParts
  <1>4. QED BY <1>2, <1>3, Domains, SameParts

LEMMA PrintMeaning ==
  ASSUME NEW c, NEW e, Sound(c), Sound(e), c.keys = e.keys
  PROVE  PrintOf(c) = PrintOf(e) <=> Says(c.request) = Says(e.request)
  <1> DEFINE v == canonical_request_v1(c.request)
             w == canonical_request_v1(e.request)
  <1>1. c.keys[2] \in KeyRefs /\ c.request \in Requests /\ e.request \in Requests /\ v # Err /\ w # Err
    BY SoundParts
  <1>2. /\ v = w <=> Says(c.request) = Says(e.request)
        /\ v \in Seq(Seq(Nat)) /\ Len(v) = 1
    BY <1>1, CanonicalMeaning
  <1>3. w \in Seq(Seq(Nat)) /\ Len(w) = 1
    BY <1>1, CanonicalMeaning
  <1>4. PrintOf(c) = TagOf(c.keys[2], FINGERPRINT_DOMAIN, v) /\ PrintOf(e) = TagOf(c.keys[2], FINGERPRINT_DOMAIN, w)
    BY DEF PrintOf
  <1> HIDE DEF v, w
  <1>5. TagOf(c.keys[2], FINGERPRINT_DOMAIN, v) = TagOf(c.keys[2], FINGERPRINT_DOMAIN, w) <=> v = w
    BY <1>1, <1>2, <1>3, Domains, SameParts
  <1>6. QED BY <1>2, <1>4, <1>5

LEMMA LedgerJudged == LedgerInv => LedgerSafety
  <1> SUFFICES ASSUME LedgerInv PROVE LedgerSafety
    OBVIOUS
  <1>1. ASSUME NEW r \in IF last.answer \in {"replay", "conflict"} THEN last.record ELSE {}
        PROVE  /\ last.answer \in {"replay", "conflict"} /\ Sound(last) /\ Sound(r)
               /\ FoundOf(r) = FoundOf(last)
               /\ last.answer = "replay" <=> PrintOf(r) = PrintOf(last)
    <2>1. last.answer \in {"replay", "conflict"} /\ r \in last.record
      OBVIOUS
    <2>2. /\ Sound(last) /\ r \in ledger /\ r.found = FoundOf(last)
          /\ last.answer = "replay" <=> r.print = PrintOf(last)
      BY <2>1 DEF LedgerInv
    <2>3. Sound(r) /\ r.found = FoundOf(r) /\ r.print = PrintOf(r)
      BY <2>2 DEF LedgerInv
    <2>4. QED BY <2>1, <2>2, <2>3
  <1>2. AnsweredByMeaning
    BY <1>1, PrintMeaning DEF AnsweredByMeaning
  <1>3. CallersApart
    BY <1>1, FoundApart DEF CallersApart
  <1>4. ASSUME NEW k, NEW domain, NEW parts
         PROVE  TagOf(k, domain, parts)[1].key = k /\ TagOf(k, domain, parts)[1].tag = <<k, framed(domain, k, parts)>>
    BY DEF TagOf
  <1>5. ASSUME NEW r \in ledger
         PROVE  /\ r.found = TagOf(r.keys[1], LOOKUP_DOMAIN, r.caller)
                /\ r.print = TagOf(r.keys[2], FINGERPRINT_DOMAIN, canonical_request_v1(r.request))
                /\ r.keys[1].purpose # r.keys[2].purpose
    BY DEF LedgerInv, Sound, FoundOf, PrintOf
  <1>6. TagsVerify
    BY <1>4, <1>5 DEF TagsVerify
  <1>7. PurposesApart
    BY <1>4, <1>5 DEF PurposesApart
  <1>8. QED BY <1>2, <1>3, <1>6, <1>7 DEF LedgerSafety

LEMMA LedgerStart == LedgerInit => LedgerInv
  BY DEF LedgerInit, LedgerInv

\* What comes out of the MAC boundary is the tag of what was asked for.
LEMMA Authenticated ==
  ASSUME NEW key, NEW purpose, NEW domain, NEW parts,
         NEW reply \in authenticate(key, framed(domain, key, parts)),
         authenticate_idempotency(key, purpose, reply) # Err
  PROVE  key.purpose = purpose /\ authenticate_idempotency(key, purpose, reply) = TagOf(key, domain, parts)
  <1>1. /\ key.purpose = purpose /\ reply # Err /\ reply[1].key = key
        /\ authenticate_idempotency(key, purpose, reply) = reply
    BY DEF authenticate_idempotency
  <1>2. PICK k \in KeyRefs : reply = <<[key |-> k, tag |-> <<k, framed(domain, key, parts)>>]>>
    BY <1>1 DEF authenticate
  <1>3. reply[1].key = k
    BY <1>2
  <1>4. QED BY <1>1, <1>2, <1>3 DEF TagOf

LEMMA LedgerStep == LedgerInv /\ [LedgerNext]_ledgerVars => LedgerInv'
  <1> SUFFICES ASSUME LedgerInv, [LedgerNext]_ledgerVars PROVE LedgerInv'
    OBVIOUS
  <1>1. CASE UNCHANGED ledgerVars
    BY <1>1 DEF ledgerVars, LedgerInv, Sound, FoundOf, PrintOf
  <1>2. ASSUME Refuse PROVE LedgerInv'
    <2>1. ledger' = ledger /\ last'.answer = "refused"
      BY <1>2 DEF Refuse
    <2>2. QED BY <2>1 DEF LedgerInv
  <1>3. CASE LedgerNext
    <2>1. PICK request \in Requests, caller \in Callers, keys \in KeyRefs \X KeyRefs :
            Submit(request, canonical_request_v1(request), caller, keys)
      BY <1>3 DEF LedgerNext
    <2> DEFINE canonical == canonical_request_v1(request)
    <2>2. CASE canonical = Err
      BY <1>2, <2>1, <2>2 DEF Submit
    <2>3. CASE canonical # Err
      <3>1. PICK found \in lookup_digest_v1_with_provider(keys[1], caller[1], caller[2]),
                 print \in semantic_fingerprint_v1_with_provider(keys[2], canonical[1]) :
              IF found = Err \/ print = Err THEN Refuse
              ELSE LET hits == {r \in ledger : r.found = found} IN
                   IF hits = {} THEN Record(caller, request, keys, found, print)
                   ELSE \E r \in hits : Compare(caller, request, keys, r, print)
        BY <2>1, <2>3 DEF Submit
      <3>2. CASE found = Err \/ print = Err
        BY <1>2, <3>1, <3>2
      <3>3. CASE found # Err /\ print # Err
        <4>1. caller = <<caller[1], caller[2]>> /\ canonical = <<canonical[1]>>
          <5>1. caller \in Seq(Nat) \X Seq(Nat)
            BY LedgerConstants
          <5>2. canonical = <<canonical[1]>>
            BY <2>3, CanonicalMeaning
          <5>3. QED BY <5>1, <5>2
        <4>2. keys[1].purpose = "IdempotencyLookupV1" /\ found = TagOf(keys[1], LOOKUP_DOMAIN, caller)
          <5>1. PICK reply \in authenticate(keys[1], framed(LOOKUP_DOMAIN, keys[1], <<caller[1], caller[2]>>)) :
                  found = authenticate_idempotency(keys[1], "IdempotencyLookupV1", reply)
            BY <3>1 DEF lookup_digest_v1_with_provider
          <5>2. QED BY <3>3, <4>1, <5>1, Authenticated
        <4>3. keys[2].purpose = "IdempotencyFingerprintV1" /\ print = TagOf(keys[2], FINGERPRINT_DOMAIN, canonical)
          <5>1. PICK reply \in authenticate(keys[2], framed(FINGERPRINT_DOMAIN, keys[2], <<canonical[1]>>)) :
                  print = authenticate_idempotency(keys[2], "IdempotencyFingerprintV1", reply)
            BY <3>1 DEF semantic_fingerprint_v1_with_provider
          <5>2. QED BY <3>3, <4>1, <5>1, Authenticated
        <4> DEFINE hits == {r \in ledger : r.found = found}
        <4>4. ASSUME NEW c, c.caller = caller, c.request = request, c.keys = keys
              PROVE  Sound(c) /\ FoundOf(c) = found /\ PrintOf(c) = print
          BY <2>3, <4>2, <4>3, <4>4 DEF Sound, FoundOf, PrintOf
        <4>5. CASE hits = {}
          <5> DEFINE record == [caller |-> caller, request |-> request, keys |-> keys,
                                found |-> found, print |-> print]
          <5>1. ledger' = ledger \cup {record} /\ last'.answer = "recorded"
            BY <3>1, <3>3, <4>5 DEF Record, Call
          <5>2. record.caller = caller /\ record.request = request /\ record.keys = keys
                /\ record.found = found /\ record.print = print
            OBVIOUS
          <5> HIDE DEF record
          <5>3. Sound(record) /\ record.found = FoundOf(record) /\ record.print = PrintOf(record)
            BY <4>4, <5>2
          <5>4. QED BY <5>1, <5>3 DEF LedgerInv
        <4>6. CASE hits # {}
          <5>1. PICK r \in hits : Compare(caller, request, keys, r, print)
            BY <3>1, <3>3, <4>6
          <5> DEFINE c == last'
          <5>2. /\ ledger' = ledger /\ r \in ledger /\ r.found = found /\ c.record = {r}
                /\ c.answer = (IF r.print = print THEN "replay" ELSE "conflict")
                /\ c.caller = caller /\ c.request = request /\ c.keys = keys
            BY <5>1 DEF Compare, Call
          <5> HIDE DEF c
          <5>3. Sound(c) /\ FoundOf(c) = found /\ PrintOf(c) = print
            BY <4>4, <5>2
          <5>4. c.answer = "replay" <=> r.print = print
            BY <5>2
          <5>5. QED BY <5>2, <5>3, <5>4 DEF LedgerInv, c
        <4>7. QED BY <4>5, <4>6
      <3>4. QED BY <3>2, <3>3
    <2>4. QED BY <2>2, <2>3
  <1>4. QED BY <1>1, <1>3

\* Idempotency, for every set of requests, callers and keys.
THEOREM Ledger == LedgerSpec => []LedgerSafety
  <1>1. LedgerSpec => []LedgerInv
    BY LedgerStart, LedgerStep, PTL DEF LedgerSpec
  <1>2. QED BY <1>1, LedgerJudged, PTL
=============================================================================

------------------------------- MODULE Inbound -------------------------------
(***************************************************************************)
(* The WhatsApp webhook of the service over the store's inbound tables:    *)
(* which authentic callbacks may act, what they do, and the operator's     *)
(* switch.  Signature, JSON shape, account and phone ids are checked       *)
(* before anything is read from the store; a call that fails them changes  *)
(* nothing, so Callbacks holds only calls that pass.                       *)
(*                                                                         *)
(* InboundSpec runs the webhook on its own, next to clients that submit    *)
(* under any key (an m4 key included) and a wall clock that may jump either *)
(* way.  Deliveries are left out there: the webhook reads of a row only    *)
(* whether it exists, and dispatch neither adds nor removes rows.  Service *)
(* composes the same handlers with the serve loop.                         *)
(***************************************************************************)
EXTENDS DeliveryStore

CONSTANTS
  WhatsappConfigured, \* ServiceConfig.whatsapp is Some
  InboundConfigured,  \* ServiceConfig.inbound is Some
  Policy,             \* InboundConfig.policy: allowed <<sender, verb>>
  MaxTime             \* bound on the clock

ASSUME InboundConstants ==
  /\ WhatsappConfigured \in BOOLEAN
  /\ InboundConfigured \in BOOLEAN
  /\ MaxTime \in Nat

VARIABLE now          \* now_unix_ms

\* now.abs_diff(timestamp) <= 600
Fresh(c) == now - c.ts \in (-Window) .. Window

\* parse_callback's freshness, the literal policy, and the status verb's need
\* of a WhatsApp driver.
Admissible(c) ==
  /\ Fresh(c)
  /\ <<c.sender, c.verb>> \in Policy
  /\ c.verb = "status" => WhatsappConfigured

\* handle_inbound_request for a callback that reaches the store.  The others
\* are answered 200 and ignored.
Receive(c) ==
  /\ InboundConfigured
  /\ Admissible(c)
  /\ m4_submit_inbound(c, now)

\* POST /v1/inbound/enable and /disable.
Switch(on) == InboundConfigured /\ m4_set_inbound_enabled(on)

-----------------------------------------------------------------------------
inboundVars == <<storeVars, now>>

InboundInit == StoreInit /\ now = 0

ClockMoves == now' \in 0 .. MaxTime /\ UNCHANGED storeVars

InboundNext ==
  \/ \E c \in Callbacks : Receive(c) /\ UNCHANGED now
  \/ \E on \in BOOLEAN : Switch(on) /\ UNCHANGED now
  \/ \E k \in Keys : \E r \in NtfyRequests : m2_submit(k, r, now) /\ UNCHANGED now
  \/ \E k \in Keys : \E r \in WhatsappRequests : m3_submit(k, r, now) /\ UNCHANGED now
  \/ ClockMoves

InboundSpec == InboundInit /\ [][InboundNext]_inboundVars

-----------------------------------------------------------------------------
\* What a row makes its driver send.
Wire(c) ==
  IF c.driver = "ntfy"
  THEN <<"ntfy", c.topic, c.title, c.body>>
  ELSE <<"whatsapp", c.destination, c.payload>>

\* Replay and rate accounting stand or fall with the intent: a receipt has the
\* message its callback asked for under its m4 key and is the only one of its
\* callback id, a notify receipt has its rate event, and no rate event is without
\* a receipt, although clients may take an m4 key first (m4_submit_inbound is one
\* transaction).
ReceiptHasIntent ==
  /\ {x.id : x \in {y \in receipts : y.verb = "notify"}} = {e.id : e \in rate}
  /\ \A x \in receipts :
       /\ Present(M4Key[x.id])
       /\ Wire(row[M4Key[x.id]].content) = Wire(M4Content(x))
       /\ \A y \in receipts : y.id = x.id => y = x

\* However the wall clock jumps, no window of Window time units holds more than
\* NotifyLimit accepted notify callbacks of one sender.
RateBounded ==
  \A t \in 0 .. (MaxTime + Window) : \A s \in {e.sender : e \in rate} :
    Cardinality({f \in rate : f.sender = s /\ f.at \in (t - Window + 1) .. t})
      <= NotifyLimit

\* The webhook: a receipt has the message its callback asked for under its m4
\* key and is the only one of its callback, a notify receipt has its rate event
\* and no rate event is without a receipt, although clients may take an m4 key
\* first (m4_submit_inbound is one transaction); and however the wall clock jumps,
\* no window of Window time units holds more than NotifyLimit accepted notify
\* callbacks of one sender.
WebhookSafety == ReceiptHasIntent /\ RateBounded

-----------------------------------------------------------------------------
(***************************************************************************)
(* The inductive invariant.                                                *)
(***************************************************************************)
InboundTypeOK ==
  /\ DOMAIN row = Keys
  /\ IsFiniteSet(rate) /\ \A e \in rate : e.at \in 0 .. MaxTime
  /\ now \in 0 .. MaxTime
  /\ \A x \in receipts : x.id \in CallbackIds

InboundInv == InboundTypeOK /\ WebhookSafety
==============================================================================

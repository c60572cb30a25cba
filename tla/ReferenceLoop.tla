---------------------------- MODULE ReferenceLoop ----------------------------
(***************************************************************************)
(* The Phase 0 reference loop: WhatsApp callbacks become receipts, events  *)
(* and alert intents, registered messages go out, alerts are dispatched    *)
(* under leases.  Workers share one snapshot file, replaced as a whole by  *)
(* a compare-and-swap on its revision; each keeps its last copy of it and  *)
(* every handler starts from that copy, however old.                       *)
(*                                                                         *)
(*   disk      the snapshot (DurableState);                                *)
(*   view      worker |-> its copy (FixtureKernel.durable);                *)
(*   staged    worker |-> receipts of a callback not yet committed;        *)
(*   lease     worker |-> the alert it is dispatching.                     *)
(*                                                                         *)
(* A receipt and its tombstone are always written together and are one     *)
(* entry here; its key, an HMAC, is the pair of key generation and         *)
(* identity.  dispatch_attempts always equals lease_fence and is left out. *)
(* Field "of" of an intent, acked, captured and provider are history;      *)
(* captured counts the alerts shown of a reference.                        *)
(***************************************************************************)
EXTENDS Naturals, Sequences, FiniteSets, FiniteSetsExt, SequencesExt

CONSTANTS
  Workers,
  Ingresses,        \* callbacks: [defects, batch]
  Configurations,   \* the configurations, in the order of their rotation
  Attempts,         \* outbound attempt references
  Outcomes,         \* provider answers: [accepted, id] or [accepted, class]
  Controls,         \* retention requests: [hours, extension, purge]
  Corrections,      \* service-window corrections: [ref, prior]
  FirstStates,      \* the snapshots the workers may find
  LeaseTime, Week,  \* 60 seconds; 168 hours
  Horizon,          \* bound: clock
  MaxRevision,      \* bound: commits
  MaxItems,         \* rows a snapshot can encode
  Nothing

VARIABLES disk, view, staged, lease, now, epoch, acked, captured, provider

loopVars == <<disk, view, staged, lease, now, epoch, acked, captured, provider>>

Identity(c) ==
  IF c.kind = "message" THEN <<c.kind, c.id>> ELSE <<c.kind, c.id, c.status, c.at>>

Identities(batch) == {Identity(batch[i]) : i \in DOMAIN batch}
AllIdentities == UNION {Identities(g.batch) : g \in Ingresses}

References == {"event-6", "event-7"}   \* a matched and an unmatched reply

LoopInit ==
  /\ disk \in FirstStates
  /\ view = [w \in Workers |-> disk]
  /\ staged = [w \in Workers |-> <<>>]
  /\ lease = [w \in Workers |-> Nothing]
  /\ now = 0 /\ epoch = 1
  /\ acked = {} /\ provider = {}
  /\ captured = [ref \in References |-> 0]

configuration == Configurations[epoch]

-----------------------------------------------------------------------------
(***************************************************************************)
(* The store.  An attempt to replace the snapshot is refused when it has   *)
(* moved on, when another worker holds the file lock, when a staged batch  *)
(* is not exactly what is added, or when writing the temporary fails; it   *)
(* may also report failure after the rename, when the directory sync       *)
(* fails, or die on either side of the commit.                             *)
(***************************************************************************)
Numbered(after) == [after EXCEPT !.revision = disk.revision + 1]

\* The rows of all tables, counted together by the encoder and the decoder.
Items(d) ==
  2 * Len(d.receipts) + Len(d.bindings) + Len(d.pins) + Len(d.events) + Len(d.outbox)
    + Len(d.history) + Len(d.windows)

\* Mutant: the number of rows is not checked.
AlwaysEncodable(d) == d.revision \in Nat

Encodable(d) == Items(d) <= MaxItems

\* The snapshot is encoded into a temporary, synced and renamed over the old one.
Replaced(after) ==
  /\ disk.revision < MaxRevision
  /\ Encodable(after)
  /\ disk' = Numbered(after)

\* Mutant: the revision is not compared.
NeverMoved(w) == w \in Workers

Unmoved(w) == view[w].revision = disk.revision

\* The snapshot is read again; when that fails the old copy stays.
Refreshed(w) == view' \in {view, [view EXCEPT ![w] = disk]}

Refused(w, batch) ==
  /\ disk' = disk
  /\ Refreshed(w)
  /\ staged' = [staged EXCEPT ![w] = batch]
  /\ UNCHANGED <<lease, acked>>

Uncertain(w, after, batch) ==
  /\ Unmoved(w) /\ Replaced(after)
  /\ view' = [view EXCEPT ![w] = disk]
  /\ staged' = [staged EXCEPT ![w] = batch]
  /\ UNCHANGED <<lease, acked>>

Committed(w, after, told) ==
  /\ Unmoved(w) /\ Replaced(after)
  /\ view' = [view EXCEPT ![w] = disk']
  /\ staged' = [staged EXCEPT ![w] = <<>>]
  /\ acked' = acked \cup told
  /\ UNCHANGED lease

\* The process dies, and the next one opens what the disk holds.
Reopened(w) ==
  /\ view' = [view EXCEPT ![w] = disk']
  /\ staged' = [staged EXCEPT ![w] = <<>>]
  /\ lease' = [lease EXCEPT ![w] = Nothing]
  /\ UNCHANGED acked

Stopped(w) == disk' = disk /\ Reopened(w)

StoppedAfterCommit(w, after) == Unmoved(w) /\ Replaced(after) /\ Reopened(w)

\* Mutant: the answer is sent before the commit.
AcksFirst(w, after, batch, told) ==
  /\ disk' = disk
  /\ view' = [view EXCEPT ![w] = disk]
  /\ acked' = acked \cup told
  /\ UNCHANGED <<staged, lease>>

ReplaceState(w, after, batch, told) ==
  \/ Refused(w, batch)
  \/ Stopped(w)
  \/ /\ staged[w] = <<>>
     /\ \/ Uncertain(w, after, batch)
        \/ Committed(w, after, told)
        \/ StoppedAfterCommit(w, after)

Idle(w) == lease[w] = Nothing

-----------------------------------------------------------------------------
(***************************************************************************)
(* Callbacks.  The defects of a request are met in the order of the code,  *)
(* the first one decides the answer; only an authentic, well-formed one    *)
(* reaches the candidates.                                                 *)
(***************************************************************************)
\* A request's headers are read in their order up to the first bad one, so it has at
\* most one of "headers" and "second-signature".
TransportDefects ==
  <<"method", "size", "deadline", "headers", "second-signature", "content-type">>
SignatureDefects == <<"signature">>
DocumentDefects == <<"encoding", "grammar", "depth">>
ProfileDefects == <<"envelope", "account", "message", "status", "timestamp">>
Defects == TransportDefects \o SignatureDefects \o DocumentDefects \o ProfileDefects
DefectStatus == [d \in Range(Defects) |->
  CASE d = "size" -> 413 [] d = "deadline" -> 408
    [] d \in {"second-signature", "signature"} -> 401 [] OTHER -> 400]

\* Mutant: the signature is not verified.
UnsignedStatus(g) == IF g.defects \subseteq {"signature"} THEN 200 ELSE 400

callback_status(g) ==
  IF \E i \in DOMAIN Defects : Defects[i] \in g.defects
  THEN DefectStatus[Defects[Min({i \in DOMAIN Defects : Defects[i] \in g.defects})]]
  ELSE 200

\* Mutant: only the active key is tried.
DuplicateUnderActiveKey(d, c) ==
  \E i \in DOMAIN d.receipts :
    /\ d.receipts[i].sender = configuration.sender
    /\ d.receipts[i].generation = configuration.active
    /\ d.receipts[i].identity = Identity(c)

\* The keys of a candidate, one per retained generation, against every receipt.
is_duplicate(d, c) ==
  \E i \in DOMAIN d.receipts :
    /\ d.receipts[i].sender = configuration.sender
    /\ d.receipts[i].generation \in configuration.retained
    /\ d.receipts[i].identity = Identity(c)

Bound(d, id) ==
  Cardinality({i \in DOMAIN d.bindings :
                 d.bindings[i] = [sender |-> configuration.sender, id |-> id]}) = 1

\* The elements of s that are in kept, in their order.
Those(s, kept) ==
  LET those[n \in 0..Len(s)] ==
        IF n = 0 THEN <<>>
        ELSE IF s[n] \in kept THEN Append(those[n - 1], s[n]) ELSE those[n - 1]
  IN those[Len(s)]

accepted(d, batch) == Those(batch, {c \in Range(batch) : ~is_duplicate(d, c)})

Unbindable(d, batch) ==
  \E c \in Range(accepted(d, batch)) : c.kind = "status" /\ ~Bound(d, c.id)

ReceiptOf(c) ==
  [identity |-> Identity(c), generation |-> configuration.active,
   sender |-> configuration.sender]

ReplyReference(d, c) == IF Bound(d, c.context) THEN "event-6" ELSE "event-7"

Intent(d, c) ==
  [ref |-> ReplyReference(d, c), leased |-> FALSE, fence |-> 0, expires |-> 0,
   delivered |-> FALSE, ambiguous |-> FALSE, of |-> Identity(c)]

EventOf(d, c, i) ==
  [kind |-> IF c.kind = "message" THEN ReplyReference(d, c) ELSE c.status,
   order |-> Len(d.events) + i]

messages(fresh) == Those(fresh, {c \in Range(fresh) : c.kind = "message"})

Entered(d, fresh) ==
  [d EXCEPT !.receipts = @ \o [i \in DOMAIN fresh |-> ReceiptOf(fresh[i])],
            !.events = @ \o [i \in DOMAIN fresh |-> EventOf(d, fresh[i], i)],
            !.outbox = @ \o [i \in DOMAIN messages(fresh) |-> Intent(d, messages(fresh)[i])]]

handle_candidates(w, batch) ==
  LET fresh == accepted(view[w], batch)
      rows == [i \in DOMAIN fresh |-> ReceiptOf(fresh[i])] IN
  IF fresh = <<>>
  THEN acked' = acked \cup Identities(batch) /\ UNCHANGED <<disk, view, staged, lease>>
  ELSE /\ ~Unbindable(view[w], batch)
       /\ staged[w] = <<>>
       /\ ReplaceState(w, Entered(view[w], fresh), rows, Identities(batch))

Callback(w, g) ==
  /\ Idle(w)
  /\ callback_status(g) = 200
  /\ handle_candidates(w, g.batch)
  /\ UNCHANGED <<now, epoch, captured, provider>>

-----------------------------------------------------------------------------
(***************************************************************************)
(* Registered outbound messages: the provider is called before the commit  *)
(* that records the call.                                                  *)
(***************************************************************************)
PinsOf(d, a) == {p \in Range(d.pins) : p.attempt = a}

Pin(a) == [attempt |-> a, sender |-> configuration.sender, policy |-> configuration.policy]

Sent(d, a, o) ==
  [d EXCEPT
     !.events = Append(@, [kind |-> "outcome", order |-> Len(@) + 1]),
     !.bindings = IF o.accepted
                  THEN Append(@, [sender |-> configuration.sender, id |-> o.id]) ELSE @,
     !.pins = IF o.accepted THEN Append(@, Pin(a)) ELSE @,
     !.history = IF o.accepted THEN @ ELSE Append(@, o.class)]

\* Mutant: the attempt is recorded before the provider is called.
OutboundRecordsFirst(w, a, o) ==
  /\ Idle(w)
  /\ PinsOf(view[w], a) = {}
  /\ ReplaceState(w, Sent(view[w], a, o), staged[w], {})
  /\ provider' \in {provider, provider \cup {Pin(a)}}
  /\ UNCHANGED <<now, epoch, captured>>

Outbound(w, a, o) ==
  /\ Idle(w)
  /\ PinsOf(view[w], a) = {}
  /\ provider' = provider \cup {Pin(a)}
  /\ ReplaceState(w, Sent(view[w], a, o), staged[w], {})
  /\ UNCHANGED <<now, epoch, captured>>

-----------------------------------------------------------------------------
(***************************************************************************)
(* Alert dispatch: lease, capture, settle.  Each re-reads the snapshot and *)
(* takes the first intent of that reference that qualifies.  The time is   *)
(* the one at which the request was received, also for the later steps.    *)
(***************************************************************************)
FirstOf(positions) == IF positions = {} THEN 0 ELSE Min(positions)

Leasable(ref, i, received) ==
  i.ref = ref /\ ~i.delivered /\ (i.leased => i.expires <= received)

Fenced(l, i) == i.ref = l.ref /\ i.leased /\ ~i.delivered /\ i.fence = l.fence

\* Mutant: a lease taken over leaves no trace.
LeasedAnew(i, received) ==
  [i EXCEPT !.leased = TRUE, !.fence = @ + 1, !.expires = received + LeaseTime]

LeasedIntent(i, received) ==
  [i EXCEPT !.leased = TRUE, !.fence = @ + 1, !.expires = received + LeaseTime,
            !.ambiguous = @ \/ i.leased]

SettledIntent(i) == [i EXCEPT !.leased = FALSE, !.expires = 0, !.delivered = TRUE]

\* The snapshot is written, or written and reported as failed.
Persist(w, after, done) ==
  /\ Replaced(after)
  /\ \/ view' = [view EXCEPT ![w] = disk'] /\ lease' = [lease EXCEPT ![w] = done]
     \/ view' = [view EXCEPT ![w] = disk] /\ lease' = [lease EXCEPT ![w] = Nothing]

\* Nothing qualifies, or the snapshot cannot be read, locked or written.
GivesUp(w) == disk' = disk /\ Refreshed(w) /\ lease' = [lease EXCEPT ![w] = Nothing]

lease_alert(w) ==
  /\ Idle(w)
  /\ \/ GivesUp(w)
     \/ \E ref \in References, received \in 0..now :
          LET i == FirstOf({k \in DOMAIN disk.outbox : Leasable(ref, disk.outbox[k], received)}) IN
          /\ i # 0
          /\ Persist(w, [disk EXCEPT !.outbox[i] = LeasedIntent(@, received)],
                     [ref |-> ref, fence |-> disk.outbox[i].fence + 1,
                      at |-> received, step |-> "leased"])
  /\ UNCHANGED <<staged, now, epoch, acked, captured, provider>>

\* Mutant: whoever holds a lease of the reference, the alert is shown.
EligibleUnfenced(w) ==
  \E i \in DOMAIN disk.outbox :
    /\ disk.outbox[i].ref = lease[w].ref /\ disk.outbox[i].leased /\ ~disk.outbox[i].delivered
    /\ lease[w].at < disk.outbox[i].expires

Eligible(w) ==
  \E i \in DOMAIN disk.outbox :
    Fenced(lease[w], disk.outbox[i]) /\ lease[w].at < disk.outbox[i].expires

\* Mutant: an alert that could not be shown is settled all the same.
CaptureIgnoresFailure(w) ==
  /\ ~Idle(w) /\ lease[w].step = "leased"
  /\ lease' = [lease EXCEPT ![w].step = "captured"]
  /\ UNCHANGED <<disk, view, staged, acked, captured, now, epoch, provider>>

capture_alert(w) ==
  /\ ~Idle(w) /\ lease[w].step = "leased"
  /\ disk' = disk
  /\ \/ /\ Eligible(w)
        /\ captured' = [captured EXCEPT ![lease[w].ref] = @ + 1]
        /\ \/ /\ view' = [view EXCEPT ![w] = disk]
              /\ lease' = [lease EXCEPT ![w].step = "captured"]
              /\ UNCHANGED <<staged, acked>>
           \/ Reopened(w)
     \/ GivesUp(w) /\ UNCHANGED <<staged, acked, captured>>
  /\ UNCHANGED <<now, epoch, provider>>

\* Mutant: whoever holds the lease now, it is settled.
SettleableByAnyone(l, i) == i.ref = l.ref /\ i.leased /\ ~i.delivered

Settleable(l, i) == Fenced(l, i)

settle_alert(w) ==
  LET i == FirstOf({k \in DOMAIN disk.outbox : Settleable(lease[w], disk.outbox[k])}) IN
  /\ ~Idle(w) /\ lease[w].step = "captured"
  /\ \/ GivesUp(w)
     \/ i # 0 /\ Persist(w, [disk EXCEPT !.outbox[i] = SettledIntent(@)], Nothing)
  /\ UNCHANGED <<staged, now, epoch, acked, captured, provider>>

-----------------------------------------------------------------------------
\* Retention of the sensitive reply, and corrections of the service window.
Purged(d) == [d EXCEPT !.sensitive = Nothing,
                       !.events = Append(@, [kind |-> "retention", order |->
                                    1 + Max({0} \cup {@[i].order : i \in DOMAIN @})])]

Extended(d, hours) ==
  [d EXCEPT !.sensitive.expires = d.sensitive.retained + hours,
            !.events = Append(@, [kind |-> "retention", order |-> 2])]

\* Mutant: only the requested window is bounded, not its extension.
RequestAdmissible(c) == c.hours <= Week

Admissible(c) == c.hours <= Week /\ c.extension <= Week

Retention(w, c) ==
  /\ Idle(w)
  /\ view[w].sensitive # Nothing
  /\ \/ /\ view[w].sensitive.expires < now \/ c.purge \/ c.hours = 0
        /\ ReplaceState(w, Purged(view[w]), staged[w], {})
     \/ /\ now <= view[w].sensitive.expires /\ ~c.purge /\ c.hours # 0
        /\ Admissible(c)
        /\ ReplaceState(w, Extended(view[w], c.extension), staged[w], {})
  /\ UNCHANGED <<now, epoch, captured, provider>>

Corrected(d, c) ==
  [d EXCEPT !.windows = Append(@, c.ref),
            !.events = Append(@, [kind |-> "window", order |-> Len(@) + 1])]

CorrectServiceWindow(w, c) ==
  /\ Idle(w)
  /\ c.prior \in Range(view[w].windows)
  /\ ReplaceState(w, Corrected(view[w], c), staged[w], {})
  /\ UNCHANGED <<now, epoch, captured, provider>>

-----------------------------------------------------------------------------
Reopen(w) == Stopped(w) /\ UNCHANGED <<now, epoch, captured, provider>>

Tick ==
  /\ now < Horizon /\ now' = now + 1
  /\ UNCHANGED <<disk, view, staged, lease, epoch, acked, captured, provider>>

Rotate ==
  /\ epoch < Len(Configurations) /\ epoch' = epoch + 1
  /\ UNCHANGED <<disk, view, staged, lease, now, acked, captured, provider>>

\* What workers do for some of the inputs.
LoopStep(ingresses, attempts, controls, corrections) ==
  \/ \E w \in Workers :
       \/ \E g \in ingresses : Callback(w, g)
       \/ \E a \in attempts, o \in Outcomes : Outbound(w, a, o)
       \/ lease_alert(w)
       \/ capture_alert(w)
       \/ settle_alert(w)
       \/ \E c \in controls : Retention(w, c)
       \/ \E c \in corrections : CorrectServiceWindow(w, c)
       \/ Reopen(w)
  \/ Tick
  \/ Rotate

LoopNext == LoopStep(Ingresses, Attempts, Controls, Corrections)

LoopSpec == LoopInit /\ [][LoopNext]_loopVars

-----------------------------------------------------------------------------
Senders == {Configurations[e].sender : e \in DOMAIN Configurations}
Generations == UNION {Configurations[e].retained : e \in DOMAIN Configurations}
Policies == {Configurations[e].policy : e \in DOMAIN Configurations}
Statuses == {"sent", "delivered", "read", "failed"}

ReceiptRow == [identity : AllIdentities, generation : Generations, sender : Senders]
BindingRow == [sender : Senders, id : {o.id : o \in {x \in Outcomes : x.accepted}}]
HistoryRow == {o.class : o \in {x \in Outcomes : ~x.accepted}}
SensitiveRow == [retained : Nat, expires : Nat]
WindowRow == UNION {{c.ref, c.prior} : c \in Corrections}
PinRow == [attempt : Attempts, sender : Senders, policy : Policies]
EventRow ==
  [kind : References \cup Statuses \cup {"outcome", "retention", "window"}, order : Nat \ {0}]
IntentRow ==
  [ref : References, leased : BOOLEAN, fence : 0..MaxRevision,
   expires : 0..(Horizon + LeaseTime), delivered : BOOLEAN, ambiguous : BOOLEAN,
   of : AllIdentities]

Snapshots ==
  [receipts : Seq(ReceiptRow), bindings : Seq(BindingRow), pins : Seq(PinRow),
   events : Seq(EventRow), outbox : Seq(IntentRow), history : Seq(HistoryRow),
   sensitive : SensitiveRow \cup {Nothing}, windows : Seq(WindowRow), revision : 0..MaxRevision]

\* What decode_state accepts: closed tags, one lease deadline per lease, never more
\* rows than a snapshot holds.
WellFormed(d) ==
  /\ d \in Snapshots
  /\ \A i \in DOMAIN d.outbox : d.outbox[i].leased <=> d.outbox[i].expires > 0
  /\ Items(d) <= MaxItems

\* A fence counts the leases of one intent, each of which was a commit; an intent
\* never leased is not delivered, one leased again is marked.
LeasesCounted(d) ==
  \A i \in DOMAIN d.outbox :
    LET intent == d.outbox[i] IN
    /\ intent.fence <= d.revision
    /\ (intent.leased \/ intent.delivered) <=> intent.fence > 0
    /\ intent.fence > 1 => intent.ambiguous

ReceiptsOf(d, id) == {i \in DOMAIN d.receipts : d.receipts[i].identity = id}
IntentsOf(d, id) == {i \in DOMAIN d.outbox : d.outbox[i].of = id}
Listed(g, id) == Cardinality({k \in DOMAIN g.batch : Identity(g.batch[k]) = id})

\* Every receipt is of an authentic callback, a reply's has its alert intent, and
\* every intent has its receipt.
Verified(d) ==
  \A i \in DOMAIN d.receipts :
    \E g \in Ingresses : g.defects = {} /\ d.receipts[i].identity \in Identities(g.batch)

Alerted(d) ==
  \A i \in DOMAIN d.receipts :
    d.receipts[i].identity[1] = "message" => IntentsOf(d, d.receipts[i].identity) # {}

Receipted(d) == \A i \in DOMAIN d.outbox : ReceiptsOf(d, d.outbox[i].of) # {}

\* Receipts and intents of one identity are those of one body.
OneBody(d, id) ==
  \E g \in Ingresses :
    Cardinality(ReceiptsOf(d, id)) <= Listed(g, id) /\ Cardinality(IntentsOf(d, id)) <= Listed(g, id)

Retained(d) == d.sensitive # Nothing => d.sensitive.expires <= d.sensitive.retained + Week

\* Configurations of the service, callbacks and answers are what their decoders pass
\* on; workers open an empty or an older snapshot without pins or alerts.  Rotation
\* keeps the sender and the deduplication keys of earlier configurations (P0R-013).
LoopConstants ==
  /\ LeaseTime \in Nat \ {0} /\ {Week, Horizon, MaxRevision, MaxItems} \subseteq Nat
  /\ IsFiniteSet(Workers)
  /\ Configurations \in Seq(Range(Configurations)) /\ Configurations # <<>>
  /\ \A e \in DOMAIN Configurations, f \in DOMAIN Configurations : e <= f =>
       /\ Configurations[e].active \in Configurations[f].retained
       /\ Configurations[e].sender = Configurations[f].sender
  /\ \A g \in Ingresses :
       /\ g.defects \subseteq Range(Defects) /\ g.batch \in Seq(Range(g.batch))
       /\ \A c \in Range(g.batch) : c.kind = "message" \/ (c.kind = "status" /\ c.status \in Statuses)
  /\ \A o \in Outcomes : o.accepted \in BOOLEAN
  /\ \A c \in Controls : c.extension \in Nat
  /\ \A d \in FirstStates :
       /\ WellFormed(d) /\ Retained(d)
       /\ d.receipts = <<>> /\ d.pins = <<>> /\ d.outbox = <<>>

ASSUME LoopAssumption == LoopConstants

-----------------------------------------------------------------------------
\* What the snapshot codec reads back is well formed (decode_state).
SnapshotOK == WellFormed(disk)

\* A callback answered 200 crossed the durable barrier with everything it needs: its
\* receipt, and the alert intent of a reply (handle_candidates; P0R-012).
AckedIsRecorded ==
  \A id \in acked : ReceiptsOf(disk, id) # {} /\ (id[1] = "message" => IntentsOf(disk, id) # {})

\* A callback delivered again, to another worker, after a restart or after the keys
\* rotated, adds no further receipt and no further alert intent: an identity has no
\* more of them than one body lists it (is_duplicate; P0R-014).  A body that lists a
\* message twice does enter it twice, as the candidates of one body are not compared with
\* one another.
NoSecondIntent == \A id \in AllIdentities : OneBody(disk, id)

\* Only callbacks with a valid signature and profile leave a receipt (handle_callback; P0R-011).
OnlyVerifiedRecorded == Verified(disk)

\* Replacing the snapshot as a whole loses no evidence another worker has written
\* (FixtureStore::replace_if_revision; P0R-032).
EvidenceKept ==
  /\ IsPrefix(disk.events, disk'.events)
  /\ IsPrefix(disk.receipts, disk'.receipts)
  /\ IsPrefix(disk.pins, disk'.pins)

\* Alerts of one reference share their fences, so they are counted together.
OfReference(ref) == {i \in DOMAIN disk.outbox : disk.outbox[i].ref = ref}
Delivered(ref) == {i \in OfReference(ref) : disk.outbox[i].delivered}
Holders(ref, step) ==
  {w \in Workers : lease[w] # Nothing /\ lease[w].ref = ref /\ lease[w].step = step}

\* A lease is settled once its alert was shown: no more alerts of a reference are marked
\* delivered than were shown (settle_alert and its fence).
DeliveredWasCaptured == \A ref \in References : Cardinality(Delivered(ref)) <= captured[ref]

\* Alerts that were shown more often than there are any leave a mark: one of them is
\* ambiguous, because its second lease saw that the first had expired (lease_alert).
DuplicateIsMarked ==
  \A ref \in References :
    captured[ref] > Cardinality(OfReference(ref)) =>
      \E i \in OfReference(ref) : disk.outbox[i].ambiguous

\* The worker whose dispatch this step moves on or ends.
Acts(w) ==
  lease[w] # Nothing /\ lease'[w] # lease[w] /\ \A v \in Workers \ {w} : lease'[v] = lease[v]

\* w holds the lease that intent i is under.  Fences count the leases of one intent, so
\* alerts that share a reference may share fences; an alert alone under its reference has
\* one such holder, and whoever else still believes in a lease of it has an older fence.
HoldsLease(w, i) ==
  /\ disk.outbox[i].leased /\ ~disk.outbox[i].delivered
  /\ lease[w].ref = disk.outbox[i].ref /\ lease[w].fence = disk.outbox[i].fence
  /\ OfReference(lease[w].ref) = {i} =>
       \A v \in Workers \ {w} :
         lease[v] # Nothing /\ lease[v].ref = lease[w].ref => lease[v].fence < lease[w].fence

\* The worker that shows an alert holds its lease itself, one that had not expired when
\* its request was received: a late worker whose lease was taken over shows nothing, also
\* while another one holds it (capture_alert and its fence).
ShownUnderCurrentLease ==
  \A ref \in References : captured'[ref] # captured[ref] =>
    \E w \in Workers :
      /\ Acts(w) /\ lease[w].ref = ref /\ lease[w].step = "leased"
      /\ \E i \in OfReference(ref) : HoldsLease(w, i) /\ lease[w].at < disk.outbox[i].expires

\* The worker that marks an alert delivered has shown one of that reference and holds the
\* lease itself: one that settles late, after a takeover, is refused (settle_alert and its
\* fence).
SettledUnderCurrentLease ==
  \A i \in DOMAIN disk.outbox : ~disk.outbox[i].delivered /\ disk'.outbox[i].delivered =>
    \E w \in Workers : Acts(w) /\ lease[w].step = "captured" /\ HoldsLease(w, i)

\* A pin stands for a call that was made, under the generations it names
\* (handle_registered_outbound calls the provider before it commits).
PinnedWasSent == Range(disk.pins) \subseteq provider

\* The sensitive reply never outlives the ceiling counted from its receipt, however often
\* the window is extended (handle_retention; P0R-031).
RetentionBounded == Retained(disk)

-----------------------------------------------------------------------------
\* Callbacks and alerts of the reference loop: a callback answered 200 crossed
\* the durable barrier with its receipt and the alert intent of a reply
\* (handle_candidates; P0R-012); delivered again, to another worker, after a
\* restart or after the keys rotated, it adds no receipt and no intent beyond
\* what one body lists (is_duplicate; P0R-014); no more alerts of a reference are
\* marked delivered than were shown (settle_alert); and when they were shown more
\* often than there are any, one of them is marked ambiguous (lease_alert).
AlertsSafety ==
  AckedIsRecorded /\ NoSecondIntent /\ DeliveredWasCaptured /\ DuplicateIsMarked

\* Evidence: what the snapshot codec reads back is well formed and within the row
\* limits (decode_state); only callbacks with a valid signature and profile leave
\* a receipt (handle_callback; P0R-011); a pin stands for a call that was made,
\* under the generations it names (handle_registered_outbound); and the
\* sensitive reply never outlives the ceiling counted from its receipt, however
\* often the window is extended (handle_retention; P0R-031).
EvidenceSafety ==
  SnapshotOK /\ OnlyVerifiedRecorded /\ PinnedWasSent /\ RetentionBounded

-----------------------------------------------------------------------------
(***************************************************************************)
(* The inductive invariant.  Everything that holds of the snapshot holds   *)
(* of the workers' copies too, which may be written back; a copy with the  *)
(* snapshot's revision is the snapshot.                                    *)
(***************************************************************************)
Sound(d) ==
  /\ WellFormed(d) /\ LeasesCounted(d)
  /\ Verified(d) /\ Alerted(d) /\ Receipted(d) /\ Retained(d)
  /\ \A id \in AllIdentities : OneBody(d, id)

\* The receipts of d are found under every later configuration.
Known(d) ==
  \A i \in DOMAIN d.receipts :
    /\ d.receipts[i].sender = configuration.sender
    /\ \A e \in epoch..Len(Configurations) : d.receipts[i].generation \in Configurations[e].retained

CopyOf(d) ==
  /\ d.revision <= disk.revision
  /\ d.revision = disk.revision => d = disk
  /\ Range(d.receipts) \subseteq Range(disk.receipts)
  /\ Range(d.pins) \subseteq provider

LeaseRow == [ref : References, fence : Nat, at : Nat, step : {"leased", "captured"}]

LoopTypeOK ==
  /\ view \in [Workers -> Snapshots]
  /\ lease \in [Workers -> LeaseRow \cup {Nothing}]
  /\ now \in 0..Horizon /\ epoch \in DOMAIN Configurations
  /\ captured \in [References -> Nat]

\* A worker that has shown an alert and not settled it, and one that may still show
\* one, are counted with what was delivered and what was leased for the first time.
AlertsCounted ==
  \A ref \in References :
    /\ Cardinality(Delivered(ref)) + Cardinality(Holders(ref, "captured")) <= captured[ref]
    /\ \/ \E i \in OfReference(ref) : disk.outbox[i].ambiguous
       \/ captured[ref] + Cardinality(Holders(ref, "leased"))
            <= Cardinality({i \in OfReference(ref) : disk.outbox[i].fence > 0})

\* A worker's fence was issued for an alert of its reference, and workers share one only
\* where alerts share the reference.
LeasesApart ==
  \A w \in Workers : lease[w] # Nothing =>
    /\ \E i \in OfReference(lease[w].ref) : lease[w].fence <= disk.outbox[i].fence
    /\ \A v \in Workers \ {w} :
         /\ lease[v] # Nothing /\ lease[v].ref = lease[w].ref /\ lease[v].fence = lease[w].fence
         => \E i, j \in OfReference(lease[w].ref) : i # j

LoopInv ==
  /\ LoopTypeOK
  /\ Sound(disk) /\ Known(disk) /\ PinnedWasSent
  /\ \A w \in Workers : Sound(view[w]) /\ CopyOf(view[w])
  /\ AckedIsRecorded
  /\ AlertsCounted /\ LeasesApart
=============================================================================

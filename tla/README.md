# A TLA+ verification of MsgRiver

MsgRiver is a self-hosted message service: clients hand it messages over a Unix
socket, it answers once they are in its SQLite store, and one loop delivers
them through ntfy and WhatsApp Cloud. Beside the running service the repository
holds the pieces of a larger fixed-root design (key publication, control
journal, allocators, canonical formats, a reference loop, a deployment boundary)
that the service does not call yet.

This directory models the service, its start and its store's migrations
completely, and the components of the fixed-root design one by one. TLC checks
the models on small instances; TLAPS proves the safety properties of most
components (section 4) for every value of the constants.

    tlc -workers 2 -config Service.cfg MCService     # one run
    tlapm ServiceProofs.tla                          # one module's proofs

## 1. Inventory

| Component | State | Operations | Correct when |
|---|---|---|---|
| Store (`msgriver-store/src/lib.rs`) | `m3_messages`, `m4_*` tables | submit, claim, mark, recover, requeue, inbound submit | key reuse is idempotent or refused; no row breaks the schema; settled rows stay |
| Serve loop and local API (`msgriver/src/main.rs`) | none that survives; where the loop is | local requests, webhook calls, dispatch | acknowledged means durable; no blind resend; every message is settled |
| Drivers (`msgriver-connectors`) | none | one attempt, one outcome | an outcome never says less happened than may have |
| Webhook (`main.rs` 858-1084) | `m4_*` tables | switch, notify, status | at most once per callback; rate limit; receipt and intent together |
| Start-up policy, owner lock, socket (`main.rs`, `msgriver/src/lib.rs`) | `msgriver.lock`, socket, state root | policy, prepare, acquire, open, recover, bind | one owner, one store user; a stale entry is no obstacle |
| Store opening, migrations (`msgriver-store/src/lib.rs`) | `schema_migrations` and the schema | open, apply catalogues | a version is applied whole, once; nothing is lost |
| Service bootstrap, envelope (`service_bootstrap.rs`, `bootstrap_envelope.rs`) | flags of the adapters | ordered steps, trusted read | no step before those it rests on; the file read is the one named |
| Initialization key pair (`initialization_key_pair/publication.rs`) | four directory entries | publish, load | a root has one key pair for life |
| Active-state pointer (`active_state_pointer_publisher.rs`) | `active-state` and temporaries | publish | always one complete pointer, the newest acknowledged |
| Control journal (`control_journal_image.rs` and its codecs) | header, checkpoint, tail | checkpoint, hold, acknowledge, shut down, fold, reopen, publish | reopening loses nothing; obligations survive; nothing acknowledged is taken back |
| Fixed-root commands, recovery keys, clock records | wires | encode, decode, seal, verify | one value, one wire; accepted means published whole |
| State MAC keys (`state_mac_key_*.rs`, `ring.rs`) | tables, key directory | compose, rotate, retire, verify | one active key per purpose; no id twice; what is read is what is listed |
| Core decisions (`msgriver-core`) | none; the caller's row, markers, serials | transitions, fences, retry, safe time, allocation | precedence, fences and expiry hold over every order of events |
| Retry-After, jitter | none | parse, clamp, draw | exact on the calendar |
| Canonicalization, bounded grammar, protocol grammar | none; the caller's ledger | encode, fingerprint, check, parse | a repetition is told from a conflict; one spelling per resource |
| Reference loop (`phase_zero/reference_loop*.rs`) | one snapshot, compare-and-swap | callbacks, outbound, leases, retention, rotation | no duplicate effect on record; late settle is fenced |
| Deployment boundary (`phase_zero/deployment.rs`) | intents, credentials, lifecycle | ingress, dispatcher, ACL, lifecycle | verified first, published once, opened offline |
| Client, scripts, specifications, vendored crates | none | | outside the models |

How they interact. `serve` applies the start-up policy, takes the owner lock,
opens and migrates the store, recovers messages an earlier process left in
`sending`, binds its sockets and then runs one thread. Each iteration handles at
most one local request, at most one webhook call and at most one delivery, all
on the same store connection. There is no concurrency inside the process. What
makes the system hard is everything around it: the process may die between any
two transactions or system calls, a second one may start meanwhile, clients and
the provider repeat calls, answers get lost, the wall clock jumps, files are
replaced under a reader, and an operator may requeue messages at any time. The
fixed-root components share files (journal, keys, pointer) that are replaced as
a whole; the reference loop's workers share one snapshot and each keep a copy of
their own. `PROJECT.json` lists these hazards at the lines where they bite, with
the properties that would notice.

## 2. Modules

An arrow points from a module to those that extend it.

    DeliveryStore <- Inbound <-+
                  Connectors <-+- Service <-+- MCService <- MCLiveness
                                            +- ServiceProofs
    DeliveryPromise (refined by Service), StartUp (second part of MCLiveness)

    Directory <-+- KeyPublication, PointerPublication <-+- MCPublications
                +- JournalPublication <-----------------+- PublicationProofs
    JournalImage <- JournalPublication, ControlJournal, ImageProofs
    ImageProofs <- JournalProofs (with ControlJournal), PublicationProofs

    CoreValues <- SafeTime, MessageCore, Allocator
    SafeTime, MessageCore, Allocator, StateMacKeys, RetryAfter <- MCCore, DecisionProofs
    ControlJournal <- MCCore, JournalProofs

    StartUp, Migrations, Bootstrap <-+- MCStarting
                                     +- StartingProofs
    Deployment <- MCPhaseZero, StartingProofs
    ReferenceLoop <- MCPhaseZero, JournalProofs

    CanonicalBytes <- Canonical, Admission
    Inbound, Canonical, Admission, PathSegments, StrictJson <- MCFormats, ServiceProofs
    WireFormats, Sealing <- MCFormats, FormatProofs

    Induction <- ImageProofs, DecisionProofs, ServiceProofs, FormatProofs

The five MC modules at the bottom put several components that share no state
into one run. Their variable `part` names the component that moves in a
behaviour; the others rest in an initial state. So a run explores the sum, not
the product, of its components, and each property speaks of one part. The
publications share one directory and its owner lock; there the other
publications rest. Each component's module defines its own specification, its
safety conjunction and, where there is a proof, the inductive invariant; the MC
modules extend them, so the proofs and the runs speak of the same definitions.

### The service

**DeliveryStore** is the tables and the transactions on them. `row` is
`m3_messages` indexed by idempotency key (a message id is a digest of key and
request, so the key identifies the row); text columns keep what the code
compares, `provider_ack` and `last_error` keep whether they are NULL. Each
operation is one IMMEDIATE transaction and so one atomic change. The schema's
CHECK constraints are the predicate `Checks`; a claim that would break one is
`ClaimRejected`.

**Connectors** says what a driver may observe in one attempt (`Replies`),
whether the provider may have published (`Exchanges`: nothing if no bytes were
sent or the answer was 4xx, something after 2xx, either way otherwise) and how
the ntfy and WhatsApp drivers classify it. The provider is external; this is the
contract the drivers' comments rely on.

**Inbound** adds the webhook: freshness, policy, the operator's switch and
`m4_submit_inbound` with its early returns in the code's order. `InboundSpec`
runs it alone next to clients that submit under any key and a clock that jumps;
it leaves deliveries out because the webhook reads of a row only whether it
exists, and deliveries neither add nor remove rows.

**Service** composes the three with the loop of `serve`. `pc` walks through
`local`, `inbound`, `dispatch`, `exchange`, `mark`; `down` is a dead process.
The actions are the handlers of `handle_request`, the webhook, `dispatch_due` cut
at its two commits, `Crash`, `Start` (recovery included), and a clock that
advances or steps back. Requests that are refused before they reach the store
change nothing and are one action (`NoLocalChange`, `NoInboundChange`).
`effects`, `tries`, `requeued` and `told` are history: no action reads them.

**DeliveryPromise** is the abstract specification: what a client may rely on for
one message, without tables, loops or crashes. A message is accepted, published,
confirmed, refused, given up as unknown, or reopened by an operator. `Service`
implements it with `status`, `channel`, `published` and `reopened` computed from
the row and the histories (`KeepsPromise`).

### Starting

**StartUp** is `serve` from its first line to its loop, one action per system
call, run by two processes over one state path. Directories and files are
inodes with the two facts the checks ask for (owned by the service, private
mode). Any process may stop anywhere and be started again, as root or as the
service's user; the path may be made to name another directory; the lock entry
may be replaced from outside, but only while no process is past its check of it,
since `flock` protects an inode and not a name. `OneStoreUser` and
`SocketReaches` are promised while the path stays put under those that start.

**Migrations** is `Store::open` and both catalogues, statement by statement, for
two connections: BEGIN IMMEDIATE, the journal's checks, each object, the journal
row, COMMIT or ROLLBACK, any of which may fail; death of a process and loss of
power. SQLite is external: it serializes writers, and a commit under
`synchronous = FULL` is on disk.

**Bootstrap** is the nesting of the bootstrap adapters, `bootstrap_owned` and
the trusted envelope reader, with primitives that fail, a caller that asks for
steps in any order, and an envelope whose name or content changes meanwhile.

### Files of a fixed root

**Directory** is a Linux directory as the publications use it. A power loss
leaves the directory of the last fsync or any later one, and may tear data that
was not fsynced. **KeyPublication** is `publish_with` and `load_with` to the
system call under the owner lock; **PointerPublication** is
`publish_active_state_pointer`, retries of a killed publication included. An
error return and a kill have the same effect on the files and are one action,
`KeyGiveUp` or `PointerGiveUp`.

**JournalImage** is the control journal as a value: header, checkpoint and a
bounded tail of chained records, with every operation of
`control_journal_image.rs` (clock checkpoints, hold entry, the phases of an
acknowledgement and its mirror, shutdown requests and their recovery, fold) and
the validations of encoder and decoder. `Replay` folds the tail over the
checkpoint as a recursive function of the number of records; `Invalid` is the
value of whatever the decoder refuses. **ControlJournal** is the owner that
drives it over restarts. It assumes the owner's side of
`specs/architecture.md` (line 3272): hold generations strictly increase and
process instances are never reused. The tail's byte limit is left out because
128 frames of at most 420 bytes never reach 2 MiB. **JournalPublication**
replaces the file as a whole with two writers that read, compute and publish
under a lock held for each of these alone.

**WireFormats** turns every hand-written codec of the fixed root into a table of
fields read by one reader: cells instead of bytes, each presence, tag, count and
length kept. A writer produces every small wire; damage changes, drops or adds a
cell. **Sealing** is what authentication adds: with ideal MACs and digests,
whoever recombines pieces of old images or of another root's is refused.

**StateMacKeys** decodes and composes the key tables, rotates and retires by the
ring's decisions, and verifies the key directory one system call at a time while
someone else replaces entries.

### Decisions of `msgriver-core`

**MessageCore** drives one message through transitions, fences, terminal
precedence, retry admission, delay, jitter and wake boundary. **SafeTime** keeps
the fixed root's and the branches' markers, **Allocator** burns and replays
serials of incarnations, **RetryAfter** walks the calendar day by day, parses
the headers that name the day and compares the parser's closed formula with the
count. The crate decides and
stores nothing and `serve` does not call it yet, so the actors here are
external: they call the decisions in the order their types demand and keep what
is returned.

### What comes in from outside

**CanonicalBytes** and **Canonical** are the canonical encoding of a request,
the MAC framing, and a ledger that answers by fingerprint. A fixed word of the
code is one cell of 256 or more, so no data is taken for one. **Admission** is
the bounded grammar in front of it, **PathSegments** the hand-written base64url
and identifier segments, **StrictJson** the depth scan and the duplicate
detection in front of and inside serde_json.

### Phase zero

**ReferenceLoop** is the port with its fixture: callbacks, deduplication across
key generations, pins of outbound attempts, alert leases, retention and service
windows over one snapshot file; each worker acts on a copy as old as its last
commit. `LoopStep` takes the callbacks, attempts, controls and corrections that
arrive as parameters: `LoopNext` gives it all of them, and the two parts of the
run some each. **Deployment** is the boundary's five entry points with the runtime the
fixture puts behind them.

A definition marked "Mutant" before an operator is a plausible bug in the same
code; `PROJECT.json` pairs each with the run and property that finds it. Where a
property is a conjunction there is a mutant for every conjunct.

## 3. Runs

| Run | Parts and instance | Distinct states |
|---|---|---|
| `service` | two keys, one ntfy and one WhatsApp request, budget 2, two crashes, one requeue per message, one backward clock step, the operator's switch | 812,909 |
| `liveness` | service: a WhatsApp request and a notify callback, budget 2, one crash, one backward step. start: two processes, two stops | 587,811 |
| `publications` | journal: two writers, histories of one record, one fault, one power loss. forks: two writers, histories of two records, no fault. keys: two processes, two publications, two power losses. pointer: two transitions, a rival pointer of one, one power loss | 602,966 |
| `core` | time: two branches, instants 0..5. keys: 14 rows, 6 waters, up to 3 rows and 2 waters, five files, two replacements. dates: 1896 to 2004. message: five policies, four reports. allocator: two roots, two commands, two serials. journal: two processes, four records, two holds | 1,379,115 |
| `phase_zero` | alerts: two workers, two bodies that share a message, one of which lists it twice, one rotation. evidence: up to the row limit. deployment: five events, fences 1 and 2 | 792,895 |
| `starting` | start: two processes, four inodes, two stops, two rebinds, one replaced entry. migrations: two connections, stores of every version, three faults. bootstrap: eight calls, two changes | 367,202 |
| `formats` | wire: every small wire and one edit. sealing: two roots, two images each. ledger: about 90 requests, two callers, two keys. admission, segments: strings on both sides of each limit. json: documents of nine tokens. webhook: four callbacks, limit 2 in a window of 2 | 1,114,893 |
| `retry_exhausted`, `retry_duplicates`, `key_alias`, `ack_recoverable`, `hold_overwritten` | the findings of section 6 | |

What the properties say. In `service`: `OutcomeRecordable` (the row an outcome
is written to is still the claimed one), `NoBlindResend`, `FailedIsDefinite`,
`AcceptedIsPublished`, `AckedIsKept`, the inductive invariant `IInv` (which holds
the types, the message in flight, the schema and the attempt counts),
`SettledForever` and the refinement `KeepsPromise`. In the other runs a property
is the conjunction of a component's named promises, each defined and explained
in the component's module:

| Property | Its parts |
|---|---|
| `JournalSafety` | `JournalIsWhole`, `AckedNeverRollsBack`; beside it `JournalAdvances` |
| `KeyPairSafety` | `FinalsCoherent`, `PublishedIsDurable`, `OneIdentity` |
| `PointerSafety` | `ActiveIsWhole`, `AckedIsActive`; beside it `ReplacedOnRequest` |
| `MessageSafety` | `MessageTypeOK`, `AcceptanceWins`, `AttemptsBounded`, `ClaimsBeforeEnd` |
| `DecisionSteps` | `FlagsStay`, `SettledByOwnOutcome`, `WaitsAsAsked`, `BurnIsFree` |
| `ExpiredStaysExpired`, `NoLeap`, `ClockInv` | safe time and its inductive invariant |
| `AllocatorSafety` | `IssuedOnce`, `OneTargetPerCommand`, `WitnessesLocal` |
| `DatesExact` | `FormulaCountsDays`, `OnlyRealDates`, `DelayIsExact` |
| `KeysSafety` | `SnapshotCoherent`, `FreshKeyUnused`, `RotationReloads`, `AcceptedLeavesValid`, `QuietAcceptance` |
| `JournalReopens` | `OwnerTypeOK`, `ReopensAsLeft`, `CompletionIsOfNewestHold` |
| `JournalSteps` | safe time is kept, `ClearedBySettling`, `ObligationsKept`, `EndsUngracefully` |
| `AlertsSafety` | `AckedIsRecorded`, `NoSecondIntent`, `DeliveredWasCaptured`, `DuplicateIsMarked` |
| `EvidenceSafety` | `SnapshotOK`, `OnlyVerifiedRecorded`, `PinnedWasSent`, `RetentionBounded` |
| `BoundarySafety` | `VerifiedFirst`, `PublishedOnce`, `RevokedNeverStarts`, `OpenedOffline` |
| `PhaseZeroSteps` | `ShownUnderCurrentLease`, `SettledUnderCurrentLease`, `EvidenceKept`, `FenceKept` |
| `StartSafety` | `OneOwner`, `OneStoreUser`, `SocketReaches`, `LeavesUsableEntry` |
| `MigrationSafety` | `RecordedIsInstalled`, `ReadyIsMigrated`, `MessagesKept`; beside it `ForeignUntouched` |
| `BootstrapSafety` | `PrerequisitesFirst`, `LockRetained`, `EnvelopeExpected` |
| `WireSafety` | `Canonical`, `NoPrefixAccepted`, `SameCommand` |
| `SealingSafety` | `AcceptedIsPublished`, `OnePlacePerRecord`, `SequencesAscend` |
| `LedgerSafety` | `AnsweredByMeaning`, `CallersApart`, `TagsVerify`, `PurposesApart` |
| `AdmissionSafety` | `AdmittedEncodes`, `AcceptedIsClean`, `RejectionsJustified` |
| `SegmentSafety` | `LinksResolve`, `OneSpelling`, `CaseApart` |
| `JsonSafety` | `AcceptedHasNoTwins`, `DepthCapped`, `LegalIsHeard` |
| `WebhookSafety` | `ReceiptHasIntent`, `RateBounded` |

Why the bounds are enough. Messages influence one another only through the
order of claims and through shared keys, so two suffice to interleave. A budget
of two has a retry, a last attempt and an exhausted message; 5 only repeats the
middle. In `service` the clock moves while a retry waits (`MaxTime` is 0 there),
so that messages still differ in age. In the webhook's instance the limit is
reached with a callback left over, the window is smaller than the clock's range,
and keys of callbacks are free for clients. Two power losses let a second
publication start on what the first one left and be cut off itself. A lease
taken over, a late settle and a second worker need two workers and two steps of
time. A tail of two records folds, is filled again and folds again within four
records. The calendar has the common century year 1900 and the leap one 2000.
Key tables hold rows of both purposes, both statuses and each malformed kind; two
replacements let an entry be exchanged and put back. With two records a stale
writer can come back with a longer history than the one in place; that part runs
without faults and losses, which the shorter histories have (`ShortHistory`). A
ring has up to two of the code's 16 rows: order and equality of neighbours need no
third. The passing run of
`publications` enters no holds (`HoldLimit` 0): its writers race with
checkpoints and settlements, and holds are the subject of `hold_overwritten` and
of `core`. Inodes, temporaries, writers, workers, processes and the service's
keys are interchangeable where a cfg says SYMMETRY; no temporal property is
checked there beyond steps and refinement. Constants named `Max...`, `...Limit`
of the instances and the sets of samples are bounds of the models, not of the
code; the clock may pass `MaxTime` while a retry is waiting, so that a bound
never blocks a delivery.

Deadlock is checked for the service. Elsewhere it is not: a component whose
budget of faults, calls or tokens is spent has nothing left to do.

Fairness (`LiveFairness` in `MCLiveness`, `FairSpec` in `Service`,
`StartLiveSpec` in `StartUp`): weak fairness of the loop (a thread that only ever
waits for bounded time: its sockets are non-blocking or have timeouts), of `Start`
(`Restart=on-failure` in `deploy/msgriver.service.example`) and of `Tick` (time
passes); for the start-up, weak fairness of every step of a running process and
strong fairness of a start as the service's user, which is the same supervision.
Nothing is assumed of clients, operators or the provider.

## 4. Proofs

`ServiceProofs` proves, for any sets of keys, requests and callbacks, any retry
budget, any number of crashes, requeues and clock steps:

| Theorem | States |
|---|---|
| `Invariance` | `Spec => []IInv` |
| `TypeCorrect`, `FlightIsSingle`, `MarkNeverFails` | `TypeOK`, `SingleFlight`, `OutcomeRecordable` |
| `NeverResentBlindly`, `FailureIsDefinite`, `AcceptanceIsReal`, `WorkIsBounded` | `NoBlindResend`, `FailedIsDefinite`, `AcceptedIsPublished`, `AttemptsBounded` |
| `SettledIsFinal`, `RowsArePinned` | the action properties `SettledForever`, `RowPinned` |
| `AcksAreKept` | `AckedIsKept`, when the ntfy topic is not "whatsapp" |
| `PromiseKept` | `Spec => Promise!PromiseSpec` |

Assumptions: those of `StoreConstants`, `InboundConstants` and
`ServiceConstants` (types of the constants, distinct m4 keys, a recipient is
never a topic because `valid_topic` refuses "+"). TLC evaluates them in every run.
`AcksAreKept` adds `DistinctTopics`; the `key_alias` run shows why.

The argument. `NoBlindResend` is not inductive: nothing in it says why the next
attempt cannot be the second publication. `IInv` adds what the code maintains
between steps. `FlightInv`: the loop holds exactly the one `sending` row.
`TableInv`: every row satisfies the CHECKs, so every mark succeeds. `EffectInv`:
a message that waits for an attempt has been published at most as often as
operators have reopened it (never, for WhatsApp); during `exchange` this still
holds; at `mark` it holds unless the outcome is one of those that admit an
effect, which are exactly the outcomes that settle the row. `TriesInv` counts
attempts against the row. The one place where the drivers matter is the lemma
`OutcomeSound`: an exchange with an effect is never reported as one of the
outcomes that lead to another automatic attempt. `StepIInv` has one lemma per
group of actions; `StepShape` then says what each action may do to a row, from
which the action properties follow, and `StepPromise` maps each action to a
step of `DeliveryPromise`.

The other components follow the same scheme: a theorem `Spec => []Safety`, an
inductive invariant in the component's own module, a lemma for the initial
states, one for the steps with a case per action, and one from the invariant to
the property. TLC checked each invariant, as an invariant of the run's instance,
before it was proved; the last column gives the states it was checked on.

| Theorem (module) | States | Inductive invariant | States |
|---|---|---|---|
| `Starting` (StartingProofs) | `StartSafety` | `StartInv` | 309,692 |
| `Migrating`, `ForeignStores` (StartingProofs) | `MigrationSafety`, `ForeignUntouched` | `MigrationInv` | 4,536 |
| `Bootstrapping` (StartingProofs) | `BootstrapSafety` | `BootstrapInv` | 52,974 |
| `Boundary`, `Fencing` (StartingProofs) | `BoundarySafety`, `FenceKept` at every step | `DeploymentInv` | 162,833 |
| `KeyPair` (PublicationProofs) | `KeyPairSafety` | `KeyInv` | 237,147 together |
| `ActivePointer`, `RequireAbsent` (PublicationProofs) | `PointerSafety`, `ReplacedOnRequest` | `PointerInv` | with `KeyInv` |
| `ControlJournalFile`, `JournalOnlyAdvances` (PublicationProofs) | `JournalSafety`, `JournalAdvances` | `JournalInv` | 365,819 |
| `Reopening`, `Records` (JournalProofs) | `JournalReopens`, `JournalSteps` | `OwnerInv` | 292,832 |
| `Alerts`, `Evidence`, `EvidenceStays` (JournalProofs) | `AlertsSafety`, `EvidenceSafety`, `EvidenceKept`, `ShownUnderCurrentLease` and `SettledUnderCurrentLease` at every step | `LoopInv` | 630,062 |
| `Allocation`, `BurningIsFree` (DecisionProofs) | `AllocatorSafety`, `BurnIsFree` at every step | `AllocatorInv` | 222,874 together |
| `MessageDecisions`, `MessageSteps` (DecisionProofs) | `MessageSafety`, the three step promises of a message | `MessageInv` | with `AllocatorInv` |
| `ClockInvariant`, `ExpiryIsForever`, `SafeTimeNeverLeaps`, `FixedRootOnlyAdvances` (DecisionProofs) | `ClockInv`, `ExpiredStaysExpired`, `NoLeap`, the fixed root's marker never falls | `ClockInv` | in `core` |
| `RetainedKeys` (DecisionProofs) | `KeysSafety` | `MacKeysInv` | 868,112 |
| `Calendar` (DecisionProofs) | `DatesExact` | `DateInv` | 79,626 |
| `Seals` (FormatProofs) | `SealingSafety` | `SealingInv` | 180,163 |
| `Wires` (FormatProofs) | `WireSafety` | `WireInv` | 51,215 |
| `Webhook` (ServiceProofs) | `WebhookSafety` | `InboundInv` | 589,568 |
| `Admitted` (ServiceProofs) | `AdmissionSafety` | `AdmissionInv` | 45,962 |
| `Preflight` (ServiceProofs) | `JsonSafety` | `JsonInv` | 59,184 |
| `Segments` (ServiceProofs) | `SegmentSafety` | `SegmentInv` | 74,894 |
| `Ledger` (ServiceProofs) | `LedgerSafety` | `LedgerInv` | 113,907 |

What each invariant adds, and why the property alone does not carry itself:

*Start-up.* `OneStoreUser` says nothing of a process between its lock and its
open. `Fits` says for each point of the program what has been seen and is held
there; `OneHolder` ties a held lock to the inode of the entry; together they
make the second `flock` fail whatever was renamed meanwhile.

*Migrations.* `StoreInv` says that a version's objects stand exactly for the
versions in the journal, `WorkInv` how far the one open transaction has got, and
`disk = db` that outside it nothing is pending, so a loss of power falls back to
a whole version.

*Bootstrap and boundary.* `FlagsInv` and `OwnedInv` tie the adapters' flags to
the steps done; `LedgersAgree` ties the ingress trace, the intents and the
published set of the boundary to one another.

*Key pair.* A power loss may leave any directory since the last barrier, so all
statements quantify over `disk`, the set of those directories. `PublisherInv`
says what each of them holds at each system call of a publisher, `KnownInv` that
the first key of every pair somebody has published or loaded is under its final
name in all of them, which is why no second identity can be created.

*Pointer.* `TemporaryInv`: an inode being written is not the active one in any
directory that may survive, and the inode that is renamed is whole and synced.

*Journal file.* `DiskWhole` and `MemoryWhole` say that every image that may be
read, and every image a writer still holds, decodes; `TemporaryKnown` says what
the temporary holds at each barrier, and `Forward` that the comparison made
before the rename still holds after it. `ImageProofs` supplies the facts about
values: what the encoder accepts the decoder accepts, and replaying an appended
record is replaying the tail and then the record.

*Control journal.* `ReopensAsLeft` (what is on disk replays to what the owner
has in memory) needs that every operation folds or appends a valid record and
that the record's effect on the projection is its effect in replay. `OwnerInv`
adds the shapes of image and projection, the decoder's `validate_checkpoint` of
the projection, and `NewestHold`: a set hold and a completed acknowledgement are
of the newest hold entered. Without the last, `CompletionIsOfNewestHold` is not
preserved by a settlement.

*Reference loop.* A worker writes its copy back as a whole, so everything said of
the snapshot is said of the copies too (`Sound`), and `CopyOf` says that a copy
with the snapshot's revision is the snapshot: the comparison of revisions in
`replace_if_revision` then makes a commit an extension of what is on disk. A
redelivery is found because receipts stay under keys that every later
configuration retains (`Known`). Of one body each candidate is selected once, so
the number of times it lists an identity bounds the receipts and the intents;
`Alerted` and `Receipted` say that an identity with a receipt has its intent and
the other way round, so neither is added without the other. `DuplicateIsMarked`
compares what was shown with what there is to show; `AlertsCounted` adds the
holders of leases to both sides: a worker that has shown and not settled counts
with the delivered, and one that may still show with the leases not yet repeated.
The two step promises about leases name the worker that acts. That the current fence
is its own follows from the guard; that nobody else has it does not: `LeasesApart`
says that a worker's fence was issued for an alert of its reference and that two
workers have one fence only where two alerts share the reference, so that a lease
given anew has a fence above all those still believed in.

*Allocator.* `IssuedInv`: what was issued to a root is its namespace up to the
high water, exactly. `AnswersInv`: an answer belongs to an ended intent or to
the retained one.

*Message.* `AttemptsInv`: the lease's generation is the ordinal plus one while an
attempt is under way, so an attempt is counted once whoever reports it.
`WakeInv`: a stored wake is before the message's end when a retry comes first.

*Safe time.* `ExpiredStaysExpired` compares with the effective high water, which
depends on the selected branch, and a rollback may select any branch. What makes
it hold is the order of the two writes: the fixed root first. `ClockInv` says that
no branch's marker, no half-written checkpoint and no boundary found expired is
ahead of the fixed root, so the effective high water always is the fixed root's
(`FixedIsEffective`), and that neither it nor the wall clock is ahead of the
budget.

*State MAC keys.* The rows of an accepted table ascend, so a key is listed once;
that the ring's sorted sequence ascends too follows from ranks (an element's place
is the number of elements before it), and so does which leaf of the directory is
read next. The serial's limbs are compared from the highest down. Between two
system calls the invariant says what has been compared so far, so replacing an
entry meanwhile is noticed or harmless.

*Calendar.* `DateInv` says that the count of days belongs to the date reached, so
the closed formula is compared with tomorrow's date only. A year is taken from
March to February and has 365 or 366 days by the leap rule; yesterday is the day
whose tomorrow is today; a weekday's name follows the count modulo 7.

*Seals.* `TailsPublished`: a sealed tail names the header and checkpoint of one
published image, so recombined pieces fail. *Webhook.* The types and the finite
window make the counted calls the calls of the window. *Admission.* What is
recorded of a field is what its check said of the value still in the draft.
*JSON.* `ScanFollows` and `NamesFollow` tie the depth scan over characters and
the set of names per object to the document read so far, so the verdict given
token by token is the verdict on the whole text.

*Segments.* The chunks of a byte sequence put together again are the sequence;
three bytes are cut into four sextets and these determine the bytes again, the
unused bits of a last group being zero. An identifier has no capitals, so folding
its case changes nothing, and two accepted spellings of one resource are equal.

*Ledger.* Two encodings *split* when, whatever follows them, equal wholes have
equal parts. Every part does, because a length or a count stands in front of it, or
because its first cells tell its form (the second cell tells the legacy form from
the profiled one); so a canonical request determines the fields it was made
from. Tags are sorted by their rank in the total order of byte strings, and two
sorted lists without repetition are equal exactly when the sets are. An ideal
MAC binds the key and the framed input, which brings the comparison of tags back
to the comparison of requests.

*Wires.* `WireInv` only says that what was decoded is what the wire, as it is now,
decodes to; the work is in what a decoder does to an arbitrary sequence of cells.
First, for any table in which a field depends only on fields before it: a reader
that gets to the end has cut the wire into pieces that fit their fields
(`ReadGives`), a wire made of such pieces is read as them (`ReadBack`), and what a
prefix lets the reader read the whole wire lets it read too, so it stops at the same
place (`NoPrefix`). Then the twelve tables, each put together from parts that are
reused (`JoinSections`): a field is *plain* when the encoder finds it again from the
one member it is about, and the few that are not (the retention's variant, a
profile's digests and length, the ring's count, a value's mirror, an action's code
and payload) are the ones validation has to pin. For each table the lemma `...AsRead` shows that a value
its validation accepts is written as it was read; take a conjunct out of the
validation, as the mutants do, and it is false. `SameCommands` compares two tables:
the image's is the common one with narrower codes, its profile spelled out and no
binding, so the cells of the one, regrouped, are a reading of the other, and by
`ReadBack` the only one.

Values defined by recursion. The library's induction theorems take an operator
as a parameter, which the installed provers cannot instantiate. `Induction`
proves induction as a statement about sets (a set that holds 0 and successors is
`Nat`) from the pigeonhole principle, and the proofs apply it to sets defined by
a formula. `Replay`, the depth scan's `Scanned` and the exponential of
`retry_delay_v1` are therefore recursive functions over `Nat` and not RECURSIVE
operators, as are the selection `Those` of a body's candidates and the reader and
writer of the wires. `ImageProofs`, `ServiceProofs`, `FormatProofs`,
`DecisionProofs` and `JournalProofs` prove what they compute for inputs of every
length. The same induction gives what the libraries' `FlattenSeq` does to sequences, and `Ranks`: elements of a finite total order are
numbered by how many come before them, on which the sorted lists rest.

Assumptions. Each module that has constants names what the proofs use
(`StoreConstants`, `StartUpAssumption`, `DirectoryConstants`,
`PublicationConstants`, `OwnerConstants`, `AllocatorAssumption`, `LoopConstants`,
`KeyConstants`, `WireConstants`, `RetryAfterConstants`, `SegmentConstants`, `LedgerConstants`, and so on): types
of limits and of sample sets, distinguished values that are no ordinary values
(`NoFile`, `Partial`, `Absent`, `NoBranch`), `GenesisIsData` (the first image is
among the data a file may hold). `LoopConstants` adds that a rotation keeps the
sender and the deduplication keys of earlier configurations, which is what P0R-013
asks of it. `WireConstants` asks that a cell can hold the codes of the formats (0 to
13) and that a decoder's error is not a value. Nothing is assumed of a `Digest`: the proofs do
not need it to be injective. All of them are ASSUMEs of modules the runs extend, so
TLC evaluates them on every instance.

Only model-checked:

- `EventuallySettled` and `ServedInTheEnd`: liveness under fairness, and ENABLED,
  are beyond the prover.
- `DecisionSteps` and `PhaseZeroSteps` as a whole: they join the step properties of
  several components in one run. Their parts `BurnIsFree`, `FlagsStay`,
  `SettledByOwnOutcome`, `WaitsAsAsked`, `FenceKept`, `ShownUnderCurrentLease`,
  `SettledUnderCurrentLease` and `EvidenceKept` are proved, each in its
  component's specification.

## 5. What the models show

Publications. The order fsync, rename, directory fsync, once per file, is needed
in full: drop the file's fsync and a torn key appears under a final name; drop
the barrier of the second key and an acknowledged pair can vanish; drop the
barrier of the first and a power loss can take back a pair that a reader has
loaded, after which a second publication gives the root another identity. The
exclusive create, the rename without replacement, the preflight and the owner
lock each protect the final names on their own, so removing one of them alone
breaks no property. One limit is visible in the model: `load` makes nothing
durable, so a pair loaded after its publisher was killed before the last barrier
can still be lost to a power failure; `OneIdentity` says that no other pair takes
its place. The journal's comparison of generation, head and safe time keeps an
acknowledged image from being rolled back by a stale writer, but does not tell
two images of one head apart (finding 5). It compares digests only at equal
sequence numbers (`control_journal_image.rs:2895`): a stale writer's history of the
same length is refused, a longer one replaces the records it has not seen.
`JournalAdvances` therefore speaks of the head and of what never falls, not of every
record below the head; the part `forks` reaches the longer history.

Starting. The umask is installed before the lock entry is created, which is why
a start that stops between the two calls leaves an entry the next one accepts.
The lock is taken before the store is opened and the socket removed; the stale
socket is removed before the bind. Each of these orders has a mutant.

Safe time. Writing the branch first would let a rollback revive what had
expired (`ObserveBranchFirst`).

## 6. Findings

1. `retry_exhausted` (bug). `message retry` accepts a message whose five
   attempts are spent. Its claim would make `attempts` 6, the table's CHECK
   refuses, `dispatch_due` returns "store claim failed" and the service exits.
   After every restart the same row is the oldest due one again, so the retry is
   never attempted and younger messages wait behind it.
2. `retry_duplicates` (documentation). `driver.rs` calls `DriverError` a failure
   "before any provider effect is possible", but the ntfy driver returns it for a
   2xx answer without an id. The message becomes `failed`, and an operator's retry
   publishes it twice. The WhatsApp driver reports the same case as `Ambiguous`.
3. `key_alias` (documentation). `m2_submit` does not compare the driver, so with
   the ntfy topic "whatsapp" an ntfy request can be answered as the duplicate of
   a WhatsApp message under the same key.
4. `ack_recoverable` (documentation). A hold entered while an acknowledgement of
   the older hold is pending leaves that acknowledgement with no record that
   moves it on, and no acknowledgement of the newer hold can be requested, while
   `specs/architecture.md:3333` says "Acknowledgement failure leaves the prior
   phase recoverable".
5. `hold_overwritten` (bug). Two images computed from one base have equal
   generations and heads; `publish_image` lets the one without the hold replace
   the one with it, so a hold is cleared without its settlement
   (`control_journal_image.rs:1478`).

Four more disagreements of the reference loop with its documents were met while
modelling. No run is kept for them: the alert properties are stated so that they
hold with the first two, and the model has all four behaviours.

- `reference_loop_port.rs:1077` compares a candidate with the snapshot and not
  with the rest of its body, so a body that lists one message twice writes two
  receipts and two intents; P0R-014 (`product.md:255`) asks for one.
- `phase_zero_reference_loop_fixture.rs:1045` finds a lease by reference and
  fence, but replies of one kind share a reference and each counts its fences
  from zero, so a dispatcher can settle the lease of another alert than the one
  it showed (`reference_loop.rs:83`). `HoldsLease` therefore says that no other
  worker has the fence only for an alert alone under its reference.
- `reference_loop_port.rs:325` looks for the pin of an attempt in the worker's
  copy, so a worker with an old copy sends an attempt again that is pinned under
  other generations (`reference_loop.rs:111`).
- `phase_zero_reference_loop_fixture.rs:933`: a failed commit leaves its staged
  batch, and that worker refuses every redelivery until it is restarted, while
  P0R-012 (`product.md:253`) calls the failure retryable.

Two things of the loop that the properties follow rather than judge: a lease's
expiry is compared with the time the request was received, not with the time it
is handled, and a refresh that fails leaves the worker its old copy.

One more, of the canonical request: for a plain request with a title
`legacy_canonical_request_v1` (`canon.rs:215`) writes the options as a set of tags
and absent options as absent, while `specs/architecture.md:405-417` expands the
default options of every request. `Says` follows the code, as does the repository's
fixture `core-canon-tag-sort`.

## 7. Plan

Done: the service, its promise and its proofs; starting, migrating and
bootstrapping; the three publications; the control journal, the wire formats and
seals; the core decisions; canonicalization, admission and grammars; phase zero.
Proved: the safety of all of these; what section 4 ends with is only model-checked.

Next, in this order:

1. An abstract journal (a sequence of acknowledged records that never shrinks)
   which `JournalPublication` implements for a single writer.
2. The reopening of the generation an active-state pointer names.

## 8. Not modelled

The client, the scripts, the specifications as such, generated catalogues and
vendored crates. SHA-256, HMAC and TLS (ideal, or a fact about a message); JSON
and TOML libraries (what they report). Of the active-state pointer, the
certificate's codec and the reopening of the named generation. Of the journal,
members of an upgrade, which its constructors refuse, and the framing of the
checkpoint's members (`encode_checkpoint`); `Sealing` opens an image without the
member counts and the replay, which `JournalImage` has. Of the addressed actions,
the request (tag 1), whose payload is the value of `value_format`. Rows of a ring
beyond two. A `Retry-After` number beyond i64, which the code ignores, counts as
text of neither form; a purpose directory that is not the owner's alone counts as
removed. Inputs longer than a MAC takes (`canon.rs:628`), characters of three bytes
or more, and the check for UTF-8 that JSON begins with (`json.rs:85`). Of the service,
configuration that changes between restarts (the constants are fixed for a
behaviour) and errors of SQLite other than a failed CHECK or a UNIQUE conflict,
which either refuse a request without change or end the process like a crash.

----------------------------- MODULE Migrations -----------------------------
(***************************************************************************)
(* Opening and migrating a store (crates/msgriver-store/src/lib.rs):       *)
(* Store::open, apply_migrations (the maintenance catalog, v1 and v2) and  *)
(* apply_product_migrations (v1 to v5), statement by statement, by two     *)
(* connections at once, with statements, commits and rollbacks that fail,  *)
(* processes that die and machines that lose power.                        *)
(*                                                                         *)
(* A database is its migration journal (version to checksum: "pinned" or   *)
(* "other"), the objects it holds, and its messages, of which some have a  *)
(* destination.  A transaction works on a copy; SQLite (external) gives    *)
(* it the write lock at its start.  A commit under synchronous = FULL is   *)
(* on disk, under a weaker setting the next loss of power may undo it.     *)
(***************************************************************************)
EXTENDS Naturals, Sequences, FiniteSets

CONSTANTS
  Connections,   \* the connections
  Messages,      \* message identities
  MaxFaults      \* bound: failures, deaths and losses of power

ASSUME MigrationsAssumption == IsFiniteSet(Messages) /\ MaxFaults \in Nat

VARIABLES
  disk,       \* the database as a loss of power leaves it
  db,         \* the committed database
  conn,       \* connections
  acked,      \* messages whose submission was answered
  faults      \* faults so far

migrationVars == <<disk, db, conn, acked, faults>>

Closed == [pc |-> "closed", kind |-> "none", full |-> FALSE, work |-> <<>>, at |-> <<0, 0>>]

-----------------------------------------------------------------------------
\* The statements of the migrations.  Each names the object it makes or
\* changes; making one that is there is an error, as is changing one that is
\* not.
Make(o) == [do |-> "make", object |-> o]

\* Mutant: v4 leaves the destinations of the old rows empty.
without_update ==
  <<<<Make("schema_migrations")>>,
    <<Make("meta")>>,
    <<Make("m2_messages"), Make("m2_due")>>,
    <<[do |-> "rename", object |-> "m2_messages"], [do |-> "columns", object |-> "m3_messages"], Make("m3_due")>>,
    <<Make("m4_control"), Make("m4_receipts")>>>>

PRODUCT_MIGRATION_CATALOG ==
  <<<<Make("schema_migrations")>>,
    <<Make("meta")>>,
    <<Make("m2_messages"), Make("m2_due")>>,
    <<[do |-> "rename", object |-> "m2_messages"], [do |-> "columns", object |-> "m3_messages"],
      [do |-> "address", object |-> "m3_messages"], Make("m3_due")>>,
    <<Make("m4_control"), Make("m4_receipts")>>>>

Versions(kind) == IF kind = "product" THEN 1..5 ELSE 1..2

Applicable(s, d) == IF s.do = "make" THEN s.object \notin d.objects ELSE s.object \in d.objects

Applied(s, d) ==
  CASE s.do = "make" -> [d EXCEPT !.objects = @ \cup {s.object}]
    [] s.do = "rename" -> [d EXCEPT !.objects = (@ \ {"m2_messages"}) \cup {"m3_messages"}]
    [] s.do = "columns" -> [d EXCEPT !.objects = @ \cup {"columns"}]
    [] s.do = "address" -> [d EXCEPT !.addressed = d.rows]

\* What the migrations up to v leave of the objects.
Objects(v) ==
  {"schema_migrations"} \cup (IF v >= 2 THEN {"meta"} ELSE {})
  \cup (IF v = 3 THEN {"m2_messages", "m2_due"} ELSE {})
  \cup (IF v >= 4 THEN {"m3_messages", "m2_due", "m3_due", "columns"} ELSE {})
  \cup (IF v >= 5 THEN {"m4_control", "m4_receipts"} ELSE {})

Blank == [journal |-> <<>>, objects |-> {}, rows |-> {}, addressed |-> {}]
StoreOf(v, checksums, rows) ==
  [journal |-> checksums, objects |-> Objects(v), rows |-> rows, addressed |-> IF v >= 4 THEN rows ELSE {}]
Pinned(v) == [n \in 1..v |-> "pinned"]

\* A store of an earlier release, one whose history is not this binary's, and
\* one of a later release.
MigrationInit ==
  /\ \/ db = Blank
     \/ db = StoreOf(2, Pinned(2), {})
     \/ \E rows \in SUBSET Messages : db = StoreOf(3, Pinned(3), rows)
     \/ \E v \in {3, 5}, n \in 1..3 : db = StoreOf(v, [Pinned(v) EXCEPT ![n] = "other"], {})
     \/ db = StoreOf(5, Pinned(6), Messages)
     \/ db = StoreOf(2, [n \in {1, 2, 6} |-> "pinned"], {})
  /\ disk = db
  /\ conn = [c \in Connections |-> Closed]
  /\ acked = db.rows
  /\ faults = 0

-----------------------------------------------------------------------------
Become(c, r) == conn' = [conn EXCEPT ![c] = r]
Fault == faults < MaxFaults /\ faults' = faults + 1

\* Store::open: the profile is installed and read back; a setting that did
\* not take is refused.
profile_verified(full) == full

Open(c) ==
  /\ conn[c].pc = "closed"
  /\ \E kind \in {"product", "maintenance"}, full \in BOOLEAN :
       /\ profile_verified(full)
       /\ Become(c, [Closed EXCEPT !.pc = "open", !.kind = kind, !.full = full])
  /\ UNCHANGED <<disk, db, acked, faults>>

\* The transaction takes the write lock, or is refused and the store stays
\* open for another try.
Begin(c) ==
  /\ conn[c].pc = "open"
  /\ \A e \in Connections : conn[e].pc # "migrating"
  /\ Become(c, [conn[c] EXCEPT !.pc = "migrating", !.work = db, !.at = <<1, 1>>])
  /\ UNCHANGED <<disk, db, acked, faults>>

Recorded(d) == DOMAIN d.journal

\* Mutant: versions of a later release are passed over.
ignore_unknown(kind, d) == FALSE

unknown_versions(kind, d) == Recorded(d) \ Versions(kind) # {}

\* Mutant: whatever checksum is recorded passes.
any_checksum(d, v) == v \in Recorded(d)

already_applied(d, v) == v \in Recorded(d) /\ d.journal[v] = "pinned"

Refusable(c) ==
  LET d == conn[c].work
      v == conn[c].at[1]
  IN /\ v \in Versions(conn[c].kind)
     /\ \/ v \in Recorded(d) /\ ~already_applied(d, v)
        \/ v = 1 /\ "schema_migrations" \in d.objects /\ 1 \notin Recorded(d)
        \/ v = 2 /\ unknown_versions(conn[c].kind, d)
        \/ v \notin Recorded(d) /\ ~Applicable(PRODUCT_MIGRATION_CATALOG[v][conn[c].at[2]], d)

\* Mutant: the changes made so far are kept.
kept(before, work) == work

rolled_back(before, work) == before

Commits(c, d) ==
  /\ db' = d
  /\ disk' = IF conn[c].full THEN d ELSE disk

\* A version that does not fit, and any statement that fails, end the
\* transaction; when the rollback fails too the connection is dropped.
Reject(c) ==
  /\ conn[c].pc = "migrating"
  /\ \/ Refusable(c) /\ UNCHANGED faults
     \/ Fault
  /\ Commits(c, rolled_back(db, conn[c].work))
  /\ Become(c, [conn[c] EXCEPT !.pc = "open", !.work = <<>>, !.at = <<0, 0>>])
  /\ UNCHANGED acked

RollbackFails(c) ==
  /\ conn[c].pc = "migrating"
  /\ Fault
  /\ Become(c, Closed)
  /\ UNCHANGED <<disk, db, acked>>

Statement(c) ==
  /\ conn[c].pc = "migrating"
  /\ conn[c].at[1] \in Versions(conn[c].kind)
  /\ ~Refusable(c)
  /\ LET v == conn[c].at[1]
         n == conn[c].at[2]
         batch == PRODUCT_MIGRATION_CATALOG[v]
         made == Applied(batch[n], conn[c].work)
     IN Become(c,
          IF v \in Recorded(conn[c].work) THEN [conn[c] EXCEPT !.at = <<v + 1, 1>>]
          ELSE IF n < Len(batch) THEN [conn[c] EXCEPT !.work = made, !.at = <<v, n + 1>>]
          ELSE [conn[c] EXCEPT !.work = [made EXCEPT !.journal = [m \in Recorded(made) \cup {v} |->
                                                                  IF m = v THEN "pinned" ELSE @[m]]],
                               !.at = <<v + 1, 1>>])
  /\ UNCHANGED <<disk, db, acked, faults>>

AtEnd(c) == conn[c].pc = "migrating" /\ conn[c].at[1] \notin Versions(conn[c].kind)

Commit(c) ==
  /\ AtEnd(c)
  /\ Commits(c, conn[c].work)
  /\ Become(c, [conn[c] EXCEPT !.pc = "ready", !.work = <<>>, !.at = <<0, 0>>])
  /\ UNCHANGED <<acked, faults>>

\* A commit that fails may have happened; the connection is dropped.
CommitFails(c) ==
  /\ AtEnd(c)
  /\ Fault
  /\ Commits(c, conn[c].work) \/ UNCHANGED <<db, disk>>
  /\ Become(c, Closed)
  /\ UNCHANGED acked

-----------------------------------------------------------------------------
\* The service submits messages to a store it migrated (DeliveryStore).
Submit(c) ==
  /\ conn[c].pc = "ready" /\ conn[c].kind = "product"
  /\ \A e \in Connections : conn[e].pc # "migrating"
  /\ "m3_messages" \in db.objects
  /\ \E m \in Messages \ db.rows :
       /\ Commits(c, [db EXCEPT !.rows = @ \cup {m}, !.addressed = @ \cup {m}])
       /\ acked' = acked \cup {m}
  /\ UNCHANGED <<conn, faults>>

Die(c) ==
  /\ conn[c].pc # "closed"
  /\ Fault
  /\ Become(c, Closed)
  /\ UNCHANGED <<disk, db, acked>>

PowerLoss ==
  /\ Fault
  /\ db' = disk
  /\ conn' = [c \in Connections |-> Closed]
  /\ UNCHANGED <<disk, acked>>

MigrationNext ==
  \/ \E c \in Connections :
       \/ Open(c) \/ Begin(c) \/ Reject(c) \/ RollbackFails(c) \/ Statement(c)
       \/ Commit(c) \/ CommitFails(c) \/ Submit(c) \/ Die(c)
  \/ PowerLoss

MigrationSpec == MigrationInit /\ [][MigrationNext]_migrationVars

-----------------------------------------------------------------------------
Highest(d) == CHOOSE v \in Recorded(d) : \A w \in Recorded(d) : w <= v

\* Wherever a migration is cut short, what is committed is a whole number of
\* migrations and the journal says which (apply_catalog and
\* apply_product_catalog, one transaction each).
RecordedIsInstalled ==
  \A d \in {db, disk} :
    (Recorded(d) \subseteq 1..5) =>
      d.objects = IF Recorded(d) = {} THEN {} ELSE Objects(Highest(d))

\* A store whose history this binary does not know, by a version or by a
\* checksum, keeps its schema and its journal whatever a migration does before it
\* finds out ("a binary that does not know every recorded migration must not
\* install older state beside a future schema history").
Foreign(d) == 6 \in Recorded(d) \/ \E v \in Recorded(d) : d.journal[v] = "other"

ForeignUntouched ==
  [][Foreign(db) => db'.objects = db.objects /\ db'.journal = db.journal]_migrationVars

\* A connection that reports success has the whole catalog it was asked for,
\* each migration the pinned one.
ReadyIsMigrated ==
  \A c \in Connections :
    conn[c].pc = "ready" => \A v \in Versions(conn[c].kind) : v \in Recorded(db) /\ db.journal[v] = "pinned"

\* No message is lost, by a migration, a death or a loss of power, and each
\* that the delivery schema holds can be addressed: those of the first
\* release were given their destination.
MessagesKept ==
  /\ acked \subseteq db.rows
  /\ "m3_messages" \in db.objects => db.addressed = db.rows

\* Migrating: wherever it is cut short, a whole number of migrations is committed
\* and the journal says which; a connection that reports success has the whole
\* pinned catalog; no message is lost, and each one the delivery schema holds can
\* be addressed (apply_catalog, apply_product_catalog).
MigrationSafety == RecordedIsInstalled /\ ReadyIsMigrated /\ MessagesKept

-----------------------------------------------------------------------------
\* The inductive invariant behind MigrationSafety and ForeignUntouched.
Journals == UNION {[D -> {"pinned", "other"}] : D \in SUBSET (1..6)}
AllObjects == {"schema_migrations", "meta", "m2_messages", "m2_due", "m3_messages", "m3_due", "columns", "m4_control", "m4_receipts"}
Stores == [journal : Journals, objects : SUBSET AllObjects, rows : SUBSET Messages, addressed : SUBSET Messages]
ConnectionStates ==
  [pc : {"closed", "open", "migrating", "ready"}, kind : {"none", "product", "maintenance"}, full : BOOLEAN,
   work : Stores \cup {<<>>}, at : Nat \X Nat]

MigrationTypeOK ==
  /\ db \in Stores
  /\ conn \in [Connections -> ConnectionStates]
  /\ acked \subseteq Messages /\ faults \in Nat

\* The objects of a store with the migrations up to v, and of one whose
\* migration v has come to its statement n.
Installed(v) == IF v = 0 THEN {} ELSE Objects(v)
Underway(v, n) ==
  CASE n = 1 -> Installed(v - 1)
    [] v = 3 /\ n = 2 -> Installed(2) \cup {"m2_messages"}
    [] v = 4 /\ n = 2 -> Installed(2) \cup {"m3_messages", "m2_due"}
    [] v = 4 /\ n > 2 -> Installed(2) \cup {"m3_messages", "m2_due", "columns"}
    [] v = 5 /\ n = 2 -> Installed(4) \cup {"m4_control"}
Positions == {<<1, 1>>, <<2, 1>>, <<3, 1>>, <<3, 2>>, <<4, 1>>, <<4, 2>>, <<4, 3>>, <<4, 4>>, <<5, 1>>, <<5, 2>>, <<6, 1>>}

\* What is committed holds an unbroken run of migrations, or is of a later
\* release.
StoreInv(d) ==
  /\ IF 6 \in Recorded(d) THEN {1, 2} \subseteq Recorded(d)
     ELSE \E h \in 0..5 : Recorded(d) = 1..h /\ d.objects = Installed(h)
  /\ "m3_messages" \in d.objects => d.addressed = d.rows

\* What a connection that migrates works on: the committed store, until the
\* first version it lacks, or one whose journal it has extended itself.
PinnedBelow(d, v) == \A w \in 1..(v - 1) : w \in Recorded(d) /\ d.journal[w] = "pinned"
Extended(d, v, n) ==
  /\ Recorded(d) = 1..(v - 1) /\ Recorded(db) \subseteq 1..(v - 1)
  /\ \A w \in Recorded(db) : db.journal[w] = "pinned"
  /\ d.objects = Underway(v, n)
  /\ d.rows = db.rows
  /\ v > 4 \/ n > 3 => d.addressed = d.rows

WorkInv(c) ==
  LET d == conn[c].work
      v == conn[c].at[1]
      n == conn[c].at[2]
  IN /\ d \in Stores /\ conn[c].at \in Positions
     /\ conn[c].kind = "maintenance" => v < 3 \/ conn[c].at = <<3, 1>>
     /\ v > 2 => Recorded(d) \subseteq Versions(conn[c].kind)
     /\ PinnedBelow(d, v)
     /\ (d = db /\ n = 1) \/ Extended(d, v, n)

MigrationInv ==
  /\ MigrationTypeOK
  /\ disk = db
  /\ \A c \in Connections : conn[c].pc # "closed" => conn[c].full /\ conn[c].kind # "none"
  /\ StoreInv(db)
  /\ acked \subseteq db.rows
  /\ \A c, e \in Connections : (c # e /\ conn[c].pc = "migrating") => conn[e].pc # "migrating"
  /\ \A c \in Connections : conn[c].pc = "migrating" => WorkInv(c)
  /\ ReadyIsMigrated
=============================================================================

----------------------------- MODULE StateMacKeys -----------------------------
(***************************************************************************)
(* The retained MAC keys of a selected state: the tables that list them,   *)
(* decoded and validated as one snapshot, the decisions a rotation takes,  *)
(* and the verification of the key directory against the rows while the    *)
(* directory may be changed by someone else.                               *)
(*                                                                         *)
(* A key id is <<origin, high limb, low limb>>, the order of its bytes; a  *)
(* leaf's name is its key id in hex, so the key id stands for the name.    *)
(* The writer of tables and files is not in the repository (external): it  *)
(* follows the decisions of msgriver_core::ring.                           *)
(***************************************************************************)
EXTENDS Integers, Sequences, FiniteSets, SequencesExt

CONSTANTS
  PurposeCount,         \* 11; the last purpose is the portable reservation
  MaxPerPurpose,        \* 16
  LimbMax,              \* u32::MAX
  PrebootstrapOrigin,   \* origin of the portable reservation's key
  RawOrigins,           \* selected origins a table may hold
  RawRows, RawWaters,   \* rows the tables may hold
  MaxRows, MaxWaters,   \* bounds: rows per table
  MaxRotations,         \* bound: rotations and retirements
  Files,                \* inode |-> [good: owner-only regular file, of: the key it holds]
  MaxSwaps              \* bound: changes to the directory

Purposes == 1..PurposeCount
NoFile == 0

\* SQLite gives an integer for each column.
ManifestColumns == [purpose : Int, origin : Int, hi : Int, lo : Int, status : Int]
WaterColumns == [purpose : Int, hi : Int, lo : Int]

ASSUME KeyConstants ==
  /\ {PurposeCount, MaxPerPurpose, LimbMax, MaxRows, MaxWaters, MaxRotations, MaxSwaps} \subseteq Nat
  /\ RawOrigins \subseteq Int /\ RawRows \subseteq ManifestColumns /\ RawWaters \subseteq WaterColumns
  /\ NoFile \notin DOMAIN Files
  /\ \A f \in DOMAIN Files :
       Files[f].good \in BOOLEAN /\ Files[f] = [good |-> Files[f].good, of |-> Files[f].of]

VARIABLES
  raw,         \* the tables: selected origin, high waters, manifest rows
  phase,       \* building, loaded, refused, verifying, accepted, invalid
  rotations,   \* rotations so far
  tree,        \* purpose |-> key id |-> inode; a missing directory has no purpose
  cursor,      \* the verifier's place: purpose, leaves left, the stat of the next leaf
  read,        \* leaf |-> inode it was read from
  swaps,       \* changes to the directory so far
  quiet        \* none of them since the verification began

macKeysVars == <<raw, phase, rotations, tree, cursor, read, swaps, quiet>>

-----------------------------------------------------------------------------
\* Rows.
Limb == 0..LimbMax
Serial(id) == id[2] * (LimbMax + 1) + id[3]
SplitSerial(n) == <<n \div (LimbMax + 1), n % (LimbMax + 1)>>

\* An origin of the wrong length is none of the integers an origin is.
is_origin(origin) == origin >= 0

decodes_row(row) ==
  /\ row.purpose \in Purposes
  /\ row.status \in {1, 2}
  /\ is_origin(row.origin)
  /\ row.hi \in Limb /\ row.lo \in Limb
  /\ ~(row.hi = 0 /\ row.lo = 0)

decode_state_mac_key_manifest_row(row) ==
  [purpose |-> row.purpose, id |-> <<row.origin, row.hi, row.lo>>, active |-> row.status = 1]

decodes_water(row) == row.purpose \in Purposes /\ row.hi \in Limb /\ row.lo \in Limb

decode_state_mac_key_meta_rows(r) ==
  is_origin(r.origin) /\ \A i \in DOMAIN r.waters : decodes_water(r.waters[i])

IdBefore(a, b) ==
  \/ a[1] < b[1]
  \/ a[1] = b[1] /\ a[2] < b[2]
  \/ a[1] = b[1] /\ a[2] = b[2] /\ a[3] < b[3]

RowBefore(a, b) == a.purpose < b.purpose \/ (a.purpose = b.purpose /\ IdBefore(a.id, b.id))

ActiveRows(rows, p) == {i \in DOMAIN rows : rows[i].purpose = p /\ rows[i].active}

\* Mutant: a purpose without an active key passes.
absent_active(rows, selected) ==
  /\ \A i \in 1..(Len(rows) - 1) : RowBefore(rows[i], rows[i + 1])
  /\ \A p \in Purposes :
       /\ Cardinality({i \in DOMAIN rows : rows[i].purpose = p}) <= MaxPerPurpose
       /\ Cardinality(ActiveRows(rows, p)) <= 1
       /\ \A i \in ActiveRows(rows, p) :
            rows[i].id[1] = IF p = PurposeCount THEN PrebootstrapOrigin ELSE selected

validate_state_mac_key_manifest(rows, selected) ==
  /\ \A i \in 1..(Len(rows) - 1) : RowBefore(rows[i], rows[i + 1])
  /\ \A p \in Purposes :
       /\ Cardinality({i \in DOMAIN rows : rows[i].purpose = p}) <= MaxPerPurpose
       /\ Cardinality(ActiveRows(rows, p)) = 1
       /\ \A i \in ActiveRows(rows, p) :
            rows[i].id[1] = IF p = PurposeCount THEN PrebootstrapOrigin ELSE selected

\* Mutant: only the low limbs are compared.
low_limb_only(rows, selected, waters) ==
  /\ \A p \in Purposes : Cardinality({i \in DOMAIN waters : waters[i].purpose = p}) = 1
  /\ \A i \in DOMAIN rows, j \in DOMAIN waters :
       (rows[i].id[1] = selected /\ waters[j].purpose = rows[i].purpose)
       => rows[i].id[3] <= waters[j].lo

validate_state_mac_key_high_water(rows, selected, waters) ==
  /\ \A p \in Purposes : Cardinality({i \in DOMAIN waters : waters[i].purpose = p}) = 1
  /\ \A i \in DOMAIN rows, j \in DOMAIN waters :
       (rows[i].id[1] = selected /\ waters[j].purpose = rows[i].purpose)
       => Serial(rows[i].id) <= Serial(<<0, waters[j].hi, waters[j].lo>>)

ManifestRows(r) == [i \in DOMAIN r.rows |-> decode_state_mac_key_manifest_row(r.rows[i])]

\* Whether a snapshot of the tables is taken.
compose_state_mac_key_snapshot(r) ==
  /\ decode_state_mac_key_meta_rows(r)
  /\ \A i \in DOMAIN r.rows : decodes_row(r.rows[i])
  /\ validate_state_mac_key_manifest(ManifestRows(r), r.origin)
  /\ validate_state_mac_key_high_water(ManifestRows(r), r.origin, r.waters)

-----------------------------------------------------------------------------
\* Ring decisions.
LastSerial == Serial(<<0, LimbMax, LimbMax>>)
WaterOf(r, p) == CHOOSE i \in DOMAIN r.waters : r.waters[i].purpose = p
HighWater(r, p) == Serial(<<0, r.waters[WaterOf(r, p)].hi, r.waters[WaterOf(r, p)].lo>>)

serial_next(high_water) == IF high_water = LastSerial THEN <<>> ELSE <<high_water + 1>>

\* Mutant: the retained keys are not counted.
capacity_ignored(origin_valid, serial_available, capacity_available, entropy_available) ==
  origin_valid /\ serial_available /\ entropy_available

\* The stages of a rotation, in the order they are asked; allocation is entropy's.
rotation_permitted(origin_valid, serial_available, capacity_available, entropy_available) ==
  origin_valid /\ serial_available /\ capacity_available /\ entropy_available

\* A slot comes back only with a retirement or an elapsed window.
capacity_recovered(transition) == transition \in {"RetireDependencyFree", "CoveringWindowElapsed"}

-----------------------------------------------------------------------------
\* Building the tables and rotating.
Place == [purpose |-> 0, left |-> {}, before |-> NoFile]

MacKeysInit ==
  /\ raw \in [origin : RawOrigins, waters : {<<>>}, rows : {<<>>}]
  /\ phase = "building"
  /\ rotations = 0
  /\ tree = <<>>
  /\ cursor = Place
  /\ read = <<>>
  /\ swaps = 0
  /\ quiet = TRUE

AddRow ==
  /\ phase = "building" /\ Len(raw.rows) < MaxRows
  /\ \E row \in RawRows : raw' = [raw EXCEPT !.rows = Append(@, row)]
  /\ UNCHANGED <<phase, rotations, tree, cursor, read, swaps, quiet>>

AddWater ==
  /\ phase = "building" /\ Len(raw.waters) < MaxWaters
  /\ \E row \in RawWaters : raw' = [raw EXCEPT !.waters = Append(@, row)]
  /\ UNCHANGED <<phase, rotations, tree, cursor, read, swaps, quiet>>

\* The directory a writer of these rows left: one leaf per row.
Leaves(r, p) == {ManifestRows(r)[i].id : i \in {j \in DOMAIN r.rows : r.rows[j].purpose = p}}
InodeOf(p, id) == CHOOSE f \in DOMAIN Files : Files[f] = [good |-> TRUE, of |-> <<p, id>>]

Load ==
  /\ phase = "building"
  /\ phase' = IF compose_state_mac_key_snapshot(raw) THEN "loaded" ELSE "refused"
  /\ UNCHANGED <<raw, rotations, tree, cursor, read, swaps, quiet>>

RawOf(p, id, status) == [purpose |-> p, origin |-> id[1], hi |-> id[2], lo |-> id[3], status |-> status]
Listed(a, b) == RowBefore(decode_state_mac_key_manifest_row(a), decode_state_mac_key_manifest_row(b))
SortedRows(S) ==
  [k \in 1..Cardinality(S) |-> CHOOSE row \in S : Cardinality({a \in S : Listed(a, row)}) = k - 1]

\* A new active key of a purpose of the selected state; the old one is retained.
Rotate ==
  /\ phase = "loaded" /\ rotations < MaxRotations
  /\ \E p \in Purposes \ {PurposeCount} :
       LET next == serial_next(HighWater(raw, p))
           mine == {i \in DOMAIN raw.rows : raw.rows[i].purpose = p}
       IN /\ rotation_permitted(TRUE, next # <<>>, Cardinality(mine) < MaxPerPurpose, TRUE)
          /\ LET limbs == SplitSerial(next[1])
                 kept == {IF i \in mine THEN [raw.rows[i] EXCEPT !.status = 2] ELSE raw.rows[i]
                            : i \in DOMAIN raw.rows}
             IN raw' = [raw EXCEPT
                  !.rows = SortedRows(kept \cup {RawOf(p, <<raw.origin, limbs[1], limbs[2]>>, 1)}),
                  !.waters[WaterOf(raw, p)] = [purpose |-> p, hi |-> limbs[1], lo |-> limbs[2]]]
  /\ rotations' = rotations + 1
  /\ UNCHANGED <<phase, tree, cursor, read, swaps, quiet>>

\* A retained key nothing depends on is dropped; its high water stays.
Retire ==
  /\ phase = "loaded" /\ rotations < MaxRotations
  /\ capacity_recovered("RetireDependencyFree")
  /\ \E i \in DOMAIN raw.rows :
       /\ raw.rows[i].status = 2
       /\ raw' = [raw EXCEPT !.rows = RemoveAt(@, i)]
  /\ rotations' = rotations + 1
  /\ UNCHANGED <<phase, tree, cursor, read, swaps, quiet>>

-----------------------------------------------------------------------------
\* The directory and its verification.
Expected(p) == Leaves(raw, p)

\* Verification begins on the directory that was written for the rows.
Begin ==
  /\ phase = "loaded" /\ rotations = 0
  /\ \A p \in Purposes : \A id \in Expected(p) :
       \E f \in DOMAIN Files : Files[f] = [good |-> TRUE, of |-> <<p, id>>]
  /\ phase' = "staged"
  /\ tree' = [p \in Purposes |-> [id \in Expected(p) |-> InodeOf(p, id)]]
  /\ UNCHANGED <<raw, rotations, cursor, read, swaps, quiet>>

\* Someone else (external) replaces, adds or removes a leaf, or removes a directory; one
\* that is no longer owner-only is refused when it is opened, as a removed one is, and
\* counts as removed.
Swap ==
  /\ phase \in {"staged", "verifying"} /\ swaps < MaxSwaps
  /\ \E p \in DOMAIN tree :
       \/ \E f \in DOMAIN Files, id \in DOMAIN tree[p] \cup {Files[g].of[2] : g \in DOMAIN Files} :
            tree' = [tree EXCEPT ![p] = [i \in DOMAIN @ \cup {id} |-> IF i = id THEN f ELSE @[i]]]
       \/ \E id \in DOMAIN tree[p] :
            tree' = [tree EXCEPT ![p] = [i \in DOMAIN @ \ {id} |-> @[i]]]
       \/ tree' = [q \in DOMAIN tree \ {p} |-> tree[q]]
  /\ tree' # tree
  /\ swaps' = swaps + 1
  /\ quiet' = (phase = "staged")
  /\ UNCHANGED <<raw, phase, rotations, cursor, read>>

Refuse ==
  /\ phase' = "invalid"
  /\ UNCHANGED <<raw, rotations, tree, cursor, read, swaps, quiet>>

\* mac/ holds exactly the purposes.
VerifyNamespace ==
  /\ phase = "staged"
  /\ IF DOMAIN tree = Purposes
     THEN /\ phase' = "verifying"
          /\ cursor' = [Place EXCEPT !.purpose = 0]
          /\ UNCHANGED <<raw, rotations, tree, read, swaps, quiet>>
     ELSE Refuse

\* Mutant: a leaf that no row names is passed over.
entries_include(entries, expected) == expected \subseteq entries

\* Every entry is an expected leaf and every expected leaf is there.
entries_match(entries, expected) == entries = expected

verify_purpose_entries ==
  /\ phase = "verifying" /\ cursor.left = {} /\ cursor.purpose < PurposeCount
  /\ LET p == cursor.purpose + 1
     IN IF p \in DOMAIN tree /\ entries_match(DOMAIN tree[p], Expected(p))
        THEN /\ cursor' = [Place EXCEPT !.purpose = p, !.left = Expected(p)]
             /\ UNCHANGED <<raw, phase, rotations, tree, read, swaps, quiet>>
        ELSE Refuse

\* The inode a leaf names now; a descriptor into a removed directory names none.
Named(id) ==
  IF cursor.purpose \in DOMAIN tree /\ id \in DOMAIN tree[cursor.purpose]
  THEN tree[cursor.purpose][id] ELSE NoFile

is_owner_only_state_key_file(f) == f # NoFile /\ Files[f].good

StatLeaf ==
  /\ phase = "verifying" /\ cursor.left # {} /\ cursor.before = NoFile
  /\ \E id \in {CHOOSE i \in cursor.left : \A j \in cursor.left : i = j \/ IdBefore(i, j)} :
       IF is_owner_only_state_key_file(Named(id))
       THEN /\ cursor' = [cursor EXCEPT !.before = Named(id)]
            /\ UNCHANGED <<raw, phase, rotations, tree, read, swaps, quiet>>
       ELSE Refuse

\* Mutant: the descriptor is not compared with the entry that was checked.
opened_unchecked(before, opened) == opened # NoFile

opened_is_checked(before, opened) == is_owner_only_state_key_file(opened) /\ opened = before

\* Open, compare with the stat before, read to the end, authenticate.
read_authenticated_leaf ==
  /\ phase = "verifying" /\ cursor.before # NoFile
  /\ \E id \in {CHOOSE i \in cursor.left : \A j \in cursor.left : i = j \/ IdBefore(i, j)} :
       IF /\ opened_is_checked(cursor.before, Named(id))
          /\ Files[Named(id)].of = <<cursor.purpose, id>>
       THEN /\ cursor' = [cursor EXCEPT !.before = NoFile, !.left = @ \ {id}]
            /\ read' = Append(read, [purpose |-> cursor.purpose, id |-> id, inode |-> Named(id)])
            /\ UNCHANGED <<raw, phase, rotations, tree, swaps, quiet>>
       ELSE Refuse

Accept ==
  /\ phase = "verifying" /\ cursor.left = {} /\ cursor.purpose = PurposeCount
  /\ phase' = "accepted"
  /\ UNCHANGED <<raw, rotations, tree, cursor, read, swaps, quiet>>

MacKeysNext ==
  \/ AddRow \/ AddWater \/ Load \/ Rotate \/ Retire \/ Begin \/ Swap
  \/ VerifyNamespace \/ verify_purpose_entries \/ StatLeaf \/ read_authenticated_leaf \/ Accept

MacKeysSpec == MacKeysInit /\ [][MacKeysNext]_macKeysVars

-----------------------------------------------------------------------------
Taken == phase \notin {"building", "refused"}

\* compose_state_mac_key_snapshot: in tables that are taken every purpose has
\* exactly one active key, of the origin that purpose demands, no key is listed
\* twice, and the serials of the selected origin are within the high water, also
\* after rotations and retirements that followed the ring's decisions.
SnapshotCoherent ==
  Taken =>
    LET rows == {decode_state_mac_key_manifest_row(raw.rows[i]) : i \in DOMAIN raw.rows}
    IN /\ \A p \in Purposes : \E r \in rows :
            /\ r.active /\ r.purpose = p
            /\ r.id[1] = IF p = PurposeCount THEN PrebootstrapOrigin ELSE raw.origin
            /\ \A s \in rows : (s.active /\ s.purpose = p) => s = r
       /\ Cardinality({<<r.purpose, r.id>> : r \in rows}) = Len(raw.rows)

\* validate_state_mac_key_high_water and serial_next: the next key of a purpose
\* under the selected origin has an id no listed key has.
FreshKeyUnused ==
  Taken => \A p \in Purposes : \A n \in {serial_next(HighWater(raw, p))[i]
                                           : i \in DOMAIN serial_next(HighWater(raw, p))} :
             <<raw.origin, SplitSerial(n)[1], SplitSerial(n)[2]>> \notin Leaves(raw, p)

\* ring::observe and validate_state_mac_key_manifest: tables rotated and retired
\* within the ring's decisions are taken again at the next start.
RotationReloads == phase = "loaded" => compose_state_mac_key_snapshot(raw)

\* read_authenticated_leaf and read_state_mac_key: whatever was swapped in
\* meanwhile, every key of an accepted directory was read from an owner-only
\* file that holds that very key.
AcceptedLeavesValid ==
  phase = "accepted" =>
    /\ \A i \in DOMAIN read : Files[read[i].inode] = [good |-> TRUE, of |-> <<read[i].purpose, read[i].id>>]
    /\ {<<read[i].purpose, read[i].id>> : i \in DOMAIN read}
         = UNION {{<<p, id>> : id \in Expected(p)} : p \in Purposes}

\* verify_state_mac_key_directory: a directory nobody touches meanwhile is
\* accepted only if it is the rows' directory, entry by entry.
QuietAcceptance ==
  (phase = "accepted" /\ quiet) =>
    tree = [p \in Purposes |-> [id \in Expected(p) |-> tree[p][id]]]

\* The state MAC keys: in tables that are taken every purpose has exactly one
\* active key and no key is listed twice (compose_state_mac_key_snapshot); the
\* next key has an id no listed key has (serial_next), and tables rotated within
\* the ring's decisions are taken again at the next start (ring::observe); every
\* key of an accepted directory was read from an owner-only file that holds it,
\* whatever was swapped in meanwhile (read_authenticated_leaf), and a directory
\* nobody touches is accepted only if it is the rows', entry by entry
\* (verify_state_mac_key_directory).
KeysSafety ==
  /\ SnapshotCoherent /\ FreshKeyUnused /\ RotationReloads
  /\ AcceptedLeavesValid /\ QuietAcceptance

-----------------------------------------------------------------------------
(***************************************************************************)
(* The inductive invariant.  Tables that are taken would be taken again;   *)
(* what was read is what was expected of the purposes passed, without the  *)
(* leaves left of the current one; and the entries of these purposes stay  *)
(* as they were compared unless someone changes them.                      *)
(***************************************************************************)
KeyIds == Int \X Int \X Int
ReadKeys == {<<read[i].purpose, read[i].id>> : i \in DOMAIN read}
Visiting == phase \in {"verifying", "accepted"}

MacKeysTypeOK ==
  /\ raw \in [origin : Int, waters : Seq(WaterColumns), rows : Seq(ManifestColumns)]
  /\ phase \in {"building", "loaded", "refused", "staged", "verifying", "accepted", "invalid"}
  /\ read \in Seq([purpose : Purposes, id : KeyIds, inode : DOMAIN Files])
  /\ quiet \in BOOLEAN
  /\ tree = [p \in DOMAIN tree |-> [id \in DOMAIN tree[p] |-> tree[p][id]]]
  /\ \A p \in DOMAIN tree : \A id \in DOMAIN tree[p] : tree[p][id] \in DOMAIN Files

CursorInv ==
  /\ cursor = [purpose |-> cursor.purpose, left |-> cursor.left, before |-> cursor.before]
  /\ cursor.purpose \in 0..PurposeCount
  /\ cursor.left \subseteq Expected(cursor.purpose)
  /\ cursor.before # NoFile => cursor.left # {}

ReadInv ==
  /\ \A i \in DOMAIN read :
       /\ Files[read[i].inode] = [good |-> TRUE, of |-> <<read[i].purpose, read[i].id>>]
       /\ read[i].id \in Expected(read[i].purpose)
  /\ \A p \in Purposes : \A id \in Expected(p) :
       <<p, id>> \in ReadKeys <=>
         p < cursor.purpose \/ (p = cursor.purpose /\ id \notin cursor.left)

MacKeysInv ==
  /\ MacKeysTypeOK
  /\ Taken => compose_state_mac_key_snapshot(raw)
  /\ phase \in {"building", "loaded", "refused", "staged"} => read = <<>>
  /\ Visiting => CursorInv /\ ReadInv
  /\ Visiting /\ quiet =>
       DOMAIN tree = Purposes /\ \A p \in 1..cursor.purpose : DOMAIN tree[p] = Expected(p)
  /\ phase = "accepted" => cursor.left = {} /\ cursor.purpose = PurposeCount
=============================================================================

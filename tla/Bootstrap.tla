------------------------------ MODULE Bootstrap ------------------------------
(***************************************************************************)
(* The ordered composition of crates/msgriver/src/service_bootstrap.rs and *)
(* the trusted envelope of crates/msgriver/src/bootstrap_envelope.rs:      *)
(* an adapter of the root and the lock (RootLockBootstrapAdapter, or       *)
(* EnvelopeRootAdapter, which first reads the envelope) around the adapter *)
(* of the process (LinuxProcessBootstrapAdapter), around what performs the *)
(* later steps.  The adapters are driven by bootstrap_owned, or by a       *)
(* caller of their public run, which may ask for any step at any time.     *)
(*                                                                         *)
(* Every primitive may fail.  While an envelope is read, its name may come *)
(* to hold another file and its file may be rewritten in place.  A file is *)
(* whether its parent and itself pass the checks of owner, group, mode and *)
(* links, and a sequence of blocks; a block is a set of entries of the     *)
(* document, and the longest document accepted has MaxBlocks.              *)
(***************************************************************************)
EXTENDS Naturals, Sequences, FiniteSets

CONSTANTS
  Keys,        \* the keys of the document; the expected ones have the value 1
  Extra,       \* a key no document should have
  Contents,    \* what an envelope may hold
  MaxBlocks,   \* ENVELOPE_MAX_LEN
  MaxCalls,    \* bound: steps asked for
  MaxChanges   \* bound: changes of the envelope

\* The blocks documents are made of.
Blocks == UNION {{c[i] : i \in DOMAIN c} : c \in Contents}

ASSUME BootstrapAssumption ==
  /\ Extra \notin Keys /\ IsFiniteSet(Keys)
  /\ Contents \subseteq Seq(Blocks) /\ \A b \in Blocks : IsFiniteSet(b)
  /\ MaxBlocks \in Nat /\ MaxCalls \in Nat /\ MaxChanges \in Nat

BOOTSTRAP_ORDER ==
  <<"ProcessPolicy", "NonRoot", "TrustedRoot", "OwnerLock",
    "SelectedState", "Store", "StructuralConfiguration", "ProviderCatalog">>

Steps == {BOOTSTRAP_ORDER[i] : i \in 1..8}
Later == {BOOTSTRAP_ORDER[i] : i \in 5..8}

VARIABLES
  kind,      \* "envelope" or "root_lock": the outer adapter
  owned,     \* whether bootstrap_owned drives
  calls,     \* steps asked for so far
  outer,     \* the outer adapter's flags: the steps it has seen succeed
  inner,     \* the process adapter's flags
  locked,    \* the lock the root adapter retains
  reading,   \* the TrustedRoot call in progress, or none
  named,     \* the file the envelope's name holds
  changes,   \* changes of the envelope so far
  done,      \* the primitives that succeeded, in order
  taken,     \* the last document accepted and the file it was read from
  answer     \* what bootstrap_owned returned

bootstrapVars == <<kind, owned, calls, outer, inner, locked, reading, named, changes, done, taken, answer>>

Idle == [pc |-> "none"]
Nothing == [blocks |-> <<>>, trusted |-> FALSE, same |-> FALSE]

BootstrapInit ==
  /\ kind \in {"envelope", "root_lock"}
  /\ owned \in BOOLEAN
  /\ calls = 0
  /\ outer = {} /\ inner = {}
  /\ locked = FALSE
  /\ reading = Idle
  /\ \E c \in Contents, trusted \in BOOLEAN : named = [id |-> 0, trusted |-> trusted, blocks |-> c]
  /\ changes = 0
  /\ done = <<>>
  /\ taken = Nothing
  /\ answer = "running"

-----------------------------------------------------------------------------
\* The adapters.  Whether a step is let through to its primitive.

\* LinuxProcessBootstrapAdapter::run.
process_admits(step) ==
  CASE step = "ProcessPolicy" -> "ProcessPolicy" \notin inner
    [] step = "NonRoot" -> "ProcessPolicy" \in inner /\ "NonRoot" \notin inner
    [] OTHER -> "NonRoot" \in inner

\* Mutant: later steps ask for the root, not for the lock.
without_lock(step) ==
  CASE step = "ProcessPolicy" -> "ProcessPolicy" \notin outer
    [] step = "NonRoot" -> "ProcessPolicy" \in outer /\ "NonRoot" \notin outer
    [] step = "TrustedRoot" -> "NonRoot" \in outer /\ "TrustedRoot" \notin outer
    [] step = "OwnerLock" -> "TrustedRoot" \in outer /\ "OwnerLock" \notin outer
    [] OTHER -> "TrustedRoot" \in outer

\* RootLockBootstrapAdapter::run and EnvelopeRootAdapter::run.
outer_admits(step) ==
  CASE step = "ProcessPolicy" -> "ProcessPolicy" \notin outer
    [] step = "NonRoot" -> "ProcessPolicy" \in outer /\ "NonRoot" \notin outer
    [] step = "TrustedRoot" -> "NonRoot" \in outer /\ "TrustedRoot" \notin outer
    [] step = "OwnerLock" -> "TrustedRoot" \in outer /\ "OwnerLock" \notin outer
    [] OTHER -> "OwnerLock" \in outer

\* The step bootstrap_with asks for next; a direct caller asks for any.
Asked == IF owned THEN {BOOTSTRAP_ORDER[calls + 1]} ELSE Steps

\* The first refusal ends bootstrap_owned, which drops the adapter and with it
\* the lock.
\* Mutant: the adapter survives its rejection.
keeps_adapter(lock) == lock

retained(lock) == lock /\ ~owned

Succeed(step) ==
  /\ outer' = outer \cup (IF step \in Later THEN {} ELSE {step})
  /\ done' = Append(done, step)
  /\ answer' = IF owned /\ step = BOOTSTRAP_ORDER[8] THEN "verified" ELSE answer

Fail ==
  /\ answer' = IF owned THEN "rejected" ELSE answer
  /\ locked' = retained(locked)
  /\ UNCHANGED <<outer, inner, done>>

\* A step passed on to the process adapter and beyond.
Delegate(step) ==
  /\ process_admits(step)
  /\ inner' = inner \cup (IF step \in {"ProcessPolicy", "NonRoot"} THEN {step} ELSE {})
  /\ Succeed(step)
  /\ UNCHANGED locked

\* RootLockAdapter::run_root_step for the lock.
TakeLock ==
  /\ locked' = TRUE
  /\ Succeed("OwnerLock")
  /\ UNCHANGED inner

Ready == reading.pc = "none" /\ answer = "running" /\ calls < MaxCalls

Call(step) ==
  /\ Ready /\ step \in Asked
  /\ calls' = calls + 1
  /\ \/ /\ outer_admits(step) /\ step = "TrustedRoot" /\ kind = "envelope"
        /\ reading' = [pc |-> "parent"]
        /\ UNCHANGED <<outer, inner, locked, done, answer>>
     \/ /\ outer_admits(step) /\ step = "TrustedRoot" /\ kind = "root_lock"
        /\ Succeed(step)
        /\ UNCHANGED <<inner, locked, reading>>
     \/ /\ outer_admits(step) /\ step = "OwnerLock"
        /\ TakeLock
        /\ UNCHANGED reading
     \/ /\ outer_admits(step) /\ step \notin {"TrustedRoot", "OwnerLock"}
        /\ Delegate(step)
        /\ UNCHANGED reading
     \/ Fail /\ UNCHANGED reading
  /\ UNCHANGED <<kind, owned, named, changes, taken>>

-----------------------------------------------------------------------------
\* read_trusted_envelope.
ReadFails ==
  /\ Fail
  /\ reading' = Idle
  /\ UNCHANGED <<kind, owned, calls, named, changes, taken>>

Reads(r) == reading' = r /\ UNCHANGED <<kind, owned, calls, outer, inner, locked, named, changes, done, taken, answer>>

same_envelope_identity(a, b) == a.id = b.id /\ a.trusted = b.trusted /\ Len(a.blocks) = Len(b.blocks)

\* The parent is trusted and the name inspected before it is opened.
StatEnvelope ==
  /\ reading.pc = "parent"
  /\ IF named.trusted /\ Len(named.blocks) <= MaxBlocks
     THEN Reads([pc |-> "open", before |-> named])
     ELSE ReadFails

OpenEnvelope ==
  /\ reading.pc = "open"
  /\ IF named.trusted /\ same_envelope_identity(reading.before, named)
     THEN Reads([pc |-> "read", opened |-> named, live |-> named.blocks, bytes |-> <<>>])
     ELSE ReadFails

\* Block by block, from the open file as it then is.
ReadBlock ==
  /\ reading.pc = "read"
  /\ LET at == Len(reading.bytes) + 1 IN
     IF at > Len(reading.live)
     THEN IF Len(reading.bytes) = Len(reading.opened.blocks)
          THEN Reads([reading EXCEPT !.pc = "again"])
          ELSE ReadFails
     ELSE IF at > MaxBlocks
          THEN ReadFails
          ELSE Reads([reading EXCEPT !.bytes = Append(@, reading.live[at])])

\* Mutant: the name is not inspected again.
unchecked_name(opened, after) == TRUE

envelope_still_named(opened, after) == after.trusted /\ same_envelope_identity(opened, after)

\* parse_envelope_v1.  A key that occurs twice is no TOML.
Entries(bytes) == UNION {bytes[i] : i \in DOMAIN bytes}
KeysOf(bytes) == {e[1] : e \in Entries(bytes)}
Parses(bytes) ==
  \A i, j \in DOMAIN bytes : \A e \in bytes[i], f \in bytes[j] : e[1] = f[1] => (i = j /\ e = f)

parse_envelope_v1(bytes) ==
  /\ Parses(bytes)
  /\ Cardinality(KeysOf(bytes)) = Cardinality(Keys)
  /\ \A k \in Keys : <<k, 1>> \in Entries(bytes)

\* The envelope accepted, the root it names is validated and remembered.
AcceptEnvelope ==
  /\ reading.pc = "again"
  /\ IF envelope_still_named(reading.opened, named) /\ parse_envelope_v1(reading.bytes)
     THEN \/ /\ Succeed("TrustedRoot")
             /\ taken' = [blocks |-> reading.bytes, trusted |-> named.trusted, same |-> named.id = reading.opened.id]
             /\ reading' = Idle
             /\ UNCHANGED <<kind, owned, calls, inner, locked, named, changes>>
          \/ ReadFails
     ELSE ReadFails

-----------------------------------------------------------------------------
\* Another program changes the envelope while it is read.
Replace ==
  /\ reading.pc # "none" /\ changes < MaxChanges
  /\ changes' = changes + 1
  /\ \/ /\ \E c \in Contents, trusted \in BOOLEAN : named' = [id |-> changes', trusted |-> trusted, blocks |-> c]
        /\ UNCHANGED reading
     \/ \E c \in Contents :
          /\ named' = [named EXCEPT !.blocks = c]
          /\ reading' = IF reading.pc \in {"read", "again"} /\ reading.opened.id = named.id
                        THEN [reading EXCEPT !.live = c] ELSE reading
  /\ UNCHANGED <<kind, owned, calls, outer, inner, locked, done, taken, answer>>

BootstrapNext ==
  \/ \E step \in Steps : Call(step)
  \/ StatEnvelope \/ OpenEnvelope \/ ReadBlock \/ AcceptEnvelope
  \/ Replace

BootstrapSpec == BootstrapInit /\ [][BootstrapNext]_bootstrapVars

-----------------------------------------------------------------------------
Before(i, step) == \E j \in 1..(i - 1) : done[j] = step

\* Whoever calls run, in whatever order and after whatever failures, no step
\* is performed before the ones it rests on: each of the first four follows
\* those before it, and every later one follows all four (run of the three
\* adapters).
PrerequisitesFirst ==
  \A i \in DOMAIN done : \A k \in 1..4 :
    (done[i] \in Later \/ \E n \in (k + 1)..4 : done[i] = BOOTSTRAP_ORDER[n]) => Before(i, BOOTSTRAP_ORDER[k])

\* The lock is retained exactly while an adapter that took it lives: a
\* rejected bootstrap leaves none behind, a verified one keeps it and has
\* performed the eight steps once each, in their order (bootstrap_owned).
LockRetained ==
  /\ answer = "rejected" => ~locked
  /\ answer = "verified" => locked /\ done = BOOTSTRAP_ORDER
  /\ answer = "running" => (locked <=> \E i \in DOMAIN done : done[i] = "OwnerLock")

\* An accepted envelope is exactly the expected document, and at its last
\* inspection the name still held the trusted file it was read from, whatever
\* was put in its place or written into it meanwhile (read_trusted_envelope).
EnvelopeExpected ==
  taken # Nothing =>
    /\ taken.trusted /\ taken.same
    /\ Entries(taken.blocks) = {<<k, 1>> : k \in Keys}

\* The bootstrap: whoever calls run, in whatever order and after whatever
\* failures, no step is performed before the ones it rests on; the lock is
\* retained exactly while an adapter that took it lives (bootstrap_owned); an
\* accepted envelope is exactly the expected document, read from the trusted file
\* its name still held (read_trusted_envelope).
BootstrapSafety == PrerequisitesFirst /\ LockRetained /\ EnvelopeExpected
-----------------------------------------------------------------------------
\* The inductive invariant behind BootstrapSafety.
Envelopes == [id : Nat, trusted : BOOLEAN, blocks : Contents]
Firsts == {BOOTSTRAP_ORDER[i] : i \in 1..4}
Performed(step) == \E i \in DOMAIN done : done[i] = step

BootstrapTypeOK ==
  /\ kind \in {"envelope", "root_lock"} /\ owned \in BOOLEAN /\ calls \in Nat
  /\ outer \subseteq Firsts /\ locked \in BOOLEAN
  /\ reading \in [pc : {"none", "parent"}] \cup [pc : {"open"}, before : Envelopes]
                 \cup [pc : {"read", "again"}, opened : Envelopes, live : Contents, bytes : Seq(Blocks)]
  /\ named \in Envelopes /\ changes \in Nat
  /\ done \in Seq(Steps)
  /\ answer \in {"running", "verified", "rejected"}

\* The flags tell which of the first four were performed, and an envelope is
\* read while it is the root's turn.
FlagsInv ==
  /\ \A step \in Firsts : step \in outer <=> Performed(step)
  /\ reading.pc # "none" => answer = "running" /\ "NonRoot" \in outer

\* bootstrap_owned has performed the steps it asked for, but for the one whose
\* envelope is being read.
OwnedInv ==
  /\ ~owned => answer = "running"
  /\ (owned /\ answer = "running") =>
       /\ calls < 8 /\ (reading.pc # "none" => calls = 3)
       /\ Len(done) = (IF reading.pc = "none" THEN calls ELSE 2)
       /\ \A i \in DOMAIN done : done[i] = BOOTSTRAP_ORDER[i]

BootstrapInv == BootstrapTypeOK /\ FlagsInv /\ OwnedInv /\ BootstrapSafety
=============================================================================

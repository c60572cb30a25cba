------------------------------- MODULE StartUp -------------------------------
(***************************************************************************)
(* serve (crates/msgriver/src/main.rs) from its first line to its loop,    *)
(* run by several processes over one state path: the start-up policy, the  *)
(* refusal of root, the preparation of the state root, the owner lock of   *)
(* crates/msgriver/src/lib.rs, the opening and recovery of the store, and  *)
(* the binding of the socket.  One action is one call of the operating     *)
(* system; any process may stop between two of them and be started again.  *)
(*                                                                         *)
(* Directories and files are inodes.  What a check asks of one (its type,  *)
(* mode, owner and link count) is two facts, whether the service's user    *)
(* owns it and whether its mode is the private one.  A file inode is used  *)
(* again once it has neither a name nor an open descriptor.                *)
(*                                                                         *)
(* The path may be made to name another directory at any time, and the     *)
(* lock entry replaced while no process is past its check of it (see       *)
(* ReplaceEntry).                                                          *)
(***************************************************************************)
EXTENDS Naturals, FiniteSets

CONSTANTS
  Processes,    \* the processes
  Files,        \* the inodes of lock entries
  MaxStops,     \* bound: processes stopped from outside
  MaxRebinds,   \* bound: changes of the path
  MaxReplaced   \* bound: replacements of the lock entry

Dirs == {1, 2}
None == "none"
Stale == "stale"

ASSUME StartUpAssumption ==
  /\ IsFiniteSet(Processes) /\ IsFiniteSet(Files)
  /\ Cardinality(Files) > Cardinality(Processes) + 1
  /\ MaxStops \in Nat /\ MaxRebinds \in Nat /\ MaxReplaced \in Nat
  /\ {None, Stale} \cap Processes = {} /\ None \notin Files

VARIABLES
  path,       \* the directory the state path names, or 0
  dir,        \* directories: made, owned, private, the lock entry, the socket
  file,       \* lock entries: owned, private
  proc,       \* processes
  disturbed,  \* the path changed under a process that had looked at it
  budget      \* what the outside may still do

startVars == <<path, dir, file, proc, disturbed, budget>>

Down == [pc |-> "down", umask |-> "any", uid |-> "service", root |-> 0, seen |-> None, ref |-> 0, fd |-> None, store |-> 0]

\* Processes that hold the lock, and those past the checks of its entry.
Holding == {"store", "recover", "socket", "remove", "bind", "serving"}
PastCheck == Holding \cup {"fchmod", "flock"}
LookedAtPath == PastCheck \cup {"open", "entry", "stat", "openat", "again"}

Holder(f) == {q \in Processes : proc[q].pc \in Holding /\ proc[q].fd = f}
Safe(f) == file[f].owned /\ file[f].private

StartInit ==
  /\ path = 0
  /\ \E made \in BOOLEAN :
       dir = [d \in Dirs |-> [made |-> d = 2, owned |-> TRUE, private |-> d = 2 /\ made, entry |-> None, sock |-> None]]
  /\ file = [f \in Files |-> [owned |-> FALSE, private |-> FALSE]]
  /\ proc = [p \in Processes |-> Down]
  /\ disturbed = FALSE
  /\ budget = [stops |-> MaxStops, rebinds |-> MaxRebinds, replaced |-> MaxReplaced]

At(p, pc) == proc[p].pc = pc
Update(p, r) == proc' = [proc EXCEPT ![p] = r]
Goto(p, pc) == Update(p, [proc[p] EXCEPT !.pc = pc])

\* A process that ends closes its descriptors, which gives up its lock; its
\* socket's name stays behind.
Ended(p) ==
  /\ Update(p, Down)
  /\ dir' = [d \in Dirs |-> [dir[d] EXCEPT !.sock = IF dir[d].sock = p THEN Stale ELSE @]]
  /\ UNCHANGED <<path, file, disturbed>>

Refuse(p) == Ended(p) /\ UNCHANGED budget

-----------------------------------------------------------------------------
\* The order of serve.
\* Mutant: the socket is bound before the lock is taken.
bind_first(stage) ==
  CASE stage = "policy" -> "non_root" [] stage = "non_root" -> "create" [] stage = "root" -> "socket"
    [] stage = "socket" -> "lstat" [] stage = "lock" -> "store" [] stage = "store" -> "recover"
    [] stage = "recover" -> "serving"

\* Mutant: the store is opened and recovered before the lock is taken.
recover_first(stage) ==
  CASE stage = "policy" -> "non_root" [] stage = "non_root" -> "create" [] stage = "root" -> "store"
    [] stage = "store" -> "recover" [] stage = "recover" -> "lstat" [] stage = "lock" -> "socket"
    [] stage = "socket" -> "serving"

after(stage) ==
  CASE stage = "policy" -> "non_root" [] stage = "non_root" -> "create" [] stage = "root" -> "lstat"
    [] stage = "lock" -> "store" [] stage = "store" -> "recover" [] stage = "recover" -> "socket"
    [] stage = "socket" -> "serving"

\* The operator or a supervisor runs serve, as any user and under any mask.
Run(p) ==
  /\ At(p, "down")
  /\ \E uid \in {"service", "root"}, mask \in {"private", "blind"} :
       Update(p, [Down EXCEPT !.pc = "policy", !.uid = uid, !.umask = mask])
  /\ UNCHANGED <<path, dir, file, disturbed, budget>>

\* Mutant: the mask of the parent stays.
inherited_umask(p) == proc[p].umask

installed_umask(p) == "private"

\* Limits and dumpability are set and read back, or the process ends (Stop).
apply_linux_startup_policy(p) ==
  /\ At(p, "policy")
  /\ Update(p, [proc[p] EXCEPT !.umask = installed_umask(p), !.pc = after("policy")])
  /\ UNCHANGED <<path, dir, file, disturbed, budget>>

ensure_linux_non_root_with(p) == proc[p].uid # "root"

ensure_linux_non_root(p) ==
  /\ At(p, "non_root")
  /\ IF ensure_linux_non_root_with(p)
     THEN Goto(p, after("non_root")) /\ UNCHANGED <<path, dir, file, disturbed, budget>>
     ELSE Refuse(p)

-----------------------------------------------------------------------------
\* prepare_state_root, by the path.
Blind(p) == proc[p].umask = "blind"

CreateRoot(p) ==
  /\ At(p, "create")
  /\ \/ /\ path = 0
        /\ \E d \in Dirs :
             /\ ~dir[d].made
             /\ path' = d
             /\ dir' = [dir EXCEPT ![d].made = TRUE, ![d].owned = proc[p].uid = "service", ![d].private = ~Blind(p)]
     \/ (path # 0 \/ \A d \in Dirs : dir[d].made) /\ UNCHANGED <<path, dir>>
  /\ Goto(p, "inspect")
  /\ UNCHANGED <<file, disturbed, budget>>

InspectRoot(p) ==
  /\ At(p, "inspect")
  /\ IF path # 0 /\ dir[path].owned
     THEN Goto(p, "chmod") /\ UNCHANGED <<path, dir, file, disturbed, budget>>
     ELSE Refuse(p)

ChmodRoot(p) ==
  /\ At(p, "chmod")
  /\ IF path # 0 /\ dir[path].owned
     THEN /\ Goto(p, after("root"))
          /\ dir' = [dir EXCEPT ![path].private = TRUE]
          /\ UNCHANGED <<path, file, disturbed, budget>>
     ELSE Refuse(p)

-----------------------------------------------------------------------------
\* StateOwnerLock::acquire.
PrivateRoot == path # 0 /\ dir[path].owned /\ dir[path].private

\* open_private_root_with: the name is inspected, then opened, and the two
\* must be one directory.
InspectPrivateRoot(p) ==
  /\ At(p, "lstat")
  /\ IF PrivateRoot
     THEN /\ Update(p, [proc[p] EXCEPT !.root = path, !.pc = "open"])
          /\ UNCHANGED <<path, dir, file, disturbed, budget>>
     ELSE Refuse(p)

OpenPrivateRoot(p) ==
  /\ At(p, "open")
  /\ IF PrivateRoot /\ proc[p].root = path
     THEN /\ Update(p, [proc[p] EXCEPT !.root = 0, !.ref = path, !.pc = "entry"])
          /\ UNCHANGED <<path, dir, file, disturbed, budget>>
     ELSE Refuse(p)

Entry(p) == dir[proc[p].ref].entry
Unused == {f \in Files : (\A d \in Dirs : dir[d].entry # f) /\ (\A q \in Processes : proc[q].fd # f)}

\* open_lock_entry: created exclusively, or found.
OpenLockEntry(p) ==
  /\ At(p, "entry")
  /\ IF Entry(p) = None
     THEN /\ \E f \in Unused :
               /\ dir' = [dir EXCEPT ![proc[p].ref].entry = f]
               /\ file' = [file EXCEPT ![f] = [owned |-> proc[p].uid = "service", private |-> ~Blind(p)]]
               /\ Update(p, [proc[p] EXCEPT !.fd = f, !.pc = "fchmod"])
          /\ UNCHANGED <<path, disturbed, budget>>
     ELSE Goto(p, "stat") /\ UNCHANGED <<path, dir, file, disturbed, budget>>

CreatedLockEntry(p) ==
  /\ At(p, "fchmod")
  /\ IF file[proc[p].fd].owned
     THEN /\ Goto(p, "flock")
          /\ file' = [file EXCEPT ![proc[p].fd].private = TRUE]
          /\ UNCHANGED <<path, dir, disturbed, budget>>
     ELSE Refuse(p)

\* open_existing_lock_entry: the name is inspected, opened, and inspected
\* again.
InspectLockEntry(p) ==
  /\ At(p, "stat")
  /\ IF Entry(p) # None /\ Safe(Entry(p))
     THEN /\ Update(p, [proc[p] EXCEPT !.seen = Entry(p), !.pc = "openat"])
          /\ UNCHANGED <<path, dir, file, disturbed, budget>>
     ELSE Refuse(p)

OpenExistingLockEntry(p) ==
  /\ At(p, "openat")
  /\ IF Entry(p) # None /\ Safe(Entry(p)) /\ Entry(p) = proc[p].seen
     THEN /\ Update(p, [proc[p] EXCEPT !.seen = None, !.fd = Entry(p), !.pc = "again"])
          /\ UNCHANGED <<path, dir, file, disturbed, budget>>
     ELSE Refuse(p)

\* Mutant: the name is not inspected again.
named_before(p) == TRUE

still_named(p) == Entry(p) = proc[p].fd /\ Safe(proc[p].fd)

InspectLockEntryAgain(p) ==
  /\ At(p, "again")
  /\ IF still_named(p)
     THEN Goto(p, "flock") /\ UNCHANGED <<path, dir, file, disturbed, budget>>
     ELSE Refuse(p)

\* The lock never waits.
acquire_owner_lock(p) ==
  /\ At(p, "flock")
  /\ IF Holder(proc[p].fd) = {}
     THEN Goto(p, after("lock")) /\ UNCHANGED <<path, dir, file, disturbed, budget>>
     ELSE Refuse(p)

-----------------------------------------------------------------------------
\* The store and the socket, by the path.
OpenStore(p) ==
  /\ At(p, "store")
  /\ IF path # 0
     THEN /\ Update(p, [proc[p] EXCEPT !.store = path, !.pc = after("store")])
          /\ UNCHANGED <<path, dir, file, disturbed, budget>>
     ELSE Refuse(p)

m2_recover_interrupted(p) ==
  /\ At(p, "recover")
  /\ Goto(p, after("recover"))
  /\ UNCHANGED <<path, dir, file, disturbed, budget>>

\* Mutant: the name a dead service left is bound over.
leaves_stale(p) == "bind"

finds_socket(p) == IF dir[path].sock = None THEN "bind" ELSE "remove"

InspectSocket(p) ==
  /\ At(p, "socket")
  /\ IF path # 0
     THEN Goto(p, finds_socket(p)) /\ UNCHANGED <<path, dir, file, disturbed, budget>>
     ELSE Refuse(p)

RemoveSocket(p) ==
  /\ At(p, "remove")
  /\ IF path # 0 /\ dir[path].sock # None
     THEN /\ Goto(p, "bind")
          /\ dir' = [dir EXCEPT ![path].sock = None]
          /\ UNCHANGED <<path, file, disturbed, budget>>
     ELSE Refuse(p)

BindSocket(p) ==
  /\ At(p, "bind")
  /\ IF path # 0 /\ dir[path].sock = None
     THEN /\ Goto(p, after("socket"))
          /\ dir' = [dir EXCEPT ![path].sock = p]
          /\ UNCHANGED <<path, file, disturbed, budget>>
     ELSE Refuse(p)

-----------------------------------------------------------------------------
\* The outside.  A process is stopped, or a call of its own fails and ends it.
Stop(p) ==
  /\ ~At(p, "down")
  /\ budget.stops > 0
  /\ Ended(p)
  /\ budget' = [budget EXCEPT !.stops = @ - 1]

RebindPath ==
  /\ budget.rebinds > 0
  /\ \E d \in {0} \cup {e \in Dirs : dir[e].made} : d # path /\ path' = d
  /\ budget' = [budget EXCEPT !.rebinds = @ - 1]
  /\ disturbed' = (disturbed \/ \E p \in Processes : proc[p].pc \in LookedAtPath \ {"serving"})
  /\ UNCHANGED <<dir, file, proc>>

\* The lock entry is removed, or replaced by a file of any kind, while no
\* process is past its check of it.
ReplaceEntry ==
  /\ budget.replaced > 0
  /\ \A p \in Processes : proc[p].pc \notin PastCheck
  /\ \E d \in Dirs :
       /\ dir[d].entry # None
       /\ \/ dir' = [dir EXCEPT ![d].entry = None] /\ UNCHANGED file
          \/ \E f \in Unused, safe \in BOOLEAN :
               /\ dir' = [dir EXCEPT ![d].entry = f]
               /\ file' = [file EXCEPT ![f] = [owned |-> TRUE, private |-> safe]]
  /\ budget' = [budget EXCEPT !.replaced = @ - 1]
  /\ UNCHANGED <<path, proc, disturbed>>

Step(p) ==
  \/ apply_linux_startup_policy(p) \/ ensure_linux_non_root(p)
  \/ CreateRoot(p) \/ InspectRoot(p) \/ ChmodRoot(p)
  \/ InspectPrivateRoot(p) \/ OpenPrivateRoot(p)
  \/ OpenLockEntry(p) \/ CreatedLockEntry(p)
  \/ InspectLockEntry(p) \/ OpenExistingLockEntry(p) \/ InspectLockEntryAgain(p)
  \/ acquire_owner_lock(p)
  \/ OpenStore(p) \/ m2_recover_interrupted(p)
  \/ InspectSocket(p) \/ RemoveSocket(p) \/ BindSocket(p)

StartNext ==
  \/ \E p \in Processes : Run(p) \/ Step(p) \/ Stop(p)
  \/ RebindPath
  \/ ReplaceEntry

StartSpec == StartInit /\ [][StartNext]_startVars

\* Processes run on, and the supervisor restarts the service as its user when
\* it ends (Restart=on-failure, deploy/msgriver.service.example).
StartLiveSpec ==
  /\ StartSpec
  /\ \A p \in Processes : WF_startVars(Step(p)) /\ SF_startVars(Run(p) /\ proc'[p].uid = "service")

-----------------------------------------------------------------------------
\* Two processes never own one root, whichever directory the path came to
\* name while they started (acquire_owner_lock, open_existing_lock_entry).
OneOwner ==
  \A p, q \in Processes :
    (p # q /\ proc[p].pc \in Holding /\ proc[q].pc \in Holding /\ proc[p].ref # 0) => proc[p].ref # proc[q].ref

\* As long as the path stays put under those that start, no process opens or
\* recovers a store that another is using (the order of serve): recovery would
\* make ambiguous what the other is delivering.
OneStoreUser ==
  ~disturbed =>
    \A p, q \in Processes : (p # q /\ proc[p].store # 0) => proc[p].store # proc[q].store

\* ... and a serving process is reached through the socket of its own state
\* directory: no other start removes or replaces it (bind_socket).
SocketReaches ==
  ~disturbed => \A p \in Processes : At(p, "serving") => dir[proc[p].store].sock = p

\* Wherever a start stops, the lock entry it leaves is one the next start
\* accepts; only an entry put there from outside is refused for ever
\* (apply_linux_startup_policy before open_lock_entry).
LeavesUsableEntry ==
  budget.replaced = MaxReplaced => \A d \in Dirs : dir[d].entry # None => Safe(dir[d].entry)

\* Starting: two processes never own one root, whichever directory the path came
\* to name (acquire_owner_lock); no process opens or recovers a store another is
\* using, and a serving process is reached through the socket of its own state
\* directory, as long as the path stays put under those that start (serve,
\* bind_socket); wherever a start stops, the lock entry it leaves is one the next
\* start accepts (apply_linux_startup_policy before open_lock_entry).
StartSafety == OneOwner /\ OneStoreUser /\ SocketReaches /\ LeavesUsableEntry

-----------------------------------------------------------------------------
\* The inductive invariant behind StartSafety.
Pcs == {"down", "policy", "non_root", "create", "inspect", "chmod", "lstat"} \cup LookedAtPath
Process ==
  [pc : Pcs, umask : {"any", "private", "blind"}, uid : {"service", "root"},
   root : {0} \cup Dirs, seen : Files \cup {None},
   ref : {0} \cup Dirs, fd : Files \cup {None},
   store : {0} \cup Dirs]
Directories ==
  [made : BOOLEAN, owned : BOOLEAN, private : BOOLEAN, entry : Files \cup {None},
   sock : Processes \cup {None, Stale}]

StartTypeOK ==
  /\ path \in {0} \cup Dirs
  /\ dir \in [Dirs -> Directories]
  /\ file \in [Files -> [owned : BOOLEAN, private : BOOLEAN]]
  /\ proc \in [Processes -> Process]
  /\ disturbed \in BOOLEAN
  /\ budget \in [stops : Nat, rebinds : Nat, replaced : 0..MaxReplaced]

\* What holds of one process: past its check of the lock entry it has that
\* entry open; it uses a store exactly while it holds the lock; as long as the
\* path stays put it still looks at the directory the path names; it makes
\* files as the service's user under the private mask.
Fits(p) ==
  /\ proc[p].pc \in PastCheck => proc[p].fd \in Files /\ proc[p].ref \in Dirs /\ Entry(p) = proc[p].fd
  /\ proc[p].pc \in {"entry", "stat", "openat", "again"} => proc[p].ref \in Dirs
  /\ proc[p].pc = "again" => proc[p].fd \in Files
  /\ proc[p].store # 0 <=> proc[p].pc \in Holding \ {"store"}
  /\ ~disturbed =>
       /\ proc[p].pc \in LookedAtPath \ {"serving"} => path # 0
       /\ proc[p].pc \in LookedAtPath \ {"open", "serving"} => proc[p].ref = path
       /\ proc[p].store # 0 => proc[p].store = proc[p].ref
       /\ At(p, "serving") => dir[proc[p].store].sock = p
  /\ proc[p].pc \notin {"down", "policy"} => proc[p].umask = "private"
  /\ proc[p].pc \notin {"down", "policy", "non_root"} => proc[p].uid = "service"

\* The lock is on an inode, of which there is one holder.
OneHolder ==
  \A p, q \in Processes :
    (p # q /\ proc[p].pc \in Holding /\ proc[q].pc \in Holding) => proc[p].fd # proc[q].fd

StartInv ==
  /\ StartTypeOK
  /\ \A p \in Processes : Fits(p)
  /\ OneHolder
  /\ LeavesUsableEntry

-----------------------------------------------------------------------------
\* Whatever stops the starts and wherever, once nothing does any more one
\* process comes to serve and goes on (the stale entry, lock and socket of the
\* dead are no obstacle: acquire_owner_lock, bind_socket).
ServedInTheEnd == <>[](\E p \in Processes : At(p, "serving"))
=============================================================================

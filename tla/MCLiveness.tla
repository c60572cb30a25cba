------------------------------ MODULE MCLiveness ------------------------------
(***************************************************************************)
(* What must happen in the end: the service settles every message, and a   *)
(* supervised process comes to serve.  In a behaviour one of Parts moves,  *)
(* under its own fairness, and the other stays in its initial state.       *)
(***************************************************************************)
EXTENDS MCService

CONSTANTS Parts, Processes, Files

VARIABLES
  part,                                    \* the component that moves
  path, dir, file, proc, disturbed, budget \* StartUp

startVars == <<path, dir, file, proc, disturbed, budget>>

Starting == INSTANCE StartUp WITH MaxStops <- 2, MaxRebinds <- 0, MaxReplaced <- 0

LiveInit ==
  /\ part \in Parts
  /\ Init /\ Starting!StartInit
  /\ part # "start" => ~dir[2].private

LiveNext ==
  /\ UNCHANGED part
  /\ \/ part = "service" /\ Next /\ UNCHANGED startVars
     \/ part = "start" /\ Starting!StartNext /\ UNCHANGED vars

\* The fairness of Service!FairSpec and of StartUp!StartLiveSpec.
LiveFairness ==
  /\ WF_vars(part = "service" /\ Serve)
  /\ WF_vars(part = "service" /\ Start)
  /\ WF_vars(part = "service" /\ Tick)
  /\ \A p \in Processes :
       /\ WF_startVars(part = "start" /\ Starting!Step(p))
       /\ SF_startVars(part = "start" /\ Starting!Run(p) /\ proc'[p].uid = "service")

LiveSpec == LiveInit /\ [][LiveNext]_<<part, vars, startVars>> /\ LiveFairness

-----------------------------------------------------------------------------
\* Whatever stops the starts and wherever, once nothing does any more one
\* process comes to serve and goes on (the stale entry, lock and socket of the
\* dead are no obstacle: acquire_owner_lock, bind_socket).
ServedInTheEnd == part = "start" => Starting!ServedInTheEnd
=============================================================================

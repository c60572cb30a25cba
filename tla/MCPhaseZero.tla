----------------------------- MODULE MCPhaseZero -----------------------------
(***************************************************************************)
(* The phase-zero contracts, one at a time: the reference loop with its    *)
(* alerts, the reference loop with its evidence, and the deployment        *)
(* boundary.  In a behaviour one of Parts moves: the boundary, or the loop *)
(* on some of its inputs and for a number of commits of its own.           *)
(***************************************************************************)
EXTENDS Deployment, ReferenceLoop, TLC

CONSTANTS Parts, Revisions

VARIABLES part   \* the component that moves

-----------------------------------------------------------------------------
\* Reference loops.  Rotation keeps the old deduplication key.
Reply == [kind |-> "message", id |-> "i1", context |-> "p1"]
Stray == [kind |-> "message", id |-> "i2", context |-> "none"]
Status == [kind |-> "status", id |-> "p1", status |-> "delivered", at |-> 1]
Forged == [kind |-> "message", id |-> "i4", context |-> "p1"]

Signed(batch) == [defects |-> {}, batch |-> batch]

\* The second body lists one message twice; its alerts share a reference with the
\* unbound reply of the first.
Replies == {Signed(<<Reply, Stray>>), Signed(<<Stray, Stray>>)}
Traffic == {Signed(<<Reply, Status>>), [defects |-> {"signature"}, batch |-> <<Forged>>]}

TwoEpochs ==
  <<[active |-> 1, retained |-> {1}, sender |-> 7, policy |-> 1],
    [active |-> 2, retained |-> {1, 2}, sender |-> 7, policy |-> 2]>>

Answers == {[accepted |-> TRUE, id |-> "p1"], [accepted |-> FALSE, class |-> "transient"]}
OneControl == {[hours |-> 2, extension |-> 3, purge |-> FALSE],
               [hours |-> 0, extension |-> 0, purge |-> FALSE],
               [hours |-> 2, extension |-> 2, purge |-> FALSE]}
OneCorrection == {[ref |-> "event-9", prior |-> "event-8"]}

Empty ==
  [receipts |-> <<>>, bindings |-> <<>>, pins |-> <<>>, events |-> <<>>, outbox |-> <<>>,
   history |-> <<>>, sensitive |-> Nothing, windows |-> <<>>, revision |-> 0]
Bound1 == [Empty EXCEPT !.bindings = <<[sender |-> 7, id |-> "p1"]>>]

\* A snapshot that is nearly full.
Old == [Empty EXCEPT !.sensitive = [retained |-> 0, expires |-> 1],
                     !.windows = <<"event-8">>, !.history = [i \in 1..7 |-> "transient"]]
Found == [alerts |-> Bound1, evidence |-> Old, deployment |-> Bound1]
SomeStates == Range(Found)

AllTraffic == Replies \cup Traffic
CommitsOf == [alerts |-> 4, evidence |-> 3]

\* Deployments: machines with at most one risk.
Risks == {"network", "credential", "scheduler", "interrupted", "raw_expired", "opted_out"}
Machine(risks) == [r \in Risks \cup {"generation"} |-> IF r = "generation" THEN 1 ELSE r \in risks]
SomeMachines == {Machine({})} \cup {Machine({r}) : r \in Risks}
Call(method, defects, denied, signed) ==
  [method |-> method, defects |-> defects, denied |-> denied, signed |-> signed]
SomeCallbacks == {Call("Get", {}, FALSE, FALSE), Call("Post", {}, FALSE, TRUE),
                  Call("Post", {}, FALSE, FALSE), Call("Post", {"late"}, FALSE, TRUE),
                  Call("Post", {}, TRUE, TRUE)}

-----------------------------------------------------------------------------
Init ==
  /\ part \in Parts
  /\ LoopInit /\ disk = Found[part]
  /\ DeploymentInit /\ (part # "deployment" => environment = Machine({}))

AlertSteps == LoopStep(Replies, {}, {}, {}) /\ disk'.revision <= Revisions["alerts"]
EvidenceSteps ==
  LoopStep(Traffic, Attempts, Controls, Corrections) /\ disk'.revision <= Revisions["evidence"]

Next ==
  /\ UNCHANGED part
  /\ \/ part = "alerts" /\ AlertSteps /\ UNCHANGED deploymentVars
     \/ part = "evidence" /\ EvidenceSteps /\ UNCHANGED deploymentVars
     \/ part = "deployment" /\ DeploymentNext /\ UNCHANGED loopVars

Spec == Init /\ [][Next]_<<part, loopVars, deploymentVars>>

WorkerSymmetry == Permutations(Workers)

-----------------------------------------------------------------------------
\* What one step may not do, however late its actor comes: show an alert, or mark it
\* delivered, unless the acting worker itself holds the lease the alert is under and any
\* other believer's fence is older (capture_alert, settle_alert); lose evidence another worker has
\* written by replacing the snapshot as a whole (replace_if_revision; P0R-032);
\* lower a fence, or attempt under another fence while a lease is held
\* (acquire_safe_intent_lease).
PhaseZeroSteps ==
  [][ShownUnderCurrentLease /\ SettledUnderCurrentLease /\ EvidenceKept /\ FenceKept
    ]_<<part, loopVars, deploymentVars>>
=============================================================================

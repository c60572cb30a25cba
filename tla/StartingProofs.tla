---------------------------- MODULE StartingProofs ----------------------------
(***************************************************************************)
(* Machine-checked proofs about how a deployment is bounded and how a      *)
(* process comes up in it: Deployment, StartUp, Migrations and Bootstrap,  *)
(* for all their parameters.  Each component has an inductive invariant,   *)
(* defined in its module, and one lemma per action that says the action    *)
(* preserves it.                                                           *)
(***************************************************************************)
EXTENDS Deployment, StartUp, Migrations, Bootstrap, FiniteSetTheorems, FunctionTheorems, TLAPS

-----------------------------------------------------------------------------
(***************************************************************************)
(* The deployment boundary.                                                *)
(***************************************************************************)
\* Each step of a callback follows the one that permits it.
Ordered(events) ==
  \A i \in DOMAIN events :
    /\ events[i] = "Parsed" => i > 1 /\ events[i - 1] = "MacVerified"
    /\ events[i] = "TransactionProposed" => i > 1 /\ events[i - 1] = "Parsed"

\* What a callback adds to the events of the ingress: four when its signature is
\* good, one when it is not.
LEMMA CallbackAdds ==
  ASSUME NEW events \in Seq(IngressEvents), NEW request
  PROVE  callback_events(events, request) =
           events \o (IF request.signed
                      THEN <<"MacChecked", "MacVerified", "Parsed", "TransactionProposed">>
                      ELSE <<"MacChecked">>)
<1>1. CASE request.signed
  <2> DEFINE a == events \o <<"MacChecked", "MacVerified">>
             b == events \o <<"MacChecked", "MacVerified", "Parsed">>
             c == events \o <<"MacChecked", "MacVerified", "Parsed", "TransactionProposed">>
  <2>1. a # <<>> /\ Last(a) = "MacVerified" /\ Append(a, "Parsed") = b
    BY DEF Last, IngressEvents
  <2>2. b # <<>> /\ Last(b) = "Parsed" /\ Append(b, "TransactionProposed") = c
    BY DEF Last, IngressEvents
  <2>3. verify_raw_callback_hmac(request) = <<"MacChecked", "MacVerified">>
    BY <1>1 DEF verify_raw_callback_hmac
  <2> HIDE DEF a, b, c
  <2>4. parse_verified_callback(a) = b
    BY <2>1 DEF parse_verified_callback, After
  <2>5. propose_verified_transaction(b) = c
    BY <2>2 DEF propose_verified_transaction, After
  <2>6. callback_events(events, request) = c
    BY <2>3, <2>4, <2>5 DEF callback_events, a
  <2> QED BY <1>1, <2>6 DEF c
<1>2. CASE ~request.signed
  <2> DEFINE a == events \o <<"MacChecked">>
  <2>1. a # <<>> /\ Last(a) = "MacChecked"
    BY DEF Last, IngressEvents
  <2>2. verify_raw_callback_hmac(request) = <<"MacChecked">>
    BY <1>2 DEF verify_raw_callback_hmac
  <2> HIDE DEF a
  <2>3. parse_verified_callback(a) = a /\ propose_verified_transaction(a) = a
    BY <2>1 DEF parse_verified_callback, propose_verified_transaction, After
  <2>4. callback_events(events, request) = a
    BY <2>2, <2>3 DEF callback_events, a
  <2> QED BY <1>2, <2>4 DEF a
<1> QED BY <1>1, <1>2

\* A callback leaves the events of the ingress in order.
LEMMA CallbackOrdered ==
  ASSUME NEW events \in Seq(IngressEvents), Ordered(events), NEW request
  PROVE  /\ callback_events(events, request) \in Seq(IngressEvents)
         /\ Ordered(callback_events(events, request))
<1>1. CASE request.signed
  <2> DEFINE c == events \o <<"MacChecked", "MacVerified", "Parsed", "TransactionProposed">>
  <2>1. c \in Seq(IngressEvents) BY DEF IngressEvents
  <2>2. Ordered(c) BY DEF Ordered, IngressEvents
  <2>3. callback_events(events, request) = c BY <1>1, CallbackAdds
  <2> QED BY <2>1, <2>2, <2>3
<1>2. CASE ~request.signed
  <2> DEFINE c == events \o <<"MacChecked">>
  <2>1. c \in Seq(IngressEvents) BY DEF IngressEvents
  <2>2. Ordered(c) BY DEF Ordered, IngressEvents
  <2>3. callback_events(events, request) = c BY <1>2, CallbackAdds
  <2> QED BY <2>1, <2>2, <2>3
<1> QED BY <1>1, <1>2

-----------------------------------------------------------------------------
\* What the intent and the ledger promise together, of any pair of them.
Agreed(i, ledger) ==
  /\ i \in Intents
  /\ ledger \in [attempts : Nat, acceptances : Nat]
  /\ ledger.attempts = i.attempts
  /\ ledger.attempts <= RetryLimit
  /\ ledger.acceptances <= 1
  /\ ledger.acceptances = 1 <=> i.delivered \/ i.ambiguous

\* A dispatcher keeps an intent and its ledger in agreement.
Dispatched(i, ledger) ==
  /\ \E j \in Intents : intent' = <<j>> /\ Agreed(j, ledger)
  /\ intent'[1].lease_fence >= i.lease_fence
  /\ i.leased => intent'[1].lease_fence = i.lease_fence

\* Leasing changes neither what an intent counts nor how it ended.
LEMMA LeasedKeeps ==
  ASSUME NEW i \in Intents, NEW fence \in Nat
  PROVE  /\ Leased(i, fence) \in Intents
         /\ Leased(i, fence).attempts = i.attempts
         /\ Leased(i, fence).delivered = i.delivered
         /\ Leased(i, fence).ambiguous = i.ambiguous
         /\ Leased(i, fence).lease_fence = fence
         /\ Leased(i, fence).leased
  BY DEF Leased, Intents

\* An attempt counts once, and marks the intent unless it was refused.
LEMMA AttemptMarks ==
  ASSUME NEW i \in Intents, NEW fence \in Nat, NEW outcome \in PublishOutcomes,
         outcome # "CrashBeforeAttempt"
  PROVE  /\ attempt(i, fence, outcome) \in Intents
         /\ attempt(i, fence, outcome).attempts = i.attempts + 1
         /\ attempt(i, fence, outcome).lease_fence = fence
         /\ attempt(i, fence, outcome).delivered <=> i.delivered \/ outcome = "Accepted"
         /\ attempt(i, fence, outcome).ambiguous <=>
              i.ambiguous \/ outcome = "CrashAfterAcceptedPublish"
<1> DEFINE tried == [Leased(i, fence) EXCEPT !.attempts = @ + 1]
<1>1. /\ tried \in Intents /\ tried.attempts = i.attempts + 1 /\ tried.lease_fence = fence
      /\ tried.delivered = i.delivered /\ tried.ambiguous = i.ambiguous
  BY LeasedKeeps DEF Intents
<1>2. attempt(i, fence, outcome) =
        CASE outcome = "DefiniteRefusal" -> [tried EXCEPT !.leased = FALSE]
          [] outcome = "Accepted" -> [tried EXCEPT !.delivered = TRUE, !.leased = FALSE]
          [] outcome = "CrashAfterAcceptedPublish" -> [tried EXCEPT !.ambiguous = TRUE]
  BY DEF attempt
<1> HIDE DEF tried
<1>3. CASE outcome = "DefiniteRefusal"
  <2>1. attempt(i, fence, outcome) = [tried EXCEPT !.leased = FALSE] BY <1>2, <1>3
  <2> QED BY <1>1, <1>3, <2>1 DEF Intents
<1>4. CASE outcome = "Accepted"
  <2>1. attempt(i, fence, outcome) = [tried EXCEPT !.delivered = TRUE, !.leased = FALSE]
    BY <1>2, <1>4
  <2> QED BY <1>1, <1>4, <2>1 DEF Intents
<1>5. CASE outcome = "CrashAfterAcceptedPublish"
  <2>1. attempt(i, fence, outcome) = [tried EXCEPT !.ambiguous = TRUE] BY <1>2, <1>5
  <2> QED BY <1>1, <1>5, <2>1 DEF Intents
<1> QED BY <1>3, <1>4, <1>5 DEF PublishOutcomes

\* Settling an intent keeps it in agreement with the ledger.
LEMMA SettlingAgrees ==
  ASSUME NEW i, Agreed(i, publisher), NEW fence \in Nat, NEW outcome \in PublishOutcomes,
         settle_safe_intent(i, fence, outcome)
  PROVE  Dispatched(i, publisher')
<1> USE DeploymentAssumption
<1>1. i \in Intents /\ i.lease_fence \in Nat /\ i.leased \in BOOLEAN /\ i.attempts \in Nat
      /\ i.delivered \in BOOLEAN /\ i.ambiguous \in BOOLEAN
  BY DEF Agreed, Intents
<1>2. CASE Settled(i) \/ ~permitted(i, fence) \/ outcome = "CrashBeforeAttempt"
  <2>1. intent' = <<i>> /\ publisher' = publisher BY <1>2 DEF settle_safe_intent
  <2>2. intent'[1] = i BY <2>1
  <2> QED BY <1>1, <2>1, <2>2 DEF Dispatched, Agreed
<1>3. CASE ~(Settled(i) \/ ~permitted(i, fence) \/ outcome = "CrashBeforeAttempt")
  <2> DEFINE j == attempt(i, fence, outcome)
             got == IF outcome = "DefiniteRefusal" THEN 0 ELSE 1
  <2>1. /\ intent' = <<j>>
        /\ publisher' = [attempts |-> publisher.attempts + 1,
                         acceptances |-> publisher.acceptances + got]
    BY <1>3 DEF settle_safe_intent
  <2>2. /\ j \in Intents /\ j.attempts = i.attempts + 1 /\ j.lease_fence = fence
        /\ j.delivered <=> i.delivered \/ outcome = "Accepted"
        /\ j.ambiguous <=> i.ambiguous \/ outcome = "CrashAfterAcceptedPublish"
    BY <1>1, <1>3, AttemptMarks
  <2>3. ~i.delivered /\ ~i.ambiguous /\ i.attempts < RetryLimit
    BY <1>1, <1>3 DEF Settled
  <2>4. publisher.attempts = i.attempts /\ publisher.acceptances = 0
    BY <2>3 DEF Agreed
  <2>5. got \in {0, 1} /\ (got = 1 <=> outcome \in {"Accepted", "CrashAfterAcceptedPublish"})
    BY <1>3 DEF PublishOutcomes
  <2> HIDE DEF j, got
  <2>6. publisher' \in [attempts : Nat, acceptances : Nat]
        /\ publisher'.attempts = i.attempts + 1 /\ publisher'.acceptances = got
    BY <1>1, <2>1, <2>4, <2>5
  <2>7. Agreed(j, publisher')
    BY <1>1, <2>2, <2>3, <2>5, <2>6 DEF Agreed
  <2>8. fence >= i.lease_fence /\ (i.leased => fence = i.lease_fence)
    BY <1>1, <1>3 DEF permitted
  <2>9. intent'[1] = j BY <2>1
  <2> QED BY <2>1, <2>2, <2>7, <2>8, <2>9 DEF Dispatched
<1> QED BY <1>2, <1>3

\* Every operation of a dispatcher does, whatever fence it asks for.
LEMMA DispatcherAgrees ==
  ASSUME NEW i, intent = <<i>>, Agreed(i, publisher),
         NEW operation, NEW fence \in Fences, NEW outcome \in PublishOutcomes,
         evaluate_dispatcher(operation, fence, outcome)
  PROVE  Dispatched(i, publisher')
<1>0. fence \in Nat /\ 1 \in Nat BY DeploymentAssumption
<1>1. i \in Intents /\ intent[1] = i /\ intent # <<>> /\ i.lease_fence \in Nat /\ i.leased \in BOOLEAN
  BY DEF Agreed, Intents
<1>2. ASSUME DispatcherDenied PROVE Dispatched(i, publisher')
  BY <1>1, <1>2 DEF DispatcherDenied, Dispatched
<1>3. ASSUME NEW f \in Nat, acquire_safe_intent_lease(i, f)
      PROVE  /\ Agreed(Leased(i, f), publisher) /\ f >= i.lease_fence /\ ~i.leased
             /\ Leased(i, f) \in Intents /\ Leased(i, f).lease_fence = f
  <2>1. ~i.leased /\ f > i.lease_fence BY <1>3 DEF acquire_safe_intent_lease
  <2>2. Agreed(Leased(i, f), publisher)
    <3>1. /\ Leased(i, f) \in Intents
          /\ Leased(i, f).attempts = i.attempts
          /\ Leased(i, f).delivered = i.delivered
          /\ Leased(i, f).ambiguous = i.ambiguous
      BY <1>1, LeasedKeeps
    <3> QED BY <3>1 DEF Agreed
  <2>3. Leased(i, f) \in Intents /\ Leased(i, f).lease_fence = f BY <1>1, LeasedKeeps
  <2> QED BY <1>1, <2>1, <2>2, <2>3
<1>4. CASE operation = "AcquireLease"
  <2>1. AcquireLease(fence) BY <1>4 DEF evaluate_dispatcher
  <2>2. CASE acquire_safe_intent_lease(i, fence)
    <3>1. intent' = <<Leased(i, fence)>> /\ publisher' = publisher
      BY <1>1, <2>1, <2>2 DEF AcquireLease
    <3>2. intent'[1] = Leased(i, fence) BY <3>1
    <3> QED BY <1>0, <1>3, <2>2, <3>1, <3>2 DEF Dispatched
  <2>3. CASE ~acquire_safe_intent_lease(i, fence)
    BY <1>1, <1>2, <2>1, <2>3 DEF AcquireLease
  <2> QED BY <2>2, <2>3
<1>5. CASE operation = "SettleIntent"
  <2>1. settle_safe_intent(i, fence, outcome)
    BY <1>1, <1>5 DEF evaluate_dispatcher, SettleIntent
  <2> QED BY <1>0, <2>1, SettlingAgrees
<1>6. CASE operation = "PublishConfiguredSafeIntent"
  <2>1. PublishConfiguredSafeIntent(outcome) BY <1>6 DEF evaluate_dispatcher
  <2>2. CASE acquire_safe_intent_lease(i, 1)
    <3>1. settle_safe_intent(Leased(i, 1), 1, outcome)
      BY <1>1, <2>1, <2>2 DEF PublishConfiguredSafeIntent
    <3>2. Dispatched(Leased(i, 1), publisher')
      BY <1>0, <1>3, <2>2, <3>1, SettlingAgrees
    <3> QED BY <1>0, <1>1, <1>3, <2>2, <3>2 DEF Dispatched, Intents
  <2>3. CASE ~acquire_safe_intent_lease(i, 1)
    BY <1>1, <1>2, <2>1, <2>3 DEF PublishConfiguredSafeIntent
  <2> QED BY <2>2, <2>3
<1>7. CASE operation \notin {"AcquireLease", "SettleIntent", "PublishConfiguredSafeIntent"}
  BY <1>2, <1>7 DEF evaluate_dispatcher
<1> QED BY <1>4, <1>5, <1>6, <1>7

-----------------------------------------------------------------------------
\* The parts of the inductive invariant, of the variables each is about.
IngressOK == ingress \in Seq(IngressEvents) /\ Ordered(ingress)
LedgerOK ==
  \/ intent = <<>> /\ publisher = [attempts |-> 0, acceptances |-> 0]
  \/ \E i \in Intents : intent = <<i>> /\ Agreed(i, publisher)
LifeOK(state, machine) ==
  /\ state \in Lives
  /\ \A start \in state.started : start[1] \notin start[2]
  /\ state.opened => /\ state.quarantined
                     /\ state.active = {}
                     /\ \A risk \in DOMAIN machine \ {"generation"} : ~machine[risk]

\* The inductive invariant is the conjunction of its parts.
LEMMA Parts ==
  DeploymentInv <=> IngressOK /\ LedgerOK /\ LifeOK(life, environment) /\ environment \in Environments
<1>1. (ingress \in Seq(IngressEvents) /\ VerifiedFirst) <=> IngressOK
  BY DEF IngressOK, VerifiedFirst, Ordered
<1>2. (life \in Lives /\ RevokedNeverStarts /\ OpenedOffline) <=> LifeOK(life, environment)
  BY DEF LifeOK, RevokedNeverStarts, OpenedOffline, Inactive
<1>3. ASSUME DeploymentTypeOK, LedgersAgree, PublishedOnce PROVE LedgerOK
  <2>1. CASE intent = <<>> BY <1>3, <2>1 DEF LedgersAgree, LedgerOK
  <2>2. ASSUME NEW i \in Intents, intent = <<i>> PROVE LedgerOK
    <3>1. intent # <<>> /\ intent[1] = i BY <2>2
    <3>2. Agreed(i, publisher)
      BY <1>3, <3>1 DEF DeploymentTypeOK, LedgersAgree, PublishedOnce, Agreed
    <3> QED BY <2>2, <3>2 DEF LedgerOK
  <2> QED BY <1>3, <2>1, <2>2 DEF DeploymentTypeOK
<1>4. ASSUME LedgerOK
      PROVE  /\ intent = <<>> \/ (intent[1] \in Intents /\ intent = <<intent[1]>>)
             /\ publisher \in [attempts : Nat, acceptances : Nat]
             /\ LedgersAgree /\ PublishedOnce
  <2>1. CASE intent = <<>> /\ publisher = [attempts |-> 0, acceptances |-> 0]
    BY <2>1, DeploymentAssumption DEF LedgersAgree, PublishedOnce
  <2>2. ASSUME NEW i \in Intents, intent = <<i>>, Agreed(i, publisher)
        PROVE  /\ intent = <<>> \/ (intent[1] \in Intents /\ intent = <<intent[1]>>)
               /\ publisher \in [attempts : Nat, acceptances : Nat]
               /\ LedgersAgree /\ PublishedOnce
    <3>1. intent # <<>> /\ intent[1] = i BY <2>2
    <3> QED BY <2>2, <3>1 DEF LedgersAgree, PublishedOnce, Agreed
  <2> QED BY <1>4, <2>1, <2>2 DEF LedgerOK
<1> QED BY <1>1, <1>2, <1>3, <1>4 DEF DeploymentInv, DeploymentTypeOK, BoundarySafety

\* A callback to the ingress keeps its events in order.
LEMMA IngressStep ==
  ASSUME IngressOK, NEW request, evaluate_ingress(request)
  PROVE  IngressOK'
<1>1. ingress' = ingress \/ ingress' = callback_events(ingress, request)
  BY DEF evaluate_ingress
<1> QED BY <1>1, CallbackOrdered DEF IngressOK

\* A dispatcher keeps the ledger and the intent in agreement, one that exists or none.
LEMMA DispatcherStep ==
  ASSUME LedgerOK, NEW operation, NEW fence \in Fences, NEW outcome \in PublishOutcomes,
         evaluate_dispatcher(operation, fence, outcome)
  PROVE  LedgerOK'
<1>1. CASE intent = <<>> /\ publisher = [attempts |-> 0, acceptances |-> 0]
  <2>1. DispatcherDenied
    BY <1>1 DEF evaluate_dispatcher, AcquireLease, SettleIntent, PublishConfiguredSafeIntent
  <2> QED BY <1>1, <2>1 DEF DispatcherDenied, LedgerOK
<1>2. ASSUME NEW i \in Intents, intent = <<i>>, Agreed(i, publisher) PROVE LedgerOK'
  <2>1. Dispatched(i, publisher') BY <1>2, DispatcherAgrees
  <2> QED BY <2>1 DEF Dispatched, LedgerOK
<1> QED BY <1>1, <1>2 DEF LedgerOK

\* Containing a leak revokes a generation and starts none.
LEMMA ContainStep ==
  ASSUME LifeOK(life, environment), contain_secret_artifact
  PROVE  LifeOK(life', environment)
<1>1. CASE ~life.artifact
  BY <1>1 DEF contain_secret_artifact, Unchanged, Lifecycle
<1>2. CASE life.artifact
  <2> DEFINE g == life.generation + 1
             r == life.revoked \cup {life.generation}
  <2>1. life' = [life EXCEPT !.artifact = FALSE, !.generation = g, !.revoked = r]
    BY <1>2 DEF contain_secret_artifact, Lifecycle
  <2>2. life \in Lives BY DEF LifeOK
  <2>3. g \in Nat /\ r \in SUBSET Nat BY <2>2 DEF Lives
  <2> HIDE DEF g, r
  <2>4. life' \in Lives BY <2>1, <2>2, <2>3 DEF Lives
  <2>5. /\ life'.started = life.started /\ life'.opened = life.opened
        /\ life'.quarantined = life.quarantined /\ life'.active = life.active
    BY <2>1, <2>2 DEF Lives
  <2> QED BY <2>4, <2>5 DEF LifeOK
<1> QED BY <1>1, <1>2

\* A credential starts only under a generation that is not revoked.
LEMMA CredentialStartStep ==
  ASSUME LifeOK(life, environment), NEW request \in Starts, StartWithCredential(request)
  PROVE  LifeOK(life', environment)
<1>1. CASE ~start_current_credential(request)
  BY <1>1 DEF StartWithCredential, Unchanged, Lifecycle
<1>2. CASE start_current_credential(request)
  <2> DEFINE b == life.started \cup {<<request.generation, life.revoked>>}
  <2>1. life' = [life EXCEPT !.started = b]
    BY <1>2 DEF StartWithCredential, Lifecycle
  <2>2. life \in Lives BY DEF LifeOK
  <2>3. request.generation \in Nat /\ life.revoked \in SUBSET Nat
    BY <2>2, DeploymentAssumption DEF Starts, Lives
  <2>4. b \in SUBSET (Nat \X SUBSET Nat) BY <2>2, <2>3 DEF Lives
  <2>5. \A start \in b : start[1] \notin start[2]
    BY <1>2 DEF LifeOK, start_current_credential
  <2> HIDE DEF b
  <2>6. life' \in Lives BY <2>1, <2>2, <2>4 DEF Lives
  <2>7. /\ life'.started = b /\ life'.opened = life.opened
        /\ life'.quarantined = life.quarantined /\ life'.active = life.active
    BY <2>1, <2>2 DEF Lives
  <2> QED BY <2>5, <2>6, <2>7 DEF LifeOK
<1> QED BY <1>1, <1>2

\* A restore opens state only where nothing is at risk; every other end of it
\* quarantines.
LEMMA RestoreStep ==
  ASSUME LifeOK(life, environment), environment \in Environments,
         NEW request \in Restores, Restore(request)
  PROVE  LifeOK(life', environment)
<1>0. life \in Lives /\ environment \in Machines BY DeploymentAssumption DEF LifeOK
<1>1. ASSUME NEW entered, Quarantine(entered),
             entered = enter_restore_quarantine \/ entered = quarantine_raw_restore_copy
      PROVE  LifeOK(life', environment)
  <2>1. life' = entered[1] BY <1>1 DEF Quarantine, Lifecycle
  <2>2. CASE life' = life BY <2>2
  <2>3. CASE life' = [life EXCEPT !.quarantined = TRUE]
    <3>1. life' \in Lives BY <1>0, <2>3 DEF Lives
    <3>2. /\ life'.started = life.started /\ life'.opened = life.opened
          /\ life'.quarantined /\ life'.active = life.active
      BY <1>0, <2>3 DEF Lives
    <3> QED BY <3>1, <3>2 DEF LifeOK
  <2>4. CASE life' = [life EXCEPT !.quarantined = TRUE, !.raw_copies = 0]
    <3>1. life' \in Lives BY <1>0, <2>4 DEF Lives
    <3>2. /\ life'.started = life.started /\ life'.opened = life.opened
          /\ life'.quarantined /\ life'.active = life.active
      BY <1>0, <2>4 DEF Lives
    <3> QED BY <3>1, <3>2 DEF LifeOK
  <2>5. entered[1] \in {life, [life EXCEPT !.quarantined = TRUE],
                        [life EXCEPT !.quarantined = TRUE, !.raw_copies = 0]}
    <3> DEFINE q == [life EXCEPT !.quarantined = TRUE]
               r == [life EXCEPT !.quarantined = TRUE, !.raw_copies = 0]
    <3>1. entered[1] \in {life, q, r}
      <4>1. \/ entered = <<life, <<>>>> \/ entered = <<q, <<"RestoreQuarantined">>>>
            \/ entered = <<r, <<"RestoreQuarantined", "RawCopyWithheld">>>>
        BY <1>1, Zenon DEF enter_restore_quarantine, quarantine_raw_restore_copy
      <4> HIDE DEF q, r
      <4> QED BY <4>1
    <3> QED BY <3>1
  <2> QED BY <2>1, <2>2, <2>3, <2>4, <2>5
<1>2. CASE ~Restorable(request) BY <1>1, <1>2 DEF Restore
<1>3. CASE Restorable(request) /\ (life.opened \/ ~open_quarantined_restore)
  BY <1>1, <1>3 DEF Restore
<1>4. CASE Restorable(request) /\ ~life.opened /\ open_quarantined_restore
  <2>1. life' = [life EXCEPT !.quarantined = TRUE, !.opened = TRUE]
    BY <1>4 DEF Restore, Lifecycle
  <2>2. life' \in Lives BY <1>0, <2>1 DEF Lives
  <2>3. /\ life'.started = life.started /\ life'.quarantined /\ life'.active = life.active
    BY <1>0, <2>1 DEF Lives
  <2>4. life.active = {} BY <1>4 DEF Restorable, Inactive
  <2>5. \A risk \in DOMAIN environment \ {"generation"} : ~environment[risk]
    BY <1>0, <1>4 DEF Machines, Restorable, open_quarantined_restore
  <2> QED BY <2>2, <2>3, <2>4, <2>5 DEF LifeOK
<1> QED BY <1>2, <1>3, <1>4

\* Leaks and disabled authorities start and open nothing.
LEMMA OutsideStep ==
  ASSUME LifeOK(life, environment), Leak \/ \E authority \in Authorities : Disable(authority)
  PROVE  LifeOK(life', environment)
<1>0. life \in Lives BY DEF LifeOK
<1>1. CASE Leak
  <2>1. life' = [life EXCEPT !.artifact = TRUE] BY <1>1 DEF Leak, Outside
  <2>2. life' \in Lives BY <1>0, <2>1 DEF Lives
  <2>3. /\ life'.started = life.started /\ life'.opened = life.opened
        /\ life'.quarantined = life.quarantined /\ life'.active = life.active
    BY <1>0, <2>1 DEF Lives
  <2> QED BY <2>2, <2>3 DEF LifeOK
<1>2. ASSUME NEW authority \in Authorities, Disable(authority) PROVE LifeOK(life', environment)
  <2> DEFINE a == life.active \ {authority}
  <2>1. life' = [life EXCEPT !.active = a] BY <1>2 DEF Disable, Outside
  <2>2. a \in SUBSET Authorities /\ (life.active = {} => a = {}) BY <1>0 DEF Lives
  <2> HIDE DEF a
  <2>3. life' \in Lives BY <1>0, <2>1, <2>2 DEF Lives
  <2>4. /\ life'.started = life.started /\ life'.opened = life.opened
        /\ life'.quarantined = life.quarantined /\ life'.active = a
    BY <1>0, <2>1 DEF Lives
  <2> QED BY <2>2, <2>3, <2>4 DEF LifeOK
<1> QED BY <1>1, <1>2

\* Every step of the boundary preserves its inductive invariant.
LEMMA DeploymentStep ==
  ASSUME DeploymentInv, [DeploymentNext]_deploymentVars
  PROVE  DeploymentInv'
<1> DEFINE Kept == IngressOK' /\ LedgerOK' /\ LifeOK(life', environment') /\ environment' \in Environments
<1>0. IngressOK /\ LedgerOK /\ LifeOK(life, environment) /\ environment \in Environments
  BY Parts
<1>1. ASSUME UNCHANGED <<intent, publisher>> PROVE LedgerOK'
  BY <1>0, <1>1 DEF LedgerOK
<1>2. ASSUME UNCHANGED ingress PROVE IngressOK'
  BY <1>0, <1>2 DEF IngressOK
<1>3. ASSUME NEW request \in Callbacks, evaluate_ingress(request) PROVE Kept
  <2>1. IngressOK' BY <1>0, <1>3, IngressStep
  <2> QED BY <1>0, <1>1, <1>3, <2>1 DEF evaluate_ingress
<1>4. ASSUME NEW operation, NEW wrong_role, evaluate_outbound(operation, wrong_role) PROVE Kept
  BY <1>0, <1>1, <1>2, <1>4 DEF evaluate_outbound
<1>5. ASSUME NEW operation, NEW fence \in Fences, NEW outcome \in PublishOutcomes,
             evaluate_dispatcher(operation, fence, outcome)
      PROVE  Kept
  <2>1. LedgerOK' BY <1>0, <1>5, DispatcherStep
  <2> QED BY <1>0, <1>2, <1>5, <2>1 DEF evaluate_dispatcher
<1>6. ASSUME NEW request \in AclRequests, evaluate_ntfy_acl(request) PROVE Kept
  BY <1>0, <1>1, <1>2, <1>6 DEF evaluate_ntfy_acl
<1>7. ASSUME NEW disposition, NEW state, NEW events, Lifecycle(disposition, state, events),
             LifeOK(life', environment)
      PROVE  Kept
  BY <1>0, <1>1, <1>2, <1>7 DEF Lifecycle
<1>8. ASSUME NEW request \in Starts, evaluate_lifecycle("StartWithCredential", request) PROVE Kept
  <2>1. StartWithCredential(request) BY <1>8 DEF evaluate_lifecycle
  <2>2. LifeOK(life', environment) BY <1>0, <2>1, CredentialStartStep
  <2> QED BY <1>7, <2>1, <2>2 DEF StartWithCredential, Unchanged
<1>9. ASSUME NEW request \in Restores, evaluate_lifecycle("Restore", request) PROVE Kept
  <2>1. Restore(request) BY <1>9 DEF evaluate_lifecycle
  <2>2. LifeOK(life', environment) BY <1>0, <2>1, RestoreStep
  <2> QED BY <1>7, <2>1, <2>2 DEF Restore, Quarantine
<1>10. ASSUME NEW operation \in {"SecretArtifact", "Rollback"} \cup Denied,
              evaluate_lifecycle(operation, <<>>)
       PROVE  Kept
  <2>1. CASE operation = "SecretArtifact"
    <3>1. contain_secret_artifact BY <1>10, <2>1 DEF evaluate_lifecycle
    <3>2. LifeOK(life', environment) BY <1>0, <3>1, ContainStep
    <3> QED BY <1>7, <3>1, <3>2 DEF contain_secret_artifact, Unchanged
  <2>2. CASE operation = "Rollback"
    <3>1. complete_rollback BY <1>10, <2>2 DEF evaluate_lifecycle
    <3>2. life' = life BY <3>1 DEF complete_rollback, Unchanged, Lifecycle
    <3> QED BY <1>0, <1>7, <3>1, <3>2 DEF complete_rollback, Unchanged
  <2>3. CASE operation \in Denied
    <3>1. operation \notin {"StartWithCredential", "Restore", "SecretArtifact", "Rollback"}
      BY <2>3, DeploymentAssumption
    <3>2. Unchanged("Rejected") BY <1>10, <3>1 DEF evaluate_lifecycle
    <3>3. life' = life BY <3>2 DEF Unchanged, Lifecycle
    <3> QED BY <1>0, <1>7, <3>2, <3>3 DEF Unchanged
  <2> QED BY <1>10, <2>1, <2>2, <2>3
<1>11. ASSUME Register PROVE Kept
  BY <1>0, <1>1, <1>2, <1>11 DEF Register, Outside
<1>12. ASSUME Raise PROVE Kept
  <2> DEFINE i == [lease_fence |-> 0, leased |-> FALSE, attempts |-> 0,
                   delivered |-> FALSE, ambiguous |-> FALSE]
  <2>1. intent = <<>> /\ intent' = <<i>> /\ publisher' = publisher BY <1>12 DEF Raise, Outside
  <2>2. publisher = [attempts |-> 0, acceptances |-> 0] BY <1>0, <2>1 DEF LedgerOK
  <2>3. i \in Intents BY DEF Intents
  <2>4. Agreed(i, publisher') BY <2>1, <2>2, <2>3, DeploymentAssumption DEF Agreed
  <2>5. LedgerOK' BY <2>1, <2>3, <2>4 DEF LedgerOK
  <2> QED BY <1>0, <1>2, <1>12, <2>5 DEF Raise, Outside
<1>13. ASSUME Leak \/ \E authority \in Authorities : Disable(authority) PROVE Kept
  <2>1. LifeOK(life', environment) BY <1>0, <1>13, OutsideStep
  <2> QED BY <1>0, <1>1, <1>2, <1>13, <2>1 DEF Leak, Disable, Outside
<1>14. ASSUME UNCHANGED deploymentVars PROVE Kept
  BY <1>0, <1>1, <1>2, <1>14 DEF deploymentVars
<1>15. Kept
  <2> HIDE DEF Kept
  <2> QED BY <1>3, <1>4, <1>5, <1>6, <1>8, <1>9, <1>10, <1>11, <1>12, <1>13, <1>14 DEF DeploymentNext
<1>16. (IngressOK /\ LedgerOK /\ LifeOK(life, environment) /\ environment \in Environments)'
       => DeploymentInv'
  BY Parts, PTL
<1> QED BY <1>15, <1>16

\* Fences only grow, and a held lease keeps its own, whatever the step.
LEMMA FenceStep ==
  ASSUME DeploymentInv, DeploymentNext
  PROVE  FenceKept
<1>0. LedgerOK BY Parts
<1>1. SUFFICES ASSUME NEW i \in Intents, intent = <<i>>, Agreed(i, publisher) PROVE FenceKept
  BY <1>0 DEF LedgerOK, FenceKept
<1>2. intent # <<>> /\ intent[1] = i /\ i.lease_fence \in Nat BY <1>1 DEF Intents
<1>3. CASE intent' = intent BY <1>2, <1>3 DEF FenceKept
<1>4. ASSUME NEW operation, NEW fence \in Fences, NEW outcome \in PublishOutcomes,
             evaluate_dispatcher(operation, fence, outcome)
      PROVE  FenceKept
  <2>1. Dispatched(i, publisher') BY <1>1, <1>4, DispatcherAgrees
  <2> QED BY <1>2, <2>1 DEF Dispatched, FenceKept
<1>5. (\E operation \in {"AcquireLease", "SettleIntent", "PublishConfiguredSafeIntent"} \cup Denied,
        fence \in Fences, outcome \in PublishOutcomes : evaluate_dispatcher(operation, fence, outcome))
      \/ intent' = intent
  BY <1>2 DEF DeploymentNext, evaluate_ingress, evaluate_outbound, evaluate_ntfy_acl,
       evaluate_lifecycle, contain_secret_artifact, StartWithCredential, complete_rollback,
       Restore, Quarantine, Unchanged, Lifecycle, Register, Raise, Leak, Disable
<1> QED BY <1>3, <1>4, <1>5

\* The machine is as it was found, and nothing happened yet.
LEMMA DeploymentStart == ASSUME DeploymentInit PROVE DeploymentInv
<1>1. IngressOK BY DEF DeploymentInit, IngressOK, Ordered
<1>2. LedgerOK BY DEF DeploymentInit, LedgerOK
<1>3. life \in Lives BY DEF DeploymentInit, Lives
<1>4. LifeOK(life, environment) BY <1>3 DEF DeploymentInit, LifeOK
<1> QED BY <1>1, <1>2, <1>4, Parts DEF DeploymentInit

\* The boundary under any order of calls (BoundarySafety): signatures before
\* parsing, one acceptance per alert, no start of a revoked credential, and
\* restored state opened only where nothing is at risk.
THEOREM Boundary == DeploymentSpec => []BoundarySafety
<1>1. DeploymentInit => DeploymentInv BY DeploymentStart
<1>2. DeploymentInv /\ [DeploymentNext]_deploymentVars => DeploymentInv' BY DeploymentStep
<1>3. DeploymentInv => BoundarySafety BY DEF DeploymentInv
<1> QED BY <1>1, <1>2, <1>3, PTL DEF DeploymentSpec

\* No step lowers the fence of the alert intent, and while a lease is held none
\* replaces it (acquire_safe_intent_lease and settle_safe_intent).
THEOREM Fencing == DeploymentSpec => [][FenceKept]_deploymentVars
<1>1. DeploymentInit => DeploymentInv BY DeploymentStart
<1>2. DeploymentInv /\ [DeploymentNext]_deploymentVars => DeploymentInv' BY DeploymentStep
<1>3. DeploymentInv /\ [DeploymentNext]_deploymentVars => [FenceKept]_deploymentVars
  BY FenceStep
<1> QED BY <1>1, <1>2, <1>3, PTL DEF DeploymentSpec

-----------------------------------------------------------------------------
(***************************************************************************)
(* StartUp.  That two processes never own one root rests on the entry that is *)
(* open being the entry that is named (Fits) and on one holder per inode   *)
(* (OneHolder); that no other process uses the store rests, further, on the *)
(* root that was locked being the one the path names.                      *)
(***************************************************************************)

USE DEF Dirs, None, Stale, Holding, PastCheck, LookedAtPath

\* The order of serve, stage by stage.
LEMMA StageOrder ==
  /\ after("policy") = "non_root" /\ after("non_root") = "create" /\ after("root") = "lstat"
  /\ after("lock") = "store" /\ after("store") = "recover" /\ after("recover") = "socket"
  /\ after("socket") = "serving"
BY DEF after

\* The invariant gives the four parts of StartSafety: two owners of one
\* root would hold one inode, and two users of one store would be two owners.
LEMMA StartInvSafe ==
  ASSUME StartInv PROVE StartSafety
<1>1. OneOwner
  BY DEF StartInv, Fits, OneHolder, OneOwner, Entry
<1>2. OneStoreUser
  BY DEF StartInv, Fits, OneHolder, OneStoreUser, Entry
<1>3. SocketReaches
  BY DEF StartInv, Fits, SocketReaches
<1> QED BY <1>1, <1>2, <1>3 DEF StartSafety, StartInv

\* It holds before any process runs.
LEMMA InitInv == ASSUME StartInit PROVE StartInv
<1> USE DEF StartInit, Down
<1>1. StartTypeOK
  <2>1. path \in {0} \cup Dirs /\ disturbed \in BOOLEAN OBVIOUS
  <2>2. dir \in [Dirs -> Directories]
    <3>1. PICK made \in BOOLEAN :
       dir = [d \in Dirs |-> [made |-> d = 2, owned |-> TRUE, private |-> d = 2 /\ made, entry |-> None, sock |-> None]]
       OBVIOUS
    <3>2. ASSUME NEW d \in Dirs PROVE (d = 2) \in BOOLEAN /\ (d = 2 /\ made) \in BOOLEAN
      OBVIOUS
    <3> QED BY <3>1, <3>2 DEF Directories
  <2>3. file \in [Files -> [owned : BOOLEAN, private : BOOLEAN]] OBVIOUS
  <2>4. proc \in [Processes -> Process] BY DEF Process, Pcs
  <2>5. budget \in [stops : Nat, rebinds : Nat, replaced : 0..MaxReplaced] BY StartUpAssumption
  <2> QED BY <2>1, <2>2, <2>3, <2>4, <2>5 DEF StartTypeOK
<1>2. \A p \in Processes : Fits(p)
  BY DEF StartInit, Fits, Down, At
<1>3. OneHolder /\ LeavesUsableEntry
  BY DEF StartInit, OneHolder, LeavesUsableEntry, Down
<1> QED BY <1>1, <1>2, <1>3 DEF StartInv

\* A step of p keeps the invariant when it leaves the other processes, the
\* lock entries there are and the sockets of those that serve alone, and the
\* invariant holds of p itself afterwards.
LEMMA ProcessStep ==
  ASSUME StartInv, NEW p \in Processes,
         StartTypeOK', disturbed' = disturbed,
         path' = path \/ path = 0,
         \A q \in Processes \ {p} : proc'[q] = proc[q],
         \A d \in Dirs : dir[d].entry = None \/ dir'[d].entry = dir[d].entry,
         ~disturbed => \A q \in Processes \ {p} : At(q, "serving") => dir'[proc[q].store].sock = q,
         Fits(p)',
         proc'[p].pc \in Holding =>
            \A q \in Processes \ {p} : proc[q].pc \in Holding => proc[q].fd # proc'[p].fd,
         LeavesUsableEntry'
  PROVE  StartInv'
<1>1. ASSUME NEW q \in Processes PROVE Fits(q)'
  <2>1. CASE q = p BY <2>1
  <2>2. CASE q # p
    <3>1. proc'[q] = proc[q] BY <2>2
    <3>2. proc[q].pc \in PastCheck => dir'[proc[q].ref].entry = dir[proc[q].ref].entry
      BY StartUpAssumption DEF Fits, Entry, StartInv
    <3> QED BY <2>2, <3>1, <3>2 DEF Fits, Entry, At, StartInv
  <2> QED BY <2>1, <2>2
<1>2. OneHolder'
  BY DEF StartInv, OneHolder
<1> QED
  BY <1>1, <1>2 DEF StartInv

\* ... in particular when it changes nothing but p.
LEMMA Moves ==
  ASSUME StartInv, NEW p \in Processes,
         proc' = [proc EXCEPT ![p] = proc'[p]], proc'[p] \in Process,
         UNCHANGED <<path, dir, file, disturbed, budget>>,
         Fits(p)',
         proc'[p].pc \in Holding =>
            \A q \in Processes \ {p} : proc[q].pc \in Holding => proc[q].fd # proc'[p].fd
  PROVE  StartInv'
<1>1. StartTypeOK' BY DEF StartInv, StartTypeOK
<1>2. LeavesUsableEntry' BY DEF StartInv, LeavesUsableEntry, Safe
<1>3. \A q \in Processes \ {p} : proc'[q] = proc[q] BY DEF StartInv, StartTypeOK
<1>4. ~disturbed => \A q \in Processes \ {p} : At(q, "serving") => dir'[proc[q].store].sock = q
  BY DEF StartInv, Fits
<1> QED BY <1>1, <1>2, <1>3, <1>4, ProcessStep

\* A process that ends leaves an inode without a holder and a stale socket.
LEMMA EndedStep ==
  ASSUME StartInv, NEW p \in Processes, Ended(p), budget' \in [stops : Nat, rebinds : Nat, replaced : 0..MaxReplaced],
         budget'.replaced = budget.replaced
  PROVE  StartInv'
<1> USE DEF Ended, Update
<1>1. proc'[p] = Down /\ \A q \in Processes \ {p} : proc'[q] = proc[q] BY DEF StartInv, StartTypeOK
<1>2. \A d \in Dirs : /\ dir'[d].entry = dir[d].entry /\ dir'[d].made = dir[d].made
                      /\ dir'[d].owned = dir[d].owned /\ dir'[d].private = dir[d].private
                      /\ dir'[d].sock = (IF dir[d].sock = p THEN Stale ELSE dir[d].sock)
  BY DEF StartInv, StartTypeOK, Directories
<1>3. StartTypeOK'
  <2>1. dir' \in [Dirs -> Directories]
    BY DEF StartInv, StartTypeOK, Directories
  <2>2. Down \in Process BY DEF Down, Process, Pcs
  <2> QED BY <2>1, <2>2 DEF StartInv, StartTypeOK
<1>4. Fits(p)' BY <1>1 DEF Fits, Down, At
<1>5. LeavesUsableEntry' BY <1>2 DEF StartInv, LeavesUsableEntry, Safe
<1>6. ~disturbed => \A q \in Processes \ {p} : At(q, "serving") => dir'[proc[q].store].sock = q
  BY <1>2 DEF StartInv, StartTypeOK, Fits, Process, At
<1> QED BY <1>1, <1>2, <1>3, <1>4, <1>5, <1>6, ProcessStep DEF Down

\* ... as does one that refuses.
LEMMA RefuseStep ==
  ASSUME StartInv, NEW p \in Processes, Refuse(p) PROVE StartInv'
BY EndedStep DEF Refuse, StartInv, StartTypeOK

\* Writing one column of a directory, or one file.
LEMMA SetEntry ==
  ASSUME NEW D \in [Dirs -> Directories], NEW d \in Dirs, NEW f \in Files \cup {None},
         NEW E, E = [D EXCEPT ![d].entry = f]
  PROVE  /\ E \in [Dirs -> Directories]
         /\ \A e \in Dirs : /\ E[e].entry = (IF e = d THEN f ELSE D[e].entry)
                            /\ E[e].sock = D[e].sock
BY DEF Directories

LEMMA SetFile ==
  ASSUME NEW F \in [Files -> [owned : BOOLEAN, private : BOOLEAN]], NEW f \in Files, NEW o \in BOOLEAN, NEW b \in BOOLEAN,
         NEW G, G = [F EXCEPT ![f] = [owned |-> o, private |-> b]]
  PROVE  /\ G \in [Files -> [owned : BOOLEAN, private : BOOLEAN]]
         /\ \A e \in Files : G[e] = IF e = f THEN [owned |-> o, private |-> b] ELSE F[e]
OBVIOUS

\* apply_linux_startup_policy.
LEMMA PolicyStep ==
  ASSUME StartInv, NEW p \in Processes, apply_linux_startup_policy(p)
  PROVE  StartInv'
<1>1. CASE Refuse(p) BY <1>1, RefuseStep
<1>2. CASE ~Refuse(p)
  <2>1. /\ At(p, "policy")
        /\ proc' = [proc EXCEPT ![p] = [proc[p] EXCEPT !.umask = "private", !.pc = "non_root"]]
        /\ UNCHANGED <<path, dir, file, disturbed, budget>>
    BY <1>2, StageOrder DEF apply_linux_startup_policy, Update, Goto, StartInv, Fits, At, installed_umask
  <2>2. proc[p] \in Process /\ proc'[p] = [proc[p] EXCEPT !.umask = "private", !.pc = "non_root"]
    BY <2>1 DEF StartInv, StartTypeOK
  <2>3. proc' = [proc EXCEPT ![p] = proc'[p]]
    BY <2>1, <2>2
  <2>4. proc'[p] \in Process
    <3>1. "non_root" \in Pcs BY DEF Pcs
    <3> QED BY <2>2, <3>1 DEF Process
  <2>5. Fits(p)'
    BY <2>1, <2>2 DEF StartInv, StartTypeOK, Process, Fits, At, Entry, PrivateRoot, Directories
  <2>6. proc'[p].pc \notin Holding
    BY <2>1, <2>2 DEF StartInv, OneHolder, Process, At
  <2> QED BY <2>1, <2>3, <2>4, <2>5, <2>6, Moves
<1> QED BY <1>1, <1>2

\* ensure_linux_non_root.
LEMMA NonRootStep ==
  ASSUME StartInv, NEW p \in Processes, ensure_linux_non_root(p)
  PROVE  StartInv'
<1>1. CASE Refuse(p) BY <1>1, RefuseStep
<1>2. CASE ~Refuse(p)
  <2>1. /\ At(p, "non_root") /\ proc[p].uid # "root"
        /\ proc' = [proc EXCEPT ![p] = [proc[p] EXCEPT !.pc = "create"]]
        /\ UNCHANGED <<path, dir, file, disturbed, budget>>
    BY <1>2, StageOrder DEF ensure_linux_non_root, Update, Goto, StartInv, Fits, At, ensure_linux_non_root_with
  <2>2. proc[p] \in Process /\ proc'[p] = [proc[p] EXCEPT !.pc = "create"]
    BY <2>1 DEF StartInv, StartTypeOK
  <2>3. proc' = [proc EXCEPT ![p] = proc'[p]]
    BY <2>1, <2>2
  <2>4. proc'[p] \in Process
    <3>1. "create" \in Pcs BY DEF Pcs
    <3> QED BY <2>2, <3>1 DEF Process
  <2>5. Fits(p)'
    BY <2>1, <2>2 DEF StartInv, StartTypeOK, Process, Fits, At, Entry, PrivateRoot, Directories
  <2>6. proc'[p].pc \notin Holding
    BY <2>1, <2>2 DEF StartInv, OneHolder, Process, At
  <2> QED BY <2>1, <2>3, <2>4, <2>5, <2>6, Moves
<1> QED BY <1>1, <1>2

\* prepare_state_root inspects.
LEMMA InspectRootStep ==
  ASSUME StartInv, NEW p \in Processes, InspectRoot(p)
  PROVE  StartInv'
<1>1. CASE Refuse(p) BY <1>1, RefuseStep
<1>2. CASE ~Refuse(p)
  <2>1. /\ At(p, "inspect")
        /\ proc' = [proc EXCEPT ![p] = [proc[p] EXCEPT !.pc = "chmod"]]
        /\ UNCHANGED <<path, dir, file, disturbed, budget>>
    BY <1>2, StageOrder DEF InspectRoot, Update, Goto, StartInv, Fits, At
  <2>2. proc[p] \in Process /\ proc'[p] = [proc[p] EXCEPT !.pc = "chmod"]
    BY <2>1 DEF StartInv, StartTypeOK
  <2>3. proc' = [proc EXCEPT ![p] = proc'[p]]
    BY <2>1, <2>2
  <2>4. proc'[p] \in Process
    <3>1. "chmod" \in Pcs BY DEF Pcs
    <3> QED BY <2>2, <3>1 DEF Process
  <2>5. Fits(p)'
    BY <2>1, <2>2 DEF StartInv, StartTypeOK, Process, Fits, At, Entry, PrivateRoot, Directories
  <2>6. proc'[p].pc \notin Holding
    BY <2>1, <2>2 DEF StartInv, OneHolder, Process, At
  <2> QED BY <2>1, <2>3, <2>4, <2>5, <2>6, Moves
<1> QED BY <1>1, <1>2

\* open_private_root_with: the name is inspected ...
LEMMA InspectPrivateRootStep ==
  ASSUME StartInv, NEW p \in Processes, InspectPrivateRoot(p)
  PROVE  StartInv'
<1>1. CASE Refuse(p) BY <1>1, RefuseStep
<1>2. CASE ~Refuse(p)
  <2>1. /\ At(p, "lstat") /\ PrivateRoot
        /\ proc' = [proc EXCEPT ![p] = [proc[p] EXCEPT !.root = path, !.pc = "open"]]
        /\ UNCHANGED <<path, dir, file, disturbed, budget>>
    BY <1>2, StageOrder DEF InspectPrivateRoot, Update, Goto, StartInv, Fits, At
  <2>2. proc[p] \in Process /\ proc'[p] = [proc[p] EXCEPT !.root = path, !.pc = "open"]
    BY <2>1 DEF StartInv, StartTypeOK
  <2>3. proc' = [proc EXCEPT ![p] = proc'[p]]
    BY <2>1, <2>2
  <2>4. proc'[p] \in Process
    <3>1. "open" \in Pcs /\ path \in {0} \cup Dirs BY DEF Pcs, StartInv, StartTypeOK
    <3> QED BY <2>2, <3>1 DEF Process
  <2>5. Fits(p)'
    BY <2>1, <2>2 DEF StartInv, StartTypeOK, Process, Fits, At, Entry, PrivateRoot, Directories
  <2>6. proc'[p].pc \notin Holding
    BY <2>1, <2>2 DEF StartInv, OneHolder, Process, At
  <2> QED BY <2>1, <2>3, <2>4, <2>5, <2>6, Moves
<1> QED BY <1>1, <1>2

\* ... and opened.
LEMMA OpenPrivateRootStep ==
  ASSUME StartInv, NEW p \in Processes, OpenPrivateRoot(p)
  PROVE  StartInv'
<1>1. CASE Refuse(p) BY <1>1, RefuseStep
<1>2. CASE ~Refuse(p)
  <2>1. /\ At(p, "open") /\ PrivateRoot
        /\ proc' = [proc EXCEPT ![p] = [proc[p] EXCEPT !.root = 0, !.ref = path, !.pc = "entry"]]
        /\ UNCHANGED <<path, dir, file, disturbed, budget>>
    BY <1>2, StageOrder DEF OpenPrivateRoot, Update, Goto, StartInv, Fits, At
  <2>2. proc[p] \in Process /\ proc'[p] = [proc[p] EXCEPT !.root = 0, !.ref = path, !.pc = "entry"]
    BY <2>1 DEF StartInv, StartTypeOK
  <2>3. proc' = [proc EXCEPT ![p] = proc'[p]]
    BY <2>1, <2>2
  <2>4. proc'[p] \in Process
    <3>1. "entry" \in Pcs /\ path \in {0} \cup Dirs BY DEF Pcs, StartInv, StartTypeOK
    <3> QED BY <2>2, <3>1 DEF Process
  <2>5. Fits(p)'
    BY <2>1, <2>2 DEF StartInv, StartTypeOK, Process, Fits, At, Entry, PrivateRoot, Directories
  <2>6. proc'[p].pc \notin Holding
    BY <2>1, <2>2 DEF StartInv, OneHolder, Process, At
  <2> QED BY <2>1, <2>3, <2>4, <2>5, <2>6, Moves
<1> QED BY <1>1, <1>2

\* open_existing_lock_entry: the entry is inspected ...
LEMMA InspectLockEntryStep ==
  ASSUME StartInv, NEW p \in Processes, InspectLockEntry(p)
  PROVE  StartInv'
<1>1. CASE Refuse(p) BY <1>1, RefuseStep
<1>2. CASE ~Refuse(p)
  <2>1. /\ At(p, "stat")
        /\ proc' = [proc EXCEPT ![p] = [proc[p] EXCEPT !.seen = Entry(p), !.pc = "openat"]]
        /\ UNCHANGED <<path, dir, file, disturbed, budget>>
    BY <1>2, StageOrder DEF InspectLockEntry, Update, Goto, StartInv, Fits, At
  <2>2. proc[p] \in Process /\ proc'[p] = [proc[p] EXCEPT !.seen = Entry(p), !.pc = "openat"]
    BY <2>1 DEF StartInv, StartTypeOK
  <2>3. proc' = [proc EXCEPT ![p] = proc'[p]]
    BY <2>1, <2>2
  <2>4. proc'[p] \in Process
    <3>1. "openat" \in Pcs /\ Entry(p) \in Files \cup {None} BY <2>1, <2>2 DEF Pcs, StartInv, StartTypeOK, Entry, Fits, Directories, At
    <3> QED BY <2>2, <3>1 DEF Process
  <2>5. Fits(p)'
    BY <2>1, <2>2 DEF StartInv, StartTypeOK, Process, Fits, At, Entry, PrivateRoot, Directories
  <2>6. proc'[p].pc \notin Holding
    BY <2>1, <2>2 DEF StartInv, OneHolder, Process, At
  <2> QED BY <2>1, <2>3, <2>4, <2>5, <2>6, Moves
<1> QED BY <1>1, <1>2

\* ... opened ...
LEMMA OpenExistingLockEntryStep ==
  ASSUME StartInv, NEW p \in Processes, OpenExistingLockEntry(p)
  PROVE  StartInv'
<1>1. CASE Refuse(p) BY <1>1, RefuseStep
<1>2. CASE ~Refuse(p)
  <2>1. /\ At(p, "openat") /\ Entry(p) # None
        /\ proc' = [proc EXCEPT ![p] = [proc[p] EXCEPT !.seen = None, !.fd = Entry(p), !.pc = "again"]]
        /\ UNCHANGED <<path, dir, file, disturbed, budget>>
    BY <1>2, StageOrder DEF OpenExistingLockEntry, Update, Goto, StartInv, Fits, At
  <2>2. proc[p] \in Process /\ proc'[p] = [proc[p] EXCEPT !.seen = None, !.fd = Entry(p), !.pc = "again"]
    BY <2>1 DEF StartInv, StartTypeOK
  <2>3. proc' = [proc EXCEPT ![p] = proc'[p]]
    BY <2>1, <2>2
  <2>4. proc'[p] \in Process
    <3>1. "again" \in Pcs /\ Entry(p) \in Files \cup {None} BY <2>1, <2>2 DEF Pcs, StartInv, StartTypeOK, Entry, Fits, Directories, At
    <3> QED BY <2>2, <3>1 DEF Process
  <2>5. Fits(p)'
    BY <2>1, <2>2 DEF StartInv, StartTypeOK, Process, Fits, At, Entry, PrivateRoot, Directories
  <2>6. proc'[p].pc \notin Holding
    BY <2>1, <2>2 DEF StartInv, OneHolder, Process, At
  <2> QED BY <2>1, <2>3, <2>4, <2>5, <2>6, Moves
<1> QED BY <1>1, <1>2

\* ... and inspected again: from here on nothing replaces it.
LEMMA InspectLockEntryAgainStep ==
  ASSUME StartInv, NEW p \in Processes, InspectLockEntryAgain(p)
  PROVE  StartInv'
<1>1. CASE Refuse(p) BY <1>1, RefuseStep
<1>2. CASE ~Refuse(p)
  <2>1. /\ At(p, "again") /\ Entry(p) = proc[p].fd
        /\ proc' = [proc EXCEPT ![p] = [proc[p] EXCEPT !.pc = "flock"]]
        /\ UNCHANGED <<path, dir, file, disturbed, budget>>
    BY <1>2, StageOrder DEF InspectLockEntryAgain, Update, Goto, StartInv, Fits, At, still_named, Safe
  <2>2. proc[p] \in Process /\ proc'[p] = [proc[p] EXCEPT !.pc = "flock"]
    BY <2>1 DEF StartInv, StartTypeOK
  <2>3. proc' = [proc EXCEPT ![p] = proc'[p]]
    BY <2>1, <2>2
  <2>4. proc'[p] \in Process
    <3>1. "flock" \in Pcs BY DEF Pcs
    <3> QED BY <2>2, <3>1 DEF Process
  <2>5. Fits(p)'
    BY <2>1, <2>2 DEF StartInv, StartTypeOK, Process, Fits, At, Entry, PrivateRoot, Directories
  <2>6. proc'[p].pc \notin Holding
    BY <2>1, <2>2 DEF StartInv, OneHolder, Process, At
  <2> QED BY <2>1, <2>3, <2>4, <2>5, <2>6, Moves
<1> QED BY <1>1, <1>2

\* acquire_owner_lock: the inode had no holder.
LEMMA AcquireStep ==
  ASSUME StartInv, NEW p \in Processes, acquire_owner_lock(p)
  PROVE  StartInv'
<1>1. CASE Refuse(p) BY <1>1, RefuseStep
<1>2. CASE ~Refuse(p)
  <2>1. /\ At(p, "flock") /\ Holder(proc[p].fd) = {}
        /\ proc' = [proc EXCEPT ![p] = [proc[p] EXCEPT !.pc = "store"]]
        /\ UNCHANGED <<path, dir, file, disturbed, budget>>
    BY <1>2, StageOrder DEF acquire_owner_lock, Update, Goto, StartInv, Fits, At
  <2>2. proc[p] \in Process /\ proc'[p] = [proc[p] EXCEPT !.pc = "store"]
    BY <2>1 DEF StartInv, StartTypeOK
  <2>3. proc' = [proc EXCEPT ![p] = proc'[p]]
    BY <2>1, <2>2
  <2>4. proc'[p] \in Process
    <3>1. "store" \in Pcs BY DEF Pcs
    <3> QED BY <2>2, <3>1 DEF Process
  <2>5. Fits(p)'
    BY <2>1, <2>2 DEF StartInv, StartTypeOK, Process, Fits, At, Entry, PrivateRoot, Directories
  <2>6. proc'[p].pc \in Holding =>
          \A q \in Processes \ {p} : proc[q].pc \in Holding => proc[q].fd # proc'[p].fd
    BY <2>1, <2>2 DEF StartInv, OneHolder, Process, At, Holder
  <2> QED BY <2>1, <2>3, <2>4, <2>5, <2>6, Moves
<1> QED BY <1>1, <1>2

\* The store of an undisturbed path is that of the root that is locked.
LEMMA OpenStoreStep ==
  ASSUME StartInv, NEW p \in Processes, OpenStore(p)
  PROVE  StartInv'
<1>1. CASE Refuse(p) BY <1>1, RefuseStep
<1>2. CASE ~Refuse(p)
  <2>1. /\ At(p, "store") /\ path # 0
        /\ proc' = [proc EXCEPT ![p] = [proc[p] EXCEPT !.store = path, !.pc = "recover"]]
        /\ UNCHANGED <<path, dir, file, disturbed, budget>>
    BY <1>2, StageOrder DEF OpenStore, Update, Goto, StartInv, Fits, At
  <2>2. proc[p] \in Process /\ proc'[p] = [proc[p] EXCEPT !.store = path, !.pc = "recover"]
    BY <2>1 DEF StartInv, StartTypeOK
  <2>3. proc' = [proc EXCEPT ![p] = proc'[p]]
    BY <2>1, <2>2
  <2>4. proc'[p] \in Process
    <3>1. "recover" \in Pcs /\ path \in {0} \cup Dirs BY DEF Pcs, StartInv, StartTypeOK
    <3> QED BY <2>2, <3>1 DEF Process
  <2>5. Fits(p)'
    BY <2>1, <2>2 DEF StartInv, StartTypeOK, Process, Fits, At, Entry, PrivateRoot, Directories
  <2>6. proc'[p].pc \in Holding =>
          \A q \in Processes \ {p} : proc[q].pc \in Holding => proc[q].fd # proc'[p].fd
    BY <2>1, <2>2 DEF StartInv, OneHolder, Process, At
  <2> QED BY <2>1, <2>3, <2>4, <2>5, <2>6, Moves
<1> QED BY <1>1, <1>2

\* m2_recover_interrupted.
LEMMA RecoverStep ==
  ASSUME StartInv, NEW p \in Processes, m2_recover_interrupted(p)
  PROVE  StartInv'
<1>1. CASE Refuse(p) BY <1>1, RefuseStep
<1>2. CASE ~Refuse(p)
  <2>1. /\ At(p, "recover")
        /\ proc' = [proc EXCEPT ![p] = [proc[p] EXCEPT !.pc = "socket"]]
        /\ UNCHANGED <<path, dir, file, disturbed, budget>>
    BY <1>2, StageOrder DEF m2_recover_interrupted, Update, Goto, StartInv, Fits, At
  <2>2. proc[p] \in Process /\ proc'[p] = [proc[p] EXCEPT !.pc = "socket"]
    BY <2>1 DEF StartInv, StartTypeOK
  <2>3. proc' = [proc EXCEPT ![p] = proc'[p]]
    BY <2>1, <2>2
  <2>4. proc'[p] \in Process
    <3>1. "socket" \in Pcs BY DEF Pcs
    <3> QED BY <2>2, <3>1 DEF Process
  <2>5. Fits(p)'
    BY <2>1, <2>2 DEF StartInv, StartTypeOK, Process, Fits, At, Entry, PrivateRoot, Directories
  <2>6. proc'[p].pc \in Holding =>
          \A q \in Processes \ {p} : proc[q].pc \in Holding => proc[q].fd # proc'[p].fd
    BY <2>1, <2>2 DEF StartInv, OneHolder, Process, At
  <2> QED BY <2>1, <2>3, <2>4, <2>5, <2>6, Moves
<1> QED BY <1>1, <1>2

\* serve is run.
LEMMA RunStep ==
  ASSUME StartInv, NEW p \in Processes, Run(p)
  PROVE  StartInv'
<1>1. PICK uid \in {"service", "root"}, mask \in {"private", "blind"} :
        proc' = [proc EXCEPT ![p] = [Down EXCEPT !.pc = "policy", !.uid = uid, !.umask = mask]]
  BY DEF Run, Update
<1>2. proc'[p] = [Down EXCEPT !.pc = "policy", !.uid = uid, !.umask = mask]
  BY <1>1 DEF StartInv, StartTypeOK
<1>3. proc' = [proc EXCEPT ![p] = proc'[p]]
  BY <1>1, <1>2
<1>4. proc'[p] \in Process
  BY <1>2 DEF Down, Process, Pcs
<1>5. Fits(p)'
  BY <1>2 DEF Fits, Down, At
<1>6. proc'[p].pc \notin Holding
  BY <1>2 DEF Down
<1> QED BY <1>3, <1>4, <1>5, <1>6, Moves DEF Run

\* prepare_state_root creates the root: nobody can have looked at a path that
\* named nothing.
LEMMA CreateRootStep ==
  ASSUME StartInv, NEW p \in Processes, CreateRoot(p)
  PROVE  StartInv'
<1>1. /\ At(p, "create") /\ proc' = [proc EXCEPT ![p] = [proc[p] EXCEPT !.pc = "inspect"]]
      /\ UNCHANGED <<file, disturbed, budget>>
  BY DEF CreateRoot, Goto, Update
<1>2. proc[p] \in Process /\ proc'[p] = [proc[p] EXCEPT !.pc = "inspect"]
  BY <1>1 DEF StartInv, StartTypeOK
<1>3. proc'[p] \in Process
  <2>1. "inspect" \in Pcs BY DEF Pcs
  <2> QED BY <1>2, <2>1 DEF Process
<1>4. /\ path' \in {0} \cup Dirs /\ (path' = path \/ path = 0)
      /\ dir' \in [Dirs -> Directories]
      /\ \A d \in Dirs : dir'[d].entry = dir[d].entry /\ dir'[d].sock = dir[d].sock
  <2>1. CASE UNCHANGED <<path, dir>> BY <2>1 DEF StartInv, StartTypeOK
  <2>2. CASE path = 0 /\ \E d \in Dirs :
               /\ path' = d
               /\ dir' = [dir EXCEPT ![d].made = TRUE, ![d].owned = proc[p].uid = "service", ![d].private = ~Blind(p)]
    <3>1. PICK d \in Dirs :
            /\ path' = d
            /\ dir' = [dir EXCEPT ![d].made = TRUE, ![d].owned = proc[p].uid = "service", ![d].private = ~Blind(p)]
      BY <2>2
    <3>2. PICK o \in BOOLEAN, b \in BOOLEAN : o = (proc[p].uid = "service") /\ b = ~Blind(p) OBVIOUS
    <3>3. dir' = [dir EXCEPT ![d].made = TRUE, ![d].owned = o, ![d].private = b] BY <3>1, <3>2, Zenon
    <3>4. dir \in [Dirs -> Directories] BY DEF StartInv, StartTypeOK
    <3>5. \A e \in Dirs : dir'[e] = IF e = d THEN [dir[e] EXCEPT !.made = TRUE, !.owned = o, !.private = b] ELSE dir[e]
      BY <3>3, <3>4
    <3>6. ASSUME NEW e \in Dirs PROVE dir'[e] \in Directories
      <4>1. dir[e] \in Directories BY <3>4
      <4>2. [dir[e] EXCEPT !.made = TRUE, !.owned = o, !.private = b] \in Directories BY <4>1 DEF Directories
      <4> QED BY <3>5, <4>1, <4>2
    <3>7. \A e \in Dirs : dir'[e].entry = dir[e].entry /\ dir'[e].sock = dir[e].sock
      BY <3>4, <3>5 DEF Directories
    <3>8. dir' \in [Dirs -> Directories] BY <3>3, <3>4, <3>6
    <3> QED BY <2>2, <3>1, <3>7, <3>8
  <2> QED BY <2>1, <2>2 DEF CreateRoot
<1>5. StartTypeOK'
  BY <1>1, <1>3, <1>4 DEF StartInv, StartTypeOK
<1>6. Fits(p)'
  BY <1>1, <1>2 DEF StartInv, StartTypeOK, Process, Fits, At
<1>7. LeavesUsableEntry' BY <1>1, <1>4 DEF StartInv, LeavesUsableEntry, Safe
<1>8. ~disturbed => \A q \in Processes \ {p} : At(q, "serving") => dir'[proc[q].store].sock = q
  BY <1>4 DEF StartInv, StartTypeOK, Fits, Process, At
<1>9. \A q \in Processes \ {p} : proc'[q] = proc[q]
  BY <1>1 DEF StartInv, StartTypeOK
<1>10. proc'[p].pc \notin Holding BY <1>2 DEF Process
<1> QED BY <1>1, <1>4, <1>5, <1>6, <1>7, <1>8, <1>9, <1>10, ProcessStep

\* ... and makes it private.
LEMMA ChmodRootStep ==
  ASSUME StartInv, NEW p \in Processes, ChmodRoot(p)
  PROVE  StartInv'
<1>1. CASE Refuse(p) BY <1>1, RefuseStep
<1>2. CASE ~Refuse(p)
  <2>1. /\ At(p, "chmod") /\ path \in Dirs
        /\ proc' = [proc EXCEPT ![p] = [proc[p] EXCEPT !.pc = "lstat"]]
        /\ dir' = [dir EXCEPT ![path].private = TRUE]
        /\ UNCHANGED <<path, file, disturbed, budget>>
    BY <1>2, StageOrder DEF ChmodRoot, Goto, Update, StartInv, StartTypeOK
  <2>2. proc[p] \in Process /\ proc'[p] = [proc[p] EXCEPT !.pc = "lstat"]
    BY <2>1 DEF StartInv, StartTypeOK
  <2>3. proc'[p] \in Process
    <3>1. "lstat" \in Pcs BY DEF Pcs
    <3> QED BY <2>2, <3>1 DEF Process
  <2>4. /\ dir' \in [Dirs -> Directories]
        /\ \A d \in Dirs : dir'[d].entry = dir[d].entry /\ dir'[d].sock = dir[d].sock
    <3>1. dir \in [Dirs -> Directories] BY DEF StartInv, StartTypeOK
    <3> QED BY <2>1, <3>1 DEF Directories
  <2>5. StartTypeOK'
    BY <2>1, <2>3, <2>4 DEF StartInv, StartTypeOK
  <2>6. Fits(p)'
    BY <2>1, <2>2 DEF StartInv, StartTypeOK, Process, Fits, At
  <2>7. LeavesUsableEntry' BY <2>1, <2>4 DEF StartInv, LeavesUsableEntry, Safe
  <2>8. ~disturbed => \A q \in Processes \ {p} : At(q, "serving") => dir'[proc[q].store].sock = q
    BY <2>4 DEF StartInv, StartTypeOK, Fits, Process, At
  <2>9. \A q \in Processes \ {p} : proc'[q] = proc[q]
    BY <2>1 DEF StartInv, StartTypeOK
  <2>10. proc'[p].pc \notin Holding BY <2>2 DEF Process
  <2> QED BY <2>1, <2>4, <2>5, <2>6, <2>7, <2>8, <2>9, <2>10, ProcessStep
<1> QED BY <1>1, <1>2

\* open_lock_entry: an entry it creates is private and its own, by the mask and
\* the user that were established before.
LEMMA OpenLockEntryStep ==
  ASSUME StartInv, NEW p \in Processes, OpenLockEntry(p)
  PROVE  StartInv'
<1>1. At(p, "entry") /\ proc[p] \in Process /\ proc[p].ref \in Dirs
  BY DEF OpenLockEntry, StartInv, StartTypeOK, Fits, At
<1>2. CASE Entry(p) = None
  <2>1. PICK f \in Unused :
          /\ dir' = [dir EXCEPT ![proc[p].ref].entry = f]
          /\ file' = [file EXCEPT ![f] = [owned |-> proc[p].uid = "service", private |-> ~Blind(p)]]
          /\ proc' = [proc EXCEPT ![p] = [proc[p] EXCEPT !.fd = f, !.pc = "fchmod"]]
          /\ UNCHANGED <<path, disturbed, budget>>
    BY <1>2 DEF OpenLockEntry, Update
  <2>2. f \in Files /\ \A d \in Dirs : dir[d].entry # f
    BY DEF Unused
  <2>3. proc'[p] = [proc[p] EXCEPT !.fd = f, !.pc = "fchmod"]
    BY <2>1 DEF StartInv, StartTypeOK
  <2>4. proc'[p] \in Process
    <3>1. "fchmod" \in Pcs BY DEF Pcs
    <3> QED BY <1>1, <2>2, <2>3, <3>1 DEF Process
  <2>5. /\ dir' \in [Dirs -> Directories]
        /\ \A d \in Dirs : /\ dir'[d].entry = (IF d = proc[p].ref THEN f ELSE dir[d].entry)
                           /\ dir'[d].sock = dir[d].sock
    BY <1>1, <2>1, <2>2, SetEntry DEF StartInv, StartTypeOK
  <2>6. proc[p].uid = "service" /\ proc[p].umask = "private"
    BY <1>1 DEF StartInv, Fits, At
  <2>7. /\ file' \in [Files -> [owned : BOOLEAN, private : BOOLEAN]]
        /\ \A e \in Files : file'[e] = IF e = f THEN [owned |-> TRUE, private |-> TRUE] ELSE file[e]
    <3>1. (proc[p].uid = "service") = TRUE /\ (~Blind(p)) = TRUE BY <2>6 DEF Blind
    <3>2. file' = [file EXCEPT ![f] = [owned |-> TRUE, private |-> TRUE]] BY <2>1, <3>1
    <3>3. file \in [Files -> [owned : BOOLEAN, private : BOOLEAN]] BY DEF StartInv, StartTypeOK
    <3> QED BY <2>2, <3>2, <3>3, SetFile
  <2>8. StartTypeOK'
    BY <2>1, <2>4, <2>5, <2>7 DEF StartInv, StartTypeOK
  <2>9. Fits(p)'
    BY <1>1, <2>1, <2>2, <2>3, <2>5 DEF StartInv, StartTypeOK, Process, Fits, At, Entry
  <2>10. LeavesUsableEntry'
    BY <2>1, <2>2, <2>5, <2>7 DEF StartInv, StartTypeOK, Directories, LeavesUsableEntry, Safe
  <2>11. ~disturbed => \A q \in Processes \ {p} : At(q, "serving") => dir'[proc[q].store].sock = q
    BY <2>5 DEF StartInv, StartTypeOK, Fits, Process, At
  <2>12. \A q \in Processes \ {p} : proc'[q] = proc[q]
    BY <2>1 DEF StartInv, StartTypeOK
  <2>13. proc'[p].pc \notin Holding BY <1>1, <2>3 DEF Process
  <2>14. \A d \in Dirs : dir[d].entry = None \/ dir'[d].entry = dir[d].entry
    BY <1>2, <2>5 DEF Entry
  <2> QED BY <2>1, <2>8, <2>9, <2>10, <2>11, <2>12, <2>13, <2>14, ProcessStep
<1>3. CASE Entry(p) # None
  <2>1. /\ proc' = [proc EXCEPT ![p] = [proc[p] EXCEPT !.pc = "stat"]]
        /\ UNCHANGED <<path, dir, file, disturbed, budget>>
    BY <1>3 DEF OpenLockEntry, Goto, Update
  <2>2. proc'[p] = [proc[p] EXCEPT !.pc = "stat"]
    BY <2>1 DEF StartInv, StartTypeOK
  <2>3. proc' = [proc EXCEPT ![p] = proc'[p]]
    BY <2>1, <2>2
  <2>4. proc'[p] \in Process
    <3>1. "stat" \in Pcs BY DEF Pcs
    <3> QED BY <1>1, <2>2, <3>1 DEF Process
  <2>5. Fits(p)'
    BY <1>1, <2>1, <2>2 DEF StartInv, StartTypeOK, Process, Fits, At
  <2>6. proc'[p].pc \notin Holding BY <1>1, <2>2 DEF Process
  <2> QED BY <2>1, <2>3, <2>4, <2>5, <2>6, Moves
<1> QED BY <1>2, <1>3

\* The created entry is made private.
LEMMA CreatedLockEntryStep ==
  ASSUME StartInv, NEW p \in Processes, CreatedLockEntry(p)
  PROVE  StartInv'
<1>1. CASE Refuse(p) BY <1>1, RefuseStep
<1>2. CASE ~Refuse(p)
  <2>1. /\ At(p, "fchmod") /\ proc[p].fd \in Files
        /\ proc' = [proc EXCEPT ![p] = [proc[p] EXCEPT !.pc = "flock"]]
        /\ file' = [file EXCEPT ![proc[p].fd].private = TRUE]
        /\ UNCHANGED <<path, dir, disturbed, budget>>
    BY <1>2 DEF CreatedLockEntry, Goto, Update, StartInv, Fits, At
  <2>2. proc[p] \in Process /\ proc'[p] = [proc[p] EXCEPT !.pc = "flock"]
    BY <2>1 DEF StartInv, StartTypeOK
  <2>3. proc'[p] \in Process
    <3>1. "flock" \in Pcs BY DEF Pcs
    <3> QED BY <2>2, <3>1 DEF Process
  <2>4. /\ file' \in [Files -> [owned : BOOLEAN, private : BOOLEAN]]
        /\ \A e \in Files : file'[e].owned = file[e].owned /\ (file[e].private => file'[e].private)
    <3>1. file \in [Files -> [owned : BOOLEAN, private : BOOLEAN]] BY DEF StartInv, StartTypeOK
    <3>2. /\ file' \in [Files -> [owned : BOOLEAN, private : BOOLEAN]]
          /\ \A e \in Files : file'[e].owned = file[e].owned /\ file'[e].private = (e = proc[p].fd \/ file[e].private)
      BY <2>1, <3>1
    <3> QED BY <3>2
  <2>5. StartTypeOK'
    BY <2>1, <2>3, <2>4 DEF StartInv, StartTypeOK
  <2>6. Fits(p)'
    BY <2>1, <2>2 DEF StartInv, StartTypeOK, Process, Fits, At, Entry
  <2>7. LeavesUsableEntry'
    BY <2>1, <2>4 DEF StartInv, StartTypeOK, Directories, LeavesUsableEntry, Safe
  <2>8. ~disturbed => \A q \in Processes \ {p} : At(q, "serving") => dir'[proc[q].store].sock = q
    BY <2>1 DEF StartInv, StartTypeOK, Fits, Process, At
  <2>9. \A q \in Processes \ {p} : proc'[q] = proc[q]
    BY <2>1 DEF StartInv, StartTypeOK
  <2>10. proc'[p].pc \notin Holding BY <2>2 DEF Process
  <2> QED BY <2>1, <2>5, <2>6, <2>7, <2>8, <2>9, <2>10, ProcessStep
<1> QED BY <1>1, <1>2

\* bind_socket looks for a socket.
LEMMA InspectSocketStep ==
  ASSUME StartInv, NEW p \in Processes, InspectSocket(p)
  PROVE  StartInv'
<1>1. CASE Refuse(p) BY <1>1, RefuseStep
<1>2. CASE ~Refuse(p)
  <2>1. PICK pc \in {"bind", "remove"} :
          /\ At(p, "socket")
          /\ proc' = [proc EXCEPT ![p] = [proc[p] EXCEPT !.pc = pc]]
          /\ UNCHANGED <<path, dir, file, disturbed, budget>>
    BY <1>2 DEF InspectSocket, finds_socket, Goto, Update
  <2>2. proc[p] \in Process /\ proc'[p] = [proc[p] EXCEPT !.pc = pc]
    BY <2>1 DEF StartInv, StartTypeOK
  <2>3. proc' = [proc EXCEPT ![p] = proc'[p]]
    BY <2>1, <2>2
  <2>4. proc'[p] \in Process
    <3>1. pc \in Pcs BY DEF Pcs
    <3> QED BY <2>2, <3>1 DEF Process
  <2>5. Fits(p)'
    BY <2>1, <2>2 DEF StartInv, StartTypeOK, Process, Fits, At, Entry
  <2>6. proc'[p].pc \in Holding =>
          \A q \in Processes \ {p} : proc[q].pc \in Holding => proc[q].fd # proc'[p].fd
    BY <2>1, <2>2 DEF StartInv, OneHolder, Process, At
  <2> QED BY <2>1, <2>3, <2>4, <2>5, <2>6, Moves
<1> QED BY <1>1, <1>2

\* Removing and binding a socket in the root that is locked touches no other
\* serving process: it would be using the same store.
LEMMA SocketStep ==
  ASSUME StartInv, NEW p \in Processes, NEW pc \in {"bind", "serving"}, NEW sock \in Processes \cup {None, Stale},
         proc[p].pc \in {"remove", "bind"}, path \in Dirs,
         proc' = [proc EXCEPT ![p] = [proc[p] EXCEPT !.pc = pc]],
         dir' = [dir EXCEPT ![path].sock = sock],
         pc = "serving" => sock = p,
         UNCHANGED <<path, file, disturbed, budget>>
  PROVE  StartInv'
<1>1. proc[p] \in Process /\ proc'[p] = [proc[p] EXCEPT !.pc = pc]
  BY DEF StartInv, StartTypeOK
<1>2. proc'[p] \in Process
  <2>1. pc \in Pcs BY DEF Pcs
  <2> QED BY <1>1, <2>1 DEF Process
<1>3. /\ dir' \in [Dirs -> Directories]
      /\ \A d \in Dirs : dir'[d].entry = dir[d].entry /\ dir'[d].sock = (IF d = path THEN sock ELSE dir[d].sock)
  <2>1. dir \in [Dirs -> Directories] BY DEF StartInv, StartTypeOK
  <2>2. \A d \in Dirs : dir'[d] = IF d = path THEN [dir[d] EXCEPT !.sock = sock] ELSE dir[d]
    BY <2>1
  <2>3. ASSUME NEW d \in Dirs
        PROVE  /\ dir'[d] \in Directories
               /\ dir'[d].entry = dir[d].entry
               /\ dir'[d].sock = (IF d = path THEN sock ELSE dir[d].sock)
    <3>1. dir[d] \in Directories BY <2>1
    <3>2. LET D == [dir[d] EXCEPT !.sock = sock] IN
          D \in Directories /\ D.entry = dir[d].entry /\ D.sock = sock
      BY <3>1 DEF Directories
    <3>3. CASE d = path
      <4>1. dir'[d] = [dir[d] EXCEPT !.sock = sock] BY <2>2, <3>3
      <4> QED BY <3>2, <3>3, <4>1, Zenon
    <3>4. CASE d # path
      <4>1. dir'[d] = dir[d] BY <2>2, <3>4
      <4>2. dir'[d].sock = (IF d = path THEN sock ELSE dir[d].sock) BY <3>4, <4>1
      <4> QED BY <3>1, <4>1, <4>2, Zenon
    <3> QED BY <3>3, <3>4
  <2> QED BY <2>1, <2>3
<1>4. StartTypeOK'
  BY <1>2, <1>3 DEF StartInv, StartTypeOK
<1>5. Fits(p)'
  BY <1>1, <1>3 DEF StartInv, StartTypeOK, Process, Fits, At, Entry
<1>6. LeavesUsableEntry'
  BY <1>3 DEF StartInv, LeavesUsableEntry, Safe
<1>7. ~disturbed => \A q \in Processes \ {p} : At(q, "serving") => dir'[proc[q].store].sock = q
  <2>1. ASSUME ~disturbed, NEW q \in Processes \ {p}, At(q, "serving")
        PROVE  proc[q].store \in Dirs /\ proc[q].store # path /\ dir[proc[q].store].sock = q
    <3>1. Fits(q) /\ Fits(p) /\ proc[q] \in Process BY DEF StartInv, StartTypeOK
    <3>2. proc[p].store = path BY <2>1, <3>1 DEF Fits
    <3>3. proc[q].store # proc[p].store
      BY <2>1, <3>1, <3>2, StartInvSafe DEF StartSafety, OneStoreUser
    <3> QED BY <2>1, <3>1, <3>2, <3>3 DEF Fits, At, Process
  <2> QED BY <2>1, <1>3
<1>8. \A q \in Processes \ {p} : proc'[q] = proc[q]
  BY DEF StartInv, StartTypeOK
<1>9. \A q \in Processes \ {p} : proc[q].pc \in Holding => proc[q].fd # proc'[p].fd
  BY <1>1 DEF StartInv, OneHolder, Process
<1> QED BY <1>3, <1>4, <1>5, <1>6, <1>7, <1>8, <1>9, ProcessStep

\* A stale socket is removed.
LEMMA RemoveSocketStep ==
  ASSUME StartInv, NEW p \in Processes, RemoveSocket(p)
  PROVE  StartInv'
BY RefuseStep, SocketStep, Zenon DEF RemoveSocket, Goto, Update, At, StartInv, StartTypeOK

\* The socket is bound.
LEMMA BindSocketStep ==
  ASSUME StartInv, NEW p \in Processes, BindSocket(p)
  PROVE  StartInv'
BY RefuseStep, SocketStep, StageOrder, Zenon DEF BindSocket, Goto, Update, At, StartInv, StartTypeOK

\* A process is stopped.
LEMMA StopStep ==
  ASSUME StartInv, NEW p \in Processes, Stop(p)
  PROVE  StartInv'
<1>1. /\ budget' \in [stops : Nat, rebinds : Nat, replaced : 0..MaxReplaced]
      /\ budget'.replaced = budget.replaced
  BY DEF Stop, StartInv, StartTypeOK
<1> QED BY <1>1, EndedStep DEF Stop

\* The path comes to name another directory.
LEMMA RebindPathStep ==
  ASSUME StartInv, RebindPath
  PROVE  StartInv'
<1>1. /\ path' \in {0} \cup Dirs
      /\ disturbed' = (disturbed \/ \E p \in Processes : proc[p].pc \in LookedAtPath \ {"serving"})
      /\ UNCHANGED <<dir, file, proc>>
  BY DEF RebindPath
<1>2. /\ budget' \in [stops : Nat, rebinds : Nat, replaced : 0..MaxReplaced]
      /\ budget'.replaced = budget.replaced
  BY DEF RebindPath, StartInv, StartTypeOK
<1>3. disturbed' \in BOOLEAN BY <1>1 DEF StartInv, StartTypeOK
<1>4. StartTypeOK' BY <1>1, <1>2, <1>3 DEF StartInv, StartTypeOK
<1>5. ASSUME NEW p \in Processes PROVE Fits(p)'
  <2>1. ~disturbed' => ~disturbed /\ proc[p].pc \notin LookedAtPath \ {"serving"} BY <1>1
  <2>2. Fits(p) BY DEF StartInv
  <2> QED BY <1>1, <2>1, <2>2 DEF Fits, Entry, At
<1>6. OneHolder' /\ LeavesUsableEntry'
  BY <1>1, <1>2 DEF StartInv, OneHolder, LeavesUsableEntry, Safe
<1> QED BY <1>4, <1>5, <1>6 DEF StartInv

\* The lock entry is replaced.
LEMMA ReplaceEntryStep ==
  ASSUME StartInv, ReplaceEntry
  PROVE  StartInv'
<1>1. /\ budget' \in [stops : Nat, rebinds : Nat, replaced : 0..MaxReplaced]
      /\ budget'.replaced # MaxReplaced
  BY StartUpAssumption DEF ReplaceEntry, StartInv, StartTypeOK
<1>2. /\ dir' \in [Dirs -> Directories]
      /\ \A d \in Dirs : dir'[d].sock = dir[d].sock
      /\ file' \in [Files -> [owned : BOOLEAN, private : BOOLEAN]]
  <2>1. /\ dir \in [Dirs -> Directories]
        /\ file \in [Files -> [owned : BOOLEAN, private : BOOLEAN]]
    BY DEF StartInv, StartTypeOK
  <2>2. PICK d \in Dirs :
          \/ dir' = [dir EXCEPT ![d].entry = None] /\ UNCHANGED file
          \/ \E f \in Unused, safe \in BOOLEAN :
               /\ dir' = [dir EXCEPT ![d].entry = f]
               /\ file' = [file EXCEPT ![f] = [owned |-> TRUE, private |-> safe]]
    BY DEF ReplaceEntry
  <2>3. CASE dir' = [dir EXCEPT ![d].entry = None] /\ UNCHANGED file
    BY <2>1, <2>3, SetEntry
  <2>4. CASE \E f \in Unused, safe \in BOOLEAN :
               /\ dir' = [dir EXCEPT ![d].entry = f]
               /\ file' = [file EXCEPT ![f] = [owned |-> TRUE, private |-> safe]]
    <3>1. PICK f \in Unused, safe \in BOOLEAN :
               /\ dir' = [dir EXCEPT ![d].entry = f]
               /\ file' = [file EXCEPT ![f] = [owned |-> TRUE, private |-> safe]]
      BY <2>4
    <3>2. f \in Files BY DEF Unused
    <3>3. file' \in [Files -> [owned : BOOLEAN, private : BOOLEAN]]
      BY <2>1, <3>1, <3>2, SetFile
    <3> QED BY <2>1, <3>1, <3>2, <3>3, SetEntry
  <2> QED BY <2>2, <2>3, <2>4
<1>3. StartTypeOK' BY <1>1, <1>2 DEF ReplaceEntry, StartInv, StartTypeOK
<1>4. ASSUME NEW p \in Processes PROVE Fits(p)'
  <2>1. proc[p].pc \notin PastCheck BY DEF ReplaceEntry
  <2>2. Fits(p) BY DEF StartInv
  <2> QED BY <2>1, <2>2 DEF ReplaceEntry, Fits, At
<1>5. OneHolder' BY DEF ReplaceEntry, StartInv, OneHolder
<1>6. LeavesUsableEntry' BY <1>1 DEF LeavesUsableEntry
<1> QED BY <1>3, <1>4, <1>5, <1>6 DEF StartInv

\* The invariant is inductive.
LEMMA StartStep == StartInv /\ [StartNext]_startVars => StartInv'
<1> SUFFICES ASSUME StartInv, [StartNext]_startVars PROVE StartInv'
  OBVIOUS
<1>1. CASE UNCHANGED startVars
  <2>1. StartTypeOK' BY <1>1 DEF startVars, StartInv, StartTypeOK
  <2>2. ASSUME NEW p \in Processes PROVE Fits(p)'
    BY <1>1 DEF startVars, StartInv, Fits, Entry, At
  <2>3. OneHolder' /\ LeavesUsableEntry'
    BY <1>1 DEF startVars, StartInv, OneHolder, LeavesUsableEntry, Safe
  <2> QED BY <2>1, <2>2, <2>3 DEF StartInv
<1>2. ASSUME NEW p \in Processes, Step(p) PROVE StartInv'
  BY <1>2, PolicyStep, NonRootStep, CreateRootStep, InspectRootStep, ChmodRootStep, InspectPrivateRootStep,
     OpenPrivateRootStep, OpenLockEntryStep, CreatedLockEntryStep, InspectLockEntryStep,
     OpenExistingLockEntryStep, InspectLockEntryAgainStep, AcquireStep, OpenStoreStep, RecoverStep,
     InspectSocketStep, RemoveSocketStep, BindSocketStep DEF Step
<1> QED BY <1>1, <1>2, RunStep, StopStep, RebindPathStep, ReplaceEntryStep DEF StartNext

\* Starting, for every number of processes, inodes, stops, changes of the path
\* and replaced entries: two processes never own one root; as long as the path
\* stays put none opens or recovers a store another is using and a serving one
\* is reached through its own socket; and wherever a start stops, the next one
\* accepts the lock entry it left (serve, StateOwnerLock::acquire, bind_socket).
THEOREM Starting == StartSpec => []StartSafety
<1>1. StartInit => StartInv BY InitInv
<1>2. StartInv => StartSafety BY StartInvSafe
<1> QED BY <1>1, <1>2, StartStep, PTL DEF StartSpec

-----------------------------------------------------------------------------
(***************************************************************************)
(* Migrations.  A transaction works on the committed store until the first *)
(* version it lacks, and from there on a store whose journal and objects it *)
(* has extended in step (WorkInv).                                         *)
(***************************************************************************)

Size(v) == IF v = 4 THEN 4 ELSE IF v \in {3, 5} THEN 2 ELSE 1

\* How many statements a migration has, and which.
LEMMA Sizes == \A v \in 1..5 : Len(PRODUCT_MIGRATION_CATALOG[v]) = Size(v) /\ Size(v) \in 1..4
<1> DEFINE C == PRODUCT_MIGRATION_CATALOG
<1>1. Len(C[1]) = 1 /\ Len(C[2]) = 1 /\ Len(C[3]) = 2 /\ Len(C[4]) = 4 /\ Len(C[5]) = 2
  BY DEF PRODUCT_MIGRATION_CATALOG
<1>2. \A v \in 1..5 : v = 1 \/ v = 2 \/ v = 3 \/ v = 4 \/ v = 5 OBVIOUS
<1>3. ASSUME NEW v \in 1..5 PROVE Len(C[v]) = Size(v) 
  <2>1. Size(1) = 1 /\ Size(2) = 1 /\ Size(3) = 2 /\ Size(4) = 4 /\ Size(5) = 2 BY DEF Size
  <2> HIDE DEF C
  <2> QED BY <1>1, <1>2, <2>1, Zenon
<1>4. \A v \in 1..5 : Size(v) \in 1..4 BY DEF Size
<1> QED BY <1>3, <1>4

LEMMA Catalog ==
  LET C == PRODUCT_MIGRATION_CATALOG IN
  /\ C[1][1] = Make("schema_migrations") /\ C[2][1] = Make("meta")
  /\ C[3][1] = Make("m2_messages") /\ C[3][2] = Make("m2_due")
  /\ C[4][1] = [do |-> "rename", object |-> "m2_messages"]
  /\ C[4][2] = [do |-> "columns", object |-> "m3_messages"]
  /\ C[4][3] = [do |-> "address", object |-> "m3_messages"]
  /\ C[4][4] = Make("m3_due")
  /\ C[5][1] = Make("m4_control") /\ C[5][2] = Make("m4_receipts")
BY DEF PRODUCT_MIGRATION_CATALOG

\* What a statement does to a store.
LEMMA MakeApplied ==
  ASSUME NEW d \in Stores, NEW o \in AllObjects
  PROVE  /\ Applied(Make(o), d) \in Stores
         /\ Applied(Make(o), d).objects = d.objects \cup {o}
         /\ Applied(Make(o), d).journal = d.journal
         /\ Applied(Make(o), d).rows = d.rows
         /\ Applied(Make(o), d).addressed = d.addressed
<1>1. Applied(Make(o), d) = [d EXCEPT !.objects = d.objects \cup {o}]
  BY DEF Applied, Make
<1> QED BY <1>1 DEF Stores

LEMMA RenameApplied ==
  ASSUME NEW d \in Stores
  PROVE  LET made == Applied([do |-> "rename", object |-> "m2_messages"], d) IN
         /\ made \in Stores /\ made.objects = (d.objects \ {"m2_messages"}) \cup {"m3_messages"}
         /\ made.journal = d.journal /\ made.rows = d.rows /\ made.addressed = d.addressed
<1>1. Applied([do |-> "rename", object |-> "m2_messages"], d)
        = [d EXCEPT !.objects = (d.objects \ {"m2_messages"}) \cup {"m3_messages"}]
  BY DEF Applied
<1>2. "m3_messages" \in AllObjects BY DEF AllObjects
<1> QED BY <1>1, <1>2 DEF Stores

LEMMA ColumnsApplied ==
  ASSUME NEW d \in Stores
  PROVE  LET made == Applied([do |-> "columns", object |-> "m3_messages"], d) IN
         /\ made \in Stores /\ made.objects = d.objects \cup {"columns"}
         /\ made.journal = d.journal /\ made.rows = d.rows /\ made.addressed = d.addressed
<1>1. Applied([do |-> "columns", object |-> "m3_messages"], d) = [d EXCEPT !.objects = d.objects \cup {"columns"}]
  BY DEF Applied
<1>2. "columns" \in AllObjects BY DEF AllObjects
<1> QED BY <1>1, <1>2 DEF Stores

LEMMA AddressApplied ==
  ASSUME NEW d \in Stores
  PROVE  LET made == Applied([do |-> "address", object |-> "m3_messages"], d) IN
         /\ made \in Stores /\ made.objects = d.objects
         /\ made.journal = d.journal /\ made.rows = d.rows /\ made.addressed = d.rows
<1>1. Applied([do |-> "address", object |-> "m3_messages"], d) = [d EXCEPT !.addressed = d.rows]
  BY DEF Applied
<1> QED BY <1>1 DEF Stores

\* The objects after each migration, and within one.
LEMMA ObjectSets ==
  /\ Installed(0) = {}
  /\ Installed(1) = {"schema_migrations"}
  /\ Installed(2) = {"schema_migrations", "meta"}
  /\ Installed(3) = {"schema_migrations", "meta", "m2_messages", "m2_due"}
  /\ Installed(4) = {"schema_migrations", "meta", "m3_messages", "m2_due", "m3_due", "columns"}
  /\ Installed(5) = {"schema_migrations", "meta", "m3_messages", "m2_due", "m3_due", "columns", "m4_control", "m4_receipts"}
BY DEF Installed, Objects

LEMMA UnderwaySets ==
  /\ \A v \in Nat : Underway(v, 1) = Installed(v - 1)
  /\ Underway(3, 2) = {"schema_migrations", "meta", "m2_messages"}
  /\ Underway(4, 2) = {"schema_migrations", "meta", "m3_messages", "m2_due"}
  /\ Underway(4, 3) = {"schema_migrations", "meta", "m3_messages", "m2_due", "columns"}
  /\ Underway(4, 4) = {"schema_migrations", "meta", "m3_messages", "m2_due", "columns"}
  /\ Underway(5, 2) = {"schema_migrations", "meta", "m3_messages", "m2_due", "m3_due", "columns", "m4_control"}
BY ObjectSets DEF Underway

\* One statement takes a migration one position further, the last one to its
\* end; v4 gives the old rows their destination before it ends.
LEMMA OneStatement ==
  ASSUME NEW d \in Stores, NEW v \in 1..5, NEW n \in 1..4, <<v, n>> \in Positions, d.objects = Underway(v, n)
  PROVE  LET made == Applied(PRODUCT_MIGRATION_CATALOG[v][n], d)
         IN /\ made \in Stores /\ made.journal = d.journal /\ made.rows = d.rows
            /\ made.addressed = (IF v = 4 /\ n = 3 THEN d.rows ELSE d.addressed)
            /\ n < Size(v) => made.objects = Underway(v, n + 1) /\ <<v, n + 1>> \in Positions
            /\ n >= Size(v) => made.objects = Installed(v)
<1> DEFINE made == Applied(PRODUCT_MIGRATION_CATALOG[v][n], d)
           Done == /\ made \in Stores /\ made.journal = d.journal /\ made.rows = d.rows
                   /\ made.addressed = (IF v = 4 /\ n = 3 THEN d.rows ELSE d.addressed)
                   /\ n < Size(v) => made.objects = Underway(v, n + 1) /\ <<v, n + 1>> \in Positions
                   /\ n >= Size(v) => made.objects = Installed(v)
<1> SUFFICES Done OBVIOUS
<1>1. CASE v = 1 /\ n = 1
  <2>1. Size(v) = 1 /\ PRODUCT_MIGRATION_CATALOG[v][n] = Make("schema_migrations") BY <1>1, Catalog DEF Size
  <2>2. made = Applied(Make("schema_migrations"), d) BY <2>1
  <2>3. "schema_migrations" \in AllObjects BY DEF AllObjects
  <2>4. /\ made \in Stores /\ made.journal = d.journal /\ made.rows = d.rows
        /\ made.addressed = d.addressed /\ made.objects = d.objects \cup {"schema_migrations"}
    BY <2>2, <2>3, MakeApplied
  <2>5. made.objects = Installed(1)
    BY <1>1, <2>4, ObjectSets, UnderwaySets
  <2> HIDE DEF made
  <2> QED BY <1>1, <2>1, <2>4, <2>5 DEF Positions
<1>2. CASE v = 2 /\ n = 1
  <2>1. Size(v) = 1 /\ PRODUCT_MIGRATION_CATALOG[v][n] = Make("meta") BY <1>2, Catalog DEF Size
  <2>2. made = Applied(Make("meta"), d) BY <2>1
  <2>3. "meta" \in AllObjects BY DEF AllObjects
  <2>4. /\ made \in Stores /\ made.journal = d.journal /\ made.rows = d.rows
        /\ made.addressed = d.addressed /\ made.objects = d.objects \cup {"meta"}
    BY <2>2, <2>3, MakeApplied
  <2>5. made.objects = Installed(2)
    BY <1>2, <2>4, ObjectSets, UnderwaySets
  <2> HIDE DEF made
  <2> QED BY <1>2, <2>1, <2>4, <2>5 DEF Positions
<1>3. CASE v = 3 /\ n = 1
  <2>1. Size(v) = 2 /\ PRODUCT_MIGRATION_CATALOG[v][n] = Make("m2_messages") BY <1>3, Catalog DEF Size
  <2>2. made = Applied(Make("m2_messages"), d) BY <2>1
  <2>3. "m2_messages" \in AllObjects BY DEF AllObjects
  <2>4. /\ made \in Stores /\ made.journal = d.journal /\ made.rows = d.rows
        /\ made.addressed = d.addressed /\ made.objects = d.objects \cup {"m2_messages"}
    BY <2>2, <2>3, MakeApplied
  <2>5. made.objects = Underway(3, 2)
    BY <1>3, <2>4, ObjectSets, UnderwaySets
  <2> HIDE DEF made
  <2> QED BY <1>3, <2>1, <2>4, <2>5 DEF Positions
<1>4. CASE v = 3 /\ n = 2
  <2>1. Size(v) = 2 /\ PRODUCT_MIGRATION_CATALOG[v][n] = Make("m2_due") BY <1>4, Catalog DEF Size
  <2>2. made = Applied(Make("m2_due"), d) BY <2>1
  <2>3. "m2_due" \in AllObjects BY DEF AllObjects
  <2>4. /\ made \in Stores /\ made.journal = d.journal /\ made.rows = d.rows
        /\ made.addressed = d.addressed /\ made.objects = d.objects \cup {"m2_due"}
    BY <2>2, <2>3, MakeApplied
  <2>5. made.objects = Installed(3)
    BY <1>4, <2>4, ObjectSets, UnderwaySets
  <2> HIDE DEF made
  <2> QED BY <1>4, <2>1, <2>4, <2>5 DEF Positions
<1>5. CASE v = 4 /\ n = 1
  <2>1. Size(v) = 4 /\ PRODUCT_MIGRATION_CATALOG[v][n] = [do |-> "rename", object |-> "m2_messages"] BY <1>5, Catalog DEF Size
  <2>2. made = Applied([do |-> "rename", object |-> "m2_messages"], d) BY <2>1
  <2>4. /\ made \in Stores /\ made.journal = d.journal /\ made.rows = d.rows
        /\ made.addressed = d.addressed /\ made.objects = (d.objects \ {"m2_messages"}) \cup {"m3_messages"}
    BY <2>2, RenameApplied
  <2>5. made.objects = Underway(4, 2)
    BY <1>5, <2>4, ObjectSets, UnderwaySets
  <2> HIDE DEF made
  <2> QED BY <1>5, <2>1, <2>4, <2>5 DEF Positions
<1>6. CASE v = 4 /\ n = 2
  <2>1. Size(v) = 4 /\ PRODUCT_MIGRATION_CATALOG[v][n] = [do |-> "columns", object |-> "m3_messages"] BY <1>6, Catalog DEF Size
  <2>2. made = Applied([do |-> "columns", object |-> "m3_messages"], d) BY <2>1
  <2>4. /\ made \in Stores /\ made.journal = d.journal /\ made.rows = d.rows
        /\ made.addressed = d.addressed /\ made.objects = d.objects \cup {"columns"}
    BY <2>2, ColumnsApplied
  <2>5. made.objects = Underway(4, 3)
    BY <1>6, <2>4, ObjectSets, UnderwaySets
  <2> HIDE DEF made
  <2> QED BY <1>6, <2>1, <2>4, <2>5 DEF Positions
<1>7. CASE v = 4 /\ n = 3
  <2>1. Size(v) = 4 /\ PRODUCT_MIGRATION_CATALOG[v][n] = [do |-> "address", object |-> "m3_messages"] BY <1>7, Catalog DEF Size
  <2>2. made = Applied([do |-> "address", object |-> "m3_messages"], d) BY <2>1
  <2>4. /\ made \in Stores /\ made.journal = d.journal /\ made.rows = d.rows
        /\ made.addressed = d.rows /\ made.objects = d.objects
    BY <2>2, AddressApplied
  <2>5. made.objects = Underway(4, 4)
    BY <1>7, <2>4, ObjectSets, UnderwaySets
  <2> HIDE DEF made
  <2> QED BY <1>7, <2>1, <2>4, <2>5 DEF Positions
<1>8. CASE v = 4 /\ n = 4
  <2>1. Size(v) = 4 /\ PRODUCT_MIGRATION_CATALOG[v][n] = Make("m3_due") BY <1>8, Catalog DEF Size
  <2>2. made = Applied(Make("m3_due"), d) BY <2>1
  <2>3. "m3_due" \in AllObjects BY DEF AllObjects
  <2>4. /\ made \in Stores /\ made.journal = d.journal /\ made.rows = d.rows
        /\ made.addressed = d.addressed /\ made.objects = d.objects \cup {"m3_due"}
    BY <2>2, <2>3, MakeApplied
  <2>5. made.objects = Installed(4)
    BY <1>8, <2>4, ObjectSets, UnderwaySets
  <2> HIDE DEF made
  <2> QED BY <1>8, <2>1, <2>4, <2>5 DEF Positions
<1>9. CASE v = 5 /\ n = 1
  <2>1. Size(v) = 2 /\ PRODUCT_MIGRATION_CATALOG[v][n] = Make("m4_control") BY <1>9, Catalog DEF Size
  <2>2. made = Applied(Make("m4_control"), d) BY <2>1
  <2>3. "m4_control" \in AllObjects BY DEF AllObjects
  <2>4. /\ made \in Stores /\ made.journal = d.journal /\ made.rows = d.rows
        /\ made.addressed = d.addressed /\ made.objects = d.objects \cup {"m4_control"}
    BY <2>2, <2>3, MakeApplied
  <2>5. made.objects = Underway(5, 2)
    BY <1>9, <2>4, ObjectSets, UnderwaySets
  <2> HIDE DEF made
  <2> QED BY <1>9, <2>1, <2>4, <2>5 DEF Positions
<1>10. CASE v = 5 /\ n = 2
  <2>1. Size(v) = 2 /\ PRODUCT_MIGRATION_CATALOG[v][n] = Make("m4_receipts") BY <1>10, Catalog DEF Size
  <2>2. made = Applied(Make("m4_receipts"), d) BY <2>1
  <2>3. "m4_receipts" \in AllObjects BY DEF AllObjects
  <2>4. /\ made \in Stores /\ made.journal = d.journal /\ made.rows = d.rows
        /\ made.addressed = d.addressed /\ made.objects = d.objects \cup {"m4_receipts"}
    BY <2>2, <2>3, MakeApplied
  <2>5. made.objects = Installed(5)
    BY <1>10, <2>4, ObjectSets, UnderwaySets
  <2> HIDE DEF made
  <2> QED BY <1>10, <2>1, <2>4, <2>5 DEF Positions
<1> QED BY <1>1, <1>2, <1>3, <1>4, <1>5, <1>6, <1>7, <1>8, <1>9, <1>10 DEF Positions

\* The highest of an unbroken run.
LEMMA HighestRun ==
  ASSUME NEW d, NEW h \in 1..5, Recorded(d) = 1..h
  PROVE  Highest(d) = h
BY DEF Highest

\* The invariant gives MigrationSafety.
LEMMA MigrationInvSafe ==
  ASSUME MigrationInv PROVE MigrationSafety
<1>1. RecordedIsInstalled
  <2>1. ASSUME Recorded(db) \subseteq 1..5
        PROVE  db.objects = IF Recorded(db) = {} THEN {} ELSE Objects(Highest(db))
    <3>1. PICK h \in 0..5 : Recorded(db) = 1..h /\ db.objects = Installed(h)
      BY <2>1 DEF MigrationInv, StoreInv
    <3>2. CASE h = 0 BY <3>1, <3>2 DEF Installed
    <3>3. CASE h # 0 BY <3>1, <3>3, HighestRun DEF Installed
    <3> QED BY <3>2, <3>3
  <2> QED BY <2>1 DEF MigrationInv, RecordedIsInstalled
<1>2. MessagesKept BY DEF MigrationInv, StoreInv, MessagesKept
<1> QED BY <1>1, <1>2 DEF MigrationInv, MigrationSafety

\* The stores there are at first.
LEMMA PinnedJournal ==
  ASSUME NEW v \in 1..6 PROVE Pinned(v) \in Journals /\ DOMAIN Pinned(v) = 1..v
<1>1. Pinned(v) \in [1..v -> {"pinned", "other"}] /\ DOMAIN Pinned(v) = 1..v BY DEF Pinned
<1>2. 1..v \in SUBSET (1..6) OBVIOUS
<1> QED BY <1>1, <1>2 DEF Journals

LEMMA StoreOfInv ==
  ASSUME NEW v \in 2..5, NEW j \in Journals, NEW rows \in SUBSET Messages,
         DOMAIN j = 1..v \/ {1, 2, 6} \subseteq DOMAIN j
  PROVE  StoreOf(v, j, rows) \in Stores /\ StoreInv(StoreOf(v, j, rows))
<1>1. StoreOf(v, j, rows) = [journal |-> j, objects |-> Installed(v), rows |-> rows, addressed |-> IF v >= 4 THEN rows ELSE {}]
  BY DEF StoreOf, Installed
<1>2. Installed(v) \in SUBSET AllObjects /\ ("m3_messages" \in Installed(v) => v >= 4)
  <2>1. v = 2 \/ v = 3 \/ v = 4 \/ v = 5 OBVIOUS
  <2> QED BY <2>1, ObjectSets DEF AllObjects
<1>3. StoreOf(v, j, rows) \in Stores BY <1>1, <1>2 DEF Stores
<1>4. StoreInv(StoreOf(v, j, rows))
  <2>1. CASE DOMAIN j = 1..v
    <3>1. 6 \notin DOMAIN j /\ v \in 0..5 BY <2>1
    <3> QED BY <1>1, <1>2, <2>1, <3>1 DEF StoreInv, Recorded
  <2>2. CASE {1, 2, 6} \subseteq DOMAIN j BY <1>1, <1>2, <2>2 DEF StoreInv, Recorded
  <2> QED BY <2>1, <2>2
<1> QED BY <1>3, <1>4

\* The invariant holds of them.
LEMMA MigrationInitInv == ASSUME MigrationInit PROVE MigrationInv
<1>1. db \in Stores /\ StoreInv(db)
  <2>1. CASE db = Blank
    <3>1. <<>> \in [{} -> {"pinned", "other"}] /\ DOMAIN <<>> = {} OBVIOUS
    <3>2. <<>> \in Journals BY <3>1 DEF Journals
    <3>3. db \in Stores BY <2>1, <3>2 DEF Stores, Blank
    <3>4. Recorded(db) = 1..0 /\ db.objects = Installed(0) BY <2>1, <3>1 DEF Recorded, Blank, Installed
    <3> QED BY <2>1, <3>3, <3>4 DEF StoreInv, Blank
  <2>2. CASE db = StoreOf(2, Pinned(2), {}) BY <2>2, PinnedJournal, StoreOfInv
  <2>3. CASE \E rows \in SUBSET Messages : db = StoreOf(3, Pinned(3), rows) BY <2>3, PinnedJournal, StoreOfInv
  <2>4. CASE \E v \in {3, 5}, n \in 1..3 : db = StoreOf(v, [Pinned(v) EXCEPT ![n] = "other"], {})
    <3>1. PICK v \in {3, 5}, n \in 1..3 : db = StoreOf(v, [Pinned(v) EXCEPT ![n] = "other"], {}) BY <2>4
    <3>2. [Pinned(v) EXCEPT ![n] = "other"] \in [1..v -> {"pinned", "other"}]
      BY DEF Pinned
    <3>3. 1..v \in SUBSET (1..6) OBVIOUS
    <3>4. [Pinned(v) EXCEPT ![n] = "other"] \in Journals BY <3>2, <3>3 DEF Journals
    <3>5. DOMAIN [Pinned(v) EXCEPT ![n] = "other"] = 1..v BY DEF Pinned
    <3>6. v \in 2..5 /\ {} \in SUBSET Messages OBVIOUS
    <3>7. /\ StoreOf(v, [Pinned(v) EXCEPT ![n] = "other"], {}) \in Stores
          /\ StoreInv(StoreOf(v, [Pinned(v) EXCEPT ![n] = "other"], {}))
      BY <3>4, <3>5, <3>6, StoreOfInv
    <3> QED BY <3>1, <3>7, Zenon
  <2>5. CASE db = StoreOf(5, Pinned(6), Messages) BY <2>5, PinnedJournal, StoreOfInv
  <2>6. CASE db = StoreOf(2, [n \in {1, 2, 6} |-> "pinned"], {})
    <3>1. [n \in {1, 2, 6} |-> "pinned"] \in [{1, 2, 6} -> {"pinned", "other"}] OBVIOUS
    <3>2. {1, 2, 6} \in SUBSET (1..6) OBVIOUS
    <3>3. [n \in {1, 2, 6} |-> "pinned"] \in Journals BY <3>1, <3>2 DEF Journals
    <3> QED BY <2>6, <3>3, StoreOfInv
  <2> QED BY <2>1, <2>2, <2>3, <2>4, <2>5, <2>6 DEF MigrationInit
<1>2. MigrationTypeOK
  <2>1. Closed \in ConnectionStates BY DEF Closed, ConnectionStates
  <2> QED BY <1>1, <2>1 DEF MigrationTypeOK, MigrationInit, Stores
<1>3. \A c \in Connections : conn[c].pc = "closed" BY DEF MigrationInit, Closed
<1> QED BY <1>1, <1>2, <1>3 DEF MigrationInv, MigrationInit, ReadyIsMigrated

\* Steps that leave the store alone.
LEMMA ConnectionStep ==
  ASSUME MigrationInv, NEW c \in Connections, conn' = [conn EXCEPT ![c] = conn'[c]],
         conn'[c] \in ConnectionStates, UNCHANGED <<disk, db, acked>>, faults' \in Nat,
         conn'[c].pc # "closed" => conn'[c].full /\ conn'[c].kind # "none",
         conn'[c].pc = "migrating" => \A e \in Connections \ {c} : conn[e].pc # "migrating",
         conn'[c].pc = "migrating" => WorkInv(c)',
         conn'[c].pc # "ready"
  PROVE  MigrationInv'
<1>1. \A e \in Connections \ {c} : conn'[e] = conn[e]
  BY DEF MigrationInv, MigrationTypeOK
<1>2. MigrationTypeOK' BY DEF MigrationInv, MigrationTypeOK
<1>3. ASSUME NEW e \in Connections, conn'[e].pc = "migrating" PROVE WorkInv(e)'
  <2>1. CASE e = c BY <1>3, <2>1
  <2>2. CASE e # c
    <3>1. conn'[e] = conn[e] /\ WorkInv(e) BY <1>1, <1>3, <2>2 DEF MigrationInv
    <3> QED BY <3>1 DEF WorkInv, Extended
  <2> QED BY <2>1, <2>2
<1>4. ReadyIsMigrated' BY <1>1 DEF MigrationInv, ReadyIsMigrated
<1>5. StoreInv(db)' BY DEF MigrationInv, StoreInv
<1>6. \A e \in Connections : conn'[e].pc # "closed" => conn'[e].full /\ conn'[e].kind # "none"
  BY <1>1 DEF MigrationInv
<1>7. \A a, e \in Connections : (a # e /\ conn'[a].pc = "migrating") => conn'[e].pc # "migrating"
  BY <1>1 DEF MigrationInv
<1>8. disk' = db' /\ acked' \subseteq db'.rows BY DEF MigrationInv
<1> QED BY <1>2, <1>3, <1>4, <1>5, <1>6, <1>7, <1>8 DEF MigrationInv

\* A connection that is dropped.
LEMMA ClosedState == Closed \in ConnectionStates /\ Closed.pc = "closed"
BY DEF Closed, ConnectionStates

LEMMA Closes ==
  ASSUME MigrationInv, NEW c \in Connections, Become(c, Closed), Fault, UNCHANGED <<disk, db, acked>>
  PROVE  MigrationInv'
<1>1. conn'[c] = Closed /\ conn' = [conn EXCEPT ![c] = conn'[c]]
  BY DEF Become, MigrationInv, MigrationTypeOK
<1>2. faults' \in Nat BY DEF Fault, MigrationInv, MigrationTypeOK
<1> QED BY <1>1, <1>2, ClosedState, ConnectionStep

\* Store::open.
LEMMA OpenStep ==
  ASSUME MigrationInv, NEW c \in Connections, Open(c) PROVE MigrationInv'
<1>1. PICK wanted \in {"product", "maintenance"}, full \in BOOLEAN :
        full /\ conn' = [conn EXCEPT ![c] = [Closed EXCEPT !.pc = "open", !.kind = wanted, !.full = full]]
  BY DEF Open, profile_verified, Become
<1>2. conn'[c] = [Closed EXCEPT !.pc = "open", !.kind = wanted, !.full = full]
  BY <1>1 DEF MigrationInv, MigrationTypeOK
<1>3. conn' = [conn EXCEPT ![c] = conn'[c]] BY <1>1, <1>2
<1>4. conn'[c] \in ConnectionStates BY <1>2, ClosedState DEF ConnectionStates
<1>5. conn'[c].full /\ conn'[c].kind # "none" /\ conn'[c].pc = "open" BY <1>1, <1>2 DEF Closed
<1>6. faults' \in Nat BY DEF Open, MigrationInv, MigrationTypeOK
<1> QED BY <1>3, <1>4, <1>5, <1>6, ConnectionStep DEF Open

\* The transaction starts.
LEMMA BeginStep ==
  ASSUME MigrationInv, NEW c \in Connections, Begin(c) PROVE MigrationInv'
<1>1. conn[c] \in ConnectionStates /\ db \in Stores BY DEF MigrationInv, MigrationTypeOK
<1>2. conn'[c] = [conn[c] EXCEPT !.pc = "migrating", !.work = db, !.at = <<1, 1>>]
      /\ conn' = [conn EXCEPT ![c] = conn'[c]]
  BY DEF Begin, Become, MigrationInv, MigrationTypeOK
<1>3. conn'[c] \in ConnectionStates
  <2>1. <<1, 1>> \in Nat \X Nat OBVIOUS
  <2> QED BY <1>1, <1>2, <2>1 DEF ConnectionStates
<1>4. /\ conn'[c].pc = "migrating" /\ conn'[c].work = db /\ conn'[c].at = <<1, 1>>
      /\ conn'[c].full = conn[c].full /\ conn'[c].kind = conn[c].kind
  BY <1>1, <1>2 DEF ConnectionStates
<1>5. conn'[c].full /\ conn'[c].kind # "none" BY <1>4 DEF MigrationInv, Begin
<1>6. WorkInv(c)'
  BY <1>1, <1>4 DEF Begin, WorkInv, Positions, PinnedBelow
<1>7. faults' \in Nat BY DEF Begin, MigrationInv, MigrationTypeOK
<1> QED BY <1>2, <1>3, <1>4, <1>5, <1>6, <1>7, ConnectionStep DEF Begin

\* It is rejected and rolled back.
LEMMA RejectStep ==
  ASSUME MigrationInv, NEW c \in Connections, Reject(c) PROVE MigrationInv'
<1>1. conn[c] \in ConnectionStates BY DEF MigrationInv, MigrationTypeOK
<1>2. conn'[c] = [conn[c] EXCEPT !.pc = "open", !.work = <<>>, !.at = <<0, 0>>]
      /\ conn' = [conn EXCEPT ![c] = conn'[c]]
  BY DEF Reject, Become, MigrationInv, MigrationTypeOK
<1>3. conn'[c] \in ConnectionStates
  <2>1. <<0, 0>> \in Nat \X Nat OBVIOUS
  <2> QED BY <1>1, <1>2, <2>1 DEF ConnectionStates
<1>4. conn'[c].pc = "open" /\ conn'[c].full = conn[c].full /\ conn'[c].kind = conn[c].kind
  BY <1>1, <1>2 DEF ConnectionStates
<1>5. conn'[c].full /\ conn'[c].kind # "none" BY <1>4 DEF MigrationInv, Reject
<1>6. UNCHANGED <<disk, db, acked>> /\ faults' \in Nat
  BY DEF Reject, Commits, rolled_back, Fault, MigrationInv, MigrationTypeOK
<1> QED BY <1>2, <1>3, <1>4, <1>5, <1>6, ConnectionStep

\* A version that is not recorded is applied to what the versions below left.
LEMMA Continues ==
  ASSUME MigrationInv, NEW c \in Connections, conn[c].pc = "migrating",
         conn[c].at[1] \notin Recorded(conn[c].work)
  PROVE  Extended(conn[c].work, conn[c].at[1], conn[c].at[2])
<1> DEFINE d == conn[c].work
           v == conn[c].at[1]
           n == conn[c].at[2]
<1>1. /\ d \in Stores /\ conn[c].at \in Positions
      /\ v > 2 => Recorded(d) \subseteq Versions(conn[c].kind)
      /\ PinnedBelow(d, v)
      /\ (d = db /\ n = 1) \/ Extended(d, v, n)
  BY DEF MigrationInv, WorkInv
<1>2. v \in 1..6 /\ n \in 1..4 BY <1>1 DEF Positions
<1>3. v \notin Recorded(d) OBVIOUS
<1> HIDE DEF d, v, n
<1>4. CASE d = db /\ n = 1
  <2>1. 6 \notin Recorded(db)
    <3>1. CASE v > 2 BY <1>1, <1>4, <3>1 DEF Versions
    <3>2. CASE v <= 2 BY <1>2, <1>3, <1>4, <3>2 DEF MigrationInv, StoreInv
    <3> QED BY <1>2, <3>1, <3>2
  <2>2. PICK h \in 0..5 : Recorded(db) = 1..h /\ db.objects = Installed(h)
    BY <2>1 DEF MigrationInv, StoreInv
  <2>3. h = v - 1
    <3>1. h < v BY <1>2, <1>3, <1>4, <2>2
    <3>2. v - 1 > 0 => v - 1 \in 1..h BY <1>1, <1>2, <1>4, <2>2 DEF PinnedBelow
    <3> QED BY <1>2, <3>1, <3>2
  <2>4. db.objects = Underway(v, 1) BY <1>2, <2>2, <2>3, UnderwaySets
  <2>5. v > 4 => db.addressed = db.rows
    <3>1. v > 4 => "m3_messages" \in Installed(h)
      <4>1. v > 4 => h = 4 \/ h = 5 BY <1>2, <2>3
      <4> QED BY <4>1, ObjectSets
    <3> QED BY <2>2, <3>1 DEF MigrationInv, StoreInv
  <2>6. \A w \in Recorded(db) : db.journal[w] = "pinned" BY <1>1, <1>4, <2>2, <2>3 DEF PinnedBelow
  <2> QED BY <1>4, <2>2, <2>3, <2>4, <2>5, <2>6 DEF Extended, d, v, n
<1> QED BY <1>1, <1>4 DEF d, v, n

\* The next statement of the catalog, or the next version: one that is
\* recorded is passed over, one that is not is applied.
LEMMA StatementStep ==
  ASSUME MigrationInv, NEW c \in Connections, Statement(c) PROVE MigrationInv'
<1> DEFINE d == conn[c].work
           v == conn[c].at[1]
           n == conn[c].at[2]
           wanted == conn[c].kind
           batch == PRODUCT_MIGRATION_CATALOG[v]
           made == Applied(batch[n], d)
           recorded == [made EXCEPT !.journal = [m \in Recorded(made) \cup {v} |-> IF m = v THEN "pinned" ELSE @[m]]]
<1>1. conn[c].pc = "migrating" /\ v \in Versions(wanted) /\ ~Refusable(c) /\ UNCHANGED <<disk, db, acked, faults>>
  BY DEF Statement
<1>2. /\ d \in Stores /\ conn[c].at \in Positions
      /\ wanted = "maintenance" => v < 3 \/ conn[c].at = <<3, 1>>
      /\ v > 2 => Recorded(d) \subseteq Versions(wanted)
      /\ PinnedBelow(d, v)
      /\ (d = db /\ n = 1) \/ Extended(d, v, n)
  BY <1>1 DEF MigrationInv, WorkInv
<1>3. v \in 1..5 /\ n \in 1..4 /\ conn[c].at = <<v, n>> BY <1>1, <1>2 DEF Positions, Versions
<1>4. /\ conn[c] \in ConnectionStates
      /\ conn[c].full /\ wanted # "none"
      /\ \A e \in Connections \ {c} : conn[e].pc # "migrating"
  BY <1>1 DEF MigrationInv, MigrationTypeOK
<1>5. wanted = "product" \/ wanted = "maintenance" BY <1>4 DEF ConnectionStates
<1>6. ASSUME NEW w \in Stores, NEW u \in 1..6, NEW k \in 1..4,
             conn' = [conn EXCEPT ![c] = [conn[c] EXCEPT !.work = w, !.at = <<u, k>>]],
             <<u, k>> \in Positions,
             wanted = "maintenance" => u < 3 \/ <<u, k>> = <<3, 1>>,
             u > 2 => Recorded(w) \subseteq Versions(wanted),
             PinnedBelow(w, u),
             (w = db /\ k = 1) \/ Extended(w, u, k)
      PROVE  MigrationInv'
  <2>1. conn'[c] = [conn[c] EXCEPT !.work = w, !.at = <<u, k>>] BY <1>6 DEF MigrationInv, MigrationTypeOK
  <2>2. conn' = [conn EXCEPT ![c] = conn'[c]] BY <1>6, <2>1
  <2>3. conn'[c] \in ConnectionStates
    <3>1. <<u, k>> \in Nat \X Nat OBVIOUS
    <3> QED BY <1>4, <2>1, <3>1 DEF ConnectionStates
  <2>4. /\ conn'[c].pc = "migrating" /\ conn'[c].kind = wanted /\ conn'[c].full = conn[c].full
        /\ conn'[c].work = w /\ conn'[c].at = <<u, k>>
    BY <1>1, <1>4, <2>1 DEF ConnectionStates
  <2>5. conn'[c].at[1] = u /\ conn'[c].at[2] = k BY <2>4
  <2>6. Extended(w, u, k)' <=> Extended(w, u, k) BY <1>1 DEF Extended, Recorded
  <2> HIDE DEF d, v, n, wanted, batch, made, recorded
  <2>7. WorkInv(c)' BY <1>1, <1>6, <2>4, <2>5, <2>6 DEF WorkInv
  <2>8. conn'[c].full /\ conn'[c].kind # "none" BY <1>4, <2>4
  <2>9. faults' \in Nat BY <1>1 DEF MigrationInv, MigrationTypeOK
  <2> QED BY <1>1, <1>4, <2>2, <2>3, <2>4, <2>7, <2>8, <2>9, ConnectionStep
<1>7. CASE v \in Recorded(d)
  <2>1. d = db /\ n = 1
    <3>1. ~Extended(d, v, n) BY <1>3, <1>7 DEF Extended
    <3> QED BY <1>2, <3>1
  <2>2. conn' = [conn EXCEPT ![c] = [conn[c] EXCEPT !.at = <<v + 1, 1>>]]
    BY <1>7 DEF Statement, Become
  <2>3. conn' = [conn EXCEPT ![c] = [conn[c] EXCEPT !.work = d, !.at = <<v + 1, 1>>]]
    <3>1. [conn[c] EXCEPT !.at = <<v + 1, 1>>] = [conn[c] EXCEPT !.work = d, !.at = <<v + 1, 1>>]
      BY <1>4 DEF ConnectionStates
    <3> QED BY <2>2, <3>1
  <2>4. d.journal[v] = "pinned" BY <1>1, <1>7 DEF Refusable, already_applied
  <2>5. v = 2 => Recorded(d) \subseteq Versions(wanted)
    BY <1>1 DEF Refusable, unknown_versions
  <2> HIDE DEF d, v, n, wanted, batch, made, recorded
  <2>6. PinnedBelow(d, v + 1) BY <1>2, <1>3, <1>7, <2>4 DEF PinnedBelow
  <2>7. v + 1 > 2 => Recorded(d) \subseteq Versions(wanted) BY <1>2, <1>3, <2>5
  <2>8. <<v + 1, 1>> \in Positions BY <1>3 DEF Positions
  <2>9. wanted = "maintenance" => v + 1 < 3 \/ <<v + 1, 1>> = <<3, 1>> BY <1>1, <1>3 DEF Versions
  <2>10. v + 1 \in 1..6 BY <1>3
  <2>11. 1 \in 1..4 OBVIOUS
  <2> QED BY <1>2, <1>6, <2>1, <2>3, <2>6, <2>7, <2>8, <2>9, <2>10, <2>11, Zenon
<1>8. CASE v \notin Recorded(d)
  <2>1. Extended(d, v, n) BY <1>1, <1>8, Continues
  <2>2. (n < Len(batch) <=> n < Size(v)) /\ Size(v) \in 1..4 BY <1>3, Sizes
  <2>3. /\ made \in Stores /\ made.journal = d.journal /\ made.rows = d.rows
        /\ made.addressed = (IF v = 4 /\ n = 3 THEN d.rows ELSE d.addressed)
        /\ n < Size(v) => made.objects = Underway(v, n + 1) /\ <<v, n + 1>> \in Positions
        /\ n >= Size(v) => made.objects = Installed(v)
    <3>1. <<v, n>> \in Positions /\ d.objects = Underway(v, n) BY <1>2, <1>3, <2>1 DEF Extended
    <3> HIDE DEF d, v, n
    <3> QED BY <1>2, <1>3, <3>1, OneStatement
  <2>4. CASE n < Size(v)
    <3>1. conn' = [conn EXCEPT ![c] = [conn[c] EXCEPT !.work = made, !.at = <<v, n + 1>>]]
      BY <1>8, <2>2, <2>4 DEF Statement, Become
    <3> HIDE DEF d, v, n, wanted, batch, made, recorded
    <3>2. Recorded(made) = Recorded(d) BY <2>3 DEF Recorded
    <3>3. PinnedBelow(made, v) BY <1>2, <2>3, <3>2 DEF PinnedBelow
    <3>4. Extended(made, v, n + 1)
      <4>1. n + 1 > 3 => v = 4 /\ n = 3 BY <1>3, <2>4 DEF Size
      <4> QED BY <1>3, <2>1, <2>3, <2>4, <3>2, <4>1 DEF Extended
    <3>5. wanted = "maintenance" => v < 3 \/ <<v, n + 1>> = <<3, 1>> BY <1>1 DEF Versions
    <3>6. n + 1 \in 1..4 /\ v \in 1..6 BY <1>3, <2>4, Sizes
    <3>7. v > 2 => Recorded(made) \subseteq Versions(wanted) BY <1>2, <3>2
    <3> QED BY <1>6, <2>3, <2>4, <3>1, <3>3, <3>4, <3>5, <3>6, <3>7
  <2>5. CASE n >= Size(v)
    <3>1. conn' = [conn EXCEPT ![c] = [conn[c] EXCEPT !.work = recorded, !.at = <<v + 1, 1>>]]
      <4>1. ~(n < Len(batch)) BY <1>3, <2>2, <2>5
      <4> QED BY <1>8, <4>1 DEF Statement, Become
    <3>2. recorded = [made EXCEPT !.journal = [m \in Recorded(made) \cup {v} |-> IF m = v THEN "pinned" ELSE made.journal[m]]]
      OBVIOUS
    <3> HIDE DEF d, v, n, wanted, batch, made, recorded
    <3>3. Recorded(made) = 1..(v - 1) /\ Recorded(made) \cup {v} = 1..v
      BY <1>3, <2>1, <2>3 DEF Recorded, Extended
    <3>4. \A m \in 1..(v - 1) : made.journal[m] = "pinned" BY <1>2, <2>3 DEF PinnedBelow
    <3>5. /\ recorded.journal = [m \in 1..v |-> IF m = v THEN "pinned" ELSE made.journal[m]]
          /\ recorded.objects = made.objects /\ recorded.rows = made.rows /\ recorded.addressed = made.addressed
      BY <2>3, <3>2, <3>3 DEF Stores
    <3>6. recorded \in Stores
      <4>1. [m \in 1..v |-> IF m = v THEN "pinned" ELSE made.journal[m]] \in [1..v -> {"pinned", "other"}]
        BY <1>3, <3>4
      <4>2. 1..v \in SUBSET (1..6) BY <1>3
      <4>3. [m \in 1..v |-> IF m = v THEN "pinned" ELSE made.journal[m]] \in Journals BY <4>1, <4>2 DEF Journals
      <4> QED BY <2>3, <3>2, <3>3, <4>3 DEF Stores
    <3>7. Recorded(recorded) = 1..v BY <3>5 DEF Recorded
    <3>8. PinnedBelow(recorded, v + 1) BY <1>3, <3>4, <3>5, <3>7 DEF PinnedBelow
    <3>9. Extended(recorded, v + 1, 1)
      <4>1. recorded.objects = Underway(v + 1, 1) BY <1>3, <2>3, <2>5, <3>5, UnderwaySets
      <4>2. v + 1 > 4 => recorded.addressed = recorded.rows
        <5>1. v = 4 => n > 3
          BY <1>3, <2>5 DEF Size
        <5>2. v > 4 \/ n > 3 => d.addressed = d.rows BY <2>1 DEF Extended
        <5> QED BY <1>3, <2>3, <3>5, <5>1, <5>2
      <4>3. PICK u \in 2..6 : u = v + 1 BY <1>3
      <4>4. Recorded(db) \subseteq 1..(u - 1) /\ Recorded(recorded) = 1..(u - 1)
        <5>1. Recorded(db) \subseteq 1..v
          <6>1. \A m \in 1..(v - 1) : m \in 1..v BY <1>3
          <6> QED BY <2>1, <6>1 DEF Extended
        <5>2. u - 1 = v BY <1>3, <4>3
        <5> QED BY <3>7, <5>1, <5>2
      <4>5. recorded.rows = db.rows BY <2>1, <2>3, <3>5 DEF Extended
      <4>6. recorded.objects = Underway(u, 1) BY <4>1, <4>3
      <4>7. u > 4 \/ 1 > 3 => recorded.addressed = recorded.rows BY <4>2, <4>3
      <4>8. Extended(recorded, u, 1) BY <2>1, <4>4, <4>5, <4>6, <4>7 DEF Extended
      <4> QED BY <4>3, <4>8
    <3>10. v + 1 \in 1..6 /\ <<v + 1, 1>> \in Positions BY <1>3 DEF Positions
    <3>11. wanted = "maintenance" => v + 1 < 3 \/ <<v + 1, 1>> = <<3, 1>> BY <1>1, <1>3 DEF Versions
    <3>12. v + 1 > 2 => Recorded(recorded) \subseteq Versions(wanted) BY <1>1, <1>3, <3>7 DEF Versions
    <3>13. 1 \in 1..4 OBVIOUS
    <3> QED BY <1>6, <3>1, <3>6, <3>8, <3>9, <3>10, <3>11, <3>12, <3>13, Zenon
  <2> QED BY <1>3, <2>2, <2>4, <2>5
<1> QED BY <1>7, <1>8

\* A store that takes the place of the committed one: the migrated one, or one
\* with another message.
LEMMA StoreStep ==
  ASSUME MigrationInv, db' \in Stores, disk' = db', StoreInv(db)', acked' \subseteq db'.rows,
         conn' \in [Connections -> ConnectionStates], faults' \in Nat,
         \A e \in Connections : conn'[e].pc # "migrating" /\ (conn'[e].pc # "closed" => conn'[e].full /\ conn'[e].kind # "none"),
         ReadyIsMigrated'
  PROVE  MigrationInv'
<1>1. acked' \subseteq Messages BY DEF Stores
<1> QED BY <1>1 DEF MigrationInv, MigrationTypeOK

\* At the end of the catalog the work is a whole store with every version of
\* the catalog pinned, and it extends a store of this binary or is the
\* committed one.
LEMMA AtEndReady ==
  ASSUME MigrationInv, NEW c \in Connections, AtEnd(c)
  PROVE  /\ conn[c].work \in Stores /\ StoreInv(conn[c].work) /\ conn[c].work.rows = db.rows
         /\ \A v \in Versions(conn[c].kind) : v \in Recorded(conn[c].work) /\ conn[c].work.journal[v] = "pinned"
         /\ \/ conn[c].work = db
            \/ /\ Recorded(db) \subseteq 1..5
               /\ \A v \in Recorded(db) : /\ v \in Recorded(conn[c].work) /\ conn[c].work.journal[v] = "pinned"
                                         /\ db.journal[v] = "pinned"
<1> DEFINE d == conn[c].work
           v == conn[c].at[1]
           n == conn[c].at[2]
<1>1. /\ d \in Stores /\ conn[c].at \in Positions
      /\ conn[c].kind = "maintenance" => v < 3 \/ conn[c].at = <<3, 1>>
      /\ PinnedBelow(d, v)
      /\ (d = db /\ n = 1) \/ Extended(d, v, n)
  BY DEF AtEnd, MigrationInv, WorkInv
<1>2. v \in 1..6 /\ n \in 1..4 BY <1>1 DEF Positions
<1>3. v \notin Versions(conn[c].kind) BY DEF AtEnd
<1>4. \/ conn[c].kind = "product" /\ v = 6
      \/ conn[c].kind = "maintenance" /\ v = 3
  <2>1. conn[c].kind \in {"product", "maintenance"}
    BY DEF MigrationInv, MigrationTypeOK, ConnectionStates, AtEnd
  <2> QED BY <1>1, <1>2, <1>3, <2>1 DEF Versions
<1>5. n = 1 BY <1>1, <1>4 DEF Positions
<1> HIDE DEF d, v, n
<1>6. \A w \in Versions(conn[c].kind) : w \in Recorded(d) /\ d.journal[w] = "pinned"
  BY <1>1, <1>4 DEF Versions, PinnedBelow
<1>7. CASE d = db BY <1>1, <1>6, <1>7 DEF MigrationInv, d
<1>8. CASE Extended(d, v, n)
  <2>1. PICK h \in 0..5 : h = v - 1 BY <1>2
  <2>2. Recorded(d) = 1..h /\ d.objects = Installed(h)
    BY <1>2, <1>5, <1>8, <2>1, UnderwaySets DEF Extended
  <2>3. "m3_messages" \in d.objects => d.addressed = d.rows
    <3>1. h = 5 \/ h = 2 BY <1>4, <2>1
    <3>2. h = 5 => v > 4 BY <1>2, <2>1
    <3>3. h = 2 => "m3_messages" \notin d.objects BY <2>2, ObjectSets
    <3> QED BY <1>8, <3>1, <3>2, <3>3 DEF Extended
  <2>4. StoreInv(d) BY <2>2, <2>3 DEF StoreInv
  <2>5. \A w \in Recorded(db) : w \in Recorded(d) /\ d.journal[w] = "pinned" /\ db.journal[w] = "pinned"
    BY <1>1, <1>8 DEF Extended, PinnedBelow
  <2>6. Recorded(db) \subseteq 1..5 BY <1>2, <1>8 DEF Extended
  <2> QED BY <1>1, <1>6, <1>8, <2>4, <2>5, <2>6 DEF d, Extended
<1> QED BY <1>1, <1>7, <1>8

\* A commit, whatever becomes of the connection.
LEMMA CommitsStep ==
  ASSUME MigrationInv, NEW c \in Connections, AtEnd(c), Commits(c, conn[c].work),
         NEW r \in ConnectionStates, conn' = [conn EXCEPT ![c] = r], UNCHANGED acked, faults' \in Nat,
         r.pc # "migrating", r.pc # "closed" => r.full /\ r.kind = conn[c].kind
  PROVE  MigrationInv'
<1>1. /\ conn[c].work \in Stores /\ StoreInv(conn[c].work) /\ conn[c].work.rows = db.rows
      /\ \A v \in Versions(conn[c].kind) : v \in Recorded(conn[c].work) /\ conn[c].work.journal[v] = "pinned"
      /\ \/ conn[c].work = db
         \/ \A v \in Recorded(db) : v \in Recorded(conn[c].work) /\ conn[c].work.journal[v] = "pinned"
  BY AtEndReady
<1>2. conn[c].pc = "migrating" /\ conn[c].full /\ conn[c].kind # "none"
  BY DEF AtEnd, MigrationInv
<1>3. db' = conn[c].work /\ disk' = db' BY <1>2 DEF Commits
<1>4. StoreInv(db)' BY <1>1, <1>3 DEF StoreInv, Recorded
<1>5. conn'[c] = r /\ \A e \in Connections \ {c} : conn'[e] = conn[e] BY DEF MigrationInv, MigrationTypeOK
<1>6. ReadyIsMigrated'
  <2>1. ASSUME NEW e \in Connections, conn'[e].pc = "ready", NEW v \in Versions(conn'[e].kind)
        PROVE  v \in Recorded(db') /\ db'.journal[v] = "pinned"
    <3>1. CASE e = c BY <1>1, <1>3, <1>5, <2>1, <3>1
    <3>2. CASE e # c
      <4>1. v \in Recorded(db) /\ db.journal[v] = "pinned"
        BY <1>5, <2>1, <3>2 DEF MigrationInv, ReadyIsMigrated
      <4> QED BY <1>1, <1>3, <4>1
    <3> QED BY <3>1, <3>2
  <2> QED BY <2>1 DEF ReadyIsMigrated, Recorded
<1>7. acked' \subseteq db'.rows BY <1>1, <1>3 DEF MigrationInv
<1>8. conn' \in [Connections -> ConnectionStates] BY DEF MigrationInv, MigrationTypeOK
<1>9. \A e \in Connections : conn'[e].pc # "migrating" /\ (conn'[e].pc # "closed" => conn'[e].full /\ conn'[e].kind # "none")
  BY <1>2, <1>5 DEF MigrationInv
<1> QED BY <1>1, <1>3, <1>4, <1>6, <1>7, <1>8, <1>9, StoreStep

\* The commit succeeds.
LEMMA CommitStep ==
  ASSUME MigrationInv, NEW c \in Connections, Commit(c) PROVE MigrationInv'
<1> DEFINE r == [conn[c] EXCEPT !.pc = "ready", !.work = <<>>, !.at = <<0, 0>>]
<1>1. conn[c] \in ConnectionStates /\ conn[c].full BY DEF Commit, AtEnd, MigrationInv, MigrationTypeOK
<1>2. r \in ConnectionStates
  <2>1. <<0, 0>> \in Nat \X Nat OBVIOUS
  <2> QED BY <1>1, <2>1 DEF ConnectionStates
<1>3. r.pc = "ready" /\ r.full /\ r.kind = conn[c].kind BY <1>1 DEF ConnectionStates
<1>4. conn' = [conn EXCEPT ![c] = r] BY DEF Commit, Become
<1>5. faults' \in Nat BY DEF Commit, MigrationInv, MigrationTypeOK
<1> HIDE DEF r
<1> QED BY <1>2, <1>3, <1>4, <1>5, CommitsStep DEF Commit

\* It fails, before or after it took effect.
LEMMA CommitFailsStep ==
  ASSUME MigrationInv, NEW c \in Connections, CommitFails(c) PROVE MigrationInv'
<1>1. conn' = [conn EXCEPT ![c] = Closed] BY DEF CommitFails, Become
<1>2. faults' \in Nat BY DEF CommitFails, Fault, MigrationInv, MigrationTypeOK
<1>3. CASE Commits(c, conn[c].work) BY <1>1, <1>2, <1>3, ClosedState, CommitsStep DEF CommitFails
<1>4. CASE UNCHANGED <<db, disk>> BY <1>4, Closes DEF CommitFails
<1> QED BY <1>3, <1>4 DEF CommitFails

\* A message is submitted.
LEMMA SubmitStep ==
  ASSUME MigrationInv, NEW c \in Connections, Submit(c) PROVE MigrationInv'
<1>1. PICK m \in Messages \ db.rows :
        /\ Commits(c, [db EXCEPT !.rows = @ \cup {m}, !.addressed = @ \cup {m}])
        /\ acked' = acked \cup {m}
  BY DEF Submit
<1>2. db \in Stores /\ conn[c].full BY DEF Submit, MigrationInv, MigrationTypeOK
<1>3. db' = [db EXCEPT !.rows = db.rows \cup {m}, !.addressed = db.addressed \cup {m}] /\ disk' = db'
  BY <1>1, <1>2 DEF Commits
<1>4. /\ db' \in Stores /\ db'.journal = db.journal /\ db'.objects = db.objects
      /\ db'.rows = db.rows \cup {m} /\ db'.addressed = db.addressed \cup {m}
  BY <1>2, <1>3 DEF Stores
<1>5. Recorded(db') = Recorded(db) BY <1>4 DEF Recorded
<1>6. StoreInv(db)' BY <1>4, <1>5 DEF MigrationInv, StoreInv, Recorded
<1>7. acked' \subseteq db'.rows BY <1>1, <1>4 DEF MigrationInv
<1>8. ReadyIsMigrated' BY <1>4 DEF Submit, MigrationInv, ReadyIsMigrated, Recorded
<1>9. \A e \in Connections : conn'[e].pc # "migrating" /\ (conn'[e].pc # "closed" => conn'[e].full /\ conn'[e].kind # "none")
  BY DEF Submit, MigrationInv
<1>10. conn' \in [Connections -> ConnectionStates] /\ faults' \in Nat BY DEF Submit, MigrationInv, MigrationTypeOK
<1> QED BY <1>3, <1>4, <1>6, <1>7, <1>8, <1>9, <1>10, StoreStep

\* A loss of power, after which the store is the one on disk.
LEMMA PowerLossStep ==
  ASSUME MigrationInv, PowerLoss PROVE MigrationInv'
<1>1. db' = db /\ disk' = db' /\ acked' = acked /\ conn' = [c \in Connections |-> Closed]
  BY DEF PowerLoss, MigrationInv
<1>2. faults' \in Nat BY DEF PowerLoss, Fault, MigrationInv, MigrationTypeOK
<1>3. conn' \in [Connections -> ConnectionStates] /\ \A c \in Connections : conn'[c].pc = "closed"
  BY <1>1, ClosedState
<1>4. db' \in Stores /\ StoreInv(db)' /\ acked' \subseteq db'.rows
  BY <1>1 DEF MigrationInv, MigrationTypeOK, StoreInv, Recorded
<1>5. ReadyIsMigrated' BY <1>3 DEF ReadyIsMigrated
<1> QED BY <1>1, <1>2, <1>3, <1>4, <1>5, StoreStep

\* The invariant is inductive.
LEMMA MigrationStep == MigrationInv /\ [MigrationNext]_migrationVars => MigrationInv'
<1> SUFFICES ASSUME MigrationInv, [MigrationNext]_migrationVars PROVE MigrationInv'
  OBVIOUS
<1>1. CASE UNCHANGED migrationVars
  BY <1>1 DEF migrationVars, MigrationInv, MigrationTypeOK, StoreInv, WorkInv, Extended, ReadyIsMigrated
<1>2. ASSUME NEW c \in Connections, RollbackFails(c) \/ Die(c) PROVE MigrationInv'
  BY <1>2, Closes DEF RollbackFails, Die
<1> QED BY <1>1, <1>2, OpenStep, BeginStep, RejectStep, StatementStep, CommitStep, CommitFailsStep, SubmitStep,
           PowerLossStep DEF MigrationNext

\* Migrating, for every number of connections, messages and faults: a whole
\* number of migrations is committed and the journal says which, a connection
\* that reports success has the whole pinned catalog, no message is lost and
\* each can be addressed (apply_catalog, apply_product_catalog).
THEOREM Migrating == MigrationSpec => []MigrationSafety
<1>1. MigrationInit => MigrationInv BY MigrationInitInv
<1>2. MigrationInv => MigrationSafety BY MigrationInvSafe
<1> QED BY <1>1, <1>2, MigrationStep, PTL DEF MigrationSpec

\* No step changes the schema or the journal of a store with a foreign history.
LEMMA ForeignStep ==
  ASSUME MigrationInv, MigrationNext, Foreign(db)
  PROVE  db'.objects = db.objects /\ db'.journal = db.journal
<1>1. ASSUME NEW c \in Connections, AtEnd(c), Commits(c, conn[c].work)
      PROVE  db'.objects = db.objects /\ db'.journal = db.journal
  <2>1. db' = conn[c].work BY <1>1 DEF Commits
  <2>2. conn[c].work = db \/ (Recorded(db) \subseteq 1..5 /\ \A v \in Recorded(db) : db.journal[v] = "pinned")
    BY <1>1, AtEndReady
  <2> QED BY <2>1, <2>2 DEF Foreign
<1>2. ASSUME NEW c \in Connections, Submit(c) PROVE db'.objects = db.objects /\ db'.journal = db.journal
  <2>1. db \in Stores BY DEF MigrationInv, MigrationTypeOK
  <2>2. PICK m \in Messages : db' = [db EXCEPT !.rows = db.rows \cup {m}, !.addressed = db.addressed \cup {m}]
    BY <1>2 DEF Submit, Commits
  <2> QED BY <2>1, <2>2 DEF Stores
<1>3. ASSUME NEW c \in Connections, Open(c) \/ Begin(c) \/ Reject(c) \/ RollbackFails(c) \/ Statement(c) \/ Die(c)
      PROVE  db'.objects = db.objects /\ db'.journal = db.journal
  BY <1>3 DEF Open, Begin, Reject, Commits, rolled_back, RollbackFails, Statement, Die
<1>4. CASE PowerLoss BY <1>4 DEF PowerLoss, MigrationInv
<1> QED BY <1>1, <1>2, <1>3, <1>4 DEF MigrationNext, Commit, CommitFails

\* A store whose history this binary does not know keeps its schema and its journal
\* (unknown_versions, already_applied).
THEOREM ForeignStores == MigrationSpec => ForeignUntouched
<1>1. MigrationInit => MigrationInv BY MigrationInitInv
<1>2. MigrationInv /\ [MigrationNext]_migrationVars =>
        [Foreign(db) => db'.objects = db.objects /\ db'.journal = db.journal]_migrationVars
  BY ForeignStep
<1> QED BY <1>1, <1>2, MigrationStep, PTL DEF MigrationSpec, ForeignUntouched

-----------------------------------------------------------------------------
(***************************************************************************)
(* Bootstrap.  The outer flags are set by nothing but success, in the order *)
(* of the steps (FlagsInv).                                                *)
(***************************************************************************)

\* The eight steps.
LEMMA Order ==
  /\ BOOTSTRAP_ORDER[1] = "ProcessPolicy" /\ BOOTSTRAP_ORDER[2] = "NonRoot"
  /\ BOOTSTRAP_ORDER[3] = "TrustedRoot" /\ BOOTSTRAP_ORDER[4] = "OwnerLock"
  /\ BOOTSTRAP_ORDER[5] = "SelectedState" /\ BOOTSTRAP_ORDER[6] = "Store"
  /\ BOOTSTRAP_ORDER[7] = "StructuralConfiguration" /\ BOOTSTRAP_ORDER[8] = "ProviderCatalog"
  /\ Firsts = {"ProcessPolicy", "NonRoot", "TrustedRoot", "OwnerLock"}
  /\ Later = {"SelectedState", "Store", "StructuralConfiguration", "ProviderCatalog"}
  /\ Steps = Firsts \cup Later
BY DEF BOOTSTRAP_ORDER, Firsts, Later, Steps

\* Eight steps that agree with the order are the order.
LEMMA WholeOrder ==
  ASSUME NEW s \in Seq(Steps), Len(s) = 8, \A i \in 1..8 : s[i] = BOOTSTRAP_ORDER[i]
  PROVE  s = BOOTSTRAP_ORDER
<1>1. BOOTSTRAP_ORDER \in Seq(Steps) /\ Len(BOOTSTRAP_ORDER) = 8
  BY Order DEF BOOTSTRAP_ORDER
<1> QED BY <1>1

\* A document that parses, has as many keys as expected and each expected
\* entry has no other: its keys are finitely many.
LEMMA ParsedIsExpected ==
  ASSUME NEW bytes \in Seq(Blocks), parse_envelope_v1(bytes)
  PROVE  Entries(bytes) = {<<k, 1>> : k \in Keys}
<1>1. IsFiniteSet(Entries(bytes))
  <2> DEFINE parts == {bytes[i] : i \in DOMAIN bytes}
  <2>1. IsFiniteSet(1..Len(bytes)) BY FS_Interval
  <2>2. [i \in 1..Len(bytes) |-> bytes[i]] \in Surjection(1..Len(bytes), parts)
    BY DEF Surjection
  <2>3. IsFiniteSet(parts) BY <2>1, <2>2, FS_Surjection
  <2>4. \A b \in parts : IsFiniteSet(b) BY BootstrapAssumption
  <2> QED BY <2>3, <2>4, FS_UNION DEF Entries
<1>2. IsFiniteSet(KeysOf(bytes))
  <2>1. [e \in Entries(bytes) |-> e[1]] \in Surjection(Entries(bytes), KeysOf(bytes))
    BY DEF Surjection, KeysOf
  <2> QED BY <1>1, <2>1, FS_Surjection
<1>3. Keys \subseteq KeysOf(bytes)
  <2>1. ASSUME NEW k \in Keys PROVE k \in KeysOf(bytes)
    <3>1. <<k, 1>> \in Entries(bytes) /\ <<k, 1>>[1] = k BY DEF parse_envelope_v1
    <3> QED BY <3>1 DEF KeysOf
  <2> QED BY <2>1
<1>4. Keys = KeysOf(bytes)
  BY <1>2, <1>3, FS_Subset DEF parse_envelope_v1
<1>5. ASSUME NEW e \in Entries(bytes) PROVE e \in {<<k, 1>> : k \in Keys}
  <2>1. PICK i \in DOMAIN bytes : e \in bytes[i] BY DEF Entries
  <2>2. e[1] \in Keys BY <1>4 DEF KeysOf
  <2>3. <<e[1], 1>> \in Entries(bytes) BY <2>2 DEF parse_envelope_v1
  <2>4. PICK j \in DOMAIN bytes : <<e[1], 1>> \in bytes[j] BY <2>3 DEF Entries
  <2>5. e = <<e[1], 1>> BY <2>1, <2>4 DEF parse_envelope_v1, Parses
  <2> QED BY <2>2, <2>5
<1> QED BY <1>5 DEF parse_envelope_v1

\* It holds before the first call.
LEMMA BootstrapInitInv == ASSUME BootstrapInit PROVE BootstrapInv
<1> USE DEF BootstrapInit
<1>1. BootstrapTypeOK
  <2>1. named \in Envelopes BY DEF Envelopes
  <2>2. reading \in [pc : {"none", "parent"}] BY DEF Idle
  <2>3. done \in Seq(Steps) /\ outer \subseteq Firsts OBVIOUS
  <2>4. kind \in {"envelope", "root_lock"} /\ owned \in BOOLEAN OBVIOUS
  <2> QED BY <2>1, <2>2, <2>3, <2>4 DEF BootstrapTypeOK
<1>2. FlagsInv BY DEF FlagsInv, Performed, Idle
<1>3. OwnedInv BY DEF OwnedInv, Idle
<1>4. PrerequisitesFirst /\ LockRetained /\ EnvelopeExpected
  BY DEF PrerequisitesFirst, LockRetained, EnvelopeExpected, Nothing
<1> QED BY <1>1, <1>2, <1>3, <1>4 DEF BootstrapInv, BootstrapSafety

\* A step whose prerequisites were performed may come next.
LEMMA Performs ==
  ASSUME BootstrapTypeOK, FlagsInv, PrerequisitesFirst, NEW step \in Steps, done' = Append(done, step),
         step = "NonRoot" => "ProcessPolicy" \in outer,
         step = "TrustedRoot" => "NonRoot" \in outer,
         step = "OwnerLock" => "TrustedRoot" \in outer,
         step \in Later => "OwnerLock" \in outer
  PROVE  /\ done' \in Seq(Steps) /\ Len(done') = Len(done) + 1
         /\ \A i \in 1..Len(done) : done'[i] = done[i]
         /\ done'[Len(done) + 1] = step
         /\ \A s \in Steps : Performed(s)' <=> Performed(s) \/ s = step
         /\ PrerequisitesFirst'
<1>1. done \in Seq(Steps) BY DEF BootstrapTypeOK
<1>2. /\ done' \in Seq(Steps) /\ Len(done') = Len(done) + 1
      /\ \A i \in 1..Len(done) : done'[i] = done[i]
      /\ done'[Len(done) + 1] = step
  BY <1>1
<1>3. DOMAIN done = 1..Len(done) /\ DOMAIN done' = 1..(Len(done) + 1) BY <1>1, <1>2
<1>4. ASSUME NEW s \in Steps PROVE Performed(s)' <=> Performed(s) \/ s = step
  BY <1>1, <1>2, <1>3 DEF Performed
<1>5. \* what is performed was performed with all that it rests on
      ASSUME NEW k \in 1..4, NEW n \in (k + 1)..4, Performed(BOOTSTRAP_ORDER[n])
      PROVE  Performed(BOOTSTRAP_ORDER[k])
  <2>1. PICK i \in DOMAIN done : done[i] = BOOTSTRAP_ORDER[n] BY <1>5 DEF Performed
  <2>2. Before(i, BOOTSTRAP_ORDER[k]) BY <2>1 DEF PrerequisitesFirst
  <2> QED BY <1>3, <2>1, <2>2 DEF Before, Performed
<1>6. ASSUME NEW k \in 1..4, step \in Later \/ \E n \in (k + 1)..4 : step = BOOTSTRAP_ORDER[n]
      PROVE  Performed(BOOTSTRAP_ORDER[k])
  <2>1. \A s \in Firsts : s \in outer => Performed(s) BY DEF FlagsInv
  <2>2. /\ Performed("OwnerLock") => Performed("TrustedRoot")
        /\ Performed("TrustedRoot") => Performed("NonRoot")
        /\ Performed("NonRoot") => Performed("ProcessPolicy")
    BY <1>5, Order
  <2>3. CASE k = 4 BY <1>6, <2>1, <2>3, Order
  <2>4. CASE k = 3 BY <1>6, <2>1, <2>2, <2>4, Order
  <2>5. CASE k = 2 BY <1>6, <2>1, <2>2, <2>5, Order
  <2>6. CASE k = 1 BY <1>6, <2>1, <2>2, <2>6, Order
  <2> QED BY <2>3, <2>4, <2>5, <2>6
<1>7. ASSUME NEW i \in DOMAIN done', NEW k \in 1..4,
             done'[i] \in Later \/ \E n \in (k + 1)..4 : done'[i] = BOOTSTRAP_ORDER[n]
      PROVE  Before(i, BOOTSTRAP_ORDER[k])'
  <2>1. CASE i = Len(done) + 1
    <3>1. PICK j \in DOMAIN done : done[j] = BOOTSTRAP_ORDER[k] BY <1>2, <1>6, <1>7, <2>1 DEF Performed
    <3> QED BY <1>1, <1>2, <1>3, <2>1, <3>1 DEF Before
  <2>2. CASE i # Len(done) + 1
    <3>1. i \in DOMAIN done /\ done'[i] = done[i] BY <1>1, <1>2, <1>3, <2>2
    <3>2. Before(i, BOOTSTRAP_ORDER[k]) BY <1>7, <3>1 DEF PrerequisitesFirst
    <3> QED BY <1>1, <1>2, <1>3, <3>1, <3>2 DEF Before
  <2> QED BY <2>1, <2>2
<1> QED BY <1>2, <1>4, <1>7 DEF PrerequisitesFirst

\* Steps that perform one: the parts of the invariant they share.
LEMMA SucceedStep ==
  ASSUME BootstrapInv, NEW step \in Steps, Succeed(step), answer = "running",
         step = "NonRoot" => "ProcessPolicy" \in outer,
         step = "TrustedRoot" => "NonRoot" \in outer,
         step = "OwnerLock" => "TrustedRoot" \in outer,
         step \in Later => "OwnerLock" \in outer,
         reading' = Idle, kind' = kind, owned' = owned, calls' \in Nat, named' = named, changes' = changes,
         locked' = (locked \/ step = "OwnerLock"),
         owned => calls' = Len(done) + 1 /\ step = BOOTSTRAP_ORDER[calls'] /\ calls' <= 8,
         EnvelopeExpected'
  PROVE  BootstrapInv'
<1>1. BootstrapTypeOK /\ FlagsInv /\ OwnedInv /\ PrerequisitesFirst /\ LockRetained
  BY DEF BootstrapInv, BootstrapSafety
<1>2. /\ done' \in Seq(Steps) /\ Len(done') = Len(done) + 1
      /\ \A i \in 1..Len(done) : done'[i] = done[i]
      /\ done'[Len(done) + 1] = step
      /\ \A s \in Steps : Performed(s)' <=> Performed(s) \/ s = step
      /\ PrerequisitesFirst'
  BY <1>1, Performs DEF Succeed
<1>3. outer' = outer \cup (IF step \in Later THEN {} ELSE {step}) BY DEF Succeed
<1>4. answer' = IF owned /\ step = "ProviderCatalog" THEN "verified" ELSE "running"
  BY Order DEF Succeed
<1>5. BootstrapTypeOK'
  <2>1. outer' \subseteq Firsts BY <1>1, <1>3, Order DEF BootstrapTypeOK
  <2>2. reading' \in [pc : {"none", "parent"}] BY DEF Idle
  <2>3. locked' \in BOOLEAN BY <1>1 DEF BootstrapTypeOK
  <2> QED BY <1>1, <1>2, <1>4, <2>1, <2>2, <2>3 DEF BootstrapTypeOK
<1>6. FlagsInv'
  <2>1. ASSUME NEW s \in Firsts PROVE s \in outer' <=> Performed(s)'
    BY <1>1, <1>2, <1>3, Order DEF FlagsInv
  <2> QED BY <2>1 DEF FlagsInv, Idle
<1>7. owned => \A i \in 1..Len(done') : done'[i] = BOOTSTRAP_ORDER[i]
  <2>1. done \in Seq(Steps) BY <1>1 DEF BootstrapTypeOK
  <2>2. owned => \A i \in 1..Len(done) : done[i] = BOOTSTRAP_ORDER[i] BY <1>1, <2>1 DEF OwnedInv
  <2> QED BY <1>2, <2>1, <2>2
<1>8. OwnedInv'
  <2>1. DOMAIN done' = 1..Len(done') BY <1>2
  <2>2. owned /\ calls' = 8 => step = "ProviderCatalog" BY Order
  <2> QED BY <1>1, <1>2, <1>4, <1>7, <2>1, <2>2 DEF OwnedInv, Idle
<1>9. LockRetained'
  <2>1. DOMAIN done' = 1..Len(done') BY <1>2
  <2>2. locked <=> Performed("OwnerLock") BY <1>1 DEF LockRetained, Performed
  <2>3. locked' <=> Performed("OwnerLock")' BY <1>2, <2>2, Order
  <2>4. ASSUME answer' = "verified" PROVE locked' /\ done' = BOOTSTRAP_ORDER
    <3>1. owned /\ step = "ProviderCatalog" BY <1>4, <2>4
    <3>2. calls' = 8
      <4>1. calls' \in 1..8 BY <1>2, <3>1, <1>1 DEF BootstrapTypeOK
      <4> QED BY <3>1, <4>1, Order
    <3>3. Len(done') = 8 BY <1>2, <3>1, <3>2
    <3>4. done' = BOOTSTRAP_ORDER BY <1>2, <1>7, <3>1, <3>3, WholeOrder
    <3>5. Performed("OwnerLock")'
      BY <2>1, <3>3, <3>4, Order DEF Performed
    <3> QED BY <2>3, <3>4, <3>5
  <2> QED BY <1>4, <2>3, <2>4 DEF LockRetained, Performed
<1> QED BY <1>2, <1>5, <1>6, <1>8, <1>9 DEF BootstrapInv, BootstrapSafety

\* A step that fails.
LEMMA FailStep ==
  ASSUME BootstrapInv, Fail, answer = "running", reading' = Idle,
         calls' \in Nat, UNCHANGED <<kind, owned, named, changes, taken>>
  PROVE  BootstrapInv'
<1> USE DEF Fail, retained
<1>1. BootstrapTypeOK /\ FlagsInv /\ OwnedInv /\ PrerequisitesFirst /\ LockRetained /\ EnvelopeExpected
  BY DEF BootstrapInv, BootstrapSafety
<1>2. BootstrapTypeOK'
  <2>1. reading' \in [pc : {"none", "parent"}] BY DEF Idle
  <2>2. locked' \in BOOLEAN BY <1>1 DEF BootstrapTypeOK
  <2> QED BY <1>1, <2>1, <2>2 DEF BootstrapTypeOK
<1>3. FlagsInv' BY <1>1 DEF FlagsInv, Performed, Idle
<1>4. OwnedInv' BY <1>1 DEF OwnedInv, Idle, BootstrapTypeOK
<1>5. PrerequisitesFirst' BY <1>1 DEF PrerequisitesFirst, Before
<1>6. LockRetained' BY <1>1 DEF LockRetained, BootstrapTypeOK
<1>7. EnvelopeExpected' BY <1>1 DEF EnvelopeExpected
<1> QED BY <1>2, <1>3, <1>4, <1>5, <1>6, <1>7 DEF BootstrapInv, BootstrapSafety

\* run of the adapters, for any step.
LEMMA CallStep ==
  ASSUME BootstrapInv, NEW step \in Steps, Call(step)
  PROVE  BootstrapInv'
<1>1. BootstrapTypeOK /\ FlagsInv /\ OwnedInv /\ PrerequisitesFirst /\ LockRetained /\ EnvelopeExpected
  BY DEF BootstrapInv, BootstrapSafety
<1>2. /\ reading.pc = "none" /\ answer = "running" /\ step \in Asked
      /\ calls' = calls + 1 /\ calls' \in Nat
      /\ UNCHANGED <<kind, owned, named, changes, taken>>
  BY <1>1 DEF Call, Ready, BootstrapTypeOK
<1>3. reading = Idle
  BY <1>1, <1>2 DEF BootstrapTypeOK, Idle
<1>4. owned => calls' = Len(done) + 1 /\ step = BOOTSTRAP_ORDER[calls'] /\ calls' <= 8
  BY <1>1, <1>2 DEF OwnedInv, Asked, BootstrapTypeOK
<1>5. EnvelopeExpected' BY <1>1, <1>2 DEF EnvelopeExpected
<1>6. CASE Fail /\ UNCHANGED reading
  BY <1>2, <1>3, <1>6, FailStep
<1>7. ASSUME outer_admits(step)
      PROVE  /\ step = "NonRoot" => "ProcessPolicy" \in outer
             /\ step = "TrustedRoot" => "NonRoot" \in outer
             /\ step = "OwnerLock" => "TrustedRoot" \in outer
             /\ step \in Later => "OwnerLock" \in outer
  BY <1>7, Order DEF outer_admits
<1>8. CASE /\ outer_admits(step) /\ step = "TrustedRoot" /\ kind = "root_lock"
           /\ Succeed(step)
           /\ UNCHANGED <<inner, locked, reading>>
  <2>1. locked' = (locked \/ step = "OwnerLock") BY <1>1, <1>8 DEF BootstrapTypeOK
  <2> QED BY <1>2, <1>3, <1>4, <1>5, <1>7, <1>8, <2>1, SucceedStep
<1>9. CASE outer_admits(step) /\ step = "OwnerLock" /\ TakeLock /\ UNCHANGED reading
  BY <1>2, <1>3, <1>4, <1>5, <1>7, <1>9, SucceedStep DEF TakeLock
<1>10. CASE outer_admits(step) /\ step \notin {"TrustedRoot", "OwnerLock"} /\ Delegate(step) /\ UNCHANGED reading
  <2>1. locked' = (locked \/ step = "OwnerLock") BY <1>1, <1>10 DEF BootstrapTypeOK, Delegate
  <2> QED BY <1>2, <1>3, <1>4, <1>5, <1>7, <1>10, <2>1, SucceedStep DEF Delegate
<1>11. CASE /\ outer_admits(step) /\ step = "TrustedRoot" /\ kind = "envelope"
            /\ reading' = [pc |-> "parent"]
            /\ UNCHANGED <<outer, inner, locked, done, answer>>
  <2>1. reading' \in [pc : {"none", "parent"}] /\ reading'.pc = "parent" BY <1>11
  <2>2. BootstrapTypeOK' BY <1>1, <1>2, <1>11, <2>1 DEF BootstrapTypeOK
  <2>3. FlagsInv' BY <1>1, <1>2, <1>7, <1>11, <2>1 DEF FlagsInv, Performed
  <2>4. OwnedInv'
    <3>1. owned => calls' = 3
      <4>1. owned => calls' \in 1..8 BY <1>2, <1>4, <1>1 DEF BootstrapTypeOK
      <4> QED BY <1>4, <1>11, <4>1, Order
    <3>2. owned => Len(done) = 2
      <4>1. PICK n \in Nat : n = Len(done) BY <1>1 DEF BootstrapTypeOK
      <4>2. owned => calls' = n + 1 /\ calls' \in Nat BY <1>2, <1>4, <4>1
      <4>3. owned => n = 2 BY <3>1, <4>2
      <4> QED BY <4>1, <4>3
    <3> QED BY <1>1, <1>2, <1>11, <2>1, <3>1, <3>2 DEF OwnedInv
  <2>5. PrerequisitesFirst' BY <1>1, <1>11 DEF PrerequisitesFirst, Before
  <2>6. LockRetained' BY <1>1, <1>11 DEF LockRetained
  <2> QED BY <1>5, <2>2, <2>3, <2>4, <2>5, <2>6 DEF BootstrapInv, BootstrapSafety
<1> QED BY <1>6, <1>8, <1>9, <1>10, <1>11 DEF Call

\* read_trusted_envelope fails.
LEMMA ReadFailsStep ==
  ASSUME BootstrapInv, reading.pc # "none", ReadFails PROVE BootstrapInv'
BY FailStep DEF ReadFails, BootstrapInv, FlagsInv, BootstrapTypeOK

\* Only what is being read changes.
LEMMA ReadsStep ==
  ASSUME BootstrapInv, reading.pc # "none", reading'.pc # "none", BootstrapTypeOK',
         UNCHANGED <<kind, owned, calls, outer, inner, locked, done, taken, answer>>
  PROVE  BootstrapInv'
<1>1. BootstrapTypeOK /\ FlagsInv /\ OwnedInv /\ PrerequisitesFirst /\ LockRetained /\ EnvelopeExpected
  BY DEF BootstrapInv, BootstrapSafety
<1>2. FlagsInv' BY <1>1 DEF FlagsInv, Performed
<1>3. OwnedInv' BY <1>1 DEF OwnedInv
<1>4. PrerequisitesFirst' BY <1>1 DEF PrerequisitesFirst, Before
<1>5. LockRetained' /\ EnvelopeExpected' BY <1>1 DEF LockRetained, EnvelopeExpected
<1> QED BY <1>2, <1>3, <1>4, <1>5 DEF BootstrapInv, BootstrapSafety

\* The name is inspected.
LEMMA StatEnvelopeStep ==
  ASSUME BootstrapInv, StatEnvelope PROVE BootstrapInv'
<1>1. CASE ReadFails BY <1>1, ReadFailsStep DEF StatEnvelope
<1>2. CASE Reads([pc |-> "open", before |-> named])
  <2>1. named \in Envelopes BY DEF BootstrapInv, BootstrapTypeOK
  <2>2. reading' \in [pc : {"open"}, before : Envelopes] /\ reading'.pc = "open" BY <1>2, <2>1 DEF Reads
  <2>3. BootstrapTypeOK' BY <1>2, <2>2 DEF BootstrapInv, BootstrapTypeOK, Reads
  <2> QED BY <1>2, <2>2, <2>3, ReadsStep DEF StatEnvelope, Reads
<1> QED BY <1>1, <1>2 DEF StatEnvelope

\* The file is opened.
LEMMA OpenEnvelopeStep ==
  ASSUME BootstrapInv, OpenEnvelope PROVE BootstrapInv'
<1>1. CASE ReadFails BY <1>1, ReadFailsStep DEF OpenEnvelope
<1>2. CASE Reads([pc |-> "read", opened |-> named, live |-> named.blocks, bytes |-> <<>>])
  <2>1. named \in Envelopes /\ named.blocks \in Contents /\ <<>> \in Seq(Blocks)
    BY DEF BootstrapInv, BootstrapTypeOK, Envelopes
  <2>2. /\ reading' \in [pc : {"read", "again"}, opened : Envelopes, live : Contents, bytes : Seq(Blocks)]
        /\ reading'.pc = "read"
    BY <1>2, <2>1 DEF Reads
  <2>3. BootstrapTypeOK' BY <1>2, <2>2 DEF BootstrapInv, BootstrapTypeOK, Reads
  <2> QED BY <1>2, <2>2, <2>3, ReadsStep DEF OpenEnvelope, Reads
<1> QED BY <1>1, <1>2 DEF OpenEnvelope

\* A block is read.
LEMMA ReadBlockStep ==
  ASSUME BootstrapInv, ReadBlock PROVE BootstrapInv'
<1>1. CASE ReadFails BY <1>1, ReadFailsStep DEF ReadBlock
<1>2. CASE ~ReadFails
  <2>1. reading \in [pc : {"read", "again"}, opened : Envelopes, live : Contents, bytes : Seq(Blocks)]
    BY DEF BootstrapInv, BootstrapTypeOK, ReadBlock
  <2>2. reading.live \in Seq(Blocks) BY <2>1, BootstrapAssumption
  <2> DEFINE at == Len(reading.bytes) + 1
  <2>3. \/ Reads([reading EXCEPT !.pc = "again"])
        \/ at <= Len(reading.live) /\ Reads([reading EXCEPT !.bytes = Append(@, reading.live[at])])
    BY <1>2, <2>1, <2>2 DEF ReadBlock
  <2>4. /\ reading' \in [pc : {"read", "again"}, opened : Envelopes, live : Contents, bytes : Seq(Blocks)]
        /\ reading'.pc # "none"
    <3>1. CASE Reads([reading EXCEPT !.pc = "again"])
      <4>1. reading' = [reading EXCEPT !.pc = "again"] BY <3>1 DEF Reads
      <4> QED BY <2>1, <4>1
    <3>2. CASE at <= Len(reading.live) /\ Reads([reading EXCEPT !.bytes = Append(@, reading.live[at])])
      <4>1. reading' = [reading EXCEPT !.bytes = Append(reading.bytes, reading.live[at])] BY <3>2 DEF Reads
      <4>2. reading.bytes \in Seq(Blocks) BY <2>1
      <4>3. reading.live[at] \in Blocks BY <2>2, <3>2, <4>2
      <4>4. Append(reading.bytes, reading.live[at]) \in Seq(Blocks) BY <4>2, <4>3
      <4> HIDE DEF at
      <4> QED BY <2>1, <4>1, <4>4
    <3> QED BY <2>3, <3>1, <3>2
  <2>5. BootstrapTypeOK' BY <2>3, <2>4 DEF BootstrapInv, BootstrapTypeOK, Reads
  <2> QED BY <2>3, <2>4, <2>5, ReadsStep DEF ReadBlock, Reads
<1> QED BY <1>1, <1>2

\* The document is accepted.
LEMMA AcceptEnvelopeStep ==
  ASSUME BootstrapInv, AcceptEnvelope PROVE BootstrapInv'
<1>1. CASE ReadFails BY <1>1, ReadFailsStep DEF AcceptEnvelope
<1>2. CASE ~ReadFails
  <2>1. reading \in [pc : {"read", "again"}, opened : Envelopes, live : Contents, bytes : Seq(Blocks)]
    BY DEF BootstrapInv, BootstrapTypeOK, AcceptEnvelope
  <2>2. /\ envelope_still_named(reading.opened, named) /\ parse_envelope_v1(reading.bytes)
        /\ Succeed("TrustedRoot") /\ reading' = Idle
        /\ taken' = [blocks |-> reading.bytes, trusted |-> named.trusted, same |-> named.id = reading.opened.id]
        /\ UNCHANGED <<kind, owned, calls, inner, locked, named, changes>>
    BY <1>2 DEF AcceptEnvelope
  <2>3. named.trusted /\ named.id = reading.opened.id
    BY <2>2 DEF envelope_still_named, same_envelope_identity
  <2>4. Entries(reading.bytes) = {<<k, 1>> : k \in Keys}
    BY <2>1, <2>2, ParsedIsExpected
  <2>5. EnvelopeExpected' BY <2>2, <2>3, <2>4 DEF EnvelopeExpected
  <2>6. /\ answer = "running" /\ "NonRoot" \in outer /\ calls \in Nat
        /\ owned => calls = 3 /\ Len(done) = 2
    BY DEF AcceptEnvelope, BootstrapInv, FlagsInv, OwnedInv, BootstrapTypeOK
  <2>7. "TrustedRoot" \in Steps /\ BOOTSTRAP_ORDER[3] = "TrustedRoot" /\ "TrustedRoot" \notin Later BY Order
  <2>8. locked' = (locked \/ "TrustedRoot" = "OwnerLock")
    BY <2>2 DEF BootstrapInv, BootstrapTypeOK
  <2>9. owned => calls' = Len(done) + 1 /\ "TrustedRoot" = BOOTSTRAP_ORDER[calls'] /\ calls' <= 8
    <3>1. calls' = calls BY <2>2
    <3>2. owned => calls = 3 /\ Len(done) = 2 BY <2>6
    <3>3. calls = 3 => BOOTSTRAP_ORDER[calls] = "TrustedRoot" BY <2>7
    <3>4. calls \in Nat BY <2>6
    <3> QED BY <3>1, <3>2, <3>3, <3>4
  <2> QED BY <2>2, <2>5, <2>6, <2>7, <2>8, <2>9, SucceedStep
<1> QED BY <1>1, <1>2

\* The envelope changes meanwhile.
LEMMA ReplaceStep ==
  ASSUME BootstrapInv, Replace PROVE BootstrapInv'
<1>1. BootstrapTypeOK BY DEF BootstrapInv
<1>2. changes' = changes + 1 /\ changes' \in Nat
      /\ UNCHANGED <<kind, owned, calls, outer, inner, locked, done, taken, answer>>
  BY <1>1 DEF Replace, BootstrapTypeOK
<1>3. CASE /\ \E c \in Contents, trusted \in BOOLEAN : named' = [id |-> changes', trusted |-> trusted, blocks |-> c]
           /\ UNCHANGED reading
  <2>1. named' \in Envelopes BY <1>2, <1>3 DEF Envelopes
  <2>2. BootstrapTypeOK' BY <1>1, <1>2, <1>3, <2>1 DEF BootstrapTypeOK
  <2> QED BY <1>2, <1>3, <2>2, ReadsStep DEF Replace
<1>4. ASSUME NEW c \in Contents, named' = [named EXCEPT !.blocks = c],
             reading' = IF reading.pc \in {"read", "again"} /\ reading.opened.id = named.id
                        THEN [reading EXCEPT !.live = c] ELSE reading
      PROVE  BootstrapInv'
  <2>1. named' \in Envelopes BY <1>1, <1>4 DEF Envelopes, BootstrapTypeOK
  <2>2. CASE reading' = reading
    <3>1. BootstrapTypeOK' BY <1>1, <1>2, <2>1, <2>2 DEF BootstrapTypeOK
    <3> QED BY <1>2, <2>2, <3>1, ReadsStep DEF Replace
  <2>3. CASE reading.pc \in {"read", "again"} /\ reading' = [reading EXCEPT !.live = c]
    <3>1. reading \in [pc : {"read", "again"}, opened : Envelopes, live : Contents, bytes : Seq(Blocks)]
      BY <1>1, <2>3 DEF BootstrapTypeOK
    <3>2. /\ reading' \in [pc : {"read", "again"}, opened : Envelopes, live : Contents, bytes : Seq(Blocks)]
          /\ reading'.pc = reading.pc
      BY <2>3, <3>1
    <3>3. BootstrapTypeOK' BY <1>1, <1>2, <2>1, <3>2 DEF BootstrapTypeOK
    <3> QED BY <1>2, <3>2, <3>3, ReadsStep DEF Replace
  <2> QED BY <1>4, <2>2, <2>3
<1> QED BY <1>3, <1>4 DEF Replace

\* The invariant is inductive.
LEMMA BootstrapStep == BootstrapInv /\ [BootstrapNext]_bootstrapVars => BootstrapInv'
<1> SUFFICES ASSUME BootstrapInv, [BootstrapNext]_bootstrapVars PROVE BootstrapInv'
  OBVIOUS
<1>1. CASE UNCHANGED bootstrapVars
  BY <1>1 DEF bootstrapVars, BootstrapInv, BootstrapSafety, BootstrapTypeOK, FlagsInv, OwnedInv,
     PrerequisitesFirst, LockRetained, EnvelopeExpected, Performed, Before
<1> QED BY <1>1, CallStep, StatEnvelopeStep, OpenEnvelopeStep, ReadBlockStep, AcceptEnvelopeStep, ReplaceStep
        DEF BootstrapNext

\* The bootstrap, for every document, number of calls and of changes of the
\* envelope: no step before those it rests on, the lock retained exactly while
\* an adapter that took it lives, and an accepted envelope is exactly the
\* expected document, read from the trusted file its name still held
\* (bootstrap_owned, read_trusted_envelope, parse_envelope_v1).
THEOREM Bootstrapping == BootstrapSpec => []BootstrapSafety
<1>1. BootstrapInit => BootstrapInv BY BootstrapInitInv
<1>2. BootstrapInv => BootstrapSafety BY DEF BootstrapInv
<1> QED BY <1>1, <1>2, BootstrapStep, PTL DEF BootstrapSpec
=============================================================================

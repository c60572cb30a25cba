------------------------------ MODULE Deployment ------------------------------
(***************************************************************************)
(* The deployment boundary of phase zero: one entry point per role, each   *)
(* with the runtime of that role behind it, as the boundary's fixture      *)
(* implements it.  Callers, publishers' transports, an operator and the    *)
(* machine that is restored are external.                                  *)
(*                                                                         *)
(* A callback carries the conditions of its exact form that it fails       *)
(* (path, time, size, headers, query, token), and whether its signature is *)
(* that of its raw bytes.                                                  *)
(***************************************************************************)
EXTENDS Integers, Sequences, FiniteSets, SequencesExt

CONSTANTS
  Callbacks,       \* requests to the ingress
  Denied,          \* operations that are none of a role's own
  Authorities,     \* what makes a deployment active: route, units, generations
  Fences,          \* lease fences dispatchers ask for
  FenceMax,        \* u64::MAX
  RetryLimit,      \* attempts an intent is given
  Environments,    \* what a machine to be restored looks like
  MaxGenerations,  \* bound: credential generations
  MaxEvents        \* bound: requests served

\* What a machine may be at risk of, beside the generation it was saved under.
Machines ==
  [network : BOOLEAN, credential : BOOLEAN, scheduler : BOOLEAN, interrupted : BOOLEAN,
   raw_expired : BOOLEAN, opted_out : BOOLEAN, generation : Nat]

ASSUME DeploymentAssumption ==
  /\ RetryLimit \in Nat /\ FenceMax \in Nat
  /\ MaxGenerations \in Nat /\ MaxEvents \in Nat
  /\ Fences \subseteq 0..FenceMax
  /\ Environments \subseteq Machines
  /\ Denied \cap {"SecretArtifact", "StartWithCredential", "Rollback", "Restore"} = {}

VARIABLES
  ingress,     \* events of the ingress, in order
  registered,  \* commands registered for the outbound role
  attempted,   \* provider attempts it recorded
  intent,      \* the one safe alert intent, or <<>>
  publisher,   \* the transport's own ledger: attempts and acceptances
  acl,         \* authorisations observed: reads and publishes
  life,        \* credential, restore and authority state
  history,     \* events of the lifecycle, in order
  environment, \* the machine a restore finds
  replied,     \* disposition of the last request
  served       \* requests so far

deploymentVars == <<ingress, registered, attempted, intent, publisher, acl, life, history,
          environment, replied, served>>

-----------------------------------------------------------------------------
Inactive == life.active = {}

\* The status a disposition is answered with.
observation(disposition) ==
  CASE disposition \in {"ChallengeAccepted", "CallbackAccepted"} -> 200
    [] disposition \in {"RegisteredCommandAccepted", "NtfyAllowed", "IntentRetryable",
                        "IntentAmbiguous", "CredentialStartAccepted", "RestoreOpened",
                        "RollbackComplete"} -> 202
    [] disposition \in {"RoleDenied", "NtfyDenied"} -> 403
    [] disposition \in {"IntentExhausted", "Rejected", "RestoreQuarantined", "FaultDetected"} -> 400

Answer(disposition) ==
  /\ served < MaxEvents
  /\ served' = served + 1
  /\ replied' = <<disposition, observation(disposition)>>

-----------------------------------------------------------------------------
\* Ingress.  A step of the callback is recorded only after the one before it.
verify_raw_callback_hmac(request) ==
  IF request.signed THEN <<"MacChecked", "MacVerified">> ELSE <<"MacChecked">>

After(events, before, event) ==
  IF events # <<>> /\ Last(events) = before THEN Append(events, event) ELSE events

parse_verified_callback(events) == After(events, "MacVerified", "Parsed")
propose_verified_transaction(events) == After(events, "Parsed", "TransactionProposed")

\* Mutant: the body is parsed whatever its signature says.
parsed_anyway(events, request) ==
  events \o verify_raw_callback_hmac(request) \o <<"Parsed", "TransactionProposed">>

callback_events(events, request) ==
  propose_verified_transaction(
    parse_verified_callback(events \o verify_raw_callback_hmac(request)))

is_exact_challenge(request) ==
  request.method = "Get" /\ request.defects = {} /\ ~request.denied
has_exact_post_transport(request) ==
  request.method = "Post" /\ request.defects = {} /\ ~request.denied

evaluate_ingress(request) ==
  LET events == callback_events(ingress, request) IN
  /\ ingress' = IF has_exact_post_transport(request) THEN events ELSE ingress
  /\ Answer(IF request.denied THEN "RoleDenied"
            ELSE IF is_exact_challenge(request) THEN "ChallengeAccepted"
            ELSE IF ~has_exact_post_transport(request) THEN "Rejected"
            ELSE IF Last(events) = "TransactionProposed" THEN "CallbackAccepted" ELSE "Rejected")
  /\ UNCHANGED <<registered, attempted, intent, publisher, acl, life, history, environment>>

-----------------------------------------------------------------------------
\* Outbound.
accept_exact_registered_command(operation, wrong_role) ==
  operation = "ReadExactRegisteredCommand" /\ ~wrong_role /\ registered > 0

evaluate_outbound(operation, wrong_role) ==
  LET accepted == accept_exact_registered_command(operation, wrong_role) IN
  /\ attempted' = IF accepted THEN attempted + 1 ELSE attempted
  /\ Answer(IF accepted THEN "RegisteredCommandAccepted"
            ELSE IF operation = "CallerSuppliedProviderAuthority" \/ wrong_role
            THEN "Rejected" ELSE "RoleDenied")
  /\ UNCHANGED <<ingress, registered, intent, publisher, acl, life, history, environment>>

-----------------------------------------------------------------------------
\* Dispatcher.
\* Mutant: what is ambiguous may be tried again.
forgets_ambiguity(i) == i.delivered \/ i.attempts >= RetryLimit

Settled(i) == i.delivered \/ i.ambiguous \/ i.attempts >= RetryLimit

acquire_safe_intent_lease(i, requested_fence) ==
  ~i.leased /\ ~Settled(i) /\ requested_fence > i.lease_fence

Leased(i, fence) == [i EXCEPT !.lease_fence = fence, !.leased = TRUE]

\* Mutant: any dispatcher may settle.
any_fence(i, requested_fence) == TRUE

permitted(i, requested_fence) ==
  IF i.leased THEN requested_fence = i.lease_fence
  ELSE i.lease_fence < FenceMax /\ requested_fence = i.lease_fence + 1

\* What the transport did, and what becomes of the intent.
attempt(i, fence, outcome) ==
  LET tried == [Leased(i, fence) EXCEPT !.attempts = @ + 1] IN
  CASE outcome = "DefiniteRefusal" -> [tried EXCEPT !.leased = FALSE]
    [] outcome = "Accepted" -> [tried EXCEPT !.delivered = TRUE, !.leased = FALSE]
    [] outcome = "CrashAfterAcceptedPublish" -> [tried EXCEPT !.ambiguous = TRUE]

disposition_of(i) ==
  CASE i.delivered -> "NtfyAllowed"
    [] ~i.delivered /\ i.ambiguous -> "IntentAmbiguous"
    [] ~i.delivered /\ ~i.ambiguous /\ i.attempts >= RetryLimit -> "IntentExhausted"
    [] OTHER -> "IntentRetryable"

settle_safe_intent(i, fence, outcome) ==
  IF Settled(i) \/ ~permitted(i, fence) \/ outcome = "CrashBeforeAttempt"
  THEN /\ intent' = <<i>>
       /\ UNCHANGED publisher
       /\ Answer(IF Settled(i) \/ permitted(i, fence) THEN disposition_of(i) ELSE "RoleDenied")
  ELSE /\ intent' = <<attempt(i, fence, outcome)>>
       /\ publisher' = [attempts |-> publisher.attempts + 1,
                        acceptances |-> publisher.acceptances +
                          (IF outcome = "DefiniteRefusal" THEN 0 ELSE 1)]
       /\ Answer(disposition_of(attempt(i, fence, outcome)))

DispatcherDenied == Answer("RoleDenied") /\ UNCHANGED <<intent, publisher>>

AcquireLease(fence) ==
  IF intent = <<>> \/ ~acquire_safe_intent_lease(intent[1], fence) THEN DispatcherDenied
  ELSE /\ intent' = <<Leased(intent[1], fence)>>
       /\ Answer("NtfyAllowed")
       /\ UNCHANGED publisher

SettleIntent(fence, outcome) ==
  IF intent = <<>> THEN DispatcherDenied ELSE settle_safe_intent(intent[1], fence, outcome)

PublishConfiguredSafeIntent(outcome) ==
  IF intent = <<>> \/ ~acquire_safe_intent_lease(intent[1], 1) THEN DispatcherDenied
  ELSE settle_safe_intent(Leased(intent[1], 1), 1, outcome)

evaluate_dispatcher(operation, fence, outcome) ==
  /\ CASE operation = "AcquireLease" -> AcquireLease(fence)
       [] operation = "SettleIntent" -> SettleIntent(fence, outcome)
       [] operation = "PublishConfiguredSafeIntent" -> PublishConfiguredSafeIntent(outcome)
       [] OTHER -> DispatcherDenied
  /\ UNCHANGED <<ingress, registered, attempted, acl, life, history, environment>>

-----------------------------------------------------------------------------
\* The ntfy access rules: exactly the private ones authorise anything.
evaluate_private_acl(request) ==
  /\ request.rules = "exact_private"
  /\ request.topic = "Configured"
  /\ <<request.principal, request.action>> \in
       {<<"ConfiguredPublisher", "Publish">>, <<"ConfiguredReader", "Read">>}

evaluate_ntfy_acl(request) ==
  LET allowed == evaluate_private_acl(request) IN
  /\ acl' = IF allowed THEN acl \cup {<<request.principal, request.action>>} ELSE acl
  /\ Answer(IF allowed THEN "NtfyAllowed" ELSE "NtfyDenied")
  /\ UNCHANGED <<ingress, registered, attempted, intent, publisher, life, history, environment>>

-----------------------------------------------------------------------------
\* Lifecycle.
Lifecycle(disposition, state, events) ==
  /\ life' = state
  /\ history' = history \o events
  /\ Answer(disposition)
  /\ UNCHANGED <<ingress, registered, attempted, intent, publisher, acl, environment>>

Unchanged(disposition) == Lifecycle(disposition, life, <<>>)

contain_secret_artifact ==
  IF ~life.artifact THEN Unchanged("Rejected")
  ELSE Lifecycle("FaultDetected",
         [life EXCEPT !.artifact = FALSE, !.generation = @ + 1,
                      !.revoked = @ \cup {life.generation}],
         <<"SecretArtifactDetected", "SecretArtifactDeleted", "CredentialGenerationRevoked">>)

\* Mutant: a generation that was revoked starts while it is the one presented.
starts_revoked(request) == ~request.misplaced

start_current_credential(request) ==
  /\ ~request.misplaced
  /\ request.generation = life.generation
  /\ request.generation \notin life.revoked

StartWithCredential(request) ==
  IF start_current_credential(request)
  THEN Lifecycle("CredentialStartAccepted",
         [life EXCEPT !.started = @ \cup {<<request.generation, life.revoked>>}], <<>>)
  ELSE Unchanged("Rejected")

complete_rollback ==
  IF Inactive THEN Lifecycle("RollbackComplete", life, <<"RollbackCompleted">>)
  ELSE Unchanged("Rejected")

enter_restore_quarantine ==
  IF life.opened THEN <<life, <<>>>>
  ELSE <<[life EXCEPT !.quarantined = TRUE], <<"RestoreQuarantined">>>>

quarantine_raw_restore_copy ==
  <<[life EXCEPT !.quarantined = TRUE, !.raw_copies = 0],
    <<"RestoreQuarantined", "RawCopyWithheld">>>>

open_quarantined_restore ==
  ~environment.network /\ ~environment.credential /\ ~environment.scheduler

Quarantine(entered) == Lifecycle("RestoreQuarantined", entered[1], entered[2])

\* Mutant: the authorities of the running system are not asked about.
opens_while_active(request) ==
  ~environment.interrupted /\ ~request.reactivation
    /\ request.generation = environment.generation

Restorable(request) ==
  /\ ~environment.interrupted
  /\ ~request.reactivation
  /\ request.generation = environment.generation
  /\ ~environment.raw_expired
  /\ ~environment.opted_out
  /\ Inactive

Restore(request) ==
  IF ~Restorable(request)
  THEN Quarantine(IF /\ ~environment.interrupted /\ ~request.reactivation
                     /\ request.generation = environment.generation
                     /\ environment.raw_expired \/ environment.opted_out
                  THEN quarantine_raw_restore_copy ELSE enter_restore_quarantine)
  ELSE IF life.opened \/ ~open_quarantined_restore THEN Quarantine(enter_restore_quarantine)
  ELSE Lifecycle("RestoreOpened", [life EXCEPT !.quarantined = TRUE, !.opened = TRUE],
                 <<"RestoreQuarantined", "RestoreStateOpened">>)

evaluate_lifecycle(operation, request) ==
  CASE operation = "SecretArtifact" -> contain_secret_artifact
    [] operation = "StartWithCredential" -> StartWithCredential(request)
    [] operation = "Rollback" -> complete_rollback
    [] operation = "Restore" -> Restore(request)
    [] OTHER -> Unchanged("Rejected")

-----------------------------------------------------------------------------
\* What happens around the boundary.
Outside(state) ==
  /\ served < MaxEvents
  /\ served' = served + 1
  /\ life' = state
  /\ UNCHANGED <<ingress, attempted, publisher, acl, history, environment, replied>>

Register == registered = 0 /\ registered' = 1 /\ Outside(life) /\ UNCHANGED intent
Raise ==
  /\ intent = <<>>
  /\ intent' = <<[lease_fence |-> 0, leased |-> FALSE, attempts |-> 0,
                  delivered |-> FALSE, ambiguous |-> FALSE]>>
  /\ Outside(life)
  /\ UNCHANGED registered
Leak ==
  /\ ~life.artifact /\ life.generation < MaxGenerations
  /\ Outside([life EXCEPT !.artifact = TRUE])
  /\ UNCHANGED <<registered, intent>>
Disable(authority) ==
  /\ authority \in life.active
  /\ Outside([life EXCEPT !.active = @ \ {authority}])
  /\ UNCHANGED <<registered, intent>>

DeploymentInit ==
  /\ ingress = <<>>
  /\ registered = 0
  /\ attempted = 0
  /\ intent = <<>>
  /\ publisher = [attempts |-> 0, acceptances |-> 0]
  /\ acl = {}
  /\ life = [generation |-> 1, artifact |-> FALSE, revoked |-> {}, started |-> {},
             quarantined |-> FALSE, opened |-> FALSE, raw_copies |-> 1, active |-> Authorities]
  /\ history = <<>>
  /\ environment \in Environments
  /\ replied = <<>>
  /\ served = 0

PublishOutcomes == {"Accepted", "DefiniteRefusal", "CrashBeforeAttempt", "CrashAfterAcceptedPublish"}
AclRequests ==
  [principal : {"Anonymous", "ConfiguredPublisher", "ConfiguredReader"},
   action : {"Read", "Publish"}, topic : {"Configured", "Foreign"},
   rules : {"exact_private", "other"}]
Starts == [misplaced : BOOLEAN, generation : 1..MaxGenerations]
Restores == [reactivation : BOOLEAN, generation : 1..2]

DeploymentNext ==
  \/ \E request \in Callbacks : evaluate_ingress(request)
  \/ \E operation \in {"ReadExactRegisteredCommand", "CallerSuppliedProviderAuthority"} \cup Denied,
        wrong_role \in BOOLEAN : evaluate_outbound(operation, wrong_role)
  \/ \E operation \in {"AcquireLease", "SettleIntent", "PublishConfiguredSafeIntent"} \cup Denied,
        fence \in Fences, outcome \in PublishOutcomes : evaluate_dispatcher(operation, fence, outcome)
  \/ \E request \in AclRequests : evaluate_ntfy_acl(request)
  \/ \E request \in Starts : evaluate_lifecycle("StartWithCredential", request)
  \/ \E request \in Restores : evaluate_lifecycle("Restore", request)
  \/ \E operation \in {"SecretArtifact", "Rollback"} \cup Denied :
        evaluate_lifecycle(operation, <<>>)
  \/ Register
  \/ Raise
  \/ Leak
  \/ \E authority \in Authorities : Disable(authority)

DeploymentSpec == DeploymentInit /\ [][DeploymentNext]_deploymentVars

-----------------------------------------------------------------------------
\* evaluate_ingress: nothing of a callback is parsed, and no transaction is
\* proposed, before the signature over its raw bytes was found good, however
\* callbacks follow one another.
VerifiedFirst ==
  \A i \in DOMAIN ingress :
    /\ ingress[i] = "Parsed" => i > 1 /\ ingress[i - 1] = "MacVerified"
    /\ ingress[i] = "TransactionProposed" => i > 1 /\ ingress[i - 1] = "Parsed"

\* settle_safe_intent: the transport accepts an alert at most once, and when it
\* did the intent says so, delivered or ambiguous, through crashes before and
\* after the publish; refusals end at the retry limit.
PublishedOnce ==
  /\ publisher.acceptances <= 1
  /\ publisher.acceptances = 1 <=> intent # <<>> /\ (intent[1].delivered \/ intent[1].ambiguous)
  /\ publisher.attempts <= RetryLimit

\* acquire_safe_intent_lease and settle_safe_intent: fences only grow, and while
\* a lease is held no attempt is made under another fence.
FenceKept ==
  intent # <<>> =>
    /\ intent'[1].lease_fence >= intent[1].lease_fence
    /\ intent[1].leased => intent'[1].lease_fence = intent[1].lease_fence

\* start_current_credential: no credential starts after its generation was
\* revoked, in whatever order leaks, containment and starts come.
RevokedNeverStarts == \A start \in life.started : start[1] \notin start[2]

\* Restore: state is opened only on a machine without network, credential or
\* scheduler, with every authority off, and never next to a raw copy that
\* expired or was opted out of.
OpenedOffline ==
  life.opened =>
    /\ life.quarantined
    /\ Inactive
    /\ \A risk \in DOMAIN environment \ {"generation"} : ~environment[risk]

\* The deployment boundary under any order of calls: nothing of a callback is
\* parsed before its signature is good (evaluate_ingress); the transport accepts
\* an alert at most once and the intent says so, through crashes before and after
\* the publish (settle_safe_intent); no credential starts after its generation
\* was revoked (start_current_credential); and a restored state is opened only on
\* a machine without network, credential or scheduler and with every authority
\* off (Restore).
BoundarySafety == VerifiedFirst /\ PublishedOnce /\ RevokedNeverStarts /\ OpenedOffline

\* The kinds of value the variables hold.
IngressEvents == {"MacChecked", "MacVerified", "Parsed", "TransactionProposed"}
Intents ==
  [lease_fence : Nat, leased : BOOLEAN, attempts : Nat, delivered : BOOLEAN, ambiguous : BOOLEAN]
Lives ==
  [generation : Nat, artifact : BOOLEAN, revoked : SUBSET Nat, started : SUBSET (Nat \X SUBSET Nat),
   quarantined : BOOLEAN, opened : BOOLEAN, raw_copies : Nat, active : SUBSET Authorities]

DeploymentTypeOK ==
  /\ ingress \in Seq(IngressEvents)
  /\ intent = <<>> \/ (intent[1] \in Intents /\ intent = <<intent[1]>>)
  /\ publisher \in [attempts : Nat, acceptances : Nat]
  /\ life \in Lives
  /\ environment \in Environments

\* The transport's ledger and the intent count the same attempts, and before there
\* is an intent nothing was attempted.
LedgersAgree ==
  /\ intent = <<>> => publisher = [attempts |-> 0, acceptances |-> 0]
  /\ intent # <<>> => publisher.attempts = intent[1].attempts

DeploymentInv == DeploymentTypeOK /\ LedgersAgree /\ BoundarySafety
=============================================================================

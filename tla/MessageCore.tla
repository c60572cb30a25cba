------------------------------ MODULE MessageCore ------------------------------
(***************************************************************************)
(* One message driven by the decisions of msgriver-core: transitions with  *)
(* sticky flags, fenced outcomes, terminal precedence, retry admission,    *)
(* delay and wake boundary, and the host's retry jitter.  The crate        *)
(* decides and stores nothing; the actor that calls it is not in the       *)
(* repository and is external here: it calls the decisions in the order    *)
(* their types demand, keeps what they return, and drops a call that       *)
(* returns an error.                                                       *)
(***************************************************************************)
EXTENDS CoreValues, FiniteSets

CONSTANTS
  Policies,        \* retry, lease and expiry settings of a message
  RetryAfters,     \* validated Retry-After delays a provider may ask for
  Candidates,      \* (ordinal, counter) |-> jitter word, or -1: no MAC
  Tokens,          \* fence tokens; they may repeat
  MaxUpdates,      \* bound: outcome reports per message
  UtcMax,          \* i64::MAX
  AgeMax,          \* 2_592_000_000 ms
  REJECTION_LIMIT, \* 0xfffffd94
  CounterMax       \* u8::MAX

\* A message is admitted before it expires (check_expires_at) and may be
\* attempted once.
ASSUME MessageAssumption ==
  /\ {MaxUpdates, UtcMax, AgeMax, REJECTION_LIMIT, CounterMax} \subseteq Nat
  /\ Tokens # {}
  /\ \A after \in RetryAfters : after \in Seq(Nat) /\ Len(after) <= 1
  /\ \A p \in Policies :
       /\ p.created \in 0..UtcMax /\ p.age \in Nat \ {0} /\ p.attempts \in Nat \ {0}
       /\ {p.base, p.max, p.factor} \subseteq Nat
       /\ p.expires \in Seq(Nat) /\ Len(p.expires) <= 1
       /\ \A i \in DOMAIN p.expires : p.expires[i] > p.created

VARIABLES
  policy,    \* the settings
  row,       \* state, sticky flags, completed attempts
  lease,     \* current lease generation and fence token
  wake,      \* the stored wake boundary, a result
  now,       \* safe time
  updates,   \* outcome reports sent so far; each may arrive late and again
  accepted,  \* an acceptance was committed
  claimed    \* instant of the latest claim

messageVars == <<policy, row, lease, wake, now, updates, accepted, claimed>>

-----------------------------------------------------------------------------
\* Checked arithmetic.
\* Mutant: an instant past i64::MAX is not refused.
utc_add_unchecked(base, delta) == <<base + delta>>

utc_add_millis(base, delta) == IF base + delta > UtcMax THEN Err ELSE <<base + delta>>

-----------------------------------------------------------------------------
\* Transitions.  A rule gives a state, a triple of flags <<cancel, effect,
\* duplicate>> and an event their successor.
Result(state, flags) == <<[state |-> state, flags |-> flags]>>

claim_rule(state, flags) ==
  IF \/ state = "Queued" /\ flags = <<FALSE, FALSE, FALSE>>
     \/ state = "RetryScheduled" /\ flags[1] = FALSE /\ flags[2] = TRUE
  THEN Result("Delivering", flags) ELSE Err

dispatch_rule(state, flags) ==
  IF state = "Delivering" /\ flags = <<FALSE, FALSE, FALSE>>
  THEN Result("Delivering", <<FALSE, TRUE, FALSE>>) ELSE Err

\* Mutant: a transient outcome forgets that an earlier attempt was ambiguous.
forgetful_outcome(state, flags, ambiguous) ==
  IF state = "Delivering" /\ flags[1] = FALSE /\ flags[2] = TRUE
  THEN Result("RetryScheduled", <<FALSE, TRUE, ambiguous>>) ELSE Err

outcome_rule(state, flags, ambiguous) ==
  IF state = "Delivering" /\ flags[1] = FALSE /\ flags[2] = TRUE
  THEN Result("RetryScheduled", <<FALSE, TRUE, flags[3] \/ ambiguous>>) ELSE Err

cancel_rule(state, flags) ==
  IF state = "Delivering" /\ flags \in {<<FALSE, FALSE, FALSE>>, <<FALSE, TRUE, FALSE>>,
                                        <<FALSE, TRUE, TRUE>>, <<TRUE, TRUE, TRUE>>}
  THEN Result("Delivering", <<TRUE, flags[2], flags[3]>>) ELSE Err

transition(state, flags, event) ==
  CASE event = "FairClaim" -> claim_rule(state, flags)
    [] event = "DispatchMark" -> dispatch_rule(state, flags)
    [] event = "TransientOutcome" -> outcome_rule(state, flags, FALSE)
    [] event = "AmbiguousOutcome" -> outcome_rule(state, flags, TRUE)
    [] event = "Cancel" -> cancel_rule(state, flags)

\* Mutant: a committed cancellation beats an acceptance.
cancel_first(guards) ==
  CASE guards.cancel_committed -> "Cancelled"
    [] guards.known_acceptance \/ guards.late_ack -> "ProviderAccepted"
    [] guards.expiry_eligible -> "Expired"
    [] guards.attempt_exhausted -> "Failed"
    [] OTHER -> "NoTerminal"

terminal_precedence(guards) ==
  IF guards.known_acceptance \/ guards.late_ack THEN "ProviderAccepted"
  ELSE IF guards.cancel_committed THEN "Cancelled"
  ELSE IF guards.expiry_eligible THEN "Expired"
  ELSE IF guards.attempt_exhausted THEN "Failed"
  ELSE "NoTerminal"

resolve_late_ack(late_ack) == IF late_ack THEN <<"ProviderAccepted">> ELSE Err

-----------------------------------------------------------------------------
\* Fenced outcomes.
Evidence == {"Accepted", "Transient", "RateLimited", "PermanentValidation",
             "AuthenticationConfiguration", "Ambiguous"}

classify_provider_response(evidence) ==
  IF evidence = "PermanentValidation" THEN "Permanent" ELSE evidence

retry_disposition(outcome) ==
  CASE outcome \in {"Transient", "RateLimited", "Ambiguous"} -> "RetryEligible"
    [] outcome \in {"Accepted", "Permanent"} -> "NotRetryable"
    [] outcome = "AuthenticationConfiguration" -> "CircuitProbe"

\* Mutant: the fence token alone is compared.
token_only(current, update, outcome) ==
  IF current.token = update.token THEN <<"Applied">>
  ELSE IF outcome = "Accepted" THEN Err
  ELSE IF outcome = "Ambiguous" THEN <<"StaleAmbiguous">> ELSE <<"Stale">>

arbitrate_outcome(current, update, outcome) ==
  IF current = update THEN <<"Applied">>
  ELSE IF outcome = "Accepted" THEN Err
  ELSE IF outcome = "Ambiguous" THEN <<"StaleAmbiguous">> ELSE <<"Stale">>

validate_lease_config(ttl, timeout, margin) ==
  margin >= 5000 /\ ttl > timeout + margin

-----------------------------------------------------------------------------
\* Retries.
DelayMax == 3600000   \* the longest delay, in milliseconds
AgeMin == 1000        \* the least maximum age

\* Mutant: the last permitted attempt is followed by one more.
admits_one_more(ordinal, max_attempts) ==
  IF max_attempts \in 1..1024 /\ ordinal # 0 /\ ordinal <= max_attempts
  THEN <<IF ordinal > max_attempts THEN "Exhausted" ELSE "Eligible">> ELSE Err

retry_admission_v1(ordinal, max_attempts) ==
  IF max_attempts \in 1..1024 /\ ordinal # 0 /\ ordinal <= max_attempts
  THEN <<IF ordinal >= max_attempts THEN "Exhausted" ELSE "Eligible">> ELSE Err

is_request_valid(ordinal) == ordinal \in 1..1023

\* The first MAC word below the limit; a provider failure, or 256 words
\* above it, yields none.
derive_retry_jitter(ordinal) ==
  LET Word(counter) == Candidates[ordinal, counter]
      Usable == {c \in 0..CounterMax : Word(c) < REJECTION_LIMIT}
  IN IF is_request_valid(ordinal) /\ Usable # {} /\ Word(Least(Usable)) # -1
     THEN <<500 + (Word(Least(Usable)) % 1001)>> ELSE Err

retry_delay_input_is_valid(p, ordinal, multiplier, retry_after) ==
  /\ p.base \in 1000..DelayMax
  /\ p.factor \in 1001..16000
  /\ p.base <= p.max /\ p.max <= DelayMax
  /\ ordinal \in 1..1023
  /\ multiplier \in 500..1500
  /\ IsOk(retry_after) => retry_after[1] \in 1000..DelayMax

Exponential(p) ==
  LET e[n \in 1..p.attempts] ==
        IF n = 1 THEN Least({p.base, p.max}) ELSE Least({(e[n - 1] * p.factor) \div 1000, p.max})
  IN e

\* Mutant: the shorter of the two delays is taken.
shorter_delay(p, ordinal, multiplier, retry_after) ==
  IF ~retry_delay_input_is_valid(p, ordinal, multiplier, retry_after) THEN Err
  ELSE <<Least({Most({Least({(Exponential(p)[ordinal] * multiplier) \div 1000, p.max}), 1})}
                 \cup {retry_after[i] : i \in DOMAIN retry_after})>>

retry_delay_v1(p, ordinal, multiplier, retry_after) ==
  IF ~retry_delay_input_is_valid(p, ordinal, multiplier, retry_after) THEN Err
  ELSE <<Most({Most({Least({(Exponential(p)[ordinal] * multiplier) \div 1000, p.max}), 1})}
                \cup {retry_after[i] : i \in DOMAIN retry_after})>>

Boundary(instant, strict) == [instant |-> instant, strict |-> strict]

\* Mutant: a retry due at the very instant of expiry counts as earlier.
ties_go_to_retry(safe_now, retry_ms, expires_at, created_at, max_age) ==
  LET deadline == utc_add_millis(safe_now, retry_ms)
      oldest == utc_add_millis(created_at, max_age)
      terminal == {oldest[1]} \cup {expires_at[i] : i \in DOMAIN expires_at}
  IN IF IsOk(deadline) /\ IsOk(oldest)
     THEN <<Boundary(Least({deadline[1]} \cup terminal), deadline[1] <= Least(terminal))>>
     ELSE Err

durable_wake_boundary_v1(safe_now, retry_ms, expires_at, created_at, max_age) ==
  IF retry_ms \notin 1..DelayMax \/ max_age < AgeMin \/ max_age > AgeMax THEN Err
  ELSE LET deadline == utc_add_millis(safe_now, retry_ms)
           oldest == utc_add_millis(created_at, max_age)
           terminal == {oldest[1]} \cup {expires_at[i] : i \in DOMAIN expires_at}
       IN IF IsOk(deadline) /\ IsOk(oldest)
          THEN <<Boundary(Least({deadline[1]} \cup terminal), deadline[1] < Least(terminal))>>
          ELSE Err

-----------------------------------------------------------------------------
\* The actor (external).
Terminal == {"ProviderAccepted", "Failed", "Cancelled", "Expired"}

\* The end of the message's life, when it is representable.
Deadline == Least({policy.created + policy.age} \cup {policy.expires[i] : i \in DOMAIN policy.expires})

MessageInit ==
  /\ policy \in {p \in Policies : validate_lease_config(p.ttl, p.timeout, p.margin)}
  /\ row = [state |-> "Queued", flags |-> <<FALSE, FALSE, FALSE>>, ordinal |-> 0]
  /\ lease = [generation |-> 0, token |-> CHOOSE t \in Tokens : TRUE]
  /\ wake = Err
  /\ now = policy.created
  /\ updates = {}
  /\ accepted = FALSE
  /\ claimed = policy.created

\* Apply an event of transition; the other fields of the row stay.
Follow(event) ==
  LET next == transition(row.state, row.flags, event)
  IN /\ IsOk(next)
     /\ row' = [row EXCEPT !.state = next[1].state, !.flags = next[1].flags]

\* Claim under a new lease; a scheduled retry is due and comes before the end.
Claim ==
  /\ row.state = "RetryScheduled" => IsOk(wake) /\ wake[1].strict
  /\ Follow("FairClaim")
  /\ IsOk(increment_generation(lease.generation))
  /\ \E t \in Tokens :
       lease' = [generation |-> increment_generation(lease.generation)[1], token |-> t]
  /\ now' = IF IsOk(wake) THEN wake[1].instant ELSE now
  /\ claimed' = now'
  /\ UNCHANGED <<policy, wake, updates, accepted>>

Dispatch ==
  /\ Follow("DispatchMark")
  /\ UNCHANGED <<policy, lease, wake, now, updates, accepted, claimed>>

Cancel ==
  /\ Follow("Cancel") /\ row' # row
  /\ UNCHANGED <<policy, lease, wake, now, updates, accepted, claimed>>

\* The worker of the dispatched attempt reports what the provider answered:
\* possibly an ambiguous timeout first and the real answer later.
Report ==
  /\ row.flags[2] /\ lease.generation > 0
  /\ Cardinality(updates) < MaxUpdates
  /\ \E e \in Evidence, after \in RetryAfters :
       updates' = updates \cup {[lease |-> lease, outcome |-> classify_provider_response(e),
                                 after |-> IF e = "RateLimited" THEN after ELSE Err]}
  /\ UNCHANGED <<policy, row, lease, wake, now, accepted, claimed>>

FenceOutcome(outcome) ==
  CASE outcome = "RateLimited" -> "Transient"
    [] outcome = "AuthenticationConfiguration" -> "Permanent"
    [] OTHER -> outcome

Arbitrated(u) == arbitrate_outcome(lease, u.lease, FenceOutcome(u.outcome))

\* Schedule the next attempt after a completed ordinal.
Scheduled(ordinal, after) ==
  LET jitter == derive_retry_jitter(ordinal)
      delay == IF IsOk(jitter) THEN retry_delay_v1(policy, ordinal, jitter[1], after) ELSE Err
  IN IF IsOk(delay)
     THEN durable_wake_boundary_v1(now, delay[1], policy.expires, policy.created, policy.age)
     ELSE Err

\* An outcome under the current fence: terminal precedence first, then the
\* transition and the wake of a retry.
Commit ==
  \E u \in updates :
    /\ Arbitrated(u) = <<"Applied">>
    /\ row.state \notin Terminal \/ u.outcome = "Accepted"
    /\ LET ordinal == row.ordinal + 1
           winner == terminal_precedence(
             [known_acceptance |-> u.outcome = "Accepted" \/ accepted,
              late_ack |-> FALSE,
              cancel_committed |-> row.flags[1],
              expiry_eligible |-> proven_expired(Deadline, now),
              attempt_exhausted |-> retry_admission_v1(ordinal, policy.attempts) # <<"Eligible">>])
           event == IF u.outcome = "Ambiguous" THEN "AmbiguousOutcome" ELSE "TransientOutcome"
       IN \/ /\ winner # "NoTerminal"
             /\ row.state = "Delivering" \/ u.outcome = "Accepted"
             /\ row' = [row EXCEPT !.state = winner,
                          !.ordinal = IF row.state = "Delivering" THEN ordinal ELSE @,
                          !.flags = IF u.outcome = "Ambiguous" THEN <<@[1], TRUE, TRUE>> ELSE @]
             /\ wake' = Err
          \/ /\ winner = "NoTerminal"
             /\ retry_disposition(u.outcome) = "RetryEligible"
             /\ LET next == transition(row.state, row.flags, event)
                IN /\ IsOk(next)
                   /\ row' = [state |-> next[1].state, flags |-> next[1].flags, ordinal |-> ordinal]
             /\ wake' = Scheduled(ordinal, u.after)
    /\ accepted' = (accepted \/ u.outcome = "Accepted")
    /\ UNCHANGED <<policy, lease, now, updates, claimed>>

\* A stale outcome: ambiguity stays on record, an acceptance counts as a
\* late acknowledgement, anything else is orphaned.
Late ==
  \E u \in updates :
    /\ Arbitrated(u) # <<"Applied">>
    /\ LET late == resolve_late_ack(u.outcome = "Accepted")
       IN row' = [row EXCEPT !.state = IF IsOk(late) THEN late[1] ELSE @,
                    !.flags = IF Arbitrated(u) = <<"StaleAmbiguous">> THEN <<@[1], TRUE, TRUE>> ELSE @]
    /\ row' # row
    /\ accepted' = (accepted \/ u.outcome = "Accepted")
    /\ UNCHANGED <<policy, lease, wake, now, updates, claimed>>

\* The end comes first: the wake finds expiry or the maximum age.
Expire ==
  /\ row.state = "RetryScheduled" /\ IsOk(wake) /\ ~wake[1].strict
  /\ now' = Most({now, wake[1].instant})
  /\ row' = [row EXCEPT !.state = terminal_precedence(
               [known_acceptance |-> accepted, late_ack |-> FALSE, cancel_committed |-> row.flags[1],
                expiry_eligible |-> proven_expired(Deadline, now'), attempt_exhausted |-> FALSE])]
  /\ wake' = Err
  /\ UNCHANGED <<policy, lease, updates, accepted, claimed>>

MessageNext == Claim \/ Dispatch \/ Cancel \/ Report \/ Commit \/ Late \/ Expire

MessageSpec == MessageInit /\ [][MessageNext]_messageVars

-----------------------------------------------------------------------------
\* The values are of their types: a stored wake fits an instant, also for a
\* message created near the end of time (utc_add_millis), and a retry follows
\* a dispatched attempt.
MessageTypeOK ==
  /\ row.state \in {"Queued", "Delivering", "RetryScheduled"} \cup Terminal
  /\ row.flags \in [1..3 -> BOOLEAN]
  /\ row.ordinal \in 0..GenerationMax
  /\ lease.generation \in 0..GenerationMax /\ lease.token \in Tokens
  /\ {now, claimed} \cup {wake[i].instant : i \in DOMAIN wake} \subseteq 0..UtcMax
  /\ row.state = "RetryScheduled" => row.flags[2]

\* transition and the stale branch of arbitrate_outcome: a cancellation, a
\* possible effect and a possible duplicate, once recorded, stay recorded
\* through retries, late reports and terminal states.
FlagsStay == \A i \in 1..3 : row.flags[i] => row'.flags[i]

\* terminal_precedence and resolve_late_ack: once an acceptance is committed,
\* under its fence or late, no cancellation, expiry, exhaustion or later
\* outcome takes the message elsewhere.
AcceptanceWins == accepted => row.state = "ProviderAccepted"

\* retry_admission_v1: a message is claimed no more often than its policy
\* allows attempts.
AttemptsBounded == lease.generation <= policy.attempts

\* arbitrate_outcome: an attempt is settled by a report of its own lease, even
\* when fence tokens repeat and old reports arrive again.
SettledByOwnOutcome ==
  (row.state = "Delivering" /\ row'.state \in {"RetryScheduled", "Failed", "Cancelled"})
  => \E u \in updates : u.lease = lease

\* durable_wake_boundary_v1: no attempt begins at or after the instant the
\* message expires or is too old.
ClaimsBeforeEnd == row.state = "Delivering" => claimed < Deadline

\* retry_delay_v1: a retry that is scheduled after a report with a Retry-After waits at
\* least as long as that asks, and no longer than the longer of it and the policy's
\* longest delay.  A lease may have several reports: the retry fits one of them.  Without
\* a Retry-After nothing is said here; ClaimsBeforeEnd and AttemptsBounded bound the rest.
WaitsAsAsked ==
  (row.state = "Delivering" /\ row'.state = "RetryScheduled" /\ wake' # Err /\ wake'[1].strict)
  => \E u \in {v \in updates : v.lease = lease} :
       LET waits == wake'[1].instant - now
           asked == {u.after[i] : i \in DOMAIN u.after}
       IN \A a \in asked : a <= waits /\ waits <= Most({policy.max, a})

\* A message's decisions: its values are of their types; once an acceptance is
\* committed, under its fence or late, no cancellation, expiry, exhaustion or
\* later outcome takes the message elsewhere (terminal_precedence,
\* resolve_late_ack); it is claimed no more often than its policy allows
\* (retry_admission_v1), and never at or after the instant it expires or is too
\* old (durable_wake_boundary_v1).
MessageSafety == MessageTypeOK /\ AcceptanceWins /\ AttemptsBounded /\ ClaimsBeforeEnd

-----------------------------------------------------------------------------
(***************************************************************************)
(* The inductive invariant.  An attempt that is under way has not been     *)
(* counted yet, a scheduled one is within the policy's attempts, and a     *)
(* stored wake is before the end when a retry comes first, else at it.     *)
(***************************************************************************)
WakeInv ==
  wake # Err =>
    /\ wake = <<wake[1]>>
    /\ wake[1] \in [instant : 0..UtcMax, strict : BOOLEAN]
    /\ IF wake[1].strict THEN wake[1].instant < Deadline ELSE wake[1].instant = Deadline

AttemptsInv ==
  /\ row.ordinal <= lease.generation
  /\ row.state = "Queued" => wake = Err /\ now = policy.created /\ lease.generation = 0
  /\ row.state = "Delivering" => lease.generation = row.ordinal + 1
  /\ row.state = "RetryScheduled" => lease.generation = row.ordinal /\ row.ordinal < policy.attempts

UpdatesInv == \A u \in updates : u.after \in Seq(Nat) /\ Len(u.after) <= 1

MessageInv ==
  /\ policy \in Policies
  /\ row = [state |-> row.state, flags |-> row.flags, ordinal |-> row.ordinal]
  /\ lease = [generation |-> lease.generation, token |-> lease.token]
  /\ accepted \in BOOLEAN
  /\ MessageSafety /\ WakeInv /\ AttemptsInv /\ UpdatesInv
=============================================================================

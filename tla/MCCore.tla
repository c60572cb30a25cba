-------------------------------- MODULE MCCore --------------------------------
(***************************************************************************)
(* The decisions of the core crates and of the control journal's owner,    *)
(* one component at a time: in a behaviour one of Parts moves and the      *)
(* others stay in an initial state.                                        *)
(***************************************************************************)
EXTENDS SafeTime, StateMacKeys, RetryAfter, MessageCore, Allocator, ControlJournal

CONSTANT Parts

VARIABLE part   \* the component that moves

-----------------------------------------------------------------------------
\* Policies with an expiry before, at and after a retry's deadline, and a
\* message created so late that its maximum age does not fit an instant.
Policy(created, expires, attempts) ==
  [base |-> 1000, factor |-> 2000, max |-> 1500, attempts |-> attempts,
   ttl |-> 15001, timeout |-> 10000, margin |-> 5000,
   created |-> created, age |-> 4000, expires |-> expires]

SmallPolicies ==
  {Policy(0, <<>>, 2), Policy(0, <<1000>>, 2), Policy(0, <<2500>>, 3),
   Policy(99500, <<>>, 2), [Policy(0, <<>>, 2) EXCEPT !.ttl = 15000]}
Asked == {<<>>, <<1000>>, <<2000>>}

\* The first word of the first attempt is rejected, the third attempt has
\* no MAC.
Words ==
  [o \in 1..3, c \in 0..1 |->
     CASE o = 1 -> IF c = 0 THEN 2002 ELSE 500
       [] o = 2 -> 1501
       [] o = 3 -> -1]

\* Two purposes, the second the portable reservation, limbs of two values, at
\* most two keys each.
Row(p, o, hi, lo, s) == [purpose |-> p, origin |-> o, hi |-> hi, lo |-> lo, status |-> s]
Water(p, hi, lo) == [purpose |-> p, hi |-> hi, lo |-> lo]

SomeRows ==
  {Row(1, 1, 0, 1, 1), Row(1, 1, 1, 0, 1), Row(1, 1, 0, 1, 2), Row(1, 2, 1, 1, 2), Row(1, 0, 0, 1, 1),
   Row(2, 0, 0, 1, 1), Row(2, 1, 0, 1, 1), Row(2, 1, 1, 0, 2), Row(2, 0, 1, 0, 1),
   Row(1, 1, 0, 0, 1), Row(1, 1, 2, 0, 1), Row(3, 1, 0, 1, 1), Row(1, -1, 0, 1, 1), Row(2, 0, 0, 1, 3)}
SomeWaters ==
  {Water(1, 0, 1), Water(1, 1, 0), Water(1, 1, 1), Water(2, 0, 0), Water(2, 1, 0), Water(2, 0, 2)}
SomeOrigins == {-1, 1}
SomeFiles ==
  [f \in 1..5 |->
     CASE f = 1 -> [good |-> TRUE, of |-> <<1, <<1, 0, 1>>>>]
       [] f = 2 -> [good |-> TRUE, of |-> <<1, <<1, 1, 0>>>>]
       [] f = 3 -> [good |-> TRUE, of |-> <<2, <<0, 0, 1>>>>]
       [] f = 4 -> [good |-> FALSE, of |-> <<1, <<1, 0, 1>>>>]
       [] f = 5 -> [good |-> TRUE, of |-> <<0, <<9, 9, 9>>>>]]

\* 1896 to 2004 holds leap years, the common century year 1900 and the leap
\* century year 2000.  60 is a leap second.
SomeTimes == {<<0, 0, 0>>, <<0, 0, 60>>, <<23, 59, 60>>, <<23, 0, 1>>}

\* One lineage of images, so a sequence number identifies a record: the digest
\* is the number.
CountingDigest(prior, record) == <<prior.sequence + 1>>

\* A bootstrapped root: a selected state, an active and a pending recovery
\* key, a running and a finished command.
Bootstrapped ==
  [pointer |-> 1,
   ring |-> <<[generation |-> 1, phase |-> "Active"], [generation |-> 2, phase |-> "PendingEscrow"]>>,
   commands |-> <<[key |-> 1, phase |-> 3, retention |-> [terminal_time |-> 0, expires_at |-> 1],
                   safe_result |-> "digest"],
                  [key |-> 2, phase |-> 1, retention |-> Absent, safe_result |-> Absent]>>]

\* Values the encoder refuses: two active keys; commands out of order.
TwoActive == [Bootstrapped EXCEPT !.ring[2].phase = "Active"]
Unsorted == [Bootstrapped EXCEPT !.commands[2].key = 1]

SomeMembers == {Bootstrapped, TwoActive, Unsorted}

-----------------------------------------------------------------------------
Init ==
  /\ part \in Parts
  /\ SafeTimeInit /\ MacKeysInit /\ DateInit /\ MessageInit /\ AllocatorInit
  /\ OwnerInit
  /\ part # "keys" => raw.origin = 1
  /\ part # "dates" => forward
  /\ part # "message" => policy = Policy(0, <<>>, 2)
  /\ part # "journal" => projection.clock.safe_time = 0 /\ process = CHOOSE p \in Processes : TRUE

Next ==
  /\ UNCHANGED part
  /\ \/ /\ part = "time" /\ SafeTimeNext
        /\ UNCHANGED <<macKeysVars, dateVars, messageVars, allocatorVars, ownerVars>>
     \/ /\ part = "keys" /\ MacKeysNext
        /\ UNCHANGED <<safeTimeVars, dateVars, messageVars, allocatorVars, ownerVars>>
     \/ /\ part = "dates" /\ DateNext
        /\ UNCHANGED <<safeTimeVars, macKeysVars, messageVars, allocatorVars, ownerVars>>
     \/ /\ part = "message" /\ MessageNext
        /\ UNCHANGED <<safeTimeVars, macKeysVars, dateVars, allocatorVars, ownerVars>>
     \/ /\ part = "allocator" /\ AllocatorNext
        /\ UNCHANGED <<safeTimeVars, macKeysVars, dateVars, messageVars, ownerVars>>
     \/ /\ part = "journal" /\ OwnerNext
        /\ UNCHANGED <<safeTimeVars, macKeysVars, dateVars, messageVars, allocatorVars>>

Spec ==
  Init /\ [][Next]_<<part, safeTimeVars, macKeysVars, dateVars, messageVars, allocatorVars, ownerVars>>

-----------------------------------------------------------------------------
\* What one decision may not do.  A cancellation, a possible effect and a
\* possible duplicate, once recorded, stay recorded; an attempt is settled by a
\* report of its own lease, even when fence tokens repeat and old reports arrive
\* again (arbitrate_outcome); a retry waits as long as the provider asked and no
\* longer than policy or provider allow (retry_delay_v1); and a serial is burned
\* for a new command only while nothing holds it back
\* (allocator_hold_precedence).
DecisionSteps ==
  [][/\ part = "message" => FlagsStay /\ SettledByOwnOutcome /\ WaitsAsAsked
     /\ part = "allocator" => BurnIsFree]_<<part, messageVars, allocatorVars>>
=============================================================================

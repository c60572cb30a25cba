---------------------------- MODULE DecisionProofs ----------------------------
(***************************************************************************)
(* Proofs about the decisions of the core crates: the allocator of         *)
(* incarnations, the life of one message, the safe time of a fixed root    *)
(* and its branches, the retained MAC keys of a selected state, and the    *)
(* dates of Retry-After headers.                                           *)
(***************************************************************************)
EXTENDS MessageCore, Allocator, SafeTime, StateMacKeys, RetryAfter, Induction, TLAPS

-----------------------------------------------------------------------------
(***************************************************************************)
(* The allocator.                                                          *)
(***************************************************************************)

\* A serial that is issued is the next one, and there is one.
LEMMA NextSerial ==
  ASSUME NEW h \in 0..SerialMax, IsOk(next_branch_serial(h))
  PROVE  /\ h < SerialMax
         /\ next_branch_serial(h) = <<h + 1>>
  BY AllocatorAssumption DEF next_branch_serial, IsOk, Err

\* The state of a root, field by field.
LEMMA RootFields ==
  ASSUME AllocatorTypeOK, NEW r \in Roots
  PROVE  /\ root[r] \in RootStates
         /\ root[r].header \in [namespace : Roots, high_water : 0..SerialMax]
         /\ root[r].header.high_water \in 0..SerialMax
         /\ root[r].ended \in Nat
         /\ root[r].generation \in 0..GenerationMax
         /\ root[r].history \subseteq Incarnations
         /\ root[r].retained # None =>
              /\ root[r].retained = <<root[r].retained[1]>>
              /\ root[r].retained[1] \in RetainedIntents
  <1>1. root[r] \in RootStates
    BY DEF AllocatorTypeOK
  <1>2. QED
    BY <1>1 DEF RootStates, None

\* Steps that change one root only, and neither what was issued nor what was
\* answered, nor the root's header.
LEMMA RootChange ==
  ASSUME AllocatorInv, NEW r \in Roots, NEW me \in RootStates,
         root' = [root EXCEPT ![r] = me], UNCHANGED <<issued, answers>>,
         me.header = root[r].header,
         \A t \in me.history : t[1] = r /\ t[2] \in Burned(r),
         me.retained # None => me.retained[1].target[1] = r /\ me.retained[1].target[2] \in Burned(r),
         \/ me.ended = root[r].ended + 1
         \/ me.ended = root[r].ended /\ me.retained = root[r].retained
  PROVE  AllocatorInv'
  <1>1. AllocatorTypeOK'
    BY DEF AllocatorInv, AllocatorTypeOK
  <1>2. /\ root \in [Roots -> RootStates]
        /\ root'[r] = me
        /\ \A q \in Roots : q # r => root'[q] = root[q]
    BY DEF AllocatorInv, AllocatorTypeOK
  <1>3. \A q \in Roots : root'[q].header = root[q].header /\ Burned(q)' = Burned(q)
    BY <1>2 DEF Burned
  <1>4. OwnNamespace'
    <2>1. ASSUME NEW q \in Roots
          PROVE  /\ root'[q].header.namespace = q
                 /\ \A t \in root'[q].history : t[1] = q /\ t[2] \in Burned(q)'
                 /\ root'[q].retained # None =>
                      root'[q].retained[1].target[1] = q /\ root'[q].retained[1].target[2] \in Burned(q)'
      <3>1. CASE q = r
        BY <3>1, <1>2, <1>3 DEF AllocatorInv, OwnNamespace
      <3>2. CASE q # r
        BY <3>2, <1>2, <1>3 DEF AllocatorInv, OwnNamespace
      <3>3. QED BY <3>1, <3>2
    <2>2. QED BY <2>1 DEF OwnNamespace
  <1>5. IssuedInv' /\ IssuedOnce'
    <2>1. \A i \in issued : i.root \in Roots
      BY DEF AllocatorInv, AllocatorTypeOK
    <2>2. QED
      BY <1>3, <2>1 DEF AllocatorInv, IssuedInv, IssuedOnce
  <1>6. AnswersInv' /\ OneTargetPerCommand'
    <2>1. OneTargetPerCommand'
      BY DEF AllocatorInv, OneTargetPerCommand
    <2>2. ASSUME NEW a \in answers
          PROVE  /\ a.number <= root'[a.root].ended + 1
                 /\ a.number = root'[a.root].ended + 1 =>
                      root'[a.root].retained = <<[command |-> a.command, target |-> a.target]>>
      <3>1. a.root \in Roots /\ a.number \in Nat /\ root[a.root].ended \in Nat
        BY RootFields DEF AllocatorInv, AllocatorTypeOK
      <3>2. /\ a.number <= root[a.root].ended + 1
            /\ a.number = root[a.root].ended + 1 =>
                 root[a.root].retained = <<[command |-> a.command, target |-> a.target]>>
        BY DEF AllocatorInv, AnswersInv
      <3>3. CASE a.root # r
        BY <3>1, <3>2, <3>3, <1>2
      <3>4. CASE a.root = r
        BY <3>1, <3>2, <3>4, <1>2
      <3>5. QED BY <3>3, <3>4
    <2>3. QED BY <2>1, <2>2 DEF AnswersInv
  <1>7. QED
    BY <1>1, <1>4, <1>5, <1>6 DEF AllocatorInv

\* Steps that burn the next serial of a root for a target.
LEMMA SerialBurned ==
  ASSUME AllocatorInv, NEW r \in Roots, NEW me \in RootStates, NEW s \in 1..SerialMax,
         s = root[r].header.high_water + 1,
         me.header = [namespace |-> r, high_water |-> s],
         root' = [root EXCEPT ![r] = me],
         issued' = issued \cup {[root |-> r, number |-> Number(r), target |-> <<r, s>>]},
         \A t \in me.history : t[1] = r /\ t[2] \in 1..s,
         me.retained # None => me.retained[1].target[1] = r /\ me.retained[1].target[2] \in 1..s
  PROVE  OwnNamespace' /\ IssuedInv' /\ IssuedOnce'
  <1>1. /\ root \in [Roots -> RootStates]
        /\ root'[r] = me
        /\ \A q \in Roots : q # r => root'[q] = root[q]
    BY DEF AllocatorInv, AllocatorTypeOK
  <1>2. root[r].header.high_water \in 0..SerialMax /\ SerialMax \in Nat
    BY RootFields, AllocatorAssumption DEF AllocatorInv
  <1>3. /\ Burned(r)' = 1..s
        /\ Burned(r) = 1..(s - 1)
        /\ Burned(r) \subseteq Burned(r)'
        /\ s \notin Burned(r)
        /\ \A q \in Roots : q # r => Burned(q)' = Burned(q)
    BY <1>1, <1>2 DEF Burned
  <1>4. OwnNamespace'
    <2>1. ASSUME NEW q \in Roots
          PROVE  /\ root'[q].header.namespace = q
                 /\ \A t \in root'[q].history : t[1] = q /\ t[2] \in Burned(q)'
                 /\ root'[q].retained # None =>
                      root'[q].retained[1].target[1] = q /\ root'[q].retained[1].target[2] \in Burned(q)'
      <3>1. CASE q = r
        BY <3>1, <1>1, <1>3
      <3>2. CASE q # r
        BY <3>2, <1>1, <1>3 DEF AllocatorInv, OwnNamespace
      <3>3. QED BY <3>1, <3>2
    <2>2. QED BY <2>1 DEF OwnNamespace
  <1> DEFINE new == [root |-> r, number |-> Number(r), target |-> <<r, s>>]
  <1>5. new.root = r /\ new.target = <<r, s>> /\ new.target[1] = r /\ new.target[2] = s
    OBVIOUS
  <1>6. issued' = issued \cup {new}
    OBVIOUS
  <1> HIDE DEF new
  <1>7. ASSUME NEW i \in issued
        PROVE  /\ i.root \in Roots
               /\ i.target[1] = i.root /\ i.target[2] \in Burned(i.root)
               /\ i.target # <<r, s>>
    <2>1. i.root \in Roots /\ i.target[1] = i.root /\ i.target[2] \in Burned(i.root)
      BY DEF AllocatorInv, AllocatorTypeOK, IssuedInv
    <2>2. QED
      BY <2>1, <1>3
  <1>8. IssuedOnce'
    BY <1>5, <1>6, <1>7 DEF AllocatorInv, IssuedOnce
  <1>9. \A i \in issued' : i.target[1] = i.root /\ i.target[2] \in Burned(i.root)'
    <2>1. s \in Burned(r)'
      BY <1>3
    <2>2. ASSUME NEW i \in issued'
          PROVE  i.target[1] = i.root /\ i.target[2] \in Burned(i.root)'
      <3>1. CASE i \in issued
        BY <3>1, <1>3, <1>7
      <3>2. CASE i \notin issued
        BY <3>2, <2>1, <1>5, <1>6
      <3>3. QED BY <3>1, <3>2
    <2>3. QED BY <2>2
  <1>10. ASSUME NEW q \in Roots, NEW n \in Burned(q)'
         PROVE  \E i \in issued' : i.target = <<q, n>>
    <2>1. CASE n \in Burned(q)
      BY <2>1, <1>6 DEF AllocatorInv, IssuedInv
    <2>2. CASE n \notin Burned(q)
      <3>1. q = r /\ n = s
        BY <2>2, <1>2, <1>3
      <3>2. QED
        BY <3>1, <1>5, <1>6
    <2>3. QED BY <2>1, <2>2
  <1>11. QED
    BY <1>4, <1>8, <1>9, <1>10 DEF IssuedInv

\* The invariant says what the allocator promises.
LEMMA AllocatorInvSafe ==
  ASSUME AllocatorInv
  PROVE  AllocatorSafety
  <1>1. ASSUME NEW r \in Roots, NEW t,
               t[1] = r, t[2] \in Burned(r)
        PROVE  classify_witness("Local", t, root[r].header) = "LocalWitness"
    BY <1>1 DEF classify_witness, AllocatorInv, OwnNamespace, Burned
  <1>2. ASSUME NEW r \in Roots, NEW i \in issued, i.root # r
        PROVE  classify_witness("Local", i.target, root[r].header) = "Corrupt"
    BY <1>2 DEF classify_witness, AllocatorInv, OwnNamespace, IssuedInv
  <1>3. ASSUME NEW r \in Roots, NEW s \in 0..SerialMax,
               classify_witness("Local", compose_incarnation(root[r].header.namespace, s), root[r].header)
                 = "LocalWitness"
        PROVE  \E i \in issued : i.target = compose_incarnation(root[r].header.namespace, s)
    <2>1. root[r].header.namespace = r
      BY DEF AllocatorInv, OwnNamespace
    <2>2. <<r, s>>[2] \in Burned(r)
      BY <1>3, <2>1 DEF classify_witness, compose_incarnation, Burned
    <2>3. QED
      BY <2>1, <2>2 DEF AllocatorInv, IssuedInv, compose_incarnation
  <1>4. ASSUME NEW r \in Roots,
               NEW t \in root[r].history \cup {root[r].retained[i].target : i \in DOMAIN root[r].retained}
        PROVE  classify_witness("Local", t, root[r].header) = "LocalWitness"
    <2>1. CASE t \in root[r].history
      BY <2>1, <1>1 DEF AllocatorInv, OwnNamespace
    <2>2. CASE t \notin root[r].history
      <3>1. PICK i \in DOMAIN root[r].retained : t = root[r].retained[i].target
        BY <2>2
      <3>2. root[r].retained # None
        BY <3>1 DEF None
      <3>3. root[r].retained = <<root[r].retained[1]>>
        BY <3>2, RootFields DEF AllocatorInv
      <3>4. i = 1
        BY <3>1, <3>3
      <3>5. QED
        BY <3>1, <3>2, <3>4, <1>1 DEF AllocatorInv, OwnNamespace
    <2>3. QED BY <2>1, <2>2
  <1>5. WitnessesLocal
    BY <1>2, <1>3, <1>4 DEF WitnessesLocal
  <1>6. QED
    BY <1>5 DEF AllocatorInv, AllocatorSafety

LEMMA AllocatorStart ==
  ASSUME AllocatorInit
  PROVE  AllocatorInv
  <1>1. \A r \in Roots : Blank(r) \in RootStates
    BY AllocatorAssumption, GenerationAssumption
       DEF Blank, RootStates, initialize_allocator_header, derive_owner_namespace, None
  <1>2. \A r \in Roots :
          /\ Blank(r).header.namespace = r /\ Blank(r).header.high_water = 0
          /\ Blank(r).history = {} /\ Blank(r).retained = None
    BY DEF Blank, initialize_allocator_header, derive_owner_namespace
  <1>3. AllocatorTypeOK
    BY <1>1 DEF AllocatorInit, AllocatorTypeOK
  <1>4. \A r \in Roots : root[r] = Blank(r) /\ Burned(r) = {}
    BY <1>2 DEF AllocatorInit, Burned
  <1>5. QED
    BY <1>2, <1>3, <1>4
       DEF AllocatorInit, AllocatorInv, OwnNamespace, IssuedInv, IssuedOnce, AnswersInv, OneTargetPerCommand

\* A command asks again: the retained target is told once more.
LEMMA Reused ==
  ASSUME AllocatorInv, NEW r \in Roots, NEW c \in Commands, NEW t,
         root[r].retained = <<[command |-> c, target |-> t]>>,
         Answer(r, c, t), UNCHANGED <<root, issued>>
  PROVE  AllocatorInv'
  <1> DEFINE new == [root |-> r, number |-> Number(r), command |-> c, target |-> t]
  <1>1. root[r].ended \in Nat /\ t \in Incarnations
    <2>1. root[r].retained # None
      BY DEF None
    <2>2. root[r].ended \in Nat /\ root[r].retained[1] \in RetainedIntents
      BY <2>1, RootFields DEF AllocatorInv
    <2>3. root[r].retained[1].target = t
      OBVIOUS
    <2>4. QED
      BY <2>2, <2>3 DEF RetainedIntents
  <1>2. answers' = answers \cup {new}
    BY DEF Answer
  <1>3. new \in [root : Roots, number : Nat, command : Commands, target : Incarnations]
    BY <1>1 DEF Number
  <1>4. new.root = r /\ new.number = root[r].ended + 1 /\ new.command = c /\ new.target = t
    BY DEF Number
  <1> HIDE DEF new
  <1>5. AllocatorTypeOK' /\ OwnNamespace' /\ IssuedInv' /\ IssuedOnce'
    BY <1>2, <1>3 DEF AllocatorInv, AllocatorTypeOK, OwnNamespace, IssuedInv, IssuedOnce, Burned
  <1>6. AnswersInv'
    <2>1. ASSUME NEW a \in answers'
          PROVE  /\ a.number <= root[a.root].ended + 1
                 /\ a.number = root[a.root].ended + 1 =>
                      root[a.root].retained = <<[command |-> a.command, target |-> a.target]>>
      <3>1. CASE a \in answers
        BY <3>1 DEF AllocatorInv, AnswersInv
      <3>2. CASE a \notin answers
        <4>1. a = new BY <3>2, <1>2
        <4>2. a.root = r /\ a.number = root[r].ended + 1 /\ a.command = c /\ a.target = t
          BY <4>1, <1>4
        <4>3. QED BY <4>2, <1>1
      <3>3. QED BY <3>1, <3>2
    <2>2. QED BY <2>1 DEF AnswersInv
  <1>7. ASSUME NEW a \in answers, a.root = r, a.number = root[r].ended + 1
        PROVE  a.command = c /\ a.target = t
    <2>1. root[r].retained = <<[command |-> a.command, target |-> a.target]>>
      BY <1>7 DEF AllocatorInv, AnswersInv
    <2>2. [command |-> a.command, target |-> a.target] = [command |-> c, target |-> t]
      BY <2>1
    <2>3. QED BY <2>2
  <1>8. OneTargetPerCommand'
    BY <1>2, <1>4, <1>7 DEF AllocatorInv, OneTargetPerCommand
  <1>9. QED
    BY <1>5, <1>6, <1>8 DEF AllocatorInv

\* A command asks for the first time: the next serial is burned with its intent.
LEMMA Issued ==
  ASSUME AllocatorInv, NEW r \in Roots, NEW c \in Commands, NEW t,
         root[r].retained = None,
         IsOk(next_branch_serial(root[r].header.high_water)),
         t = compose_incarnation(root[r].header.namespace,
                                 next_branch_serial(root[r].header.high_water)[1]),
         root' = [root EXCEPT ![r].header = burn_next_serial(@),
                              ![r].retained = <<[command |-> c, target |-> t]>>],
         issued' = issued \cup {[root |-> r, number |-> Number(r), target |-> t]},
         Answer(r, c, t)
  PROVE  AllocatorInv'
  <1> DEFINE s == root[r].header.high_water + 1
             intent == [command |-> c, target |-> t]
             me == [root[r] EXCEPT !.header = [namespace |-> r, high_water |-> s],
                                   !.retained = <<intent>>]
  <1>1. /\ root \in [Roots -> RootStates] /\ root[r] \in RootStates
        /\ root[r].header.high_water \in 0..SerialMax
        /\ root[r].header \in [namespace : Roots, high_water : 0..SerialMax]
        /\ root[r].ended \in Nat
        /\ root[r].header.namespace = r
    BY RootFields DEF AllocatorInv, AllocatorTypeOK, OwnNamespace
  <1>2. /\ next_branch_serial(root[r].header.high_water) = <<s>>
        /\ s \in 1..SerialMax
    BY <1>1, NextSerial, AllocatorAssumption
  <1>3. t = <<r, s>> /\ t[1] = r /\ t[2] = s /\ t \in Incarnations
    BY <1>1, <1>2 DEF compose_incarnation, Incarnations
  <1>4. burn_next_serial(root[r].header) = [namespace |-> r, high_water |-> s]
    BY <1>1, <1>2 DEF burn_next_serial
  <1>5. root' = [root EXCEPT ![r] = me]
    BY <1>1, <1>4
  <1>6. intent \in RetainedIntents /\ intent.target = t
    BY <1>3 DEF RetainedIntents
  <1>7. me \in RootStates
    <2> DEFINE head == [namespace |-> r, high_water |-> s]
    <2>1. head \in [namespace : Roots, high_water : 0..SerialMax]
      BY <1>2
    <2>2. <<intent>> \in {None} \cup {<<i>> : i \in RetainedIntents}
      BY <1>6
    <2> HIDE DEF head, intent, s
    <2>3. [root[r] EXCEPT !.header = head, !.retained = <<intent>>] \in RootStates
      BY <1>1, <2>1, <2>2 DEF RootStates
    <2>4. QED BY <2>3 DEF head
  <1>8. /\ me.header = [namespace |-> r, high_water |-> s]
        /\ me.history = root[r].history /\ me.ended = root[r].ended
        /\ me.retained = <<intent>> /\ me.retained[1] = intent
    BY <1>1 DEF RootStates
  <1>9. \A h \in me.history : h[1] = r /\ h[2] \in 1..s
    BY <1>1, <1>8 DEF AllocatorInv, OwnNamespace, Burned
  <1>10. me.retained[1].target[1] = r /\ me.retained[1].target[2] \in 1..s
    BY <1>2, <1>3, <1>6, <1>8
  <1> HIDE DEF me, s
  <1>11. OwnNamespace' /\ IssuedInv' /\ IssuedOnce'
    <2>1. s = root[r].header.high_water + 1 BY DEF s
    <2>2. QED
      BY <1>2, <1>3, <1>5, <1>7, <1>8, <1>9, <1>10, <2>1, SerialBurned
  <1> DEFINE new == [root |-> r, number |-> Number(r), command |-> c, target |-> t]
             given == [root |-> r, number |-> Number(r), target |-> t]
  <1>12. /\ new \in [root : Roots, number : Nat, command : Commands, target : Incarnations]
         /\ given \in [root : Roots, number : Nat, target : Incarnations]
         /\ new.root = r /\ new.number = root[r].ended + 1 /\ new.command = c /\ new.target = t
    BY <1>1, <1>3 DEF Number
  <1>13. answers' = answers \cup {new} /\ issued' = issued \cup {given}
    BY DEF Answer
  <1> HIDE DEF new, given
  <1>14. AllocatorTypeOK'
    <2>1. root' \in [Roots -> RootStates]
      BY <1>1, <1>5, <1>7
    <2>2. issued' \subseteq [root : Roots, number : Nat, target : Incarnations]
      BY <1>12, <1>13 DEF AllocatorInv, AllocatorTypeOK
    <2>3. answers' \subseteq [root : Roots, number : Nat, command : Commands, target : Incarnations]
      BY <1>12, <1>13 DEF AllocatorInv, AllocatorTypeOK
    <2>4. QED BY <2>1, <2>2, <2>3 DEF AllocatorTypeOK
  <1>15. ASSUME NEW a \in answers, a.root = r
         PROVE  a.number <= root[r].ended /\ a.number \in Nat
    <2>1. a.number \in Nat /\ a.number <= root[r].ended + 1
      BY <1>15 DEF AllocatorInv, AllocatorTypeOK, AnswersInv
    <2>2. a.number # root[r].ended + 1
      <3>1. <<[command |-> a.command, target |-> a.target]>> # None
        BY DEF None
      <3>2. QED
        BY <3>1, <1>15 DEF AllocatorInv, AnswersInv
    <2>3. QED BY <2>1, <2>2, <1>1
  <1>16. /\ root'[r] = me
         /\ \A q \in Roots : q # r => root'[q] = root[q]
    BY <1>1, <1>5
  <1>17. AnswersInv'
    <2>1. ASSUME NEW a \in answers'
          PROVE  /\ a.number <= root'[a.root].ended + 1
                 /\ a.number = root'[a.root].ended + 1 =>
                      root'[a.root].retained = <<[command |-> a.command, target |-> a.target]>>
      <3>1. CASE a \in answers /\ a.root # r
        <4>1. a.root \in Roots
          BY <3>1 DEF AllocatorInv, AllocatorTypeOK
        <4>2. QED
          BY <3>1, <4>1, <1>16 DEF AllocatorInv, AnswersInv
      <3>2. CASE a \in answers /\ a.root = r
        BY <3>2, <1>1, <1>8, <1>15, <1>16
      <3>3. CASE a \notin answers
        BY <3>3, <1>1, <1>8, <1>12, <1>13, <1>16
      <3>4. QED BY <3>1, <3>2, <3>3
    <2>2. QED BY <2>1 DEF AnswersInv
  <1>18. OneTargetPerCommand'
    BY <1>1, <1>12, <1>13, <1>15 DEF AllocatorInv, OneTargetPerCommand
  <1>19. QED
    BY <1>11, <1>14, <1>17, <1>18 DEF AllocatorInv

LEMMA AllocateKeeps ==
  ASSUME AllocatorInv, Allocate
  PROVE  AllocatorInv'
  <1>1. PICK r \in Roots, c \in Commands, op \in Allocating :
          LET me == root[r]
              recovery == me.retained # None /\ me.retained[1].command = c
              exhausted == ~IsOk(next_branch_serial(me.header.high_water))
              decision == allocator_hold_precedence(recovery, exhausted, facts)
              replay == replay_allocation(me.retained, c, me.header.high_water)
          IN /\ classify_transition(op) = "Allocating"
             /\ decision \in {"ExactRecovery", "PublishAndBurnAuthorized"}
             /\ me.ended < MaxEnded
             /\ IsOk(replay)
             /\ \/ /\ replay[1].kind = "Reuse"
                   /\ Answer(r, c, replay[1].intent.target)
                   /\ UNCHANGED <<root, facts, issued>>
                \/ /\ replay[1].kind = "Fresh"
                   /\ LET target == compose_incarnation(me.header.namespace, replay[1].serial)
                      IN /\ validate_target(pre_staging_collision(Views(r), target), TRUE, TRUE) = "Ok"
                         /\ root' = [root EXCEPT
                              ![r].header = burn_next_serial(@),
                              ![r].retained = <<[command |-> c, target |-> target]>>]
                         /\ issued' = issued \cup {[root |-> r, number |-> Number(r), target |-> target]}
                         /\ Answer(r, c, target)
                         /\ UNCHANGED facts
    BY DEF Allocate
  <1> DEFINE replay == replay_allocation(root[r].retained, c, root[r].header.high_water)
             next == next_branch_serial(root[r].header.high_water)
  <1>2. CASE replay[1].kind = "Reuse"
    <2>1. root[r].retained # None /\ root[r].retained[1].command = c
      BY <1>1, <1>2 DEF replay_allocation, Err, IsOk
    <2>2. replay[1].intent = root[r].retained[1]
      BY <2>1 DEF replay_allocation
    <2>3. /\ root[r].retained = <<root[r].retained[1]>>
          /\ root[r].retained[1] \in RetainedIntents
      BY <2>1, RootFields DEF AllocatorInv
    <2>4. root[r].retained[1] = [command |-> c, target |-> root[r].retained[1].target]
      BY <2>1, <2>3 DEF RetainedIntents
    <2>5. Answer(r, c, root[r].retained[1].target) /\ UNCHANGED <<root, issued>>
      BY <1>1, <1>2, <2>2
    <2>6. QED
      BY <2>3, <2>4, <2>5, Reused
  <1>3. CASE replay[1].kind # "Reuse"
    <2>1. replay[1].kind = "Fresh"
      BY <1>1, <1>3
    <2>2. root[r].retained = None /\ IsOk(next)
      BY <1>1, <2>1 DEF replay_allocation, Err, IsOk
    <2>3. replay[1].serial = next[1]
      BY <2>2 DEF replay_allocation
    <2> DEFINE target == compose_incarnation(root[r].header.namespace, next[1])
    <2>4. /\ root' = [root EXCEPT ![r].header = burn_next_serial(@),
                                  ![r].retained = <<[command |-> c, target |-> target]>>]
          /\ issued' = issued \cup {[root |-> r, number |-> Number(r), target |-> target]}
          /\ Answer(r, c, target)
      BY <1>1, <2>1, <2>3
    <2>5. QED
      BY <2>2, <2>4, Issued
  <1>4. QED BY <1>2, <1>3

LEMMA SelectKeeps ==
  ASSUME AllocatorInv, Select
  PROVE  AllocatorInv'
  <1>1. PICK r \in Roots :
          /\ root[r].retained # None
          /\ IsOk(increment_generation(root[r].generation))
          /\ root' = [root EXCEPT
               ![r].selected = <<root[r].retained[1].target>>,
               ![r].generation = increment_generation(@)[1],
               ![r].history = @ \cup {root[r].retained[1].target},
               ![r].retained = None,
               ![r].ended = @ + 1]
          /\ UNCHANGED <<facts, issued, answers>>
    BY DEF Select
  <1> DEFINE t == root[r].retained[1].target
             g == increment_generation(root[r].generation)[1]
             h == root[r].history \cup {t}
             e == root[r].ended + 1
             me == [root[r] EXCEPT !.selected = <<t>>, !.generation = g, !.history = h,
                                   !.retained = None, !.ended = e]
  <1>2. /\ root \in [Roots -> RootStates] /\ root[r] \in RootStates
        /\ root[r].ended \in Nat /\ root[r].generation \in 0..GenerationMax
        /\ t \in Incarnations
        /\ t[1] = r /\ t[2] \in Burned(r)
        /\ root[r].history \subseteq Incarnations
    BY <1>1, RootFields DEF AllocatorInv, AllocatorTypeOK, OwnNamespace, RetainedIntents
  <1>3. g \in 0..GenerationMax
    BY <1>1, <1>2, GenerationAssumption DEF increment_generation, IsOk, Err
  <1>4. root' = [root EXCEPT ![r] = me]
    BY <1>1, <1>2
  <1>a. /\ h \in SUBSET Incarnations /\ e \in Nat
        /\ <<t>> \in {None} \cup {<<i>> : i \in Incarnations}
    BY <1>2
  <1>b. h = root[r].history \cup {t} /\ e = root[r].ended + 1
    OBVIOUS
  <1> HIDE DEF t, g, h, e
  <1>5. me \in RootStates
    BY <1>2, <1>3, <1>a DEF RootStates
  <1>6. /\ me.header = root[r].header /\ me.ended = root[r].ended + 1
        /\ me.history = root[r].history \cup {t} /\ me.retained = None
    BY <1>2, <1>b DEF RootStates
  <1> HIDE DEF me
  <1>7. \A x \in me.history : x[1] = r /\ x[2] \in Burned(r)
    BY <1>2, <1>6 DEF AllocatorInv, OwnNamespace
  <1>8. QED
    BY <1>1, <1>4, <1>5, <1>6, <1>7, RootChange

LEMMA AbandonKeeps ==
  ASSUME AllocatorInv, Abandon
  PROVE  AllocatorInv'
  <1>1. PICK r \in Roots :
          /\ root' = [root EXCEPT ![r].retained = None, ![r].ended = @ + 1]
          /\ UNCHANGED <<facts, issued, answers>>
    BY DEF Abandon
  <1> DEFINE e == root[r].ended + 1
             me == [root[r] EXCEPT !.retained = None, !.ended = e]
  <1>2. /\ root \in [Roots -> RootStates] /\ root[r] \in RootStates
        /\ root[r].ended \in Nat
    BY RootFields DEF AllocatorInv, AllocatorTypeOK
  <1>3. root' = [root EXCEPT ![r] = me]
    BY <1>1, <1>2
  <1>4. me \in RootStates
    <2>1. e \in Nat BY <1>2
    <2> HIDE DEF e
    <2>2. QED BY <1>2, <2>1 DEF RootStates
  <1>5. /\ me.header = root[r].header /\ me.ended = root[r].ended + 1
        /\ me.history = root[r].history /\ me.retained = None
    BY <1>2 DEF RootStates
  <1> HIDE DEF me
  <1>6. \A h \in me.history : h[1] = r /\ h[2] \in Burned(r)
    BY <1>5 DEF AllocatorInv, OwnNamespace
  <1>7. QED
    BY <1>1, <1>3, <1>4, <1>5, <1>6, RootChange

LEMMA ContinueKeeps ==
  ASSUME AllocatorInv, Continue
  PROVE  AllocatorInv'
  <1>1. PICK r \in Roots, op \in Continuations :
          /\ IsOk(increment_generation(root[r].generation))
          /\ root' = [root EXCEPT ![r].generation = increment_generation(@)[1]]
          /\ UNCHANGED <<facts, issued, answers>>
    BY DEF Continue
  <1> DEFINE g == increment_generation(root[r].generation)[1]
             me == [root[r] EXCEPT !.generation = g]
  <1>2. /\ root \in [Roots -> RootStates] /\ root[r] \in RootStates
        /\ root[r].generation \in 0..GenerationMax
    BY RootFields DEF AllocatorInv, AllocatorTypeOK
  <1>3. g \in 0..GenerationMax
    BY <1>1, <1>2, GenerationAssumption DEF increment_generation, IsOk, Err
  <1>4. root' = [root EXCEPT ![r] = me]
    BY <1>1, <1>2
  <1> HIDE DEF g
  <1>5. me \in RootStates
    BY <1>2, <1>3 DEF RootStates
  <1>6. /\ me.header = root[r].header /\ me.ended = root[r].ended
        /\ me.history = root[r].history /\ me.retained = root[r].retained
    BY <1>2 DEF RootStates
  <1> HIDE DEF me
  <1>7. /\ \A h \in me.history : h[1] = r /\ h[2] \in Burned(r)
        /\ me.retained # None => me.retained[1].target[1] = r /\ me.retained[1].target[2] \in Burned(r)
    BY <1>6 DEF AllocatorInv, OwnNamespace
  <1>8. QED
    BY <1>1, <1>4, <1>5, <1>6, <1>7, RootChange

\* A restore into a blank root: nothing was answered for it yet.
LEMMA RecoverKeeps ==
  ASSUME AllocatorInv, Recover
  PROVE  AllocatorInv'
  <1>1. PICK to \in Roots :
          LET target == restore_serial_one(root[to].header.namespace)
          IN /\ root[to] = Blank(to)
             /\ root' = [root EXCEPT ![to].header = burn_next_serial(@), ![to].selected = <<target>>,
                                     ![to].history = {target}, ![to].ended = 1]
             /\ issued' = issued \cup {[root |-> to, number |-> Number(to), target |-> target]}
             /\ UNCHANGED <<facts, answers>>
    BY DEF Recover, exhaustion_recovery_admissibility
  <1> DEFINE t == <<to, 1>>
             head == [namespace |-> to, high_water |-> 1]
             me == [root[to] EXCEPT !.header = head, !.selected = <<t>>, !.history = {t}, !.ended = 1]
  <1>2. /\ root \in [Roots -> RootStates] /\ root[to] \in RootStates
    BY RootFields DEF AllocatorInv, AllocatorTypeOK
  <1>3. /\ root[to].header = [namespace |-> to, high_water |-> 0]
        /\ root[to].header.namespace = to /\ root[to].header.high_water = 0
        /\ root[to].retained = None /\ root[to].ended = 0
    BY <1>1 DEF Blank, initialize_allocator_header, derive_owner_namespace
  <1>4. 1 \in 1..SerialMax /\ SerialMax # 0
    BY AllocatorAssumption
  <1>5. burn_next_serial(root[to].header) = head
    BY <1>3, <1>4 DEF burn_next_serial, next_branch_serial
  <1>6. restore_serial_one(root[to].header.namespace) = t
    BY <1>3 DEF restore_serial_one, compose_incarnation
  <1>7. t \in Incarnations /\ t[1] = to /\ t[2] = 1
    BY <1>4 DEF Incarnations
  <1>8. head \in [namespace : Roots, high_water : 0..SerialMax]
    BY <1>4
  <1>9. root' = [root EXCEPT ![to] = me]
    BY <1>1, <1>2, <1>5, <1>6
  <1>10. issued' = issued \cup {[root |-> to, number |-> Number(to), target |-> <<to, 1>>]}
    BY <1>1, <1>6
  <1>11. [root |-> to, number |-> Number(to), target |-> <<to, 1>>]
           \in [root : Roots, number : Nat, target : Incarnations]
    BY <1>3, <1>7 DEF Number
  <1> HIDE DEF t
  <1>12. me \in RootStates
    <2> HIDE DEF head
    <2>1. QED BY <1>2, <1>7, <1>8 DEF RootStates
  <1>13. /\ me.header = head /\ me.history = {t} /\ me.ended = 1 /\ me.retained = None
    BY <1>2, <1>3 DEF RootStates
  <1>14. me.header = [namespace |-> to, high_water |-> 1]
    BY <1>13
  <1> HIDE DEF me, head
  <1>15. \A h \in me.history : h[1] = to /\ h[2] \in 1..1
    BY <1>7, <1>13
  <1>16. OwnNamespace' /\ IssuedInv' /\ IssuedOnce'
    <2>1. 1 = root[to].header.high_water + 1
      BY <1>3
    <2>2. QED
      BY <1>4, <1>9, <1>10, <1>12, <1>13, <1>14, <1>15, <2>1, SerialBurned
  <1>17. AllocatorTypeOK'
    <2>1. root' \in [Roots -> RootStates]
      BY <1>2, <1>9, <1>12
    <2>2. issued' \subseteq [root : Roots, number : Nat, target : Incarnations]
      BY <1>10, <1>11 DEF AllocatorInv, AllocatorTypeOK
    <2>3. QED
      BY <1>1, <2>1, <2>2 DEF AllocatorInv, AllocatorTypeOK
  <1>18. ASSUME NEW a \in answers
         PROVE  /\ a.number <= root'[a.root].ended + 1
                /\ a.number = root'[a.root].ended + 1 =>
                     root'[a.root].retained = <<[command |-> a.command, target |-> a.target]>>
    <2>1. a.root \in Roots /\ a.number \in Nat
      BY DEF AllocatorInv, AllocatorTypeOK
    <2>2. /\ a.number <= root[a.root].ended + 1
          /\ a.number = root[a.root].ended + 1 =>
               root[a.root].retained = <<[command |-> a.command, target |-> a.target]>>
      BY DEF AllocatorInv, AnswersInv
    <2>3. CASE a.root # to
      BY <2>1, <2>2, <2>3, <1>2, <1>9
    <2>4. CASE a.root = to
      <3>1. root'[to].ended = 1
        BY <1>2, <1>9, <1>13
      <3>2. QED BY <2>1, <2>2, <2>4, <3>1, <1>3
    <2>5. QED BY <2>3, <2>4
  <1>19. AnswersInv' /\ OneTargetPerCommand'
    BY <1>1, <1>18 DEF AnswersInv, AllocatorInv, OneTargetPerCommand
  <1>20. QED
    BY <1>16, <1>17, <1>19 DEF AllocatorInv

LEMMA AllocatorStep ==
  ASSUME AllocatorInv, [AllocatorNext]_allocatorVars
  PROVE  AllocatorInv'
  <1>1. ASSUME UNCHANGED <<root, issued, answers>>
        PROVE  AllocatorInv'
    BY <1>1 DEF AllocatorInv, AllocatorTypeOK, OwnNamespace, IssuedInv, IssuedOnce, AnswersInv,
                OneTargetPerCommand, Burned
  <1>2. CASE UNCHANGED allocatorVars
    BY <1>1, <1>2 DEF allocatorVars
  <1>3. CASE Change
    BY <1>1, <1>3 DEF Change
  <1>4. QED
    BY <1>2, <1>3, AllocateKeeps, SelectKeeps, AbandonKeeps, ContinueKeeps, RecoverKeeps
       DEF AllocatorNext

\* An incarnation is issued once, over all roots, crashes, abandoned intents and
\* exhaustion (next_branch_serial, burn_next_serial); a command that asks again is
\* told its own target (replay_allocation); and a root takes exactly what it
\* issued for its own (classify_witness).
THEOREM Allocation == AllocatorSpec => []AllocatorSafety
  <1>1. AllocatorInit => AllocatorInv
    BY AllocatorStart
  <1>2. AllocatorInv /\ [AllocatorNext]_allocatorVars => AllocatorInv'
    BY AllocatorStep
  <1>3. AllocatorInv => AllocatorSafety
    BY AllocatorInvSafe
  <1>4. QED
    BY <1>1, <1>2, <1>3, PTL DEF AllocatorSpec

\* A serial is burned for a new command only while nothing holds it back
\* (allocator_hold_precedence).
THEOREM BurningIsFree == AllocatorSpec => [][BurnIsFree]_allocatorVars
  <1>1. AllocatorInit => FactsOK
    BY DEF AllocatorInit, FactsOK
  <1>2. ASSUME FactsOK, [AllocatorNext]_allocatorVars
        PROVE  FactsOK'
    <2>1. CASE UNCHANGED facts
      BY <1>2, <2>1 DEF FactsOK
    <2>2. CASE Change
      <3>1. PICK f \in DOMAIN facts : facts' = [facts EXCEPT ![f] = ~@]
        BY <2>2 DEF Change
      <3>2. f \in {"forbidding_hold", "clock_hold", "capacity", "conflict"}
        BY <1>2, <3>1 DEF FactsOK
      <3>3. CASE f = "forbidding_hold"
        BY <1>2, <3>1, <3>3 DEF FactsOK
      <3>4. CASE f = "clock_hold"
        BY <1>2, <3>1, <3>4 DEF FactsOK
      <3>5. CASE f = "capacity"
        BY <1>2, <3>1, <3>5 DEF FactsOK
      <3>6. CASE f = "conflict"
        BY <1>2, <3>1, <3>6 DEF FactsOK
      <3>7. QED BY <3>2, <3>3, <3>4, <3>5, <3>6
    <2>3. QED
      BY <1>2, <2>1, <2>2
         DEF AllocatorNext, allocatorVars, Allocate, Select, Abandon, Continue, Recover
  <1>3. ASSUME AllocatorInv, FactsOK, [AllocatorNext]_allocatorVars
        PROVE  [BurnIsFree]_allocatorVars
    <2> DEFINE Free == [forbidding_hold |-> FALSE, clock_hold |-> FALSE, capacity |-> TRUE,
                        conflict |-> FALSE]
    <2> HIDE DEF Free
    <2>1. SUFFICES ASSUME AllocatorNext, NEW r \in Roots,
                          root'[r].header # root[r].header, root'[r].retained # None
                   PROVE  facts = Free
      BY <1>3 DEF BurnIsFree, Free
    <2>2. root \in [Roots -> RootStates]
      BY <1>3 DEF AllocatorInv, AllocatorTypeOK
    <2>4. ASSUME Allocate PROVE facts = Free
      <3>1. PICK q \in Roots, c \in Commands :
              LET recovery == root[q].retained # None /\ root[q].retained[1].command = c
                  exhausted == ~IsOk(next_branch_serial(root[q].header.high_water))
                  replay == replay_allocation(root[q].retained, c, root[q].header.high_water)
              IN /\ allocator_hold_precedence(recovery, exhausted, facts)
                      \in {"ExactRecovery", "PublishAndBurnAuthorized"}
                 /\ IsOk(replay)
                 /\ replay[1].kind = "Fresh" \/ root' = root
        BY <2>4 DEF Allocate
      <3>2. root[q].retained = None
        BY <2>1, <3>1 DEF replay_allocation, IsOk, Err
      <3>3. /\ facts.forbidding_hold \in BOOLEAN /\ facts.clock_hold \in BOOLEAN
            /\ facts.capacity \in BOOLEAN /\ facts.conflict \in BOOLEAN
            /\ facts = [forbidding_hold |-> facts.forbidding_hold, clock_hold |-> facts.clock_hold,
                        capacity |-> facts.capacity, conflict |-> facts.conflict]
        BY <1>3 DEF FactsOK
      <3>4. ~facts.forbidding_hold /\ ~facts.clock_hold /\ facts.capacity /\ ~facts.conflict
        BY <3>1, <3>2 DEF allocator_hold_precedence
      <3>5. /\ facts.forbidding_hold = FALSE /\ facts.clock_hold = FALSE
            /\ facts.capacity = TRUE /\ facts.conflict = FALSE
        BY <3>3, <3>4
      <3>6. QED BY <3>3, <3>5 DEF Free
    <2>5. ASSUME Recover PROVE FALSE
      <3>1. PICK to \in Roots :
              /\ root[to] = Blank(to)
              /\ \E t : root' = [root EXCEPT ![to].header = burn_next_serial(@), ![to].selected = <<t>>,
                                             ![to].history = {t}, ![to].ended = 1]
        BY <2>5 DEF Recover, exhaustion_recovery_admissibility
      <3>2. root[to].retained = None
        BY <3>1 DEF Blank
      <3>3. root'[to].retained = None /\ \A q \in Roots : q # to => root'[q] = root[q]
        BY <2>2, <3>1, <3>2 DEF RootStates
      <3>4. QED BY <2>1, <3>3
    <2>6. ASSUME Select \/ Abandon PROVE FALSE
      <3>1. CASE Abandon
        <4>1. PICK q \in Roots : root' = [root EXCEPT ![q].retained = None, ![q].ended = @ + 1]
          BY <3>1 DEF Abandon
        <4>2. root'[q].retained = None /\ \A s \in Roots : s # q => root'[s] = root[s]
          BY <2>2, <4>1 DEF RootStates
        <4>3. QED BY <2>1, <4>2
      <3>2. CASE Select
        <4>1. PICK q \in Roots :
                root' = [root EXCEPT
                  ![q].selected = <<root[q].retained[1].target>>,
                  ![q].generation = increment_generation(@)[1],
                  ![q].history = @ \cup {root[q].retained[1].target},
                  ![q].retained = None,
                  ![q].ended = @ + 1]
          BY <3>2 DEF Select
        <4>2. root'[q].retained = None /\ \A s \in Roots : s # q => root'[s] = root[s]
          BY <2>2, <4>1 DEF RootStates
        <4>3. QED BY <2>1, <4>2
      <3>3. QED BY <2>6, <3>1, <3>2
    <2>7. ASSUME Continue PROVE FALSE
      <3>1. PICK q \in Roots : root' = [root EXCEPT ![q].generation = increment_generation(@)[1]]
        BY <2>7 DEF Continue
      <3>2. root'[r].header = root[r].header
        BY <2>2, <3>1 DEF RootStates
      <3>3. QED BY <2>1, <3>2
    <2>8. ASSUME Change PROVE FALSE
      BY <2>1, <2>8 DEF Change
    <2>9. QED
      BY <2>1, <2>4, <2>5, <2>6, <2>7, <2>8 DEF AllocatorNext
  <1>4. AllocatorInit => AllocatorInv
    BY AllocatorStart
  <1>5. AllocatorInv /\ [AllocatorNext]_allocatorVars => AllocatorInv'
    BY AllocatorStep
  <1>6. QED
    BY <1>1, <1>2, <1>3, <1>4, <1>5, PTL DEF AllocatorSpec

-----------------------------------------------------------------------------
(***************************************************************************)
(* Least, Most and the end of a message's life.                            *)
(***************************************************************************)
LEMMA LeastOf ==
  ASSUME NEW S \in SUBSET Int, NEW m \in S, \A y \in S : m <= y
  PROVE  Least(S) = m
  <1>1. Least(S) \in S /\ \A y \in S : Least(S) <= y
    BY DEF Least
  <1>2. Least(S) <= m /\ m <= Least(S) /\ Least(S) \in Int /\ m \in Int
    BY <1>1
  <1>3. QED BY <1>2

LEMMA MostOfTwo ==
  ASSUME NEW a \in Int, NEW b \in Int
  PROVE  Most({a, b}) = IF a >= b THEN a ELSE b
  BY DEF Most

LEMMA LeastOfTwo ==
  ASSUME NEW a \in Int, NEW b \in Int
  PROVE  Least({a, b}) = IF a <= b THEN a ELSE b
  BY DEF Least

\* The product of two naturals divided by a thousand.
LEMMA Thousandth ==
  ASSUME NEW a \in Nat, NEW b \in Nat
  PROVE  (a * b) \div 1000 \in Nat
  <1> DEFINE c == a * b
  <1>1. c \in Nat OBVIOUS
  <1> HIDE DEF c
  <1>2. c \div 1000 \in Nat BY <1>1
  <1>3. QED BY <1>2 DEF c

\* Exponential(p) is defined by recursion on the ordinal; such a function exists,
\* and its values are natural numbers.
LEMMA Exponentials ==
  ASSUME NEW p, p.base \in Nat, p.max \in Nat, p.factor \in Nat, p.attempts \in Nat
  PROVE  \A n \in 1..p.attempts : Exponential(p)[n] \in Nat
  <1> DEFINE first == Least({p.base, p.max})
             after(x) == Least({(x * p.factor) \div 1000, p.max})
             Recursive(e, k) == \A n \in 1..k : e[n] = IF n = 1 THEN first ELSE after(e[n - 1])
  <1>1. first \in Nat
    BY LeastOfTwo
  <1>2. \A x \in Nat : after(x) \in Nat
    <2>1. TAKE x \in Nat
    <2> DEFINE y == (x * p.factor) \div 1000
    <2>2. y \in Nat
      BY Thousandth
    <2> HIDE DEF y
    <2>3. Least({y, p.max}) \in Nat
      BY <2>2, LeastOfTwo
    <2>4. QED BY <2>3 DEF y
  <1>a. Exponential(p) = CHOOSE e : e = [n \in 1..p.attempts |-> IF n = 1 THEN first ELSE after(e[n - 1])]
    BY DEF Exponential
  <1> HIDE DEF first, after
  <1>3. \A k \in Nat : \E e \in [1..k -> Nat] : Recursive(e, k)
    <2> DEFINE S == {k \in Nat : \E e \in [1..k -> Nat] : Recursive(e, k)}
    <2>1. 0 \in S
      <3>1. [n \in 1..0 |-> 0] \in [1..0 -> Nat] /\ Recursive([n \in 1..0 |-> 0], 0)
        OBVIOUS
      <3>2. QED BY <3>1
    <2>2. ASSUME NEW k \in S PROVE k + 1 \in S
      <3>1. PICK e \in [1..k -> Nat] : Recursive(e, k)
        BY <2>2
      <3> DEFINE g == [n \in 1..(k + 1) |-> IF n <= k THEN e[n]
                                            ELSE IF n = 1 THEN first ELSE after(e[k])]
      <3>2. k \in Nat
        OBVIOUS
      <3>3. g \in [1..(k + 1) -> Nat]
        <4>1. ASSUME NEW n \in 1..(k + 1), ~(n <= k), n # 1
              PROVE  k \in 1..k /\ e[k] \in Nat
          BY <3>2, <4>1
        <4>2. ASSUME NEW n \in 1..(k + 1)
              PROVE  (IF n <= k THEN e[n] ELSE IF n = 1 THEN first ELSE after(e[k])) \in Nat
          <5>1. n <= k => n \in 1..k /\ e[n] \in Nat
            BY <3>2
          <5>2. ~(n <= k) /\ n # 1 => e[k] \in Nat
            BY <4>1
          <5>3. QED BY <1>1, <1>2, <5>1, <5>2
        <4>3. QED BY <4>2
      <3>4. ASSUME NEW n \in 1..(k + 1)
            PROVE  g[n] = IF n = 1 THEN first ELSE after(g[n - 1])
        <4>1. CASE n <= k
          <5>1. n \in 1..k /\ g[n] = e[n]
            BY <3>2, <4>1
          <5>2. n # 1 => n - 1 \in 1..(k + 1) /\ n - 1 <= k
            BY <3>2, <4>1
          <5>3. n # 1 => g[n - 1] = e[n - 1]
            BY <5>2
          <5> HIDE DEF g
          <5>4. QED BY <3>1, <5>1, <5>3
        <4>2. CASE ~(n <= k)
          <5>1. n = k + 1 /\ n - 1 = k
            BY <3>2, <4>2
          <5>2. n # 1 => k \in 1..(k + 1) /\ g[k] = e[k]
            BY <3>2, <5>1
          <5>3. g[n] = IF n = 1 THEN first ELSE after(e[k])
            BY <4>2
          <5> HIDE DEF g
          <5>4. QED BY <5>1, <5>2, <5>3
        <4>3. QED BY <4>1, <4>2
      <3> HIDE DEF g
      <3>5. \E d \in [1..(k + 1) -> Nat] : Recursive(d, k + 1)
        BY <3>3, <3>4
      <3>6. k + 1 \in Nat
        BY <3>2
      <3> HIDE DEF Recursive
      <3>7. QED BY <3>5, <3>6
    <2>3. S \in SUBSET Nat
      OBVIOUS
    <2> HIDE DEF S
    <2>4. S = Nat
      BY <2>1, <2>2, <2>3, SetInduction
    <2>5. QED BY <2>4 DEF S
  <1>4. PICK e \in [1..p.attempts -> Nat] : Recursive(e, p.attempts)
    BY <1>3
  <1>5. e = [n \in 1..p.attempts |-> IF n = 1 THEN first ELSE after(e[n - 1])]
    BY <1>4
  <1> DEFINE x == Exponential(p)
  <1>6. x = [n \in 1..p.attempts |-> IF n = 1 THEN first ELSE after(x[n - 1])]
    <2> HIDE DEF Recursive
    <2>1. QED BY <1>a, <1>5, Zenon
  <1> HIDE DEF x
  <1>7. \A n \in Nat : n \in 1..p.attempts => x[n] \in Nat
    <2> DEFINE S == {n \in Nat : n \in 1..p.attempts => x[n] \in Nat}
    <2>1. 0 \in S
      OBVIOUS
    <2>2. ASSUME NEW k \in S PROVE k + 1 \in S
      <3>1. k \in Nat
        OBVIOUS
      <3>2. ASSUME k + 1 \in 1..p.attempts PROVE x[k + 1] \in Nat
        <4>1. x[k + 1] = IF k + 1 = 1 THEN first ELSE after(x[k + 1 - 1])
          BY <1>6, <3>2
        <4>2. k + 1 - 1 = k /\ (k + 1 # 1 => k \in 1..p.attempts)
          BY <3>1, <3>2
        <4>3. QED BY <1>1, <1>2, <4>1, <4>2
      <3>3. QED BY <3>1, <3>2
    <2>3. S \in SUBSET Nat
      OBVIOUS
    <2> HIDE DEF S
    <2>4. S = Nat
      BY <2>1, <2>2, <2>3, SetInduction
    <2>5. QED BY <2>4 DEF S
  <1>8. QED BY <1>7 DEF x

\* The delay of a retry is at least what the provider asked for, and no longer
\* than that or the policy's longest.
LEMMA Delays ==
  ASSUME NEW p \in Policies, NEW n \in 1..p.attempts, NEW m,
         NEW after \in Seq(Nat), Len(after) <= 1, NEW d,
         d = retry_delay_v1(p, n, m, after), d # Err
  PROVE  \A i \in DOMAIN after : /\ after[i] \in Nat
                                 /\ after[i] <= d[1]
                                 /\ d[1] <= Most({p.max, after[i]})
  <1> DEFINE y == (Exponential(p)[n] * m) \div 1000
             x == Most({Least({y, p.max}), 1})
             D == {x} \cup {after[i] : i \in DOMAIN after}
  <1>1. retry_delay_input_is_valid(p, n, m, after) /\ d = <<Most(D)>>
    BY DEF retry_delay_v1
  <1>2. /\ p.base \in Nat /\ p.max \in Nat /\ p.factor \in Nat /\ p.attempts \in Nat
        /\ m \in Nat /\ p.base <= p.max /\ p.base >= 1
    <2>1. p.base \in Nat /\ p.max \in Nat /\ p.factor \in Nat /\ p.attempts \in Nat
      BY MessageAssumption
    <2>2. m \in 500..1500 /\ p.base \in 1000..DelayMax /\ p.base <= p.max
      BY <1>1 DEF retry_delay_input_is_valid
    <2>3. QED BY <2>1, <2>2
  <1>3. Exponential(p)[n] \in Nat
    BY <1>2, Exponentials
  <1>4. y \in Nat
    <2> DEFINE e == Exponential(p)[n]
    <2> HIDE DEF e
    <2>1. (e * m) \div 1000 \in Nat
      BY <1>2, <1>3, Thousandth DEF e
    <2>2. QED BY <2>1 DEF e
  <1> HIDE DEF y
  <1>5. x \in Nat /\ x <= p.max
    <2> DEFINE z == Least({y, p.max})
    <2>1. z \in Nat /\ z <= p.max
      BY <1>2, <1>4, LeastOfTwo
    <2> HIDE DEF z
    <2>2. Most({z, 1}) = IF z >= 1 THEN z ELSE 1
      BY <2>1, MostOfTwo
    <2>3. QED BY <1>2, <2>1, <2>2 DEF z
  <1>6. SUFFICES ASSUME NEW i \in DOMAIN after
                 PROVE  /\ after[i] \in Nat /\ after[i] <= d[1]
                        /\ d[1] <= Most({p.max, after[i]})
    OBVIOUS
  <1>7. PICK a \in Nat : after = <<a>>
    <2> DEFINE l == Len(after)
    <2>1. l \in Nat /\ l <= 1 /\ i \in 1..l
      BY <1>6
    <2> HIDE DEF l
    <2>2. l = 1 BY <2>1
    <2>3. Len(after) = 1
      BY <2>2 DEF l
    <2>4. after[1] \in Nat /\ DOMAIN after = {1}
      BY <2>3
    <2>5. after = [j \in {1} |-> after[1]]
      BY <2>4
    <2>6. <<after[1]>> = [j \in {1} |-> after[1]]
      OBVIOUS
    <2>7. QED BY <2>4, <2>5, <2>6
  <1>8. i = 1 /\ after[i] = a /\ D = {x, a}
    BY <1>6, <1>7
  <1> HIDE DEF x, D
  <1>9. d[1] = IF x >= a THEN x ELSE a
    BY <1>1, <1>5, <1>8, MostOfTwo
  <1>10. Most({p.max, a}) = IF p.max >= a THEN p.max ELSE a
    BY <1>2, MostOfTwo
  <1>11. QED BY <1>2, <1>5, <1>8, <1>9, <1>10

\* The instants at which a message ends.
Ends(p) == {p.created + p.age} \cup {p.expires[i] : i \in DOMAIN p.expires}

LEMMA Lifetime ==
  ASSUME NEW p \in Policies
  PROVE  /\ Ends(p) \subseteq Nat
         /\ Least(Ends(p)) \in Ends(p)
         /\ \A y \in Ends(p) : Least(Ends(p)) <= y
         /\ Least(Ends(p)) > p.created
         /\ p.created \in 0..UtcMax /\ p.attempts \in Nat \ {0}
  <1>1. /\ p.created \in 0..UtcMax /\ p.age \in Nat \ {0} /\ p.attempts \in Nat \ {0}
        /\ p.expires \in Seq(Nat) /\ Len(p.expires) <= 1 /\ UtcMax \in Nat
        /\ \A i \in DOMAIN p.expires : p.expires[i] > p.created
    BY MessageAssumption
  <1> DEFINE a == p.created + p.age
  <1>2. a \in Nat /\ a > p.created
    BY <1>1
  <1>3. CASE p.expires = <<>>
    <2>1. Ends(p) = {a}
      BY <1>3 DEF Ends
    <2>2. Least(Ends(p)) = a
      BY <2>1, <1>2, LeastOf
    <2>3. QED BY <1>1, <1>2, <2>1, <2>2
  <1>4. CASE p.expires # <<>>
    <2> DEFINE e == p.expires[1]
    <2>1. Len(p.expires) = 1 /\ DOMAIN p.expires = {1}
      <3>1. Len(p.expires) \in Nat /\ DOMAIN p.expires = 1..Len(p.expires)
        BY <1>1
      <3>2. Len(p.expires) # 0
        BY <1>1, <1>4
      <3>3. Len(p.expires) = 1
        <4> DEFINE n == Len(p.expires)
        <4>1. n \in Nat /\ n <= 1 /\ n # 0
          BY <1>1, <3>1, <3>2
        <4> HIDE DEF n
        <4>2. n = 1 BY <4>1
        <4>3. QED BY <4>2 DEF n
      <3>4. QED BY <3>1, <3>3
    <2>2. e \in Nat /\ e > p.created
      BY <1>1, <2>1
    <2>3. Ends(p) = {a, e}
      BY <2>1 DEF Ends
    <2> HIDE DEF a, e
    <2>4. Least(Ends(p)) = IF a <= e THEN a ELSE e
      <3>1. CASE a <= e BY <3>1, <1>2, <2>2, <2>3, LeastOf
      <3>2. CASE ~(a <= e) BY <3>2, <1>2, <2>2, <2>3, LeastOf
      <3>3. QED BY <3>1, <3>2
    <2>5. QED BY <1>1, <1>2, <2>2, <2>3, <2>4
  <1>5. QED BY <1>3, <1>4

\* A wake that is stored fits an instant; it is before the end when the retry comes
\* first, and else at it.
LEMMA Woken ==
  ASSUME NEW p \in Policies, NEW n \in 0..UtcMax, NEW d, NEW w,
         w = durable_wake_boundary_v1(n, d, p.expires, p.created, p.age), w # Err
  PROVE  /\ w = <<w[1]>>
         /\ w[1] \in [instant : 0..UtcMax, strict : BOOLEAN]
         /\ IF w[1].strict THEN w[1].instant < Least(Ends(p)) ELSE w[1].instant = Least(Ends(p))
         /\ d \in Nat /\ (w[1].strict => w[1].instant = n + d)
  <1> DEFINE deadline == utc_add_millis(n, d)
             oldest == utc_add_millis(p.created, p.age)
             terminal == {oldest[1]} \cup {p.expires[i] : i \in DOMAIN p.expires}
             i == Least({deadline[1]} \cup terminal)
             s == deadline[1] < Least(terminal)
  <1>a. w = IF d \notin 1..DelayMax \/ p.age < AgeMin \/ p.age > AgeMax THEN Err
            ELSE IF IsOk(deadline) /\ IsOk(oldest) THEN <<Boundary(i, s)>> ELSE Err
    BY Zenon DEF durable_wake_boundary_v1
  <1>1. d \in Nat /\ IsOk(deadline) /\ IsOk(oldest) /\ w = <<Boundary(i, s)>>
    <2> HIDE DEF deadline, oldest, i, s
    <2>1. QED BY <1>a
  <1>2. oldest[1] = p.created + p.age
    BY <1>1 DEF utc_add_millis, IsOk, Err
  <1>3. terminal = Ends(p)
    BY <1>2 DEF Ends
  <1>4. UtcMax \in Nat
    BY MessageAssumption
  <1>5. deadline[1] = n + d /\ deadline[1] \in 0..UtcMax
    BY <1>1, <1>4 DEF utc_add_millis, IsOk, Err
  <1> HIDE DEF deadline, oldest, terminal
  <1>6. i = IF deadline[1] <= Least(Ends(p)) THEN deadline[1] ELSE Least(Ends(p))
    <2>1. {deadline[1]} \cup terminal \in SUBSET Int
      BY <1>3, <1>5, Lifetime
    <2>2. CASE deadline[1] <= Least(Ends(p))
      <3>1. \A y \in {deadline[1]} \cup terminal : deadline[1] <= y
        BY <1>3, <1>5, <2>2, Lifetime
      <3>2. QED BY <2>1, <2>2, <3>1, LeastOf
    <2>3. CASE ~(deadline[1] <= Least(Ends(p)))
      <3>1. \A y \in {deadline[1]} \cup terminal : Least(Ends(p)) <= y
        BY <1>3, <1>5, <2>3, Lifetime
      <3>2. Least(Ends(p)) \in {deadline[1]} \cup terminal
        BY <1>3, Lifetime
      <3>3. QED BY <2>1, <2>3, <3>1, <3>2, LeastOf
    <2>4. QED BY <2>2, <2>3
  <1>7. Least(Ends(p)) \in Nat
    BY Lifetime
  <1>8. /\ i \in 0..UtcMax /\ s \in BOOLEAN
        /\ IF s THEN i < Least(Ends(p)) ELSE i = Least(Ends(p))
        /\ s => i = n + d
    BY <1>3, <1>4, <1>5, <1>6, <1>7
  <1> HIDE DEF i, s
  <1>9. QED
    BY <1>1, <1>8 DEF Boundary

LEMMA Flags ==
  ASSUME NEW a \in BOOLEAN, NEW b \in BOOLEAN, NEW c \in BOOLEAN
  PROVE  <<a, b, c>> \in [1..3 -> BOOLEAN]
  OBVIOUS

LEMMA FlagsRead ==
  ASSUME NEW f \in [1..3 -> BOOLEAN]
  PROVE  /\ f[1] \in BOOLEAN /\ f[2] \in BOOLEAN /\ f[3] \in BOOLEAN
         /\ f = <<f[1], f[2], f[3]>>
  OBVIOUS

LEMMA DeadlineIsLeast == Deadline = Least(Ends(policy))
  BY DEF Deadline, Ends

LEMMA MessageStart ==
  ASSUME MessageInit
  PROVE  MessageInv
  <1>1. policy \in Policies
    BY DEF MessageInit
  <1>2. /\ row = [state |-> "Queued", flags |-> <<FALSE, FALSE, FALSE>>, ordinal |-> 0]
        /\ lease = [generation |-> 0, token |-> CHOOSE t \in Tokens : TRUE]
        /\ wake = Err /\ now = policy.created /\ accepted = FALSE /\ claimed = policy.created
    BY DEF MessageInit
  <1>3. lease.token \in Tokens /\ lease.generation = 0
    BY <1>2, MessageAssumption
  <1>4. row.flags \in [1..3 -> BOOLEAN] /\ row.state = "Queued" /\ row.ordinal = 0
    BY <1>2, Flags
  <1>5. policy.created \in 0..UtcMax /\ policy.attempts \in Nat
    BY <1>1, Lifetime
  <1>6. MessageTypeOK
    BY <1>2, <1>3, <1>4, <1>5, GenerationAssumption DEF MessageTypeOK, Err
  <1>7. AcceptanceWins /\ AttemptsBounded /\ ClaimsBeforeEnd
    BY <1>2, <1>3, <1>4, <1>5 DEF AcceptanceWins, AttemptsBounded, ClaimsBeforeEnd
  <1>8. WakeInv /\ AttemptsInv
    BY <1>2, <1>3, <1>4, <1>5 DEF WakeInv, AttemptsInv
  <1>9. /\ row = [state |-> row.state, flags |-> row.flags, ordinal |-> row.ordinal]
        /\ lease = [generation |-> lease.generation, token |-> lease.token]
    BY <1>2
  <1>10. UpdatesInv
    BY DEF MessageInit, UpdatesInv
  <1>11. QED
    BY <1>1, <1>2, <1>6, <1>7, <1>8, <1>9, <1>10 DEF MessageInv, MessageSafety

\* The values of a message, one by one.
LEMMA Values ==
  ASSUME MessageInv
  PROVE  /\ policy \in Policies /\ policy.attempts \in Nat \ {0} /\ policy.created \in 0..UtcMax
         /\ row = [state |-> row.state, flags |-> row.flags, ordinal |-> row.ordinal]
         /\ row.flags \in [1..3 -> BOOLEAN] /\ row.ordinal \in Nat /\ row.ordinal <= GenerationMax
         /\ lease.generation \in Nat /\ lease.generation <= GenerationMax /\ lease.token \in Tokens
         /\ now \in 0..UtcMax /\ claimed \in 0..UtcMax /\ accepted \in BOOLEAN
         /\ Deadline \in Nat /\ policy.created < Deadline
         /\ GenerationMax \in Nat /\ UtcMax \in Nat
  <1>1. /\ policy \in Policies /\ accepted \in BOOLEAN
        /\ row = [state |-> row.state, flags |-> row.flags, ordinal |-> row.ordinal]
    BY DEF MessageInv
  <1>2. GenerationMax \in Nat /\ UtcMax \in Nat
    BY GenerationAssumption, MessageAssumption
  <1>3. /\ row.flags \in [1..3 -> BOOLEAN] /\ row.ordinal \in 0..GenerationMax
        /\ lease.generation \in 0..GenerationMax /\ lease.token \in Tokens
        /\ now \in 0..UtcMax /\ claimed \in 0..UtcMax
    BY DEF MessageInv, MessageSafety, MessageTypeOK
  <1>4. Deadline \in Nat /\ policy.created < Deadline /\ policy.created \in 0..UtcMax
        /\ policy.attempts \in Nat \ {0}
    BY <1>1, Lifetime, DeadlineIsLeast
  <1>5. QED
    BY <1>1, <1>2, <1>3, <1>4

\* The instants of a wake, as the type invariant lists them.
LEMMA WakeInstants ==
  ASSUME NEW n \in 0..UtcMax, NEW c \in 0..UtcMax, NEW w,
         w # Err => w = <<w[1]>> /\ w[1].instant \in 0..UtcMax
  PROVE  {n, c} \cup {w[i].instant : i \in DOMAIN w} \subseteq 0..UtcMax
  <1>1. CASE w = Err
    BY <1>1 DEF Err
  <1>2. CASE w # Err
    <2>1. DOMAIN w = {1}
      BY <1>2
    <2>2. QED BY <1>2, <2>1
  <1>3. QED BY <1>1, <1>2

\* What is left to show of a step that keeps the policy, when the parts of the
\* next row are known.
LEMMA RowKept ==
  ASSUME MessageInv, UNCHANGED policy, UNCHANGED updates, NEW s, NEW f \in [1..3 -> BOOLEAN], NEW o \in Nat,
         row' = [state |-> s, flags |-> f, ordinal |-> o],
         s \in {"Queued", "Delivering", "RetryScheduled"} \cup Terminal,
         s = "RetryScheduled" => f[2],
         lease' = [generation |-> lease'.generation, token |-> lease'.token],
         lease'.generation \in Nat, lease'.generation <= GenerationMax, lease'.token \in Tokens,
         lease'.generation <= policy.attempts, o <= lease'.generation,
         now' \in 0..UtcMax, claimed' \in 0..UtcMax, accepted' \in BOOLEAN,
         accepted' => s = "ProviderAccepted",
         s = "Delivering" => claimed' < Deadline /\ lease'.generation = o + 1,
         s = "Queued" => wake' = Err /\ now' = policy.created /\ lease'.generation = 0,
         s = "RetryScheduled" => lease'.generation = o /\ o < policy.attempts,
         wake' # Err =>
           /\ wake' = <<wake'[1]>>
           /\ wake'[1] \in [instant : 0..UtcMax, strict : BOOLEAN]
           /\ IF wake'[1].strict THEN wake'[1].instant < Deadline ELSE wake'[1].instant = Deadline
  PROVE  MessageInv'
  <1>1. Deadline' = Deadline
    BY DEF Deadline
  <1>2. row'.state = s /\ row'.flags = f /\ row'.ordinal = o
    OBVIOUS
  <1>3. row' = [state |-> row'.state, flags |-> row'.flags, ordinal |-> row'.ordinal]
    BY <1>2
  <1>4. MessageTypeOK'
    <2>1. wake' # Err => wake' = <<wake'[1]>> /\ wake'[1].instant \in 0..UtcMax
      OBVIOUS
    <2>2. {now', claimed'} \cup {wake'[i].instant : i \in DOMAIN wake'} \subseteq 0..UtcMax
      BY <2>1, WakeInstants
    <2>3. o \in 0..GenerationMax /\ lease'.generation \in 0..GenerationMax
      BY GenerationAssumption
    <2>4. QED
      BY <1>2, <2>2, <2>3 DEF MessageTypeOK
  <1>5. AcceptanceWins' /\ AttemptsBounded' /\ ClaimsBeforeEnd'
    BY <1>1, <1>2 DEF AcceptanceWins, AttemptsBounded, ClaimsBeforeEnd
  <1>6. WakeInv'
    BY <1>1 DEF WakeInv
  <1>7. AttemptsInv'
    BY <1>2 DEF AttemptsInv
  <1>8. policy' \in Policies /\ UpdatesInv'
    BY DEF MessageInv, UpdatesInv
  <1>9. QED
    BY <1>3, <1>4, <1>5, <1>6, <1>7, <1>8 DEF MessageInv, MessageSafety

LEMMA ResultParts ==
  ASSUME NEW s, NEW f
  PROVE  Result(s, f)[1].state = s /\ Result(s, f)[1].flags = f
  BY DEF Result

\* What the transition relation does to a row, event by event.
LEMMA FairClaim ==
  ASSUME MessageInv, Follow("FairClaim")
  PROVE  /\ row' = [state |-> "Delivering", flags |-> row.flags, ordinal |-> row.ordinal]
         /\ \/ row.state = "Queued"
            \/ row.state = "RetryScheduled" /\ row.flags[2]
  <1> DEFINE next == claim_rule(row.state, row.flags)
  <1>1. /\ next # Err
        /\ row' = [row EXCEPT !.state = next[1].state, !.flags = next[1].flags]
    BY DEF Follow, transition, IsOk
  <1>2. /\ next = Result("Delivering", row.flags)
        /\ \/ row.state = "Queued"
           \/ row.state = "RetryScheduled" /\ row.flags[2]
    BY <1>1 DEF claim_rule
  <1>3. next[1].state = "Delivering" /\ next[1].flags = row.flags
    BY <1>2, ResultParts
  <1>4. QED
    BY <1>1, <1>2, <1>3, Values

LEMMA DispatchMark ==
  ASSUME MessageInv, Follow("DispatchMark")
  PROVE  /\ row' = [state |-> "Delivering", flags |-> <<FALSE, TRUE, FALSE>>, ordinal |-> row.ordinal]
         /\ row.state = "Delivering" /\ row.flags = <<FALSE, FALSE, FALSE>>
  <1> DEFINE next == dispatch_rule(row.state, row.flags)
  <1>1. /\ next # Err
        /\ row' = [row EXCEPT !.state = next[1].state, !.flags = next[1].flags]
    BY DEF Follow, transition, IsOk
  <1>2. /\ next = Result("Delivering", <<FALSE, TRUE, FALSE>>)
        /\ row.state = "Delivering" /\ row.flags = <<FALSE, FALSE, FALSE>>
    BY <1>1 DEF dispatch_rule
  <1>3. next[1].state = "Delivering" /\ next[1].flags = <<FALSE, TRUE, FALSE>>
    <2> DEFINE f == <<FALSE, TRUE, FALSE>>
    <2>1. next = Result("Delivering", f)
      BY <1>2
    <2> HIDE DEF f, next
    <2>2. next[1].state = "Delivering" /\ next[1].flags = f
      BY <2>1, ResultParts
    <2>3. QED BY <2>2 DEF f
  <1>4. QED
    BY <1>1, <1>2, <1>3, Values

LEMMA CancelMark ==
  ASSUME MessageInv, Follow("Cancel")
  PROVE  /\ row' = [state |-> "Delivering", flags |-> <<TRUE, row.flags[2], row.flags[3]>>,
                    ordinal |-> row.ordinal]
         /\ row.state = "Delivering"
  <1> DEFINE next == cancel_rule(row.state, row.flags)
  <1>1. /\ next # Err
        /\ row' = [row EXCEPT !.state = next[1].state, !.flags = next[1].flags]
    BY DEF Follow, transition, IsOk
  <1>2. /\ next = Result("Delivering", <<TRUE, row.flags[2], row.flags[3]>>)
        /\ row.state = "Delivering"
    BY <1>1 DEF cancel_rule
  <1>3. next[1].state = "Delivering" /\ next[1].flags = <<TRUE, row.flags[2], row.flags[3]>>
    <2> DEFINE f == <<TRUE, row.flags[2], row.flags[3]>>
    <2>1. next = Result("Delivering", f)
      BY <1>2
    <2> HIDE DEF f, next
    <2>2. next[1].state = "Delivering" /\ next[1].flags = f
      BY <2>1, ResultParts
    <2>3. QED BY <2>2 DEF f
  <1>4. QED
    BY <1>1, <1>2, <1>3, Values

LEMMA ClaimKeeps ==
  ASSUME MessageInv, Claim
  PROVE  MessageInv'
  <1>1. /\ row' = [state |-> "Delivering", flags |-> row.flags, ordinal |-> row.ordinal]
        /\ row.state = "Queued" \/ (row.state = "RetryScheduled" /\ row.flags[2])
    BY FairClaim DEF Claim
  <1>2. /\ row.state = "RetryScheduled" => wake # Err /\ wake[1].strict
        /\ now' = IF wake # Err THEN wake[1].instant ELSE now
        /\ claimed' = now'
        /\ UNCHANGED <<policy, wake, updates, accepted>>
    BY DEF Claim, IsOk
  <1>3. PICK t \in Tokens :
          lease' = [generation |-> increment_generation(lease.generation)[1], token |-> t]
    BY DEF Claim
  <1>4. lease.generation # GenerationMax /\ increment_generation(lease.generation)[1] = lease.generation + 1
    BY DEF Claim, IsOk, Err, increment_generation
  <1>5. lease'.generation = lease.generation + 1 /\ lease'.token = t
    BY <1>3, <1>4
  <1>6. /\ AttemptsInv /\ WakeInv /\ AcceptanceWins
    BY DEF MessageInv, MessageSafety
  <1>7. lease.generation = row.ordinal /\ row.ordinal < policy.attempts /\ ~accepted
    <2>1. CASE row.state = "Queued"
      BY <2>1, <1>6, Values DEF AttemptsInv, AcceptanceWins
    <2>2. CASE row.state = "RetryScheduled"
      BY <2>2, <1>6, Values DEF AttemptsInv, AcceptanceWins
    <2>3. QED BY <1>1, <2>1, <2>2
  <1>8. now' \in 0..UtcMax /\ now' < Deadline
    <2>1. CASE row.state = "Queued"
      BY <2>1, <1>2, <1>6, Values DEF AttemptsInv
    <2>2. CASE row.state = "RetryScheduled"
      BY <2>2, <1>2, <1>6, Values DEF WakeInv
    <2>3. QED BY <1>1, <2>1, <2>2
  <1>9. lease' = [generation |-> lease'.generation, token |-> lease'.token]
    BY <1>3, <1>5
  <1>10. /\ lease'.generation \in Nat /\ lease'.generation <= GenerationMax /\ lease'.token \in Tokens
         /\ lease'.generation <= policy.attempts /\ lease'.generation = row.ordinal + 1
    BY <1>4, <1>5, <1>7, Values
  <1>11. wake' # Err =>
           /\ wake' = <<wake'[1]>>
           /\ wake'[1] \in [instant : 0..UtcMax, strict : BOOLEAN]
           /\ IF wake'[1].strict THEN wake'[1].instant < Deadline ELSE wake'[1].instant = Deadline
    BY <1>2, <1>6 DEF WakeInv
  <1>12. row.flags \in [1..3 -> BOOLEAN] /\ row.ordinal \in Nat /\ row.ordinal <= lease'.generation
    BY <1>10, Values
  <1>13. UNCHANGED policy /\ UNCHANGED updates /\ accepted' = FALSE /\ claimed' \in 0..UtcMax /\ claimed' < Deadline
    BY <1>2, <1>7, <1>8, Values
  <1> DEFINE s == "Delivering"
  <1>14. s \in {"Queued", "Delivering", "RetryScheduled"} \cup Terminal /\ s = "Delivering"
    OBVIOUS
  <1>15. row' = [state |-> s, flags |-> row.flags, ordinal |-> row.ordinal]
    BY <1>1
  <1>16. s # "Queued" /\ s # "RetryScheduled"
    OBVIOUS
  <1> HIDE DEF s
  <1>17. QED
    BY <1>8, <1>9, <1>10, <1>11, <1>12, <1>13, <1>14, <1>15, <1>16, RowKept

\* A step that leaves the lease, the wake and the clocks of an attempt that is
\* under way, and marks its flags.
LEMMA Marked ==
  ASSUME MessageInv, NEW f \in [1..3 -> BOOLEAN], row.state = "Delivering",
         row' = [state |-> "Delivering", flags |-> f, ordinal |-> row.ordinal],
         UNCHANGED <<policy, lease, wake, now, updates, accepted, claimed>>
  PROVE  MessageInv'
  <1>1. AttemptsInv /\ WakeInv /\ AcceptanceWins /\ AttemptsBounded /\ ClaimsBeforeEnd
        /\ lease = [generation |-> lease.generation, token |-> lease.token]
    BY DEF MessageInv, MessageSafety
  <1>2. /\ lease.generation = row.ordinal + 1 /\ ~accepted /\ claimed < Deadline
        /\ lease.generation <= policy.attempts
    BY <1>1 DEF AttemptsInv, AcceptanceWins, AttemptsBounded, ClaimsBeforeEnd
  <1>3. wake # Err =>
           /\ wake = <<wake[1]>>
           /\ wake[1] \in [instant : 0..UtcMax, strict : BOOLEAN]
           /\ IF wake[1].strict THEN wake[1].instant < Deadline ELSE wake[1].instant = Deadline
    BY <1>1 DEF WakeInv
  <1> DEFINE s == "Delivering"
  <1>4. s \in {"Queued", "Delivering", "RetryScheduled"} \cup Terminal /\ s = "Delivering"
        /\ s # "Queued" /\ s # "RetryScheduled"
    OBVIOUS
  <1>5. row' = [state |-> s, flags |-> f, ordinal |-> row.ordinal]
    OBVIOUS
  <1> HIDE DEF s
  <1>6. /\ row.ordinal \in Nat /\ row.ordinal <= lease.generation
        /\ lease.generation \in Nat /\ lease.generation <= GenerationMax /\ lease.token \in Tokens
        /\ now \in 0..UtcMax /\ claimed \in 0..UtcMax /\ accepted \in BOOLEAN
    BY <1>2, Values
  <1>7. QED
    BY <1>1, <1>2, <1>3, <1>4, <1>5, <1>6, RowKept

LEMMA DispatchKeeps ==
  ASSUME MessageInv, Dispatch
  PROVE  MessageInv'
  <1>1. <<FALSE, TRUE, FALSE>> \in [1..3 -> BOOLEAN]
    BY Flags
  <1>2. QED
    BY <1>1, DispatchMark, Marked DEF Dispatch

LEMMA CancelKeeps ==
  ASSUME MessageInv, Cancel
  PROVE  MessageInv'
  <1>1. <<TRUE, row.flags[2], row.flags[3]>> \in [1..3 -> BOOLEAN]
    BY Flags, FlagsRead, Values
  <1>2. QED
    BY <1>1, CancelMark, Marked DEF Cancel

\* What an outcome that does not end the message makes of its row.
LEMMA OutcomeMark ==
  ASSUME MessageInv, NEW amb \in BOOLEAN, NEW next,
         next = outcome_rule(row.state, row.flags, amb), next # Err
  PROVE  /\ row.state = "Delivering"
         /\ next[1].state = "RetryScheduled"
         /\ next[1].flags = <<FALSE, TRUE, row.flags[3] \/ amb>>
         /\ row.flags[1] = FALSE /\ row.flags[2] = TRUE
  <1> DEFINE f == <<FALSE, TRUE, row.flags[3] \/ amb>>
  <1>1. /\ next = Result("RetryScheduled", f)
        /\ row.state = "Delivering" /\ row.flags[1] = FALSE /\ row.flags[2] = TRUE
    BY DEF outcome_rule
  <1> HIDE DEF f
  <1>2. next[1].state = "RetryScheduled" /\ next[1].flags = f
    BY <1>1, ResultParts
  <1>3. QED BY <1>1, <1>2 DEF f

\* What terminal_precedence may answer, and what an acceptance makes of it.
LEMMA Winners ==
  ASSUME NEW g, NEW w, w = terminal_precedence(g)
  PROVE  /\ w \in Terminal \cup {"NoTerminal"}
         /\ g.known_acceptance => w = "ProviderAccepted"
         /\ w = "NoTerminal" => /\ ~g.known_acceptance /\ ~g.cancel_committed
                                /\ ~g.expiry_eligible /\ ~g.attempt_exhausted
  BY DEF terminal_precedence, Terminal

\* A terminal state asks for little of the invariant.
LEMMA Settled ==
  ASSUME MessageInv, UNCHANGED <<policy, lease, updates, claimed>>, now' \in 0..UtcMax,
         NEW s \in Terminal, NEW f \in [1..3 -> BOOLEAN], NEW o \in Nat, o <= lease.generation,
         row' = [state |-> s, flags |-> f, ordinal |-> o],
         wake' = Err \/ wake' = wake,
         accepted' \in BOOLEAN, accepted' => s = "ProviderAccepted"
  PROVE  MessageInv'
  <1>1. WakeInv /\ AttemptsBounded
        /\ lease = [generation |-> lease.generation, token |-> lease.token]
    BY DEF MessageInv, MessageSafety
  <1>2. lease.generation <= policy.attempts
    BY <1>1 DEF AttemptsBounded
  <1>3. wake' # Err =>
           /\ wake' = <<wake'[1]>>
           /\ wake'[1] \in [instant : 0..UtcMax, strict : BOOLEAN]
           /\ IF wake'[1].strict THEN wake'[1].instant < Deadline ELSE wake'[1].instant = Deadline
    BY <1>1 DEF WakeInv
  <1>4. s \in {"Queued", "Delivering", "RetryScheduled"} \cup Terminal
        /\ s # "Queued" /\ s # "RetryScheduled" /\ s # "Delivering"
    BY DEF Terminal
  <1>5. QED
    BY <1>1, <1>2, <1>3, <1>4, Values, RowKept

LEMMA ReportKeeps ==
  ASSUME MessageInv, UNCHANGED <<policy, row, lease, wake, now, accepted, claimed>>, UpdatesInv'
  PROVE  MessageInv'
  BY DEF MessageInv, MessageSafety, MessageTypeOK, AcceptanceWins, AttemptsBounded,
         ClaimsBeforeEnd, WakeInv, AttemptsInv, Deadline

\* An outcome under the current fence that ends the message.
LEMMA CommitEnds ==
  ASSUME MessageInv, NEW out, NEW winner \in Terminal,
         out = "Accepted" \/ accepted => winner = "ProviderAccepted",
         row.state = "Delivering" \/ out = "Accepted",
         row' = [row EXCEPT !.state = winner,
                   !.ordinal = IF row.state = "Delivering" THEN row.ordinal + 1 ELSE @,
                   !.flags = IF out = "Ambiguous" THEN <<@[1], TRUE, TRUE>> ELSE @],
         wake' = Err, accepted' = (accepted \/ out = "Accepted"),
         UNCHANGED <<policy, lease, now, updates, claimed>>
  PROVE  MessageInv'
  <1> DEFINE f == IF out = "Ambiguous" THEN <<row.flags[1], TRUE, TRUE>> ELSE row.flags
             o == IF row.state = "Delivering" THEN row.ordinal + 1 ELSE row.ordinal
  <1>1. f \in [1..3 -> BOOLEAN]
    BY Values, Flags, FlagsRead
  <1>2. o \in Nat /\ o <= lease.generation
    <2>1. AttemptsInv
      BY DEF MessageInv
    <2>2. QED BY <2>1, Values DEF AttemptsInv
  <1>3. row' = [row EXCEPT !.state = winner, !.ordinal = o, !.flags = f]
    BY Zenon
  <1> HIDE DEF f, o
  <1>4. row' = [state |-> winner, flags |-> f, ordinal |-> o]
    BY <1>3, Values
  <1>5. accepted' \in BOOLEAN /\ (accepted' => winner = "ProviderAccepted") /\ now' \in 0..UtcMax
    BY Values
  <1>6. QED
    BY <1>1, <1>2, <1>4, <1>5, Settled

\* An outcome under the current fence after which the message is tried again.
LEMMA CommitRetries ==
  ASSUME MessageInv, NEW amb \in BOOLEAN, NEW next, NEW after,
         next = outcome_rule(row.state, row.flags, amb), next # Err,
         retry_admission_v1(row.ordinal + 1, policy.attempts) = <<"Eligible">>,
         row' = [state |-> next[1].state, flags |-> next[1].flags, ordinal |-> row.ordinal + 1],
         wake' = Scheduled(row.ordinal + 1, after),
         accepted = FALSE, accepted' = FALSE,
         UNCHANGED <<policy, lease, now, updates, claimed>>
  PROVE  MessageInv'
  <1> DEFINE f == <<FALSE, TRUE, row.flags[3] \/ amb>>
             o == row.ordinal + 1
             s == "RetryScheduled"
  <1>0. /\ row.state = "Delivering" /\ next[1].state = "RetryScheduled"
        /\ next[1].flags = <<FALSE, TRUE, row.flags[3] \/ amb>>
    <2>1. row.state = "Delivering"
      BY DEF outcome_rule
    <2>2. next[1].state = "RetryScheduled"
      BY OutcomeMark
    <2>3. next[1].flags = <<FALSE, TRUE, row.flags[3] \/ amb>>
      BY OutcomeMark
    <2>4. QED BY <2>1, <2>2, <2>3
  <1>1. row.state = "Delivering" /\ next[1].state = s /\ next[1].flags = f
    BY <1>0
  <1>2. f \in [1..3 -> BOOLEAN] /\ f[2]
    BY Values, Flags, FlagsRead
  <1>3. o \in Nat /\ lease.generation = o
    <2>1. AttemptsInv
      BY DEF MessageInv
    <2>2. QED BY <1>1, <2>1, Values DEF AttemptsInv
  <1>4. o < policy.attempts
    <2>1. o >= policy.attempts => retry_admission_v1(o, policy.attempts) \in {<<"Exhausted">>, Err}
      BY DEF retry_admission_v1
    <2>2. <<"Eligible">> \notin {<<"Exhausted">>, Err}
      BY DEF Err
    <2>3. ~(o >= policy.attempts)
      BY <2>1, <2>2
    <2>4. QED BY <1>3, <2>3, Values
  <1>5. wake' # Err =>
           /\ wake' = <<wake'[1]>>
           /\ wake'[1] \in [instant : 0..UtcMax, strict : BOOLEAN]
           /\ IF wake'[1].strict THEN wake'[1].instant < Deadline ELSE wake'[1].instant = Deadline
    <2>1. SUFFICES ASSUME wake' # Err
                   PROVE  /\ wake' = <<wake'[1]>>
                          /\ wake'[1] \in [instant : 0..UtcMax, strict : BOOLEAN]
                          /\ IF wake'[1].strict THEN wake'[1].instant < Deadline ELSE wake'[1].instant = Deadline
      OBVIOUS
    <2>2. PICK d : wake' = durable_wake_boundary_v1(now, d, policy.expires, policy.created, policy.age)
      <3> DEFINE jitter == derive_retry_jitter(o)
                 delay == IF IsOk(jitter) THEN retry_delay_v1(policy, o, jitter[1], after) ELSE Err
      <3>1. wake' = IF IsOk(delay)
                    THEN durable_wake_boundary_v1(now, delay[1], policy.expires, policy.created, policy.age)
                    ELSE Err
        BY Zenon DEF Scheduled
      <3> HIDE DEF delay
      <3>2. QED BY <2>1, <3>1
    <2>3. policy \in Policies /\ now \in 0..UtcMax
      BY Values
    <2>4. /\ wake' = <<wake'[1]>>
          /\ wake'[1] \in [instant : 0..UtcMax, strict : BOOLEAN]
          /\ IF wake'[1].strict THEN wake'[1].instant < Least(Ends(policy))
                                ELSE wake'[1].instant = Least(Ends(policy))
      <3> DEFINE w == wake'
      <3>1. w = durable_wake_boundary_v1(now, d, policy.expires, policy.created, policy.age) /\ w # Err
        BY <2>1, <2>2
      <3> HIDE DEF w
      <3>2. /\ w = <<w[1]>>
            /\ w[1] \in [instant : 0..UtcMax, strict : BOOLEAN]
            /\ IF w[1].strict THEN w[1].instant < Least(Ends(policy)) ELSE w[1].instant = Least(Ends(policy))
        BY <2>3, <3>1, Woken
      <3>3. QED BY <3>2 DEF w
    <2>5. QED BY <2>4, DeadlineIsLeast
  <1>6. /\ lease = [generation |-> lease.generation, token |-> lease.token]
        /\ lease.generation <= policy.attempts
    BY DEF MessageInv, MessageSafety, AttemptsBounded
  <1>7. s \in {"Queued", "Delivering", "RetryScheduled"} \cup Terminal
        /\ s # "Queued" /\ s # "Delivering"
    OBVIOUS
  <1>8. row' = [state |-> s, flags |-> f, ordinal |-> o]
    BY <1>1
  <1> HIDE DEF f, o, s
  <1>9. /\ o <= lease'.generation /\ lease'.generation = o /\ lease'.generation <= policy.attempts
        /\ lease' = [generation |-> lease'.generation, token |-> lease'.token]
        /\ lease'.generation \in Nat /\ lease'.generation <= GenerationMax /\ lease'.token \in Tokens
        /\ now' \in 0..UtcMax /\ claimed' \in 0..UtcMax
    BY <1>3, <1>6, Values
  <1>10. QED
    BY <1>2, <1>3, <1>4, <1>5, <1>7, <1>8, <1>9, RowKept

LEMMA CommitKeeps ==
  ASSUME MessageInv, Commit
  PROVE  MessageInv'
  <1>1. PICK u \in updates :
          /\ LET ordinal == row.ordinal + 1
                 winner == terminal_precedence(
                   [known_acceptance |-> u.outcome = "Accepted" \/ accepted,
                    late_ack |-> FALSE,
                    cancel_committed |-> row.flags[1],
                    expiry_eligible |-> proven_expired(Deadline, now),
                    attempt_exhausted |-> retry_admission_v1(ordinal, policy.attempts) # <<"Eligible">>])
                 event == IF u.outcome = "Ambiguous" THEN "AmbiguousOutcome" ELSE "TransientOutcome"
             IN \/ /\ winner # "NoTerminal"
                   /\ row.state = "Delivering" \/ u.outcome = "Accepted"
                   /\ row' = [row EXCEPT !.state = winner,
                                !.ordinal = IF row.state = "Delivering" THEN ordinal ELSE @,
                                !.flags = IF u.outcome = "Ambiguous" THEN <<@[1], TRUE, TRUE>> ELSE @]
                   /\ wake' = Err
                \/ /\ winner = "NoTerminal"
                   /\ retry_disposition(u.outcome) = "RetryEligible"
                   /\ LET next == transition(row.state, row.flags, event)
                      IN /\ IsOk(next)
                         /\ row' = [state |-> next[1].state, flags |-> next[1].flags, ordinal |-> ordinal]
                   /\ wake' = Scheduled(ordinal, u.after)
          /\ accepted' = (accepted \/ u.outcome = "Accepted")
          /\ UNCHANGED <<policy, lease, now, updates, claimed>>
    BY Zenon DEF Commit
  <1> DEFINE ordinal == row.ordinal + 1
             guards == [known_acceptance |-> u.outcome = "Accepted" \/ accepted,
                        late_ack |-> FALSE,
                        cancel_committed |-> row.flags[1],
                        expiry_eligible |-> proven_expired(Deadline, now),
                        attempt_exhausted |-> retry_admission_v1(ordinal, policy.attempts) # <<"Eligible">>]
             winner == terminal_precedence(guards)
             event == IF u.outcome = "Ambiguous" THEN "AmbiguousOutcome" ELSE "TransientOutcome"
             next == transition(row.state, row.flags, event)
  <1>2. /\ winner \in Terminal \cup {"NoTerminal"}
        /\ guards.known_acceptance => winner = "ProviderAccepted"
        /\ winner = "NoTerminal" => ~guards.known_acceptance /\ ~guards.attempt_exhausted
    <2> HIDE DEF guards
    <2>1. QED BY Winners
  <1>3. /\ guards.known_acceptance = (u.outcome = "Accepted" \/ accepted)
        /\ guards.attempt_exhausted = (retry_admission_v1(ordinal, policy.attempts) # <<"Eligible">>)
    OBVIOUS
  <1>4. /\ accepted' = (accepted \/ u.outcome = "Accepted")
        /\ UNCHANGED <<policy, lease, now, updates, claimed>>
    BY <1>1
  <1>5. \/ /\ winner # "NoTerminal"
           /\ row.state = "Delivering" \/ u.outcome = "Accepted"
           /\ row' = [row EXCEPT !.state = winner,
                        !.ordinal = IF row.state = "Delivering" THEN ordinal ELSE @,
                        !.flags = IF u.outcome = "Ambiguous" THEN <<@[1], TRUE, TRUE>> ELSE @]
           /\ wake' = Err
        \/ /\ winner = "NoTerminal"
           /\ IsOk(next)
           /\ row' = [state |-> next[1].state, flags |-> next[1].flags, ordinal |-> ordinal]
           /\ wake' = Scheduled(ordinal, u.after)
    BY <1>1, Zenon
  <1>6. CASE winner # "NoTerminal"
    <2>1. winner \in Terminal /\ (u.outcome = "Accepted" \/ accepted => winner = "ProviderAccepted")
      BY <1>2, <1>3, <1>6
    <2>2. /\ row.state = "Delivering" \/ u.outcome = "Accepted"
          /\ row' = [row EXCEPT !.state = winner,
                        !.ordinal = IF row.state = "Delivering" THEN row.ordinal + 1 ELSE @,
                        !.flags = IF u.outcome = "Ambiguous" THEN <<@[1], TRUE, TRUE>> ELSE @]
          /\ wake' = Err
      BY <1>5, <1>6, Zenon
    <2> HIDE DEF winner
    <2>3. QED BY <1>4, <2>1, <2>2, CommitEnds
  <1>7. CASE winner = "NoTerminal"
    <2> DEFINE amb == u.outcome = "Ambiguous"
    <2>1. amb \in BOOLEAN /\ next = outcome_rule(row.state, row.flags, amb)
      <3>1. CASE amb
        <4>1. event = "AmbiguousOutcome" BY <3>1
        <4>2. amb = TRUE BY <3>1
        <4> HIDE DEF event, amb
        <4>3. QED BY <4>1, <4>2 DEF transition
      <3>2. CASE ~amb
        <4>1. event = "TransientOutcome" BY <3>2
        <4>2. amb = FALSE BY <3>2
        <4> HIDE DEF event, amb
        <4>3. QED BY <4>1, <4>2 DEF transition
      <3>3. QED BY <3>1, <3>2
    <2>2. /\ next # Err
          /\ row' = [state |-> next[1].state, flags |-> next[1].flags, ordinal |-> row.ordinal + 1]
          /\ wake' = Scheduled(row.ordinal + 1, u.after)
      BY <1>5, <1>7, Zenon DEF IsOk
    <2>3. /\ retry_admission_v1(row.ordinal + 1, policy.attempts) = <<"Eligible">>
          /\ ~(u.outcome = "Accepted" \/ accepted)
      <3> HIDE DEF winner, guards
      <3>1. QED BY <1>2, <1>3, <1>7
    <2>4. accepted = FALSE /\ accepted' = FALSE
      BY <1>4, <2>3, Values
    <2> HIDE DEF next, amb
    <2>5. QED BY <1>4, <2>1, <2>2, <2>3, <2>4, CommitRetries
  <1>8. QED BY <1>6, <1>7

LEMMA LateKeeps ==
  ASSUME MessageInv, Late
  PROVE  MessageInv'
  <1>1. PICK u \in updates :
          /\ LET late == resolve_late_ack(u.outcome = "Accepted")
             IN row' = [row EXCEPT !.state = IF IsOk(late) THEN late[1] ELSE @,
                          !.flags = IF Arbitrated(u) = <<"StaleAmbiguous">> THEN <<@[1], TRUE, TRUE>> ELSE @]
          /\ accepted' = (accepted \/ u.outcome = "Accepted")
          /\ UNCHANGED <<policy, lease, wake, now, updates, claimed>>
    BY Zenon DEF Late
  <1> DEFINE late == resolve_late_ack(u.outcome = "Accepted")
             s == IF IsOk(late) THEN late[1] ELSE row.state
             f == IF Arbitrated(u) = <<"StaleAmbiguous">> THEN <<row.flags[1], TRUE, TRUE>> ELSE row.flags
  <1>2. s = IF u.outcome = "Accepted" THEN "ProviderAccepted" ELSE row.state
    BY DEF resolve_late_ack, IsOk, Err
  <1>3. f \in [1..3 -> BOOLEAN]
    BY Values, Flags, FlagsRead
  <1>4. f[2] = TRUE \/ f = row.flags
    OBVIOUS
  <1>5. row' = [row EXCEPT !.state = s, !.flags = f]
    BY <1>1, Zenon
  <1> HIDE DEF s, f, late
  <1>6. row' = [state |-> s, flags |-> f, ordinal |-> row.ordinal]
    BY <1>5, Values
  <1>7. AttemptsInv /\ WakeInv /\ AcceptanceWins /\ AttemptsBounded /\ ClaimsBeforeEnd
        /\ lease = [generation |-> lease.generation, token |-> lease.token] /\ MessageTypeOK
    BY DEF MessageInv, MessageSafety
  <1>8. CASE u.outcome = "Accepted"
    <2>1. s \in Terminal /\ s = "ProviderAccepted"
      BY <1>2, <1>8 DEF Terminal
    <2>2. row.ordinal \in Nat /\ row.ordinal <= lease.generation /\ now' \in 0..UtcMax
          /\ accepted' \in BOOLEAN
      BY <1>1, <1>7, Values DEF AttemptsInv
    <2>3. UNCHANGED <<policy, lease, updates, claimed>> /\ wake' = wake
      BY <1>1
    <2>4. QED
      BY <1>3, <1>6, <2>1, <2>2, <2>3, Settled
  <1>9. CASE u.outcome # "Accepted"
    <2>1. s = row.state /\ accepted' = accepted
      BY <1>1, <1>2, <1>9, Values
    <2>2. s = "RetryScheduled" => f[2]
      BY <1>4, <1>7, <2>1 DEF MessageTypeOK
    <2>3. s \in {"Queued", "Delivering", "RetryScheduled"} \cup Terminal
      BY <1>7, <2>1 DEF MessageTypeOK
    <2>4. /\ s = "Delivering" => claimed' < Deadline /\ lease'.generation = row.ordinal + 1
          /\ s = "Queued" => wake' = Err /\ now' = policy.created /\ lease'.generation = 0
          /\ s = "RetryScheduled" => lease'.generation = row.ordinal /\ row.ordinal < policy.attempts
          /\ accepted' => s = "ProviderAccepted"
          /\ lease'.generation <= policy.attempts /\ row.ordinal <= lease'.generation
      BY <1>1, <1>7, <2>1 DEF AttemptsInv, ClaimsBeforeEnd, AcceptanceWins, AttemptsBounded
    <2>5. wake' # Err =>
             /\ wake' = <<wake'[1]>>
             /\ wake'[1] \in [instant : 0..UtcMax, strict : BOOLEAN]
             /\ IF wake'[1].strict THEN wake'[1].instant < Deadline ELSE wake'[1].instant = Deadline
      BY <1>1, <1>7 DEF WakeInv
    <2>6. /\ lease' = [generation |-> lease'.generation, token |-> lease'.token]
          /\ lease'.generation \in Nat /\ lease'.generation <= GenerationMax /\ lease'.token \in Tokens
          /\ now' \in 0..UtcMax /\ claimed' \in 0..UtcMax /\ row.ordinal \in Nat /\ policy' = policy
          /\ updates' = updates
      BY <1>1, <1>7, Values
    <2>7. accepted' \in BOOLEAN
      BY <2>1, Values
    <2>8. QED
      BY <1>3, <1>6, <2>2, <2>3, <2>4, <2>5, <2>6, <2>7, RowKept
  <1>10. QED BY <1>8, <1>9

LEMMA ExpireKeeps ==
  ASSUME MessageInv, Expire
  PROVE  MessageInv'
  <1> DEFINE guards == [known_acceptance |-> accepted, late_ack |-> FALSE,
                        cancel_committed |-> row.flags[1],
                        expiry_eligible |-> proven_expired(Deadline, now'),
                        attempt_exhausted |-> FALSE]
             s == terminal_precedence(guards)
  <1>1. /\ row.state = "RetryScheduled" /\ wake # Err /\ ~wake[1].strict
        /\ now' = Most({now, wake[1].instant})
        /\ row' = [row EXCEPT !.state = s]
        /\ wake' = Err
        /\ UNCHANGED <<policy, lease, updates, accepted, claimed>>
    BY Zenon DEF Expire, IsOk
  <1>2. WakeInv /\ AttemptsInv /\ AcceptanceWins
    BY DEF MessageInv, MessageSafety
  <1>3. wake[1].instant \in 0..UtcMax /\ now \in 0..UtcMax
    BY <1>1, <1>2, Values DEF WakeInv
  <1>4. now' \in 0..UtcMax
    <2>1. now' = IF now >= wake[1].instant THEN now ELSE wake[1].instant
      BY <1>1, <1>3, MostOfTwo
    <2>2. QED BY <1>3, <2>1
  <1>5. s \in Terminal \cup {"NoTerminal"} /\ ~accepted
    <2>1. s \in Terminal \cup {"NoTerminal"}
      <3> HIDE DEF guards
      <3>1. QED BY Winners
    <2>2. QED BY <1>1, <1>2, <2>1 DEF AcceptanceWins
  <1>6. s # "NoTerminal"
    <2>1. wake[1].instant = Deadline
      BY <1>1, <1>2 DEF WakeInv
    <2>2. Deadline <= now'
      <3>1. now' = IF now >= wake[1].instant THEN now ELSE wake[1].instant
        BY <1>1, <1>3, MostOfTwo
      <3>2. QED BY <1>3, <2>1, <3>1
    <2>3. guards.expiry_eligible
      BY <2>2 DEF proven_expired
    <2> HIDE DEF guards
    <2>4. QED BY <2>3, Winners
  <1>7. s \in Terminal
    BY <1>5, <1>6
  <1> HIDE DEF s
  <1>8. row' = [state |-> s, flags |-> row.flags, ordinal |-> row.ordinal]
    BY <1>1, Values
  <1>9. row.ordinal \in Nat /\ row.ordinal <= lease.generation /\ row.flags \in [1..3 -> BOOLEAN]
    BY <1>2, Values DEF AttemptsInv
  <1>10. accepted' \in BOOLEAN /\ ~accepted'
    BY <1>1, <1>5, Values
  <1>11. QED
    BY <1>1, <1>4, <1>7, <1>8, <1>9, <1>10, Settled

LEMMA MessageStep ==
  ASSUME MessageInv, [MessageNext]_messageVars
  PROVE  MessageInv'
  <1>1. CASE UNCHANGED messageVars
    <2>1. UNCHANGED <<policy, row, lease, wake, now, accepted, claimed>> /\ UpdatesInv'
      BY <1>1 DEF messageVars, MessageInv, UpdatesInv
    <2>2. QED BY <2>1, ReportKeeps
  <1>2. CASE Report
    <2>1. UNCHANGED <<policy, row, lease, wake, now, accepted, claimed>>
      BY <1>2 DEF Report
    <2>2. UpdatesInv'
      <3>1. PICK e \in Evidence, after \in RetryAfters :
              updates' = updates \cup {[lease |-> lease, outcome |-> classify_provider_response(e),
                                        after |-> IF e = "RateLimited" THEN after ELSE Err]}
        BY <1>2 DEF Report
      <3> DEFINE a == IF e = "RateLimited" THEN after ELSE Err
                 o == classify_provider_response(e)
      <3>2. a \in Seq(Nat) /\ Len(a) <= 1
        BY MessageAssumption DEF Err
      <3>3. UpdatesInv
        BY DEF MessageInv
      <3> HIDE DEF a, o
      <3>4. updates' = updates \cup {[lease |-> lease, outcome |-> o, after |-> a]}
        BY <3>1 DEF a, o
      <3>5. QED BY <3>2, <3>3, <3>4 DEF UpdatesInv
    <2>3. QED BY <2>1, <2>2, ReportKeeps
  <1>3. QED
    BY <1>1, <1>2, ClaimKeeps, DispatchKeeps, CancelKeeps, CommitKeeps, LateKeeps, ExpireKeeps
       DEF MessageNext

\* Under every order of claims, dispatches, cancellations and reports, late and
\* repeated ones too: an acceptance is final (terminal_precedence,
\* resolve_late_ack), a message is attempted no more often than its policy allows
\* (retry_admission_v1), never begun at or after its end, and a stored wake fits
\* an instant (durable_wake_boundary_v1).
THEOREM MessageDecisions == MessageSpec => []MessageSafety
  <1>1. MessageInit => MessageInv
    BY MessageStart
  <1>2. MessageInv /\ [MessageNext]_messageVars => MessageInv'
    BY MessageStep
  <1>3. MessageInv => MessageSafety
    BY DEF MessageInv
  <1>4. QED
    BY <1>1, <1>2, <1>3, PTL DEF MessageSpec

LEMMA ThreeFlags ==
  ASSUME NEW f, NEW g, f[1] => g[1], f[2] => g[2], f[3] => g[3]
  PROVE  \A i \in 1..3 : f[i] => g[i]
  <1>1. \A i \in 1..3 : i = 1 \/ i = 2 \/ i = 3
    OBVIOUS
  <1>2. QED BY <1>1

\* Flags that are added.
LEMMA FlagsAdded ==
  ASSUME NEW f, NEW c
  PROVE  \A i \in 1..3 : f[i] => (IF c THEN <<f[1], TRUE, TRUE>> ELSE f)[i]
  <1> DEFINE g == IF c THEN <<f[1], TRUE, TRUE>> ELSE f
  <1>1. CASE c
    <2>1. g = <<f[1], TRUE, TRUE>>
      BY <1>1
    <2>2. (f[1] => g[1]) /\ (f[2] => g[2]) /\ (f[3] => g[3])
      BY <2>1
    <2> HIDE DEF g
    <2>3. \A i \in 1..3 : f[i] => g[i]
      BY <2>2, ThreeFlags
    <2>4. QED BY <2>3 DEF g
  <1>2. CASE ~c
    BY <1>2
  <1>3. QED BY <1>1, <1>2

\* The update that is applied is one of the current lease.
LEMMA AppliedIsOwn ==
  ASSUME NEW u, Arbitrated(u) = <<"Applied">>
  PROVE  u.lease = lease
  <1>1. <<"Applied">> # <<"Stale">> /\ <<"Applied">> # <<"StaleAmbiguous">> /\ <<"Applied">> # Err
    BY DEF Err
  <1>2. QED
    BY <1>1 DEF Arbitrated, arbitrate_outcome

\* A retry that is scheduled waits as its report asked.
LEMMA Waits ==
  ASSUME MessageInv, Commit
  PROVE  WaitsAsAsked
  <1>1. PICK u \in updates :
          /\ Arbitrated(u) = <<"Applied">>
          /\ LET ordinal == row.ordinal + 1
                 winner == terminal_precedence(
                   [known_acceptance |-> u.outcome = "Accepted" \/ accepted,
                    late_ack |-> FALSE,
                    cancel_committed |-> row.flags[1],
                    expiry_eligible |-> proven_expired(Deadline, now),
                    attempt_exhausted |-> retry_admission_v1(ordinal, policy.attempts) # <<"Eligible">>])
             IN \/ wake' = Err
                \/ winner = "NoTerminal" /\ wake' = Scheduled(ordinal, u.after)
    BY Zenon DEF Commit
  <1> DEFINE o == row.ordinal + 1
             guards == [known_acceptance |-> u.outcome = "Accepted" \/ accepted,
                        late_ack |-> FALSE,
                        cancel_committed |-> row.flags[1],
                        expiry_eligible |-> proven_expired(Deadline, now),
                        attempt_exhausted |-> retry_admission_v1(o, policy.attempts) # <<"Eligible">>]
             winner == terminal_precedence(guards)
             w == wake'
  <1>2. SUFFICES ASSUME w # Err, w[1].strict
                 PROVE  \A a \in {u.after[i] : i \in DOMAIN u.after} :
                          a <= w[1].instant - now /\ w[1].instant - now <= Most({policy.max, a})
    BY <1>1, AppliedIsOwn DEF WaitsAsAsked
  <1>3. winner = "NoTerminal" /\ w = Scheduled(o, u.after)
    BY <1>1, <1>2, Zenon
  <1>4. retry_admission_v1(o, policy.attempts) = <<"Eligible">>
    <2>1. ~guards.attempt_exhausted
      <3> HIDE DEF guards
      <3>1. QED BY <1>3, Winners
    <2>2. QED BY <2>1
  <1>5. o \in Nat /\ o >= 1 /\ policy \in Policies /\ now \in 0..UtcMax /\ policy.attempts \in Nat
    BY Values
  <1>6. o \in 1..policy.attempts
    <2>1. o > policy.attempts => retry_admission_v1(o, policy.attempts) = Err
      BY <1>5 DEF retry_admission_v1
    <2>2. QED BY <1>4, <1>5, <2>1 DEF Err
  <1> DEFINE jitter == derive_retry_jitter(o)
             delay == IF IsOk(jitter) THEN retry_delay_v1(policy, o, jitter[1], u.after) ELSE Err
  <1>7. w = IF IsOk(delay)
            THEN durable_wake_boundary_v1(now, delay[1], policy.expires, policy.created, policy.age)
            ELSE Err
    BY <1>3, Zenon DEF Scheduled
  <1> HIDE DEF o, w, jitter, guards, winner
  <1>8. delay = retry_delay_v1(policy, o, jitter[1], u.after) /\ delay # Err
    BY <1>2, <1>7 DEF IsOk
  <1> HIDE DEF delay
  <1>9. w = durable_wake_boundary_v1(now, delay[1], policy.expires, policy.created, policy.age)
    BY <1>7, <1>8 DEF IsOk
  <1>10. delay[1] \in Nat /\ w[1].instant = now + delay[1]
    BY <1>2, <1>5, <1>9, Woken
  <1>11. u.after \in Seq(Nat) /\ Len(u.after) <= 1
    BY DEF MessageInv, UpdatesInv
  <1>12. \A i \in DOMAIN u.after : /\ u.after[i] \in Nat /\ u.after[i] <= delay[1]
                                   /\ delay[1] <= Most({policy.max, u.after[i]})
    <2> DEFINE after == u.after
    <2>1. after \in Seq(Nat) /\ Len(after) <= 1 /\ delay = retry_delay_v1(policy, o, jitter[1], after)
      BY <1>8, <1>11
    <2> HIDE DEF after
    <2>2. \A i \in DOMAIN after : /\ after[i] \in Nat /\ after[i] <= delay[1]
                                  /\ delay[1] <= Most({policy.max, after[i]})
      BY <1>5, <1>6, <1>8, <2>1, Delays
    <2>3. QED BY <2>2 DEF after
  <1>13. w[1].instant - now = delay[1]
    BY <1>5, <1>10
  <1>14. QED BY <1>12, <1>13

\* A cancellation, a possible effect and a possible duplicate that are on record
\* stay on record (transition, the stale branch of arbitrate_outcome), and an
\* attempt is settled by a report of its own lease only, also when fence tokens
\* repeat and old reports arrive again (arbitrate_outcome); a retry waits as long
\* as the provider asked and no longer than that or the policy allows
\* (retry_delay_v1).
THEOREM MessageSteps ==
  MessageSpec => [][FlagsStay /\ SettledByOwnOutcome /\ WaitsAsAsked]_messageVars
  <1> DEFINE Kept == FlagsStay /\ SettledByOwnOutcome /\ WaitsAsAsked
  <1>1. ASSUME MessageInv, MessageNext
        PROVE  Kept
    <2>1. row.flags \in [1..3 -> BOOLEAN]
          /\ row = [state |-> row.state, flags |-> row.flags, ordinal |-> row.ordinal]
      BY <1>1, Values
    <2>2. ASSUME Claim PROVE Kept
      <3>1. /\ row' = [state |-> "Delivering", flags |-> row.flags, ordinal |-> row.ordinal]
            /\ row.state # "Delivering"
        BY <1>1, <2>2, FairClaim DEF Claim
      <3>2. QED BY <3>1 DEF FlagsStay, SettledByOwnOutcome, WaitsAsAsked
    <2>3. ASSUME Dispatch PROVE Kept
      <3>1. Follow("DispatchMark")
        BY <2>3 DEF Dispatch
      <3>2. row.flags = <<FALSE, FALSE, FALSE>>
        BY <1>1, <3>1, DispatchMark
      <3>3. row'.state = "Delivering"
        BY <1>1, <3>1, DispatchMark
      <3>4. FlagsStay
        BY <3>2, ThreeFlags DEF FlagsStay
      <3>5. QED BY <3>3, <3>4 DEF SettledByOwnOutcome, WaitsAsAsked
    <2>4. ASSUME Cancel PROVE Kept
      <3>1. Follow("Cancel")
        BY <2>4 DEF Cancel
      <3>2. row' = [state |-> "Delivering", flags |-> <<TRUE, row.flags[2], row.flags[3]>>,
                    ordinal |-> row.ordinal]
        BY <1>1, <3>1, CancelMark
      <3>3. row'.flags = <<TRUE, row.flags[2], row.flags[3]>> /\ row'.state = "Delivering"
        BY <3>2
      <3>4. FlagsStay
        <4>1. row'.flags[1] /\ row'.flags[2] = row.flags[2] /\ row'.flags[3] = row.flags[3]
          BY <3>3
        <4>2. QED BY <4>1, ThreeFlags DEF FlagsStay
      <3>5. QED BY <3>3, <3>4 DEF SettledByOwnOutcome, WaitsAsAsked
    <2>5. ASSUME Report PROVE Kept
      BY <2>5 DEF Report, FlagsStay, SettledByOwnOutcome, WaitsAsAsked
    <2>6. ASSUME Commit PROVE Kept
      <3>1. PICK u \in updates :
              /\ Arbitrated(u) = <<"Applied">>
              /\ LET ordinal == row.ordinal + 1
                     winner == terminal_precedence(
                       [known_acceptance |-> u.outcome = "Accepted" \/ accepted,
                        late_ack |-> FALSE,
                        cancel_committed |-> row.flags[1],
                        expiry_eligible |-> proven_expired(Deadline, now),
                        attempt_exhausted |-> retry_admission_v1(ordinal, policy.attempts) # <<"Eligible">>])
                     event == IF u.outcome = "Ambiguous" THEN "AmbiguousOutcome" ELSE "TransientOutcome"
                 IN \/ row' = [row EXCEPT !.state = winner,
                                  !.ordinal = IF row.state = "Delivering" THEN ordinal ELSE @,
                                  !.flags = IF u.outcome = "Ambiguous" THEN <<@[1], TRUE, TRUE>> ELSE @]
                    \/ LET next == transition(row.state, row.flags, event)
                       IN /\ IsOk(next)
                          /\ row' = [state |-> next[1].state, flags |-> next[1].flags, ordinal |-> ordinal]
        BY <2>6, Zenon DEF Commit
      <3>2. SettledByOwnOutcome
        BY <3>1, AppliedIsOwn DEF SettledByOwnOutcome
      <3>3. FlagsStay
        <4> DEFINE event == IF u.outcome = "Ambiguous" THEN "AmbiguousOutcome" ELSE "TransientOutcome"
                   next == transition(row.state, row.flags, event)
                   f == IF u.outcome = "Ambiguous" THEN <<row.flags[1], TRUE, TRUE>> ELSE row.flags
        <4>1. \/ \E w, o : row' = [row EXCEPT !.state = w, !.ordinal = o, !.flags = f]
              \/ /\ next # Err
                 /\ row' = [state |-> next[1].state, flags |-> next[1].flags, ordinal |-> row.ordinal + 1]
          <5> DEFINE ordinal == row.ordinal + 1
                     winner == terminal_precedence(
                       [known_acceptance |-> u.outcome = "Accepted" \/ accepted,
                        late_ack |-> FALSE,
                        cancel_committed |-> row.flags[1],
                        expiry_eligible |-> proven_expired(Deadline, now),
                        attempt_exhausted |-> retry_admission_v1(ordinal, policy.attempts) # <<"Eligible">>])
                     ended == IF row.state = "Delivering" THEN ordinal ELSE row.ordinal
          <5>1. \/ row' = [row EXCEPT !.state = winner, !.ordinal = ended, !.flags = f]
                \/ /\ next # Err
                   /\ row' = [state |-> next[1].state, flags |-> next[1].flags, ordinal |-> ordinal]
            BY <3>1, Zenon DEF IsOk
          <5> HIDE DEF winner, ended, f, next
          <5>2. QED BY <5>1
        <4>2. CASE \E w, o : row' = [row EXCEPT !.state = w, !.ordinal = o, !.flags = f]
          <5>1. \A i \in 1..3 : row.flags[i] => f[i]
            BY FlagsAdded
          <5> HIDE DEF f
          <5>2. row'.flags = f
            BY <2>1, <4>2
          <5>3. QED BY <5>1, <5>2 DEF FlagsStay
        <4>3. CASE /\ next # Err
                   /\ row' = [state |-> next[1].state, flags |-> next[1].flags, ordinal |-> row.ordinal + 1]
          <5>1. \E amb \in BOOLEAN : next = outcome_rule(row.state, row.flags, amb)
            <6>1. event = "AmbiguousOutcome" \/ event = "TransientOutcome"
              OBVIOUS
            <6> HIDE DEF event
            <6>2. QED BY <6>1 DEF transition
          <5> HIDE DEF next
          <5>2. PICK amb \in BOOLEAN : next = outcome_rule(row.state, row.flags, amb)
            BY <5>1
          <5>3. next # Err /\ row'.flags = next[1].flags
            BY <4>3
          <5>4. next[1].flags = <<FALSE, TRUE, row.flags[3] \/ amb>>
            BY <1>1, <5>2, <5>3, OutcomeMark
          <5>5. row.flags[1] = FALSE
            BY <5>2, <5>3 DEF outcome_rule
          <5>6. row'.flags[2] /\ (row.flags[3] => row'.flags[3])
            <6> DEFINE dup == row.flags[3] \/ amb
            <6>1. row'.flags = <<FALSE, TRUE, dup>>
              BY <5>3, <5>4
            <6>2. row.flags[3] => dup = TRUE
              OBVIOUS
            <6> HIDE DEF dup
            <6>3. row'.flags[2] = TRUE /\ row'.flags[3] = dup
              BY <6>1
            <6>4. QED BY <6>2, <6>3
          <5>7. QED BY <5>5, <5>6, ThreeFlags DEF FlagsStay
        <4>4. QED BY <4>1, <4>2, <4>3
      <3>4. QED BY <1>1, <2>6, <3>2, <3>3, Waits
    <2>7. ASSUME Late PROVE Kept
      <3>1. PICK u \in updates :
              LET late == resolve_late_ack(u.outcome = "Accepted")
              IN row' = [row EXCEPT !.state = IF IsOk(late) THEN late[1] ELSE @,
                           !.flags = IF Arbitrated(u) = <<"StaleAmbiguous">> THEN <<@[1], TRUE, TRUE>> ELSE @]
        BY <2>7, Zenon DEF Late
      <3> DEFINE late == resolve_late_ack(u.outcome = "Accepted")
                 s == IF IsOk(late) THEN late[1] ELSE row.state
                 f == IF Arbitrated(u) = <<"StaleAmbiguous">> THEN <<row.flags[1], TRUE, TRUE>> ELSE row.flags
      <3>2. s = "ProviderAccepted" \/ s = row.state
        BY DEF resolve_late_ack, IsOk, Err
      <3>3. \A i \in 1..3 : row.flags[i] => f[i]
        BY FlagsAdded
      <3>4. row' = [row EXCEPT !.state = s, !.flags = f]
        BY <3>1, Zenon
      <3> HIDE DEF s, f, late
      <3>5. row'.state = s /\ row'.flags = f
        BY <2>1, <3>4
      <3>6. QED BY <3>2, <3>3, <3>5 DEF FlagsStay, SettledByOwnOutcome, WaitsAsAsked
    <2>8. ASSUME Expire PROVE Kept
      <3>1. row.state = "RetryScheduled" /\ \E s : row' = [row EXCEPT !.state = s]
        BY <2>8 DEF Expire
      <3>2. row'.flags = row.flags
        BY <2>1, <3>1
      <3>3. QED BY <3>1, <3>2 DEF FlagsStay, SettledByOwnOutcome, WaitsAsAsked
    <2>9. QED
      BY <1>1, <2>2, <2>3, <2>4, <2>5, <2>6, <2>7, <2>8 DEF MessageNext
  <1>2. MessageInit => MessageInv
    BY MessageStart
  <1>3. MessageInv /\ [MessageNext]_messageVars => MessageInv'
    BY MessageStep
  <1>4. QED
    BY <1>1, <1>2, <1>3, PTL DEF MessageSpec

-----------------------------------------------------------------------------
(***************************************************************************)
(* Safe time, for any branches, instants and threshold.                    *)
(***************************************************************************)
\* Most is the maximum of one or two integers, the only sets the markers form.
LEMMA MostOfOne == ASSUME NEW a \in Int PROVE Most({a}) = a
BY DEF Most

\* While no branch is ahead of the fixed root, the fixed root's marker is the
\* effective one, whichever branch is selected.
LEMMA FixedIsEffective ==
  ASSUME ClockInv
  PROVE  /\ Effective = fixed
         /\ carry_forward_high_water({fixed} \cup SelectedMarkers) = fixed
<1>1. fixed \in Int
  BY DEF ClockInv
<1>2. CASE selected = NoBranch
  <2>1. {fixed} \cup SelectedMarkers = {fixed}
    BY <1>2 DEF SelectedMarkers
  <2> QED BY <1>1, <2>1, MostOfOne DEF Effective, effective_high_water, carry_forward_high_water
<1>3. CASE selected # NoBranch
  <2>1. marker[selected] \in Int /\ fixed >= marker[selected]
    BY <1>3 DEF ClockInv
  <2>2. {fixed} \cup SelectedMarkers = {fixed, marker[selected]}
    BY <1>3 DEF SelectedMarkers
  <2> QED BY <1>1, <2>1, <2>2, MostOfTwo DEF Effective, effective_high_water, carry_forward_high_water
<1> QED BY <1>2, <1>3

\* What clock_step_holds lets pass.
LEMMA NoStep ==
  ASSUME NEW w \in Int, NEW m \in Int, ~clock_step_holds(w, m)
  PROVE  w - m <= Threshold
BY SafeTimeConstants DEF clock_step_holds

-----------------------------------------------------------------------------
\* The invariant holds of a fresh root.
LEMMA ClockInit == SafeTimeInit => ClockInv
BY DEF SafeTimeInit, ClockInv

\* Observe advances the fixed root only, by what the clocks agree on.
LEMMA ObserveKeeps == ASSUME ClockInv, Observe PROVE ClockInv'
<1>1. PICK w \in Instants, m \in Instants :
        /\ m > mono
        /\ ~clock_step_holds(w - wall, m - mono)
        /\ wall' = w /\ mono' = m
        /\ half' = advance_high_water(Effective, w)
        /\ fixed' = half'
        /\ budget' = budget + (m - mono) + Threshold
        /\ UNCHANGED <<marker, selected, gone>>
  BY DEF Observe
<1>2. w \in Int /\ m \in Int /\ Threshold \in Nat
  BY SafeTimeConstants
<1>3. fixed \in Nat /\ wall \in Int /\ mono \in Int /\ budget \in Int
        /\ fixed <= budget /\ wall <= budget
  BY DEF ClockInv
<1>4. fixed' = IF fixed >= w THEN fixed ELSE w
  BY <1>1, <1>2, <1>3, FixedIsEffective, MostOfTwo DEF advance_high_water
<1>5. (w - wall) - (m - mono) <= Threshold
  <2>1. w - wall \in Int /\ m - mono \in Int
    BY <1>2, <1>3
  <2> QED BY <1>1, <2>1, NoStep
<1>6. fixed' \in Nat /\ fixed <= fixed' /\ half' \in Int /\ half' <= fixed'
  BY <1>1, <1>2, <1>3, <1>4
<1>7. budget' \in Int /\ wall' <= budget' /\ fixed' <= budget'
  BY <1>1, <1>2, <1>3, <1>4, <1>5
<1>8. \A b \in Branches : marker'[b] <= fixed'
  BY <1>1, <1>3, <1>6 DEF ClockInv
<1>9. \A b \in gone' : b <= fixed'
  BY <1>1, <1>3, <1>6 DEF ClockInv
<1> QED BY <1>1, <1>2, <1>6, <1>7, <1>8, <1>9 DEF ClockInv

\* The second half of a checkpoint brings no branch ahead of the fixed root.
LEMMA WriteSelectedKeeps == ASSUME ClockInv, WriteSelected PROVE ClockInv'
<1>1. marker' \in [Branches -> Int] /\ \A b \in Branches : marker'[b] <= fixed
  BY DEF ClockInv, WriteSelected
<1> QED BY <1>1 DEF ClockInv, WriteSelected

\* A restart takes a wall clock near the effective marker.
LEMMA RestartKeeps == ASSUME ClockInv, Restart PROVE ClockInv'
<1>1. PICK w \in Instants :
        /\ half' = -1 /\ mono' = 0 /\ wall' = w
        /\ ~clock_step_holds(w - Effective, 0)
        /\ budget' = budget + Threshold
        /\ UNCHANGED <<fixed, marker, selected, gone>>
  BY DEF Restart
<1>2. w \in Int /\ Threshold \in Nat /\ fixed \in Nat /\ budget \in Int /\ fixed <= budget
  BY SafeTimeConstants DEF ClockInv
<1>3. w - fixed <= Threshold
  <2>1. w - fixed \in Int /\ (w - fixed) - 0 = w - fixed
    BY <1>2
  <2> QED BY <1>1, <2>1, NoStep, FixedIsEffective
<1> QED BY <1>1, <1>2, <1>3 DEF ClockInv

\* A new branch starts at the effective marker.
LEMMA BranchKeeps == ASSUME ClockInv, Branch PROVE ClockInv'
<1>1. PICK b \in Branches :
        /\ marker' = [marker EXCEPT ![b] = fixed]
        /\ selected' = b
        /\ UNCHANGED <<fixed, half, wall, mono, gone, budget>>
  BY FixedIsEffective DEF Branch
<1>2. marker' \in [Branches -> Int] /\ \A c \in Branches : marker'[c] <= fixed
  BY <1>1 DEF ClockInv
<1> QED BY <1>1, <1>2 DEF ClockInv

\* A rollback moves no marker.
LEMMA RollbackKeeps == ASSUME ClockInv, Rollback PROVE ClockInv'
BY DEF ClockInv, Rollback

\* What is found expired is not ahead of the fixed root.
LEMMA PruneKeeps == ASSUME ClockInv, Prune PROVE ClockInv'
<1>1. gone' = gone \cup {b \in Instants : b <= fixed}
  BY FixedIsEffective DEF Prune, proven_expired
<1>2. gone' \subseteq Int /\ \A b \in gone' : b <= fixed
  BY <1>1, SafeTimeConstants DEF ClockInv
<1> QED BY <1>2 DEF ClockInv, Prune

LEMMA ClockStep == ASSUME ClockInv, [SafeTimeNext]_safeTimeVars PROVE ClockInv'
<1>1. CASE UNCHANGED safeTimeVars
  BY <1>1 DEF ClockInv, safeTimeVars
<1> QED
  BY <1>1, ObserveKeeps, WriteSelectedKeeps, RestartKeeps, BranchKeeps, RollbackKeeps, PruneKeeps
  DEF SafeTimeNext

\* Safe time: the fixed root's marker is never behind any branch, half
\* checkpoint or expired boundary, nor ahead of the time that passed.
THEOREM ClockInvariant == SafeTimeSpec => []ClockInv
BY ClockInit, ClockStep, PTL DEF SafeTimeSpec

\* A command found expired stays expired through every branch, rollback and
\* half checkpoint (effective_high_water).
THEOREM ExpiryIsForever == SafeTimeSpec => []ExpiredStaysExpired
<1>1. ClockInv => ExpiredStaysExpired
  BY FixedIsEffective DEF ClockInv, ExpiredStaysExpired, proven_expired
<1> QED BY <1>1, ClockInvariant, PTL

\* Safe time never runs ahead of the time that passed by more than a threshold
\* per observation and restart (clock_step_holds).
THEOREM SafeTimeNeverLeaps == SafeTimeSpec => []NoLeap
<1>1. ClockInv => NoLeap
  BY FixedIsEffective DEF ClockInv, NoLeap
<1> QED BY <1>1, ClockInvariant, PTL

\* The marker of the fixed root only grows.
THEOREM FixedRootOnlyAdvances == SafeTimeSpec => [][fixed' >= fixed]_safeTimeVars
<1>1. ASSUME ClockInv, [SafeTimeNext]_safeTimeVars
      PROVE  [fixed' >= fixed]_safeTimeVars
  <2>1. fixed \in Nat
    BY <1>1 DEF ClockInv
  <2>2. ASSUME Observe PROVE fixed' >= fixed
    <3>1. PICK w \in Instants : fixed' = advance_high_water(Effective, w)
      BY <2>2 DEF Observe
    <3>2. w \in Int /\ fixed \in Int
      BY <2>1, SafeTimeConstants
    <3>3. fixed' = IF fixed >= w THEN fixed ELSE w
      BY <1>1, <3>1, <3>2, FixedIsEffective, MostOfTwo DEF advance_high_water
    <3> QED BY <3>2, <3>3
  <2> QED
    BY <1>1, <2>1, <2>2
    DEF SafeTimeNext, WriteSelected, Restart, Branch, Rollback, Prune, safeTimeVars
<1> QED BY <1>1, ClockInvariant, PTL DEF SafeTimeSpec

-----------------------------------------------------------------------------
(***************************************************************************)
(* The state MAC keys.                                                     *)
(***************************************************************************)

\* Split into limbs and put together again a serial is itself (split_limbs).
LEMMA Limbs ==
  ASSUME NEW n \in Nat, n <= LastSerial, NEW origin
  PROVE  /\ SplitSerial(n)[1] \in Limb /\ SplitSerial(n)[2] \in Limb
         /\ Serial(<<origin, SplitSerial(n)[1], SplitSerial(n)[2]>>) = n
  <1> DEFINE b == LimbMax + 1
             h == n \div b
             l == n % b
  <1>1. b \in Nat /\ b > 0 /\ LimbMax \in Nat
    BY KeyConstants
  <1> HIDE DEF b
  <1>2. h \in Int /\ l \in 0..(b - 1) /\ n = b * h + l
    BY <1>1
  <1> HIDE DEF h, l
  <1>3. h >= 0
    <2>1. CASE h < 0
      <3>1. b * h <= -b
        BY <1>1, <1>2, <2>1
      <3>2. QED BY <1>1, <1>2, <3>1
    <2>2. QED BY <1>2, <2>1
  <1>4. n <= LimbMax * b + LimbMax
    BY DEF LastSerial, Serial, b
  <1>5. h < b
    <2>1. CASE h >= b
      <3>1. b * h >= b * b
        BY <1>1, <1>2, <2>1
      <3>2. b * b = LimbMax * b + b
        BY <1>1 DEF b
      <3>3. b = LimbMax + 1
        BY DEF b
      <3>4. b * h \in Int /\ LimbMax * b \in Int /\ b * b \in Int
        BY <1>1, <1>2
      <3>5. QED BY <1>1, <1>2, <1>4, <3>1, <3>2, <3>3, <3>4
    <2>2. QED BY <1>1, <1>2, <2>1
  <1>6. SplitSerial(n) = <<h, l>>
    BY DEF SplitSerial, h, l, b
  <1>7. h * b + l = n
    BY <1>1, <1>2
  <1>8. Serial(<<origin, h, l>>) = h * b + l
    BY DEF Serial, b
  <1>9. h \in Limb /\ l \in Limb
    BY <1>1, <1>2, <1>3, <1>5 DEF Limb, b
  <1>10. QED BY <1>6, <1>7, <1>8, <1>9

-----------------------------------------------------------------------------
Tables == [origin : Int, waters : Seq(WaterColumns), rows : Seq(ManifestColumns)]
RowSerial(record) == Serial(<<record.origin, record.hi, record.lo>>)
WaterSerial(water) == Serial(<<0, water.hi, water.lo>>)
SameKey(a, b) == a.purpose = b.purpose /\ a.origin = b.origin /\ a.hi = b.hi /\ a.lo = b.lo
ActiveAt(r, p, i) == r.rows[i].purpose = p /\ r.rows[i].status = 1
Demanded(r, p) == IF p = PurposeCount THEN PrebootstrapOrigin ELSE r.origin

\* What compose_state_mac_key_snapshot demands of the tables, over the columns.
Decodes(r) ==
  /\ r.origin >= 0
  /\ \A j \in DOMAIN r.waters : decodes_water(r.waters[j])
  /\ \A i \in DOMAIN r.rows : decodes_row(r.rows[i])
Ascends(rows) == \A i, j \in DOMAIN rows : i < j => Listed(rows[i], rows[j])
Fills(r) == \A p \in Purposes : Cardinality({i \in DOMAIN r.rows : r.rows[i].purpose = p}) <= MaxPerPurpose
OneActive(r) ==
  \A p \in Purposes : \E i \in DOMAIN r.rows :
    /\ ActiveAt(r, p, i) /\ r.rows[i].origin = Demanded(r, p)
    /\ \A j \in DOMAIN r.rows : ActiveAt(r, p, j) => j = i
OneWater(r) ==
  \A p \in Purposes : \E i \in DOMAIN r.waters :
    r.waters[i].purpose = p /\ \A j \in DOMAIN r.waters : r.waters[j].purpose = p => j = i
UnderWater(r) ==
  \A i \in DOMAIN r.rows, j \in DOMAIN r.waters :
    r.rows[i].origin = r.origin /\ r.waters[j].purpose = r.rows[i].purpose =>
      RowSerial(r.rows[i]) <= WaterSerial(r.waters[j])

LEMMA RowsOrdered ==
  ASSUME NEW a \in ManifestColumns, NEW b \in ManifestColumns, NEW c \in ManifestColumns
  PROVE  /\ ~Listed(a, a)
         /\ Listed(a, b) /\ Listed(b, c) => Listed(a, c)
         /\ SameKey(a, b) \/ Listed(a, b) \/ Listed(b, a)
         /\ Listed(a, b) => ~SameKey(a, b)
  BY DEF Listed, RowBefore, IdBefore, decode_state_mac_key_manifest_row, SameKey, ManifestColumns

LEMMA AscendsPairwise ==
  ASSUME NEW rows \in Seq(ManifestColumns),
         \A i \in 1..(Len(rows) - 1) : Listed(rows[i], rows[i + 1])
  PROVE  Ascends(rows)
  <1> DEFINE D == {d \in Nat : \A i \in Nat : i >= 1 /\ i + d + 1 <= Len(rows)
                                 => Listed(rows[i], rows[i + d + 1])}
  <1>1. 0 \in D
    <2> SUFFICES ASSUME NEW i \in Nat, i >= 1, i + 0 + 1 <= Len(rows)
                 PROVE  Listed(rows[i], rows[i + 0 + 1])
      OBVIOUS
    <2>1. i \in 1..(Len(rows) - 1) /\ i + 0 + 1 = i + 1
      OBVIOUS
    <2>2. QED BY <2>1
  <1>2. ASSUME NEW d \in D PROVE d + 1 \in D
    <2> SUFFICES ASSUME NEW i \in Nat, i >= 1, i + (d + 1) + 1 <= Len(rows)
                 PROVE  Listed(rows[i], rows[i + (d + 1) + 1])
      OBVIOUS
    <2>1. d \in Nat /\ i + d + 1 \in 1..(Len(rows) - 1) /\ i + (d + 1) + 1 = (i + d + 1) + 1
      OBVIOUS
    <2>2. Listed(rows[i], rows[i + d + 1]) /\ Listed(rows[i + d + 1], rows[(i + d + 1) + 1])
      BY <2>1
    <2>3. rows[i] \in ManifestColumns /\ rows[i + d + 1] \in ManifestColumns
          /\ rows[(i + d + 1) + 1] \in ManifestColumns
      BY <2>1
    <2>4. QED BY <2>1, <2>2, <2>3, RowsOrdered
  <1> HIDE DEF D
  <1>3. D = Nat
    <2>1. D \in SUBSET Nat
      BY DEF D
    <2>2. QED BY <1>1, <1>2, <2>1, SetInduction
  <1>4. SUFFICES ASSUME NEW i \in DOMAIN rows, NEW j \in DOMAIN rows, i < j
                 PROVE  Listed(rows[i], rows[j])
    BY DEF Ascends
  <1>5. j - i - 1 \in D /\ i \in Nat /\ i >= 1 /\ i + (j - i - 1) + 1 = j /\ j <= Len(rows)
    BY <1>3, <1>4
  <1>6. QED BY <1>5 DEF D

\* compose_state_mac_key_snapshot in those terms.
LEMMA SnapshotMeans ==
  ASSUME NEW r \in Tables
  PROVE  compose_state_mac_key_snapshot(r) <=>
           /\ Decodes(r) /\ Ascends(r.rows) /\ Fills(r) /\ OneActive(r) /\ OneWater(r) /\ UnderWater(r)
  <1> DEFINE rows == r.rows
             manifest == ManifestRows(r)
  <1>0. rows \in Seq(ManifestColumns) /\ r.waters \in Seq(WaterColumns) /\ r.origin \in Int
    BY DEF Tables
  <1>1. DOMAIN manifest = DOMAIN rows /\ Len(manifest) = Len(rows)
        /\ \A i \in DOMAIN rows : manifest[i] = decode_state_mac_key_manifest_row(rows[i])
    <2>1. manifest = [i \in 1..Len(rows) |-> decode_state_mac_key_manifest_row(rows[i])]
      BY <1>0 DEF ManifestRows
    <2>2. QED BY <1>0, <2>1
  <1>2. \A i \in DOMAIN rows :
          /\ manifest[i].purpose = rows[i].purpose
          /\ manifest[i].active = (rows[i].status = 1)
          /\ manifest[i].id = <<rows[i].origin, rows[i].hi, rows[i].lo>>
          /\ manifest[i].id[1] = rows[i].origin
    <2> SUFFICES ASSUME NEW i \in DOMAIN rows
                 PROVE  /\ manifest[i].purpose = rows[i].purpose
                        /\ manifest[i].active = (rows[i].status = 1)
                        /\ manifest[i].id = <<rows[i].origin, rows[i].hi, rows[i].lo>>
                        /\ manifest[i].id[1] = rows[i].origin
      OBVIOUS
    <2> DEFINE decoded == decode_state_mac_key_manifest_row(rows[i])
    <2>1. decoded = [purpose |-> rows[i].purpose, id |-> <<rows[i].origin, rows[i].hi, rows[i].lo>>,
                     active |-> rows[i].status = 1]
      BY DEF decode_state_mac_key_manifest_row
    <2> HIDE DEF decoded
    <2>2. decoded.purpose = rows[i].purpose /\ decoded.id = <<rows[i].origin, rows[i].hi, rows[i].lo>>
      BY <2>1
    <2>3. decoded.active = (rows[i].status = 1)
      BY <2>1, Zenon
    <2>4. manifest[i] = decoded
      BY <1>1 DEF decoded
    <2> HIDE DEF manifest
    <2>5. manifest[i].id[1] = rows[i].origin
      BY <2>2, <2>4
    <2>6. QED BY <2>2, <2>3, <2>4, <2>5, Zenon
  <1>3. decode_state_mac_key_meta_rows(r) /\ (\A i \in DOMAIN r.rows : decodes_row(r.rows[i])) <=> Decodes(r)
    BY DEF Decodes, decode_state_mac_key_meta_rows, is_origin
  <1>4. (\A i \in 1..(Len(manifest) - 1) : RowBefore(manifest[i], manifest[i + 1])) <=> Ascends(rows)
    <2>1. \A i \in 1..(Len(rows) - 1) : i \in DOMAIN rows /\ i + 1 \in DOMAIN rows /\ i < i + 1
      BY <1>0
    <2>2. (\A i \in 1..(Len(manifest) - 1) : RowBefore(manifest[i], manifest[i + 1]))
            <=> \A i \in 1..(Len(rows) - 1) : Listed(rows[i], rows[i + 1])
      BY <1>1, <2>1 DEF Listed
    <2>3. QED BY <1>0, <2>1, <2>2, AscendsPairwise DEF Ascends
  <1>5. (\A p \in Purposes : Cardinality({i \in DOMAIN manifest : manifest[i].purpose = p}) <= MaxPerPurpose)
          <=> Fills(r)
    <2>1. \A p \in Purposes : {i \in DOMAIN manifest : manifest[i].purpose = p}
                                = {i \in DOMAIN rows : rows[i].purpose = p}
      BY <1>1, <1>2
    <2>2. QED BY <2>1 DEF Fills
  <1>6. (\A p \in Purposes :
           /\ Cardinality(ActiveRows(manifest, p)) = 1
           /\ \A i \in ActiveRows(manifest, p) :
                manifest[i].id[1] = IF p = PurposeCount THEN PrebootstrapOrigin ELSE r.origin)
          <=> OneActive(r)
    <2> SUFFICES ASSUME NEW p \in Purposes
                 PROVE  /\ Cardinality(ActiveRows(manifest, p)) = 1
                        /\ \A i \in ActiveRows(manifest, p) :
                             manifest[i].id[1] = IF p = PurposeCount THEN PrebootstrapOrigin ELSE r.origin
                        <=> \E i \in DOMAIN r.rows :
                              /\ ActiveAt(r, p, i) /\ r.rows[i].origin = Demanded(r, p)
                              /\ \A j \in DOMAIN r.rows : ActiveAt(r, p, j) => j = i
      BY DEF OneActive
    <2>1. ActiveRows(manifest, p) = {i \in DOMAIN rows : ActiveAt(r, p, i)}
      BY <1>1, <1>2 DEF ActiveRows, ActiveAt
    <2>2. IsFiniteSet(ActiveRows(manifest, p))
      <3>1. DOMAIN rows = 1..Len(rows) /\ 1 \in Int /\ Len(rows) \in Int
        BY <1>0
      <3>2. IsFiniteSet(DOMAIN rows)
        BY <3>1, FS_Interval
      <3>3. ActiveRows(manifest, p) \subseteq DOMAIN rows
        BY <2>1
      <3>4. QED BY <3>2, <3>3, FS_Subset
    <2>3. Cardinality(ActiveRows(manifest, p)) = 1 <=> \E x : ActiveRows(manifest, p) = {x}
      BY <2>2, FS_Singleton
    <2>4. QED BY <1>2, <2>1, <2>3 DEF Demanded
  <1>7. (\A p \in Purposes : Cardinality({i \in DOMAIN r.waters : r.waters[i].purpose = p}) = 1) <=> OneWater(r)
    <2> SUFFICES ASSUME NEW p \in Purposes
                 PROVE  Cardinality({i \in DOMAIN r.waters : r.waters[i].purpose = p}) = 1 <=>
                        \E i \in DOMAIN r.waters :
                          r.waters[i].purpose = p /\ \A j \in DOMAIN r.waters : r.waters[j].purpose = p => j = i
      BY DEF OneWater
    <2> DEFINE W == {i \in DOMAIN r.waters : r.waters[i].purpose = p}
    <2>1. DOMAIN r.waters = 1..Len(r.waters) /\ 1 \in Int /\ Len(r.waters) \in Int
      BY <1>0
    <2>2. IsFiniteSet(DOMAIN r.waters)
      BY <2>1, FS_Interval
    <2>3. IsFiniteSet(W)
      BY <2>2, FS_Subset, W \subseteq DOMAIN r.waters
    <2>4. Cardinality(W) = 1 <=> \E x : W = {x}
      BY <2>3, FS_Singleton
    <2>5. (\E x : W = {x}) <=> \E i \in W : \A j \in W : j = i
      OBVIOUS
    <2>6. QED BY <2>4, <2>5
  <1>8. (\A i \in DOMAIN manifest, j \in DOMAIN r.waters :
           (manifest[i].id[1] = r.origin /\ r.waters[j].purpose = manifest[i].purpose)
           => Serial(manifest[i].id) <= Serial(<<0, r.waters[j].hi, r.waters[j].lo>>))
          <=> UnderWater(r)
    <2> HIDE DEF manifest
    <2>1. \A i \in DOMAIN rows : Serial(manifest[i].id) = RowSerial(rows[i])
      BY <1>2 DEF RowSerial
    <2>2. \A j \in DOMAIN r.waters : Serial(<<0, r.waters[j].hi, r.waters[j].lo>>) = WaterSerial(r.waters[j])
      BY DEF WaterSerial
    <2>3. DOMAIN manifest = DOMAIN r.rows
      BY <1>1
    <2>4. \A i \in DOMAIN r.rows : manifest[i].id[1] = r.rows[i].origin /\ manifest[i].purpose = r.rows[i].purpose
      BY <1>2
    <2>5. QED BY <2>1, <2>2, <2>3, <2>4 DEF UnderWater
  <1>9. validate_state_mac_key_manifest(manifest, r.origin) <=> Ascends(rows) /\ Fills(r) /\ OneActive(r)
    BY <1>4, <1>5, <1>6 DEF validate_state_mac_key_manifest
  <1>10. validate_state_mac_key_high_water(manifest, r.origin, r.waters) <=> OneWater(r) /\ UnderWater(r)
    BY <1>7, <1>8 DEF validate_state_mac_key_high_water
  <1>11. QED BY <1>3, <1>9, <1>10 DEF compose_state_mac_key_snapshot

-----------------------------------------------------------------------------
\* The writer's order: every row once, in the order of purposes and key ids.
LEMMA Sorting ==
  ASSUME NEW S, S \subseteq ManifestColumns, IsFiniteSet(S),
         \A a, b \in S : SameKey(a, b) => a = b
  PROVE  /\ SortedRows(S) \in Seq(S)
         /\ Ascends(SortedRows(S))
         /\ \A record \in S : \E i \in DOMAIN SortedRows(S) : SortedRows(S)[i] = record
  <1> DEFINE R == {x \in S \X S : Listed(x[1], x[2])}
             Rank(record) == Cardinality({a \in S : Listed(a, record)})
             n == Cardinality(S)
             sorted == SortedRows(S)
  <1>1. n \in Nat
    BY FS_CardinalityType
  <1>2. \A a, b \in S : <<a, b>> \in R <=> Listed(a, b)
    OBVIOUS
  <1>3. \A record \in S : {a \in S : <<a, record>> \in R} = {a \in S : Listed(a, record)}
    BY <1>2
  <1>4. /\ \A a \in S : <<a, a>> \notin R
        /\ \A a, b, c \in S : <<a, b>> \in R /\ <<b, c>> \in R => <<a, c>> \in R
        /\ \A a, b \in S : a = b \/ <<a, b>> \in R \/ <<b, a>> \in R
    <2> HIDE DEF R
    <2>1. ASSUME NEW a \in S PROVE <<a, a>> \notin R
      BY <1>2, RowsOrdered
    <2>2. ASSUME NEW a \in S, NEW b \in S, NEW c \in S, <<a, b>> \in R, <<b, c>> \in R
          PROVE  <<a, c>> \in R
      <3>1. a \in ManifestColumns /\ b \in ManifestColumns /\ c \in ManifestColumns
        OBVIOUS
      <3>2. Listed(a, b) /\ Listed(b, c)
        BY <1>2, <2>2
      <3>3. Listed(a, c)
        BY <3>1, <3>2, RowsOrdered
      <3>4. QED BY <1>2, <3>3
    <2>3. ASSUME NEW a \in S, NEW b \in S PROVE a = b \/ <<a, b>> \in R \/ <<b, a>> \in R
      <3>1. a \in ManifestColumns /\ b \in ManifestColumns
        OBVIOUS
      <3>2. SameKey(a, b) \/ Listed(a, b) \/ Listed(b, a)
        BY <3>1, RowsOrdered
      <3>3. QED BY <1>2, <3>2
    <2>4. QED BY <2>1, <2>2, <2>3
  <1> HIDE DEF R
  <1>5. /\ \A record \in S : Rank(record) \in 0..(n - 1)
        /\ \A k \in 0..(n - 1) : \E record \in S : Rank(record) = k
        /\ \A a, b \in S : Listed(a, b) => Rank(a) < Rank(b)
    <2>1. /\ \A record \in S : Cardinality({a \in S : <<a, record>> \in R}) \in 0..(n - 1)
          /\ \A k \in 0..(n - 1) : \E record \in S : Cardinality({a \in S : <<a, record>> \in R}) = k
          /\ \A a, b \in S : <<a, b>> \in R =>
               Cardinality({s \in S : <<s, a>> \in R}) < Cardinality({s \in S : <<s, b>> \in R})
      BY <1>4, Ranks, ZenonT(60)
    <2>2. \A record \in S : Cardinality({a \in S : <<a, record>> \in R}) = Rank(record)
      BY <1>3
    <2> HIDE DEF Rank
    <2>3. \A a, b \in S : Listed(a, b) => Rank(a) < Rank(b)
      BY <1>2, <2>1, <2>2
    <2>4. QED BY <2>1, <2>2, <2>3
  <1>6. sorted = [k \in 1..n |-> CHOOSE record \in S : Rank(record) = k - 1]
    BY DEF SortedRows
  <1> HIDE DEF Rank, sorted, n
  <1>7. ASSUME NEW k \in 1..n PROVE sorted[k] \in S /\ Rank(sorted[k]) = k - 1
    <2>1. k - 1 \in 0..(n - 1)
      BY <1>1
    <2>2. \E record \in S : Rank(record) = k - 1
      BY <1>5, <2>1
    <2>3. sorted[k] = CHOOSE record \in S : Rank(record) = k - 1
      BY <1>6
    <2>4. QED BY <2>2, <2>3, Zenon
  <1>8. sorted \in [1..n -> S]
    BY <1>6, <1>7
  <1>9. sorted \in Seq(S) /\ DOMAIN sorted = 1..n
    BY <1>1, <1>8
  <1>10. Ascends(sorted)
    <2> SUFFICES ASSUME NEW i \in 1..n, NEW j \in 1..n, i < j
                 PROVE  Listed(sorted[i], sorted[j])
      BY <1>9 DEF Ascends
    <2>1. sorted[i] \in S /\ sorted[j] \in S /\ Rank(sorted[i]) = i - 1 /\ Rank(sorted[j]) = j - 1
      BY <1>7
    <2>2. i \in Int /\ j \in Int
      BY <1>1
    <2>3. ~Listed(sorted[j], sorted[i])
      BY <1>5, <2>1, <2>2
    <2>4. sorted[i] # sorted[j]
      BY <2>1, <2>2
    <2>5. QED BY <1>2, <1>4, <2>1, <2>3, <2>4
  <1>11. ASSUME NEW record \in S PROVE \E i \in DOMAIN sorted : sorted[i] = record
    <2> DEFINE i == Rank(record) + 1
    <2>1. Rank(record) \in 0..(n - 1)
      BY <1>5
    <2>2. i \in 1..n /\ i - 1 = Rank(record)
      BY <1>1, <2>1
    <2>3. sorted[i] \in S /\ Rank(sorted[i]) = Rank(record)
      BY <1>7, <2>2
    <2>4. ~Listed(sorted[i], record) /\ ~Listed(record, sorted[i])
      BY <1>1, <1>5, <2>1, <2>3
    <2>5. sorted[i] = record
      BY <1>2, <1>4, <2>3, <2>4
    <2>6. QED BY <1>9, <2>2, <2>5
  <1>12. QED BY <1>9, <1>10, <1>11 DEF sorted

-----------------------------------------------------------------------------
\* The high water of a purpose is that of the one row that names it.
LEMMA WaterFound ==
  ASSUME NEW r \in Tables, Decodes(r), OneWater(r), NEW p \in Purposes
  PROVE  /\ WaterOf(r, p) \in DOMAIN r.waters /\ r.waters[WaterOf(r, p)].purpose = p
         /\ \A j \in DOMAIN r.waters : r.waters[j].purpose = p => j = WaterOf(r, p)
         /\ HighWater(r, p) = WaterSerial(r.waters[WaterOf(r, p)])
         /\ HighWater(r, p) \in 0..LastSerial
  <1>1. \E i \in DOMAIN r.waters : r.waters[i].purpose = p
    BY DEF OneWater
  <1>2. WaterOf(r, p) \in DOMAIN r.waters /\ r.waters[WaterOf(r, p)].purpose = p
    BY <1>1, Zenon DEF WaterOf
  <1>3. \A j \in DOMAIN r.waters : r.waters[j].purpose = p => j = WaterOf(r, p)
    BY <1>2 DEF OneWater
  <1> DEFINE water == r.waters[WaterOf(r, p)]
  <1>4. water.hi \in Limb /\ water.lo \in Limb
    BY <1>2 DEF Decodes, decodes_water
  <1>5. HighWater(r, p) = WaterSerial(water)
    BY DEF HighWater, WaterSerial
  <1>6. WaterSerial(water) = water.hi * (LimbMax + 1) + water.lo
    BY DEF WaterSerial, Serial
  <1>7. LastSerial = LimbMax * (LimbMax + 1) + LimbMax
    BY DEF LastSerial, Serial
  <1> DEFINE h == water.hi
             l == water.lo
             b == LimbMax + 1
  <1>8. h \in 0..LimbMax /\ l \in 0..LimbMax /\ LimbMax \in Nat /\ b \in Nat
    BY <1>4, KeyConstants DEF Limb
  <1> HIDE DEF h, l, b
  <1>9. h * b \in Nat /\ h * b <= LimbMax * b
    BY <1>8
  <1>10. h * b + l \in 0..(LimbMax * b + LimbMax)
    <2>1. LimbMax * b \in Nat
      BY <1>8
    <2>2. QED BY <1>8, <1>9, <2>1
  <1>11. QED BY <1>2, <1>3, <1>5, <1>6, <1>7, <1>10 DEF h, l, b

LEMMA RowSerialType ==
  ASSUME NEW record \in ManifestColumns
  PROVE  RowSerial(record) \in Int
  <1>1. record.hi \in Int /\ record.lo \in Int /\ LimbMax \in Int
    BY KeyConstants DEF ManifestColumns
  <1>2. RowSerial(record) = record.hi * (LimbMax + 1) + record.lo
    BY DEF RowSerial, Serial
  <1>3. QED BY <1>1, <1>2

\* serial_next: no listed key has the id that comes after the high water.
LEMMA NextIsFresh ==
  ASSUME NEW r \in Tables, Decodes(r), OneWater(r), UnderWater(r), NEW p \in Purposes,
         HighWater(r, p) # LastSerial, NEW i \in DOMAIN r.rows, r.rows[i].purpose = p
  PROVE  LET limbs == SplitSerial(HighWater(r, p) + 1)
         IN ~(r.rows[i].origin = r.origin /\ r.rows[i].hi = limbs[1] /\ r.rows[i].lo = limbs[2])
  <1> DEFINE n == HighWater(r, p) + 1
             limbs == SplitSerial(n)
             record == r.rows[i]
  <1>1. HighWater(r, p) \in Nat /\ n \in Nat /\ n <= LastSerial
    <2>1. HighWater(r, p) \in 0..LastSerial
      BY WaterFound
    <2>2. LastSerial \in Int
      BY KeyConstants DEF LastSerial, Serial
    <2>3. QED BY <2>1, <2>2
  <1>2. SUFFICES ASSUME record.origin = r.origin, record.hi = limbs[1], record.lo = limbs[2]
                 PROVE  FALSE
    OBVIOUS
  <1>3. RowSerial(record) = n
    <2> HIDE DEF n, record
    <2>1. Serial(<<record.origin, limbs[1], limbs[2]>>) = n
      BY <1>1, Limbs DEF n
    <2>2. QED BY <1>2, <2>1 DEF RowSerial
  <1>4. RowSerial(record) <= HighWater(r, p)
    <2>1. WaterOf(r, p) \in DOMAIN r.waters /\ r.waters[WaterOf(r, p)].purpose = p
          /\ HighWater(r, p) = WaterSerial(r.waters[WaterOf(r, p)])
      BY WaterFound
    <2>2. QED BY <1>2, <2>1 DEF UnderWater
  <1>5. QED BY <1>1, <1>3, <1>4

\* Rows that ascend are each of a key of their own.
LEMMA AscendingKeys ==
  ASSUME NEW rows \in Seq(ManifestColumns), Ascends(rows),
         NEW i \in DOMAIN rows, NEW j \in DOMAIN rows, SameKey(rows[i], rows[j])
  PROVE  i = j
  <1>1. i \in Int /\ j \in Int /\ rows[i] \in ManifestColumns /\ rows[j] \in ManifestColumns
    OBVIOUS
  <1>2. SameKey(rows[j], rows[i])
    BY DEF SameKey
  <1>3. ~(i < j) /\ ~(j < i)
    BY <1>1, <1>2, RowsOrdered DEF Ascends
  <1>4. QED BY <1>1, <1>3

-----------------------------------------------------------------------------
\* What Rotate writes.
Mine(r, p) == {i \in DOMAIN r.rows : r.rows[i].purpose = p}
Demoted(r, p, i) == IF i \in Mine(r, p) THEN [r.rows[i] EXCEPT !.status = 2] ELSE r.rows[i]
Kept(r, p) == {Demoted(r, p, i) : i \in DOMAIN r.rows}
NextLimbs(r, p) == SplitSerial(HighWater(r, p) + 1)
NewRow(r, p) == RawOf(p, <<r.origin, NextLimbs(r, p)[1], NextLimbs(r, p)[2]>>, 1)
NewWater(r, p) == [purpose |-> p, hi |-> NextLimbs(r, p)[1], lo |-> NextLimbs(r, p)[2]]
RotatedTables(r, p) ==
  [r EXCEPT !.rows = SortedRows(Kept(r, p) \cup {NewRow(r, p)}), !.waters[WaterOf(r, p)] = NewWater(r, p)]

\* A rotation the ring permits leaves tables that are taken again.
LEMMA Rotated ==
  ASSUME NEW r \in Tables, compose_state_mac_key_snapshot(r),
         NEW p \in Purposes, p # PurposeCount,
         HighWater(r, p) # LastSerial, Cardinality(Mine(r, p)) < MaxPerPurpose
  PROVE  RotatedTables(r, p) \in Tables /\ compose_state_mac_key_snapshot(RotatedTables(r, p))
  <1> DEFINE after == RotatedTables(r, p)
             S == Kept(r, p) \cup {NewRow(r, p)}
             new == NewRow(r, p)
             w == WaterOf(r, p)
             rows == r.rows
             limbs == NextLimbs(r, p)
  <1>1. Decodes(r) /\ Ascends(rows) /\ Fills(r) /\ OneActive(r) /\ OneWater(r) /\ UnderWater(r)
    BY SnapshotMeans
  <1>2. /\ rows \in Seq(ManifestColumns) /\ r.waters \in Seq(WaterColumns) /\ r.origin \in Int
        /\ r = [origin |-> r.origin, waters |-> r.waters, rows |-> rows]
    BY DEF Tables
  <1>3. /\ w \in DOMAIN r.waters /\ r.waters[w].purpose = p
        /\ \A j \in DOMAIN r.waters : r.waters[j].purpose = p => j = w
        /\ HighWater(r, p) = WaterSerial(r.waters[w])
        /\ HighWater(r, p) \in 0..LastSerial
    BY <1>1, WaterFound
  <1>4. HighWater(r, p) + 1 \in Nat /\ HighWater(r, p) + 1 <= LastSerial /\ HighWater(r, p) \in Nat
    <2>1. LastSerial \in Int
      BY KeyConstants DEF LastSerial, Serial
    <2>2. QED BY <1>3, <2>1
  <1>5. /\ limbs[1] \in Limb /\ limbs[2] \in Limb
        /\ \A o : Serial(<<o, limbs[1], limbs[2]>>) = HighWater(r, p) + 1
    BY <1>4, Limbs DEF NextLimbs
  <1>6. /\ new = [purpose |-> p, origin |-> r.origin, hi |-> limbs[1], lo |-> limbs[2], status |-> 1]
        /\ p \in Int /\ limbs[1] \in Int /\ limbs[2] \in Int
    <2>1. p \in Int /\ limbs[1] \in Int /\ limbs[2] \in Int
      BY <1>5, KeyConstants DEF Purposes, Limb
    <2>2. QED BY <2>1 DEF NewRow, RawOf
  <1>7. new \in ManifestColumns
    BY <1>2, <1>6 DEF ManifestColumns
  <1> HIDE DEF limbs, new, w
  <1>8. ASSUME NEW i \in DOMAIN rows
        PROVE  /\ Demoted(r, p, i) \in ManifestColumns /\ rows[i] \in ManifestColumns
               /\ SameKey(Demoted(r, p, i), rows[i])
               /\ rows[i].purpose = p => Demoted(r, p, i).status = 2
               /\ rows[i].purpose # p => Demoted(r, p, i) = rows[i]
    <2>1. rows[i] \in ManifestColumns
      BY <1>2
    <2>2. QED BY <2>1 DEF Demoted, Mine, ManifestColumns, SameKey
  <1>9. ASSUME NEW i \in DOMAIN rows
        PROVE  ~SameKey(rows[i], new)
    <2>1. CASE rows[i].purpose = p
      <3>1. ~(rows[i].origin = r.origin /\ rows[i].hi = limbs[1] /\ rows[i].lo = limbs[2])
        BY <1>1, <2>1, NextIsFresh DEF NextLimbs, limbs
      <3>2. QED BY <1>6, <3>1 DEF SameKey
    <2>2. QED BY <1>6, <2>1 DEF SameKey
  <1> HIDE DEF S
  <1>10. S \subseteq ManifestColumns
    BY <1>7, <1>8 DEF S, Kept, new
  <1>11. \A record \in S : record = new \/ \E i \in DOMAIN rows : record = Demoted(r, p, i)
    BY DEF S, Kept, new
  <1>12. ASSUME NEW a \in S, NEW b \in S, SameKey(a, b)
         PROVE  a = b
    <2>1. CASE a = new /\ b = new
      BY <2>1
    <2>2. ASSUME NEW i \in DOMAIN rows, a = Demoted(r, p, i), b = new PROVE FALSE
      BY <1>8, <1>9, <1>12, <2>2 DEF SameKey
    <2>3. ASSUME NEW i \in DOMAIN rows, b = Demoted(r, p, i), a = new PROVE FALSE
      BY <1>8, <1>9, <1>12, <2>3 DEF SameKey
    <2>4. ASSUME NEW i \in DOMAIN rows, NEW j \in DOMAIN rows, a = Demoted(r, p, i), b = Demoted(r, p, j)
          PROVE  a = b
      <3>1. SameKey(rows[i], rows[j])
        BY <1>8, <1>12, <2>4 DEF SameKey
      <3>2. i = j
        BY <1>1, <1>2, <3>1, AscendingKeys
      <3>3. QED BY <2>4, <3>2
    <2>5. QED BY <1>11, <2>1, <2>2, <2>3, <2>4
  <1>13. IsFiniteSet(S)
    <2>1. DOMAIN rows = 1..Len(rows) /\ 1 \in Int /\ Len(rows) \in Int
      BY <1>2
    <2>2. IsFiniteSet(DOMAIN rows)
      BY <2>1, FS_Interval
    <2> DEFINE f == [i \in DOMAIN rows |-> Demoted(r, p, i)]
    <2>3. f \in Surjection(DOMAIN rows, Kept(r, p))
      BY DEF Surjection, Kept
    <2>4. IsFiniteSet(Kept(r, p))
      BY <2>2, <2>3, FS_Surjection
    <2>5. QED BY <2>4, FS_AddElement DEF S
  <1> DEFINE sorted == SortedRows(S)
  <1>14. /\ sorted \in Seq(S) /\ Ascends(sorted)
         /\ \A record \in S : \E i \in DOMAIN sorted : sorted[i] = record
    BY <1>10, <1>12, <1>13, Sorting
  <1>15. after.rows = sorted /\ after.origin = r.origin
         /\ after.waters = [r.waters EXCEPT ![w] = NewWater(r, p)]
    BY <1>2 DEF RotatedTables, S, w
  <1>16. NewWater(r, p) = [purpose |-> p, hi |-> limbs[1], lo |-> limbs[2]]
         /\ NewWater(r, p) \in WaterColumns
    BY <1>6 DEF NewWater, limbs, WaterColumns
  <1>17. sorted \in Seq(ManifestColumns) /\ \A k \in DOMAIN sorted : sorted[k] \in S
    BY <1>10, <1>14
  <1>18. after \in Tables
    <2>1. after.waters \in Seq(WaterColumns)
      BY <1>2, <1>3, <1>15, <1>16
    <2>2. after = [r EXCEPT !.rows = sorted, !.waters = after.waters]
      BY <1>15 DEF RotatedTables, S, Tables
    <2>3. QED BY <1>17, <2>1, <2>2 DEF Tables
  <1>19. /\ DOMAIN after.waters = DOMAIN r.waters
         /\ after.waters[w] = NewWater(r, p)
         /\ \A j \in DOMAIN r.waters : j # w => after.waters[j] = r.waters[j]
         /\ \A j \in DOMAIN r.waters : after.waters[j].purpose = r.waters[j].purpose
    BY <1>2, <1>3, <1>15, <1>16
  <1> HIDE DEF sorted, after
  <1>20. Decodes(after)
    <2>1. \A j \in DOMAIN after.waters : decodes_water(after.waters[j])
      BY <1>1, <1>5, <1>16, <1>19 DEF Decodes, decodes_water
    <2>2. ASSUME NEW i \in DOMAIN rows PROVE decodes_row(Demoted(r, p, i))
      <3>1. decodes_row(rows[i])
        BY <1>1 DEF Decodes
      <3>2. QED BY <1>8, <3>1 DEF decodes_row, SameKey
    <2>3. decodes_row(new)
      <3>1. ~(limbs[1] = 0 /\ limbs[2] = 0)
        <4>1. Serial(<<0, 0, 0>>) = 0
          BY KeyConstants DEF Serial
        <4>2. QED BY <1>4, <1>5, <4>1
      <3>2. r.origin >= 0
        BY <1>1 DEF Decodes
      <3>3. QED BY <1>5, <1>6, <3>1, <3>2 DEF decodes_row, is_origin
    <2>4. \A k \in DOMAIN sorted : decodes_row(sorted[k])
      BY <1>11, <1>17, <2>2, <2>3
    <2>5. QED BY <1>1, <1>15, <2>1, <2>4 DEF Decodes
  <1>21. Fills(after)
    <2> SUFFICES ASSUME NEW q \in Purposes
                 PROVE  Cardinality({k \in DOMAIN sorted : sorted[k].purpose = q}) <= MaxPerPurpose
      BY <1>15 DEF Fills
    <2> DEFINE current == {k \in DOMAIN sorted : sorted[k].purpose = q}
               was == Mine(r, q) \cup (IF q = p THEN {0} ELSE {})
               From(k) == IF sorted[k] = new THEN 0
                          ELSE CHOOSE i \in DOMAIN rows : sorted[k] = Demoted(r, p, i)
               f == [k \in current |-> From(k)]
    <2>1. ASSUME NEW k \in current
          PROVE  /\ From(k) \in was
                 /\ sorted[k] = IF From(k) = 0 THEN new ELSE Demoted(r, p, From(k))
      <3>1. CASE sorted[k] = new
        BY <1>6, <3>1
      <3>2. CASE sorted[k] # new
        <4>1. \E i \in DOMAIN rows : sorted[k] = Demoted(r, p, i)
          BY <1>11, <1>17, <3>2
        <4>2. From(k) \in DOMAIN rows /\ sorted[k] = Demoted(r, p, From(k))
          BY <3>2, <4>1, Zenon
        <4> HIDE DEF From
        <4>3. rows[From(k)].purpose = q
          BY <1>8, <4>2 DEF SameKey
        <4>4. From(k) # 0
          BY <1>2, <4>2
        <4>5. QED BY <4>2, <4>3, <4>4 DEF Mine
      <3>3. QED BY <3>1, <3>2
    <2> HIDE DEF From
    <2>2. f \in [current -> was]
      BY <2>1
    <2>3. ASSUME NEW k \in current, NEW m \in current, f[k] = f[m]
          PROVE  k = m
      <3>1. sorted[k] = sorted[m]
        BY <2>1, <2>3
      <3>2. SameKey(sorted[k], sorted[m])
        BY <3>1 DEF SameKey
      <3>3. QED BY <1>14, <1>17, <3>2, AscendingKeys
    <2>4. f \in Injection(current, was)
      BY <2>2, <2>3 DEF Injection, IsInjective
    <2>5. IsFiniteSet(Mine(r, q)) /\ Cardinality(Mine(r, q)) <= MaxPerPurpose
      <3>1. DOMAIN rows = 1..Len(rows) /\ 1 \in Int /\ Len(rows) \in Int
        BY <1>2
      <3>2. IsFiniteSet(DOMAIN rows)
        BY <3>1, FS_Interval
      <3>3. Mine(r, q) \subseteq DOMAIN rows
        BY DEF Mine
      <3>4. QED BY <1>1, <3>2, <3>3, FS_Subset DEF Fills, Mine
    <2>6. IsFiniteSet(was) /\ Cardinality(was) <= MaxPerPurpose
      <3>1. CASE q = p
        <4>1. was = Mine(r, q) \cup {0}
          BY <3>1
        <4>2. 0 \notin Mine(r, q)
          BY <1>2 DEF Mine
        <4>3. IsFiniteSet(was) /\ Cardinality(was) = Cardinality(Mine(r, q)) + 1
          BY <2>5, <4>1, <4>2, FS_AddElement
        <4>4. Cardinality(Mine(r, q)) \in Nat /\ MaxPerPurpose \in Nat
          BY <2>5, FS_CardinalityType, KeyConstants
        <4>5. QED BY <3>1, <4>3, <4>4
      <3>2. CASE q # p
        BY <2>5, <3>2
      <3>3. QED BY <3>1, <3>2
    <2>7. Cardinality(current) <= Cardinality(was) /\ IsFiniteSet(current)
      BY <2>4, <2>6, FS_Injection
    <2>8. Cardinality(current) \in Nat /\ Cardinality(was) \in Nat /\ MaxPerPurpose \in Nat
      BY <2>6, <2>7, FS_CardinalityType, KeyConstants
    <2>9. QED BY <2>6, <2>7, <2>8
  <1>22. OneActive(after)
    <2> SUFFICES ASSUME NEW q \in Purposes
                 PROVE  \E k \in DOMAIN sorted :
                          /\ sorted[k].purpose = q /\ sorted[k].status = 1
                          /\ sorted[k].origin = Demanded(r, q)
                          /\ \A m \in DOMAIN sorted : sorted[m].purpose = q /\ sorted[m].status = 1 => m = k
      BY <1>15 DEF OneActive, ActiveAt, Demanded
    <2>1. PICK record \in S :
            /\ record.purpose = q /\ record.status = 1 /\ record.origin = Demanded(r, q)
            /\ \A other \in S : other.purpose = q /\ other.status = 1 => other = record
      <3>1. CASE q = p
        <4>1. new \in S /\ new.purpose = q /\ new.status = 1 /\ new.origin = Demanded(r, q)
          BY <1>6, <3>1 DEF S, new, Demanded
        <4>2. ASSUME NEW other \in S, other.purpose = q, other.status = 1 PROVE other = new
          BY <1>8, <1>11, <3>1, <4>2 DEF SameKey
        <4>3. QED BY <4>1, <4>2
      <3>2. CASE q # p
        <4>1. PICK i \in DOMAIN rows :
                /\ ActiveAt(r, q, i) /\ rows[i].origin = Demanded(r, q)
                /\ \A j \in DOMAIN rows : ActiveAt(r, q, j) => j = i
          BY <1>1 DEF OneActive
        <4>2. Demoted(r, p, i) = rows[i] /\ rows[i] \in S
          BY <1>8, <3>2, <4>1 DEF ActiveAt, S, Kept
        <4>3. ASSUME NEW other \in S, other.purpose = q, other.status = 1 PROVE other = rows[i]
          <5>1. PICK j \in DOMAIN rows : other = Demoted(r, p, j)
            BY <1>6, <1>11, <3>2, <4>3
          <5>2. rows[j].purpose = q /\ other = rows[j]
            BY <1>8, <3>2, <4>3, <5>1 DEF SameKey
          <5>3. QED BY <4>1, <4>3, <5>2 DEF ActiveAt
        <4>4. QED BY <4>1, <4>2, <4>3 DEF ActiveAt
      <3>3. QED BY <3>1, <3>2
    <2>2. PICK k \in DOMAIN sorted : sorted[k] = record
      BY <1>14
    <2>3. ASSUME NEW m \in DOMAIN sorted, sorted[m].purpose = q, sorted[m].status = 1
          PROVE  m = k
      <3>1. sorted[m] = sorted[k]
        BY <1>17, <2>1, <2>2, <2>3
      <3>2. SameKey(sorted[m], sorted[k])
        BY <3>1 DEF SameKey
      <3>3. QED BY <1>14, <1>17, <3>2, AscendingKeys
    <2>4. QED BY <2>1, <2>2, <2>3
  <1>23. OneWater(after)
    BY <1>1, <1>19 DEF OneWater
  <1>24. UnderWater(after)
    <2> SUFFICES ASSUME NEW record \in S, NEW j \in DOMAIN r.waters,
                        record.origin = r.origin, r.waters[j].purpose = record.purpose
                 PROVE  RowSerial(record) <= WaterSerial(after.waters[j])
      BY <1>15, <1>17, <1>19 DEF UnderWater
    <2>1. WaterSerial(after.waters[w]) = HighWater(r, p) + 1
      BY <1>5, <1>16, <1>19 DEF WaterSerial
    <2>2. CASE record = new
      <3>1. j = w
        BY <1>3, <1>6, <2>2
      <3>2. RowSerial(record) = HighWater(r, p) + 1
        BY <1>5, <1>6, <2>2 DEF RowSerial
      <3>3. QED BY <1>4, <2>1, <3>1, <3>2
    <2>3. ASSUME NEW i \in DOMAIN rows, record = Demoted(r, p, i)
          PROVE  RowSerial(record) <= WaterSerial(after.waters[j])
      <3>1. SameKey(record, rows[i]) /\ rows[i] \in ManifestColumns
        BY <1>8, <2>3
      <3>2. RowSerial(record) = RowSerial(rows[i]) /\ RowSerial(rows[i]) \in Int
        BY <3>1, RowSerialType DEF RowSerial, SameKey
      <3>3. RowSerial(rows[i]) <= WaterSerial(r.waters[j])
        BY <1>1, <3>1 DEF UnderWater, SameKey
      <3>4. CASE j = w
        BY <1>3, <1>4, <2>1, <3>2, <3>3, <3>4
      <3>5. CASE j # w
        BY <1>19, <3>2, <3>3, <3>5
      <3>6. QED BY <3>4, <3>5
    <2>4. QED BY <1>11, <2>2, <2>3
  <1>25. Ascends(after.rows)
    BY <1>14, <1>15
  <1>26. compose_state_mac_key_snapshot(after)
    BY <1>18, <1>20, <1>21, <1>22, <1>23, <1>24, <1>25, SnapshotMeans
  <1>27. QED BY <1>18, <1>26 DEF after

\* A row less, the later ones move up.
LEMMA Removed ==
  ASSUME NEW rows \in Seq(ManifestColumns), NEW i \in DOMAIN rows
  PROVE  /\ RemoveAt(rows, i) \in Seq(ManifestColumns)
         /\ Len(RemoveAt(rows, i)) = Len(rows) - 1
         /\ \A k \in 1..(Len(rows) - 1) : RemoveAt(rows, i)[k] = rows[IF k < i THEN k ELSE k + 1]
  <1> DEFINE head == SubSeq(rows, 1, i - 1)
             rest == SubSeq(rows, i + 1, Len(rows))
  <1>1. head \in Seq(ManifestColumns) /\ Len(head) = i - 1 /\ \A k \in 1..(i - 1) : head[k] = rows[k]
    OBVIOUS
  <1>2. rest \in Seq(ManifestColumns) /\ Len(rest) = Len(rows) - i
        /\ \A k \in 1..(Len(rows) - i) : rest[k] = rows[i + k]
    OBVIOUS
  <1>3. RemoveAt(rows, i) = head \o rest
    BY DEF RemoveAt
  <1> HIDE DEF head, rest
  <1>4. Len(head \o rest) = Len(rows) - 1 /\ head \o rest \in Seq(ManifestColumns)
    BY <1>1, <1>2
  <1>5. ASSUME NEW k \in 1..(Len(rows) - 1)
        PROVE  (head \o rest)[k] = rows[IF k < i THEN k ELSE k + 1]
    <2>1. CASE k < i
      BY <1>1, <1>2, <2>1
    <2>2. CASE ~(k < i)
      <3>1. k - (i - 1) \in 1..(Len(rows) - i) /\ i + (k - (i - 1)) = k + 1
        BY <2>2
      <3>2. (head \o rest)[k] = rest[k - (i - 1)]
        BY <1>1, <1>2, <2>2
      <3>3. QED BY <1>2, <2>2, <3>1, <3>2
    <2>3. QED BY <2>1, <2>2
  <1>6. QED BY <1>3, <1>4, <1>5

\* A retained key that is retired leaves tables that are taken again.
LEMMA Retired ==
  ASSUME NEW r \in Tables, compose_state_mac_key_snapshot(r),
         NEW i \in DOMAIN r.rows, r.rows[i].status = 2
  PROVE  LET after == [r EXCEPT !.rows = RemoveAt(@, i)]
         IN after \in Tables /\ compose_state_mac_key_snapshot(after)
  <1> DEFINE after == [r EXCEPT !.rows = RemoveAt(@, i)]
             rows == r.rows
             less == after.rows
             Up(k) == IF k < i THEN k ELSE k + 1
  <1>1. Decodes(r) /\ Ascends(rows) /\ Fills(r) /\ OneActive(r) /\ OneWater(r) /\ UnderWater(r)
    BY SnapshotMeans
  <1>2. /\ rows \in Seq(ManifestColumns) /\ DOMAIN rows = 1..Len(rows) /\ Len(rows) \in Nat
        /\ after \in [origin : {r.origin}, waters : {r.waters}, rows : {RemoveAt(rows, i)}]
    BY DEF Tables
  <1>3. after.origin = r.origin /\ after.waters = r.waters /\ less = RemoveAt(rows, i)
    BY <1>2
  <1>4. /\ less \in Seq(ManifestColumns) /\ DOMAIN less = 1..(Len(rows) - 1)
        /\ \A k \in DOMAIN less : less[k] = rows[Up(k)] /\ Up(k) \in DOMAIN rows /\ Up(k) # i
    <2>1. /\ less \in Seq(ManifestColumns) /\ Len(less) = Len(rows) - 1
          /\ \A k \in 1..(Len(rows) - 1) : less[k] = rows[Up(k)]
      BY <1>2, <1>3, Removed
    <2>2. DOMAIN less = 1..(Len(rows) - 1)
      BY <2>1
    <2>3. \A k \in 1..(Len(rows) - 1) : Up(k) \in 1..Len(rows) /\ Up(k) # i
      BY <1>2
    <2> HIDE DEF Up, after
    <2>4. QED BY <1>2, <2>1, <2>2, <2>3
  <1>5. after \in Tables
    BY <1>4 DEF Tables
  <1> HIDE DEF after
  <1>6. \A k, m \in DOMAIN less : (k < m => Up(k) < Up(m)) /\ (Up(k) = Up(m) => k = m)
    BY <1>2, <1>4
  <1>7. ASSUME NEW j \in DOMAIN rows, j # i PROVE \E k \in DOMAIN less : Up(k) = j
    <2>1. CASE j < i
      <3>1. j \in DOMAIN less /\ Up(j) = j
        BY <1>2, <1>4, <2>1
      <3>2. QED BY <3>1
    <2>2. CASE ~(j < i)
      <3>1. j - 1 \in DOMAIN less /\ Up(j - 1) = j
        BY <1>2, <1>4, <1>7, <2>2
      <3>2. QED BY <3>1
    <2>3. QED BY <2>1, <2>2
  <1> HIDE DEF Up
  <1>8. Decodes(after)
    BY <1>1, <1>3, <1>4 DEF Decodes
  <1>9. Ascends(less)
    BY <1>1, <1>4, <1>6 DEF Ascends
  <1>10. Fills(after)
    <2> SUFFICES ASSUME NEW q \in Purposes
                 PROVE  Cardinality({k \in DOMAIN less : less[k].purpose = q}) <= MaxPerPurpose
      BY DEF Fills
    <2> DEFINE left == {k \in DOMAIN less : less[k].purpose = q}
               was == {j \in DOMAIN rows : rows[j].purpose = q}
               f == [k \in left |-> Up(k)]
    <2>1. f \in [left -> was]
      BY <1>4
    <2>2. f \in Injection(left, was)
      BY <1>6, <2>1 DEF Injection, IsInjective
    <2>3. IsFiniteSet(was)
      <3>1. 1 \in Int /\ Len(rows) \in Int
        BY <1>2
      <3>2. IsFiniteSet(DOMAIN rows)
        BY <1>2, <3>1, FS_Interval
      <3>3. QED BY <3>2, FS_Subset, was \subseteq DOMAIN rows
    <2>4. Cardinality(left) <= Cardinality(was) /\ IsFiniteSet(left)
      BY <2>2, <2>3, FS_Injection
    <2>5. Cardinality(was) <= MaxPerPurpose
      BY <1>1 DEF Fills
    <2>6. Cardinality(left) \in Nat /\ Cardinality(was) \in Nat /\ MaxPerPurpose \in Nat
      BY <2>3, <2>4, FS_CardinalityType, KeyConstants
    <2>7. QED BY <2>4, <2>5, <2>6
  <1>11. OneActive(after)
    <2> SUFFICES ASSUME NEW q \in Purposes
                 PROVE  \E k \in DOMAIN less :
                          /\ ActiveAt(after, q, k) /\ less[k].origin = Demanded(r, q)
                          /\ \A m \in DOMAIN less : ActiveAt(after, q, m) => m = k
      BY <1>3 DEF OneActive, Demanded
    <2>1. PICK j \in DOMAIN rows :
            /\ ActiveAt(r, q, j) /\ rows[j].origin = Demanded(r, q)
            /\ \A n \in DOMAIN rows : ActiveAt(r, q, n) => n = j
      BY <1>1 DEF OneActive
    <2>2. j # i
      BY <2>1 DEF ActiveAt
    <2>3. PICK k \in DOMAIN less : Up(k) = j
      BY <1>7, <2>2
    <2>4. ASSUME NEW m \in DOMAIN less, ActiveAt(after, q, m) PROVE m = k
      BY <1>4, <1>6, <2>1, <2>3, <2>4 DEF ActiveAt
    <2>5. QED BY <1>4, <2>1, <2>3, <2>4 DEF ActiveAt
  <1>12. OneWater(after) /\ UnderWater(after)
    BY <1>1, <1>3, <1>4 DEF OneWater, UnderWater
  <1>13. compose_state_mac_key_snapshot(after)
    BY <1>5, <1>8, <1>9, <1>10, <1>11, <1>12, SnapshotMeans
  <1>14. QED BY <1>5, <1>13 DEF after

-----------------------------------------------------------------------------
\* The leaves of a purpose.
LEMMA LeafIs ==
  ASSUME NEW r \in Tables, NEW p, NEW id
  PROVE  id \in Leaves(r, p) <=>
           \E i \in DOMAIN r.rows :
             r.rows[i].purpose = p /\ id = <<r.rows[i].origin, r.rows[i].hi, r.rows[i].lo>>
  <1>1. r.rows \in Seq(ManifestColumns) /\ DOMAIN ManifestRows(r) = DOMAIN r.rows
    BY DEF Tables, ManifestRows
  <1>2. \A i \in DOMAIN r.rows : ManifestRows(r)[i].id = <<r.rows[i].origin, r.rows[i].hi, r.rows[i].lo>>
    BY DEF ManifestRows, decode_state_mac_key_manifest_row
  <1>3. QED BY <1>1, <1>2 DEF Leaves

LEMMA LeavesFinite ==
  ASSUME NEW r \in Tables, NEW p
  PROVE  IsFiniteSet(Leaves(r, p)) /\ Leaves(r, p) \subseteq KeyIds
  <1>1. r.rows \in Seq(ManifestColumns) /\ DOMAIN r.rows = 1..Len(r.rows) /\ 1 \in Int /\ Len(r.rows) \in Int
    BY DEF Tables
  <1>2. IsFiniteSet(DOMAIN r.rows)
    BY <1>1, FS_Interval
  <1> DEFINE f == [i \in Mine(r, p) |-> <<r.rows[i].origin, r.rows[i].hi, r.rows[i].lo>>]
  <1>3. IsFiniteSet(Mine(r, p))
    BY <1>2, FS_Subset, Mine(r, p) \subseteq DOMAIN r.rows DEF Mine
  <1>4. f \in Surjection(Mine(r, p), Leaves(r, p))
    <2>1. f \in [Mine(r, p) -> Leaves(r, p)]
      BY LeafIs DEF Mine
    <2>2. \A id \in Leaves(r, p) : \E i \in Mine(r, p) : f[i] = id
      BY LeafIs DEF Mine
    <2>3. QED BY <2>1, <2>2 DEF Surjection
  <1>5. ASSUME NEW id \in Leaves(r, p) PROVE id \in KeyIds
    <2>1. PICK i \in DOMAIN r.rows : id = <<r.rows[i].origin, r.rows[i].hi, r.rows[i].lo>>
      BY LeafIs
    <2>2. r.rows[i] \in ManifestColumns
      BY <1>1
    <2>3. QED BY <2>1, <2>2 DEF KeyIds, ManifestColumns
  <1>6. QED BY <1>3, <1>4, <1>5, FS_Surjection

\* verify_state_mac_key_directory takes the leaves in the order of their ids: of
\* those left there is a first.
First(left) == CHOOSE i \in left : \A j \in left : i = j \/ IdBefore(i, j)

LEMMA FirstLeft ==
  ASSUME NEW r \in Tables, NEW p, NEW left, left \subseteq Leaves(r, p), left # {}
  PROVE  First(left) \in left
  <1> DEFINE R == {x \in left \X left : IdBefore(x[1], x[2])}
  <1>1. IsFiniteSet(left) /\ left \subseteq KeyIds
    BY LeavesFinite, FS_Subset
  <1>2. \A a, b \in left : <<a, b>> \in R <=> IdBefore(a, b)
    OBVIOUS
  <1> HIDE DEF R
  <1>3. ASSUME NEW a \in KeyIds, NEW b \in KeyIds, NEW c \in KeyIds
        PROVE  /\ ~IdBefore(a, a)
               /\ IdBefore(a, b) /\ IdBefore(b, c) => IdBefore(a, c)
               /\ a = b \/ IdBefore(a, b) \/ IdBefore(b, a)
    BY DEF KeyIds, IdBefore
  <1>4. /\ \A a \in left : <<a, a>> \notin R
        /\ \A a, b, c \in left : <<a, b>> \in R /\ <<b, c>> \in R => <<a, c>> \in R
        /\ \A a, b \in left : a = b \/ <<a, b>> \in R \/ <<b, a>> \in R
    BY <1>1, <1>2, <1>3
  <1>5. \A k \in 0..(Cardinality(left) - 1) :
          \E i \in left : Cardinality({j \in left : <<j, i>> \in R}) = k
    <2>1. /\ \A i \in left : Cardinality({j \in left : <<j, i>> \in R}) \in 0..(Cardinality(left) - 1)
          /\ \A k \in 0..(Cardinality(left) - 1) :
               \E i \in left : Cardinality({j \in left : <<j, i>> \in R}) = k
          /\ \A a, b \in left : <<a, b>> \in R =>
               Cardinality({j \in left : <<j, a>> \in R}) < Cardinality({j \in left : <<j, b>> \in R})
      <3>1. IsFiniteSet(left)
        BY <1>1
      <3>2. QED BY <1>4, <3>1, Ranks, ZenonT(60)
    <2>2. QED BY <2>1
  <1>6. 0 \in 0..(Cardinality(left) - 1)
    <2>1. Cardinality(left) \in Nat /\ Cardinality(left) # 0
      BY <1>1, FS_CardinalityType, FS_EmptySet
    <2>2. QED BY <2>1
  <1>7. PICK i \in left : Cardinality({j \in left : <<j, i>> \in R}) = 0
    BY <1>5, <1>6
  <1>8. {j \in left : <<j, i>> \in R} = {}
    <2>1. IsFiniteSet({j \in left : <<j, i>> \in R})
      BY <1>1, FS_Subset, {j \in left : <<j, i>> \in R} \subseteq left
    <2>2. QED BY <1>7, <2>1, FS_EmptySet
  <1>9. \A j \in left : i = j \/ IdBefore(i, j)
    BY <1>2, <1>4, <1>8
  <1>10. QED BY <1>9, Zenon DEF First

-----------------------------------------------------------------------------
LEMMA MacKeysInitial == MacKeysInit => MacKeysInv
  <1> SUFFICES ASSUME MacKeysInit PROVE MacKeysInv
    OBVIOUS
  <1>1. raw \in Tables
    <2>1. PICK o \in RawOrigins : raw = [origin |-> o, waters |-> <<>>, rows |-> <<>>]
      BY DEF MacKeysInit
    <2>2. o \in Int
      BY KeyConstants
    <2>3. QED BY <2>1, <2>2 DEF Tables
  <1>2. read \in Seq([purpose : Purposes, id : KeyIds, inode : DOMAIN Files])
    BY DEF MacKeysInit
  <1>3. tree = [p \in DOMAIN tree |-> [id \in DOMAIN tree[p] |-> tree[p][id]]]
        /\ DOMAIN tree = {}
    BY DEF MacKeysInit
  <1>4. MacKeysTypeOK
    BY <1>1, <1>2, <1>3 DEF MacKeysInit, MacKeysTypeOK, Tables
  <1>5. QED BY <1>4 DEF MacKeysInit, MacKeysInv, Taken, Visiting

LEMMA MacKeysStep == MacKeysInv /\ [MacKeysNext]_macKeysVars => MacKeysInv'
  <1> SUFFICES ASSUME MacKeysInv, [MacKeysNext]_macKeysVars PROVE MacKeysInv'
    OBVIOUS
  <1> USE DEF Taken, Visiting
  <1>1. raw \in Tables
    BY DEF MacKeysInv, MacKeysTypeOK, Tables
  <1>2. CASE AddRow
    <2>1. PICK record \in RawRows : raw' = [raw EXCEPT !.rows = Append(@, record)]
      BY <1>2 DEF AddRow
    <2>2. record \in ManifestColumns
      BY KeyConstants
    <2>3. raw' \in Tables
      <3>1. Append(raw.rows, record) \in Seq(ManifestColumns)
        BY <1>1, <2>2 DEF Tables
      <3>2. raw' = [raw EXCEPT !.rows = Append(raw.rows, record)]
        BY <2>1
      <3>3. QED BY <1>1, <3>1, <3>2 DEF Tables
    <2>4. QED BY <1>2, <2>3 DEF AddRow, MacKeysInv, MacKeysTypeOK, Tables
  <1>3. CASE AddWater
    <2>1. PICK record \in RawWaters : raw' = [raw EXCEPT !.waters = Append(@, record)]
      BY <1>3 DEF AddWater
    <2>2. record \in WaterColumns
      BY KeyConstants
    <2>3. raw' \in Tables
      <3>1. Append(raw.waters, record) \in Seq(WaterColumns)
        BY <1>1, <2>2 DEF Tables
      <3>2. raw' = [raw EXCEPT !.waters = Append(raw.waters, record)]
        BY <2>1
      <3>3. QED BY <1>1, <3>1, <3>2 DEF Tables
    <2>4. QED BY <1>3, <2>3 DEF AddWater, MacKeysInv, MacKeysTypeOK, Tables
  <1>4. CASE Load
    BY <1>4 DEF Load, MacKeysInv, MacKeysTypeOK
  <1>5. CASE Rotate
    <2>1. PICK p \in Purposes \ {PurposeCount} :
            /\ rotation_permitted(TRUE, serial_next(HighWater(raw, p)) # <<>>,
                                  Cardinality(Mine(raw, p)) < MaxPerPurpose, TRUE)
            /\ LET limbs == SplitSerial(serial_next(HighWater(raw, p))[1])
                   kept == {IF i \in Mine(raw, p) THEN [raw.rows[i] EXCEPT !.status = 2] ELSE raw.rows[i]
                              : i \in DOMAIN raw.rows}
               IN raw' = [raw EXCEPT
                    !.rows = SortedRows(kept \cup {RawOf(p, <<raw.origin, limbs[1], limbs[2]>>, 1)}),
                    !.waters[WaterOf(raw, p)] = [purpose |-> p, hi |-> limbs[1], lo |-> limbs[2]]]
      BY <1>5, Zenon DEF Rotate, Mine
    <2>2. HighWater(raw, p) # LastSerial /\ Cardinality(Mine(raw, p)) < MaxPerPurpose
      BY <2>1 DEF rotation_permitted, serial_next
    <2>3. serial_next(HighWater(raw, p))[1] = HighWater(raw, p) + 1
      BY <2>2 DEF serial_next
    <2>4. raw' = RotatedTables(raw, p)
      BY <2>1, <2>3, Zenon DEF RotatedTables, NewRow, NewWater, NextLimbs, Kept, Demoted
    <2>5. compose_state_mac_key_snapshot(raw)
      BY <1>5 DEF Rotate, MacKeysInv
    <2>6. raw' \in Tables /\ compose_state_mac_key_snapshot(raw')
      BY <1>1, <2>2, <2>4, <2>5, Rotated
    <2>7. QED BY <1>5, <2>6 DEF Rotate, MacKeysInv, MacKeysTypeOK, Tables
  <1>6. CASE Retire
    <2>1. PICK i \in DOMAIN raw.rows : raw.rows[i].status = 2 /\ raw' = [raw EXCEPT !.rows = RemoveAt(@, i)]
      BY <1>6 DEF Retire
    <2>2. compose_state_mac_key_snapshot(raw)
      BY <1>6 DEF Retire, MacKeysInv
    <2>3. raw' \in Tables /\ compose_state_mac_key_snapshot(raw')
      BY <1>1, <2>1, <2>2, Retired
    <2>4. QED BY <1>6, <2>3 DEF Retire, MacKeysInv, MacKeysTypeOK, Tables
  <1>7. CASE Begin
    <2>1. \A p \in Purposes : \A id \in Expected(p) : InodeOf(p, id) \in DOMAIN Files
      <3> SUFFICES ASSUME NEW p \in Purposes, NEW id \in Expected(p)
                   PROVE  InodeOf(p, id) \in DOMAIN Files
        OBVIOUS
      <3>1. \E f \in DOMAIN Files : Files[f] = [good |-> TRUE, of |-> <<p, id>>]
        BY <1>7 DEF Begin
      <3>2. QED BY <3>1, Zenon DEF InodeOf
    <2>2. /\ tree' = [p \in DOMAIN tree' |-> [id \in DOMAIN tree'[p] |-> tree'[p][id]]]
          /\ \A p \in DOMAIN tree' : \A id \in DOMAIN tree'[p] : tree'[p][id] \in DOMAIN Files
      <3>1. tree' = [p \in Purposes |-> [id \in Expected(p) |-> InodeOf(p, id)]]
        BY <1>7 DEF Begin
      <3>2. QED BY <2>1, <3>1
    <2>3. MacKeysTypeOK'
      BY <1>7, <2>2 DEF Begin, MacKeysInv, MacKeysTypeOK
    <2>4. QED BY <1>7, <2>3 DEF Begin, MacKeysInv
  <1>8. CASE Swap
    <2>1. /\ tree' = [p \in DOMAIN tree' |-> [id \in DOMAIN tree'[p] |-> tree'[p][id]]]
          /\ \A p \in DOMAIN tree' : \A id \in DOMAIN tree'[p] : tree'[p][id] \in DOMAIN Files
      <3>0. /\ tree = [p \in DOMAIN tree |-> [id \in DOMAIN tree[p] |-> tree[p][id]]]
            /\ \A p \in DOMAIN tree : \A id \in DOMAIN tree[p] : tree[p][id] \in DOMAIN Files
        BY DEF MacKeysInv, MacKeysTypeOK
      <3>1. PICK p \in DOMAIN tree :
              \/ \E f \in DOMAIN Files, id \in DOMAIN tree[p] \cup {Files[g].of[2] : g \in DOMAIN Files} :
                   tree' = [tree EXCEPT ![p] = [i \in DOMAIN @ \cup {id} |-> IF i = id THEN f ELSE @[i]]]
              \/ \E id \in DOMAIN tree[p] : tree' = [tree EXCEPT ![p] = [i \in DOMAIN @ \ {id} |-> @[i]]]
              \/ tree' = [q \in DOMAIN tree \ {p} |-> tree[q]]
        BY <1>8 DEF Swap
      <3>2. ASSUME NEW f \in DOMAIN Files, NEW id,
                   tree' = [tree EXCEPT ![p] = [i \in DOMAIN @ \cup {id} |-> IF i = id THEN f ELSE @[i]]]
            PROVE  <2>1
        <4> DEFINE leaves == [i \in DOMAIN tree[p] \cup {id} |-> IF i = id THEN f ELSE tree[p][i]]
        <4>1. tree' = [q \in DOMAIN tree |-> IF q = p THEN leaves ELSE tree[q]]
          BY <3>0, <3>2
        <4>2. leaves = [i \in DOMAIN leaves |-> leaves[i]] /\ \A i \in DOMAIN leaves : leaves[i] \in DOMAIN Files
          BY <3>0
        <4> HIDE DEF leaves
        <4>3. QED BY <3>0, <4>1, <4>2
      <3>3. ASSUME NEW id \in DOMAIN tree[p], tree' = [tree EXCEPT ![p] = [i \in DOMAIN @ \ {id} |-> @[i]]]
            PROVE  <2>1
        <4> DEFINE leaves == [i \in DOMAIN tree[p] \ {id} |-> tree[p][i]]
        <4>1. tree' = [q \in DOMAIN tree |-> IF q = p THEN leaves ELSE tree[q]]
          BY <3>0, <3>3
        <4>2. leaves = [i \in DOMAIN leaves |-> leaves[i]] /\ \A i \in DOMAIN leaves : leaves[i] \in DOMAIN Files
          BY <3>0
        <4> HIDE DEF leaves
        <4>3. QED BY <3>0, <4>1, <4>2
      <3>4. CASE tree' = [q \in DOMAIN tree \ {p} |-> tree[q]]
        BY <3>0, <3>4
      <3>5. QED BY <3>1, <3>2, <3>3, <3>4
    <2>2. MacKeysTypeOK'
      BY <1>8, <2>1 DEF Swap, MacKeysInv, MacKeysTypeOK
    <2>3. (Visiting => CursorInv /\ ReadInv)'
      BY <1>8 DEF Swap, MacKeysInv, CursorInv, ReadInv, ReadKeys, Expected
    <2>4. QED BY <1>8, <2>2, <2>3 DEF Swap, MacKeysInv
  <1>9. CASE VerifyNamespace
    <2>1. MacKeysTypeOK'
      BY <1>9 DEF VerifyNamespace, Refuse, MacKeysInv, MacKeysTypeOK
    <2>2. CASE phase' = "invalid"
      BY <1>9, <2>1, <2>2 DEF VerifyNamespace, Refuse, MacKeysInv
    <2>3. CASE DOMAIN tree = Purposes
      <3>1. /\ phase' = "verifying" /\ cursor' = [purpose |-> 0, left |-> {}, before |-> NoFile]
            /\ UNCHANGED <<raw, rotations, tree, read, swaps, quiet>> /\ read = <<>>
        BY <1>9, <2>3 DEF VerifyNamespace, Place, MacKeysInv
      <3>2. CursorInv'
        BY <3>1, KeyConstants DEF CursorInv
      <3>3. ReadKeys' = {} /\ DOMAIN read' = {}
        BY <3>1 DEF ReadKeys
      <3>4. \A p \in Purposes : p \in Int /\ p >= 1
        BY KeyConstants DEF Purposes
      <3>5. ReadInv'
        BY <3>1, <3>3, <3>4 DEF ReadInv
      <3>6. QED BY <1>9, <2>1, <2>3, <3>1, <3>2, <3>5 DEF MacKeysInv, VerifyNamespace
    <2>4. QED BY <1>9, <2>2, <2>3 DEF VerifyNamespace, Refuse
  <1>10. CASE verify_purpose_entries
    <2>1. MacKeysTypeOK'
      BY <1>10 DEF verify_purpose_entries, Refuse, MacKeysInv, MacKeysTypeOK
    <2>2. CASE phase' = "invalid"
      BY <1>10, <2>1, <2>2 DEF verify_purpose_entries, Refuse, MacKeysInv
    <2>3. CASE phase' # "invalid"
      <3> DEFINE p == cursor.purpose + 1
      <3>1. /\ phase = "verifying" /\ cursor.left = {} /\ cursor.purpose < PurposeCount
            /\ p \in DOMAIN tree /\ DOMAIN tree[p] = Expected(p)
            /\ cursor' = [purpose |-> p, left |-> Expected(p), before |-> NoFile]
            /\ UNCHANGED <<raw, phase, rotations, tree, read, swaps, quiet>>
        BY <1>10, <2>3 DEF verify_purpose_entries, Refuse, Place, entries_match
      <3>2. CursorInv /\ ReadInv /\ cursor.purpose \in 0..PurposeCount
        BY <3>1 DEF MacKeysInv, CursorInv
      <3>3. \A q : Expected(q)' = Expected(q)
        BY <3>1 DEF Expected
      <3>4. p \in 1..PurposeCount /\ PurposeCount \in Nat
        BY <3>1, <3>2, KeyConstants
      <3>5. CursorInv'
        BY <3>1, <3>3, <3>4 DEF CursorInv
      <3>6. ReadInv'
        <4>1. ReadKeys' = ReadKeys
          BY <3>1 DEF ReadKeys
        <4>2. ASSUME NEW q \in Purposes, NEW id \in Expected(q)
              PROVE  <<q, id>> \in ReadKeys <=> q < p \/ (q = p /\ id \notin Expected(p))
          <5>1. <<q, id>> \in ReadKeys <=> q < cursor.purpose \/ (q = cursor.purpose /\ id \notin cursor.left)
            BY <3>2 DEF ReadInv
          <5>2. q \in Int
            BY KeyConstants DEF Purposes
          <5>3. QED BY <3>1, <3>2, <5>1, <5>2
        <4>3. QED BY <3>1, <3>2, <3>3, <4>1, <4>2 DEF ReadInv
      <3>7. ASSUME quiet PROVE DOMAIN tree = Purposes /\ \A q \in 1..p : DOMAIN tree[q] = Expected(q)
        <4>1. DOMAIN tree = Purposes /\ \A q \in 1..cursor.purpose : DOMAIN tree[q] = Expected(q)
          BY <3>1, <3>7 DEF MacKeysInv
        <4>2. \A q \in 1..p : q \in 1..cursor.purpose \/ q = p
          BY <3>2
        <4>3. QED BY <3>1, <4>1, <4>2
      <3>8. (Visiting /\ quiet =>
              DOMAIN tree = Purposes /\ \A q \in 1..cursor.purpose : DOMAIN tree[q] = Expected(q))'
        BY <3>1, <3>3, <3>7
      <3>9. QED BY <2>1, <3>1, <3>5, <3>6, <3>8 DEF MacKeysInv
    <2>4. QED BY <2>2, <2>3
  <1>11. CASE StatLeaf
    <2>1. MacKeysTypeOK'
      BY <1>11 DEF StatLeaf, Refuse, MacKeysInv, MacKeysTypeOK
    <2>2. CASE phase' = "invalid"
      BY <1>11, <2>1, <2>2 DEF StatLeaf, Refuse, MacKeysInv
    <2>3. CASE phase' # "invalid"
      <3>1. PICK id : /\ phase = "verifying" /\ cursor.left # {}
                      /\ cursor' = [cursor EXCEPT !.before = Named(id)]
                      /\ UNCHANGED <<raw, phase, rotations, tree, read, swaps, quiet>>
        BY <1>11, <2>3 DEF StatLeaf, Refuse
      <3>2. CursorInv /\ ReadInv
        BY <3>1 DEF MacKeysInv
      <3>3. cursor'.purpose = cursor.purpose /\ cursor'.left = cursor.left
            /\ cursor' = [purpose |-> cursor.purpose, left |-> cursor.left, before |-> Named(id)]
        BY <3>1, <3>2 DEF CursorInv
      <3>4. \A q : Expected(q)' = Expected(q)
        BY <3>1 DEF Expected
      <3>5. CursorInv'
        BY <3>1, <3>2, <3>3, <3>4 DEF CursorInv
      <3>6. ReadInv'
        BY <3>1, <3>2, <3>3, <3>4 DEF ReadInv, ReadKeys
      <3>7. QED BY <2>1, <3>1, <3>3, <3>4, <3>5, <3>6 DEF MacKeysInv
    <2>4. QED BY <2>2, <2>3
  <1>12. CASE read_authenticated_leaf
    <2>1. CASE phase' = "invalid"
      BY <1>12, <2>1 DEF read_authenticated_leaf, Refuse, MacKeysInv, MacKeysTypeOK
    <2>2. CASE phase' # "invalid"
      <3> DEFINE id == First(cursor.left)
                 p == cursor.purpose
                 entry == [purpose |-> p, id |-> id, inode |-> Named(id)]
      <3>1. /\ phase = "verifying" /\ cursor.before # NoFile
            /\ opened_is_checked(cursor.before, Named(id)) /\ Files[Named(id)].of = <<p, id>>
            /\ cursor' = [cursor EXCEPT !.before = NoFile, !.left = @ \ {id}]
            /\ read' = Append(read, entry)
            /\ UNCHANGED <<raw, phase, rotations, tree, swaps, quiet>>
        BY <1>12, <2>2 DEF read_authenticated_leaf, Refuse, First
      <3>2. CursorInv /\ ReadInv /\ p \in 0..PurposeCount
        BY <3>1 DEF MacKeysInv, CursorInv
      <3>3. \A q : Expected(q)' = Expected(q)
        BY <3>1 DEF Expected
      <3>4. id \in cursor.left /\ id \in Expected(p) /\ id \in KeyIds
        <4>1. cursor.left # {} /\ cursor.left \subseteq Leaves(raw, p)
          BY <3>1, <3>2 DEF CursorInv, Expected
        <4>2. id \in cursor.left
          BY <1>1, <4>1, FirstLeft
        <4>3. QED BY <1>1, <4>1, <4>2, LeavesFinite DEF Expected
      <3>5. p \in Purposes
        <4>1. PICK i \in DOMAIN raw.rows : raw.rows[i].purpose = p
          BY <1>1, <3>4, LeafIs DEF Expected
        <4>2. Decodes(raw)
          BY <1>1, <3>1, SnapshotMeans DEF MacKeysInv
        <4>3. QED BY <4>1, <4>2 DEF Decodes, decodes_row
      <3> HIDE DEF id
      <3>6. Named(id) \in DOMAIN Files /\ Files[Named(id)] = [good |-> TRUE, of |-> <<p, id>>]
        <4>1. Named(id) # NoFile /\ Files[Named(id)].good
          BY <3>1 DEF opened_is_checked, is_owner_only_state_key_file
        <4>2. Named(id) \in DOMAIN Files
          BY <4>1 DEF Named, MacKeysInv, MacKeysTypeOK
        <4>3. Files[Named(id)] = [good |-> Files[Named(id)].good, of |-> Files[Named(id)].of]
              /\ Files[Named(id)].good \in BOOLEAN
          BY <4>2, KeyConstants
        <4>4. Files[Named(id)].good = TRUE
          BY <4>1, <4>3
        <4>5. QED BY <3>1, <4>2, <4>3, <4>4
      <3>7. entry \in [purpose : Purposes, id : KeyIds, inode : DOMAIN Files]
        BY <3>4, <3>5, <3>6
      <3>8. /\ read \in Seq([purpose : Purposes, id : KeyIds, inode : DOMAIN Files])
            /\ read' \in Seq([purpose : Purposes, id : KeyIds, inode : DOMAIN Files])
            /\ Len(read') = Len(read) + 1 /\ read'[Len(read) + 1] = entry
            /\ \A i \in DOMAIN read : read'[i] = read[i] /\ i \in DOMAIN read'
            /\ DOMAIN read' = DOMAIN read \cup {Len(read) + 1}
        <4>1. read \in Seq([purpose : Purposes, id : KeyIds, inode : DOMAIN Files])
          BY DEF MacKeysInv, MacKeysTypeOK
        <4> HIDE DEF entry
        <4>2. QED BY <3>1, <3>7, <4>1
      <3>9. MacKeysTypeOK'
        BY <3>1, <3>8 DEF MacKeysInv, MacKeysTypeOK
      <3>10. cursor' = [purpose |-> p, left |-> cursor.left \ {id}, before |-> NoFile]
        BY <3>1, <3>2 DEF CursorInv
      <3>11. CursorInv'
        BY <3>2, <3>3, <3>10 DEF CursorInv
      <3>12. ReadKeys' = ReadKeys \cup {<<p, id>>}
        <4>1. entry.purpose = p /\ entry.id = id
          OBVIOUS
        <4> HIDE DEF entry, p
        <4>2. QED BY <3>8, <4>1 DEF ReadKeys
      <3>13. ReadInv'
        <4>1. ASSUME NEW i \in DOMAIN read'
              PROVE  /\ Files[read'[i].inode] = [good |-> TRUE, of |-> <<read'[i].purpose, read'[i].id>>]
                     /\ read'[i].id \in Expected(read'[i].purpose)
          <5>1. CASE i \in DOMAIN read
            BY <3>2, <3>8, <5>1 DEF ReadInv
          <5>2. CASE i = Len(read) + 1
            <6>1. read'[i] = entry
              BY <3>8, <5>2
            <6>2. QED BY <3>4, <3>6, <6>1
          <5>3. QED BY <3>8, <5>1, <5>2
        <4>2. ASSUME NEW q \in Purposes, NEW key \in Expected(q)
              PROVE  <<q, key>> \in ReadKeys' <=> q < p \/ (q = p /\ key \notin cursor.left \ {id})
          <5>1. <<q, key>> \in ReadKeys <=> q < p \/ (q = p /\ key \notin cursor.left)
            BY <3>2 DEF ReadInv
          <5>2. q \in Int /\ p \in Int
            BY <3>2, KeyConstants DEF Purposes
          <5>3. <<q, key>> = <<p, id>> <=> q = p /\ key = id
            OBVIOUS
          <5>4. QED BY <3>4, <3>12, <5>1, <5>2, <5>3
        <4>3. QED BY <3>3, <3>10, <4>1, <4>2 DEF ReadInv
      <3>14. QED BY <3>1, <3>3, <3>9, <3>10, <3>11, <3>13 DEF MacKeysInv
    <2>3. QED BY <2>1, <2>2
  <1>13. CASE Accept
    BY <1>13 DEF Accept, MacKeysInv, MacKeysTypeOK, CursorInv, ReadInv, ReadKeys, Expected
  <1>14. CASE UNCHANGED macKeysVars
    BY <1>14 DEF macKeysVars, MacKeysInv, MacKeysTypeOK, CursorInv, ReadInv, ReadKeys, Expected
  <1>15. QED BY <1>2, <1>3, <1>4, <1>5, <1>6, <1>7, <1>8, <1>9, <1>10, <1>11, <1>12, <1>13, <1>14
           DEF MacKeysNext

LEMMA MacKeysInvSafe == MacKeysInv => KeysSafety
  <1> SUFFICES ASSUME MacKeysInv PROVE KeysSafety
    OBVIOUS
  <1>1. raw \in Tables
    BY DEF MacKeysInv, MacKeysTypeOK, Tables
  <1>2. raw.rows \in Seq(ManifestColumns) /\ DOMAIN raw.rows = 1..Len(raw.rows) /\ Len(raw.rows) \in Nat
    BY <1>1 DEF Tables
  <1>3. ASSUME Taken
        PROVE  /\ Decodes(raw) /\ Ascends(raw.rows) /\ Fills(raw) /\ OneActive(raw)
               /\ OneWater(raw) /\ UnderWater(raw)
    BY <1>1, <1>3, SnapshotMeans DEF MacKeysInv
  <1>4. SnapshotCoherent
    <2> SUFFICES ASSUME Taken
                 PROVE  LET rows == {decode_state_mac_key_manifest_row(raw.rows[i]) : i \in DOMAIN raw.rows}
                        IN /\ \A p \in Purposes : \E r \in rows :
                                /\ r.active /\ r.purpose = p
                                /\ r.id[1] = IF p = PurposeCount THEN PrebootstrapOrigin ELSE raw.origin
                                /\ \A s \in rows : (s.active /\ s.purpose = p) => s = r
                           /\ Cardinality({<<r.purpose, r.id>> : r \in rows}) = Len(raw.rows)
      BY DEF SnapshotCoherent
    <2> DEFINE Decoded(i) == decode_state_mac_key_manifest_row(raw.rows[i])
               rows == {Decoded(i) : i \in DOMAIN raw.rows}
               keys == {<<r.purpose, r.id>> : r \in rows}
    <2>1. \A i \in DOMAIN raw.rows :
            /\ Decoded(i).purpose = raw.rows[i].purpose
            /\ Decoded(i).id = <<raw.rows[i].origin, raw.rows[i].hi, raw.rows[i].lo>>
            /\ Decoded(i).id[1] = raw.rows[i].origin
      BY DEF decode_state_mac_key_manifest_row
    <2>2. \A i \in DOMAIN raw.rows : Decoded(i).active <=> raw.rows[i].status = 1
      BY Zenon DEF decode_state_mac_key_manifest_row
    <2> HIDE DEF Decoded
    <2>3. ASSUME NEW p \in Purposes
          PROVE  \E r \in rows :
                   /\ r.active /\ r.purpose = p
                   /\ r.id[1] = IF p = PurposeCount THEN PrebootstrapOrigin ELSE raw.origin
                   /\ \A s \in rows : (s.active /\ s.purpose = p) => s = r
      <3>1. PICK i \in DOMAIN raw.rows :
              /\ ActiveAt(raw, p, i) /\ raw.rows[i].origin = Demanded(raw, p)
              /\ \A j \in DOMAIN raw.rows : ActiveAt(raw, p, j) => j = i
        BY <1>3 DEF OneActive
      <3>2. Decoded(i) \in rows /\ Decoded(i).active /\ Decoded(i).purpose = p
        BY <2>1, <2>2, <3>1 DEF ActiveAt
      <3>3. Decoded(i).id[1] = IF p = PurposeCount THEN PrebootstrapOrigin ELSE raw.origin
        BY <2>1, <3>1 DEF Demanded
      <3>4. ASSUME NEW s \in rows, s.active, s.purpose = p PROVE s = Decoded(i)
        <4>1. PICK j \in DOMAIN raw.rows : s = Decoded(j)
          OBVIOUS
        <4>2. ActiveAt(raw, p, j)
          BY <2>1, <2>2, <3>4, <4>1 DEF ActiveAt
        <4>3. QED BY <3>1, <4>1, <4>2
      <3>5. QED BY <3>2, <3>3, <3>4
    <2>4. Cardinality(keys) = Len(raw.rows)
      <3> DEFINE f == [i \in 1..Len(raw.rows) |-> <<Decoded(i).purpose, Decoded(i).id>>]
      <3>1. f \in [1..Len(raw.rows) -> keys]
        BY <1>2
      <3>2. \A k \in keys : \E i \in 1..Len(raw.rows) : f[i] = k
        BY <1>2
      <3>3. ASSUME NEW i \in 1..Len(raw.rows), NEW j \in 1..Len(raw.rows), f[i] = f[j]
            PROVE  i = j
        <4>1. Decoded(i).purpose = Decoded(j).purpose /\ Decoded(i).id = Decoded(j).id
          BY <3>3
        <4>2. SameKey(raw.rows[i], raw.rows[j])
          BY <1>2, <2>1, <4>1 DEF SameKey
        <4>3. QED BY <1>2, <1>3, <4>2, AscendingKeys
      <3>4. f \in Bijection(1..Len(raw.rows), keys)
        BY <3>1, <3>2, <3>3 DEF Bijection, Injection, Surjection, IsInjective
      <3>5. ExistsBijection(1..Len(raw.rows), keys)
        BY <3>4 DEF ExistsBijection
      <3>6. QED BY <1>2, <3>5, FS_CountingElements
    <2>5. QED BY <2>3, <2>4 DEF Decoded
  <1>5. FreshKeyUnused
    <2> SUFFICES ASSUME Taken, NEW p \in Purposes,
                        NEW i \in DOMAIN serial_next(HighWater(raw, p)),
                        <<raw.origin, SplitSerial(serial_next(HighWater(raw, p))[i])[1],
                          SplitSerial(serial_next(HighWater(raw, p))[i])[2]>> \in Leaves(raw, p)
                 PROVE  FALSE
      BY DEF FreshKeyUnused
    <2>1. HighWater(raw, p) # LastSerial /\ serial_next(HighWater(raw, p))[i] = HighWater(raw, p) + 1
      BY DEF serial_next
    <2> DEFINE limbs == SplitSerial(HighWater(raw, p) + 1)
    <2>2. <<raw.origin, limbs[1], limbs[2]>> \in Leaves(raw, p)
      BY <2>1
    <2> HIDE DEF limbs
    <2>3. PICK j \in DOMAIN raw.rows :
            /\ raw.rows[j].purpose = p
            /\ <<raw.origin, limbs[1], limbs[2]>> = <<raw.rows[j].origin, raw.rows[j].hi, raw.rows[j].lo>>
      BY <1>1, <2>2, LeafIs
    <2>4. raw.rows[j].origin = raw.origin /\ raw.rows[j].hi = limbs[1] /\ raw.rows[j].lo = limbs[2]
      BY <2>3
    <2>5. QED BY <1>1, <1>3, <2>1, <2>3, <2>4, NextIsFresh DEF limbs
  <1>6. RotationReloads
    BY DEF MacKeysInv, RotationReloads, Taken
  <1>7. AcceptedLeavesValid
    <2> SUFFICES ASSUME phase = "accepted"
                 PROVE  /\ \A i \in DOMAIN read :
                             Files[read[i].inode] = [good |-> TRUE, of |-> <<read[i].purpose, read[i].id>>]
                        /\ ReadKeys = UNION {{<<p, id>> : id \in Expected(p)} : p \in Purposes}
      BY DEF AcceptedLeavesValid, ReadKeys
    <2>1. ReadInv /\ cursor.left = {} /\ cursor.purpose = PurposeCount
          /\ read \in Seq([purpose : Purposes, id : KeyIds, inode : DOMAIN Files])
      BY DEF MacKeysInv, MacKeysTypeOK, Visiting
    <2>2. \A p \in Purposes : p < PurposeCount \/ p = PurposeCount
      BY KeyConstants DEF Purposes
    <2>3. \A p \in Purposes : \A id \in Expected(p) : <<p, id>> \in ReadKeys
      BY <2>1, <2>2 DEF ReadInv
    <2>4. \A k \in ReadKeys : \E p \in Purposes : \E id \in Expected(p) : k = <<p, id>>
      <3> SUFFICES ASSUME NEW i \in DOMAIN read
                   PROVE  \E p \in Purposes : \E id \in Expected(p) : <<read[i].purpose, read[i].id>> = <<p, id>>
        BY DEF ReadKeys
      <3> DEFINE Entries == [purpose : Purposes, id : KeyIds, inode : DOMAIN Files]
      <3>1. read[i] \in Entries
        <4> HIDE DEF Entries
        <4>1. read \in Seq(Entries)
          BY <2>1 DEF Entries
        <4>2. QED BY <4>1
      <3>2. read[i].purpose \in Purposes /\ read[i].id \in Expected(read[i].purpose)
        BY <2>1, <3>1 DEF ReadInv
      <3>3. QED BY <3>2
    <2>5. QED BY <2>1, <2>3, <2>4 DEF ReadInv
  <1>8. QuietAcceptance
    <2> SUFFICES ASSUME phase = "accepted", quiet
                 PROVE  tree = [p \in Purposes |-> [id \in Expected(p) |-> tree[p][id]]]
      BY DEF QuietAcceptance
    <2>1. /\ DOMAIN tree = Purposes /\ \A p \in Purposes : DOMAIN tree[p] = Expected(p)
          /\ tree = [p \in DOMAIN tree |-> [id \in DOMAIN tree[p] |-> tree[p][id]]]
      BY DEF MacKeysInv, MacKeysTypeOK, Visiting, Purposes
    <2>2. QED BY <2>1
  <1>9. QED BY <1>4, <1>5, <1>6, <1>7, <1>8 DEF KeysSafety

\* The state MAC keys: tables that are taken have one active key per purpose and
\* stay such over every sequence of rotations and retirements the ring permits,
\* the next key is never one that is listed, and an accepted directory holds the
\* listed keys (compose_state_mac_key_snapshot, ring::observe,
\* verify_state_mac_key_directory).
THEOREM RetainedKeys == MacKeysSpec => []KeysSafety
  <1>1. MacKeysSpec => []MacKeysInv
    BY MacKeysInitial, MacKeysStep, PTL DEF MacKeysSpec
  <1>2. QED BY <1>1, MacKeysInvSafe, PTL

-----------------------------------------------------------------------------
(***************************************************************************)
(* Retry-After.                                                            *)
(***************************************************************************)

\* The parser's month lengths are the calendar's.
LEMMA MonthsAgree ==
  ASSUME NEW year \in Nat, NEW month \in 1..12
  PROVE  /\ days_in_month(year, month) = MonthLength(year, month)
         /\ MonthLength(year, month) \in 28..31
  <1>1. month \in {1, 2, 3, 4, 5, 6, 7, 8, 9, 10, 11, 12}
    OBVIOUS
  <1>2. QED BY <1>1 DEF days_in_month, MonthLength, is_leap_year

\* Days before 1 March of a year, counted from an era's beginning.
DaysBefore(y) ==
  (y \div 400) * 146097 + (y - (y \div 400) * 400) * 365
  + (y - (y \div 400) * 400) \div 4 - (y - (y \div 400) * 400) \div 100

\* The month's part of epoch_days.
MonthStart(month) == (153 * (IF month > 2 THEN month - 3 ELSE month + 9) + 2) \div 5

LEMMA EpochDays ==
  ASSUME NEW year \in Nat, NEW month \in 1..12, NEW day \in Int
  PROVE  epoch_days(year, month, day)
           = DaysBefore(year - (IF month <= 2 THEN 1 ELSE 0)) + MonthStart(month) + day - 1 - 719468
  BY DEF epoch_days, DaysBefore, MonthStart

\* A year from March to February has 366 days when the February is a leap year's.
LEMMA YearLength ==
  ASSUME NEW y \in Nat
  PROVE  DaysBefore(y) = DaysBefore(y - 1) + (IF is_leap_year(y) THEN 366 ELSE 365)
  <1> DEFINE e == y \div 400
             r == y % 400
  <1>1. e \in Int /\ r \in 0..399 /\ y = 400 * e + r
    OBVIOUS
  <1>2. is_leap_year(y) <=> r % 4 = 0 /\ (r % 100 # 0 \/ r = 0)
    <2>1. y % 4 = r % 4 /\ y % 100 = r % 100
      BY <1>1
    <2>2. QED BY <1>1, <2>1 DEF is_leap_year
  <1>3. DaysBefore(y) = e * 146097 + r * 365 + r \div 4 - r \div 100
    BY <1>1 DEF DaysBefore
  <1>4. CASE r = 0
    <2>1. (y - 1) \div 400 = e - 1 /\ (y - 1) - (e - 1) * 400 = 399
      BY <1>1, <1>4
    <2>2. DaysBefore(y - 1) = (e - 1) * 146097 + 399 * 365 + 99 - 3
      BY <2>1 DEF DaysBefore
    <2>3. QED BY <1>1, <1>2, <1>3, <1>4, <2>2
  <1>5. CASE r # 0
    <2>1. (y - 1) \div 400 = e /\ (y - 1) - e * 400 = r - 1
      BY <1>1, <1>5
    <2>2. DaysBefore(y - 1) = e * 146097 + (r - 1) * 365 + (r - 1) \div 4 - (r - 1) \div 100
      BY <1>1, <2>1 DEF DaysBefore
    <2> HIDE DEF e, r
    <2>3. r \div 4 = (r - 1) \div 4 + (IF r % 4 = 0 THEN 1 ELSE 0)
      BY <1>1, <1>5
    <2>4. r \div 100 = (r - 1) \div 100 + (IF r % 100 = 0 THEN 1 ELSE 0)
      BY <1>1, <1>5
    <2>5. r % 100 = 0 => r % 4 = 0
      BY <1>1
    <2>6. QED BY <1>1, <1>2, <1>3, <1>5, <2>2, <2>3, <2>4, <2>5
  <1>6. QED BY <1>4, <1>5

\* Consecutive months of one computational year.
LEMMA NextMonth ==
  ASSUME NEW year \in Nat, NEW month \in 1..11
  PROVE  epoch_days(year, month + 1, 1) = epoch_days(year, month, MonthLength(year, month)) + 1
  <1>1. month + 1 \in 1..12 /\ month \in 1..12
    OBVIOUS
  <1>2. MonthLength(year, month) \in Int
    BY <1>1, MonthsAgree
  <1>3. CASE month = 2
    <2>1. DaysBefore(year) = DaysBefore(year - 1) + (IF is_leap_year(year) THEN 366 ELSE 365)
      BY YearLength
    <2>2. MonthLength(year, 2) = IF is_leap_year(year) THEN 29 ELSE 28
      BY DEF MonthLength, is_leap_year
    <2>3. MonthStart(2) = 337 /\ MonthStart(3) = 0
      BY DEF MonthStart
    <2>4. DaysBefore(year) \in Int /\ DaysBefore(year - 1) \in Int
      BY DEF DaysBefore
    <2>5. epoch_days(year, 2, MonthLength(year, 2))
            = DaysBefore(year - 1) + 337 + MonthLength(year, 2) - 1 - 719468
      BY <1>1, <1>2, <1>3, <2>3, EpochDays
    <2>6. epoch_days(year, 3, 1) = DaysBefore(year) + 0 + 1 - 1 - 719468
      BY <1>1, <1>3, <2>3, EpochDays
    <2>7. QED BY <1>3, <2>1, <2>2, <2>4, <2>5, <2>6
  <1>4. CASE month # 2
    <2>1. month \in {1, 3, 4, 5, 6, 7, 8, 9, 10, 11}
      BY <1>4
    <2>2. MonthStart(month + 1) = MonthStart(month) + MonthLength(year, month)
          /\ MonthStart(month) \in Int /\ MonthStart(month + 1) \in Int
      BY <2>1 DEF MonthStart, MonthLength
    <2> DEFINE y == year - (IF month <= 2 THEN 1 ELSE 0)
    <2>3. y = year - (IF month + 1 <= 2 THEN 1 ELSE 0)
      BY <2>1
    <2>4. DaysBefore(y) \in Int
      BY DEF DaysBefore
    <2>5. epoch_days(year, month + 1, 1) = DaysBefore(y) + MonthStart(month + 1) + 1 - 1 - 719468
      BY <1>1, <2>3, EpochDays
    <2>6. epoch_days(year, month, MonthLength(year, month))
            = DaysBefore(y) + MonthStart(month) + MonthLength(year, month) - 1 - 719468
      BY <1>1, <1>2, EpochDays
    <2> HIDE DEF y
    <2>7. QED BY <1>2, <2>2, <2>4, <2>5, <2>6
  <1>5. QED BY <1>3, <1>4

LEMMA NextYear ==
  ASSUME NEW year \in Nat
  PROVE  epoch_days(year + 1, 1, 1) = epoch_days(year, 12, 31) + 1
  <1>1. MonthStart(12) = 275 /\ MonthStart(1) = 306
    BY DEF MonthStart
  <1>2. epoch_days(year + 1, 1, 1) = DaysBefore(year) + 306 + 1 - 1 - 719468
    <2>1. year + 1 \in Nat /\ (year + 1) - 1 = year
      OBVIOUS
    <2>2. QED BY <1>1, <2>1, EpochDays
  <1>3. epoch_days(year, 12, 31) = DaysBefore(year) + 275 + 31 - 1 - 719468
    BY <1>1, EpochDays
  <1>4. DaysBefore(year) \in Int
    BY DEF DaysBefore
  <1>5. QED BY <1>2, <1>3, <1>4

LEMMA WithinMonth ==
  ASSUME NEW year \in Nat, NEW month \in 1..12, NEW a \in Int, NEW b \in Int
  PROVE  epoch_days(year, month, b) = epoch_days(year, month, a) + b - a
         /\ epoch_days(year, month, a) \in Int
  <1> DEFINE y == year - (IF month <= 2 THEN 1 ELSE 0)
  <1>1. DaysBefore(y) \in Int /\ MonthStart(month) \in Int
    BY DEF DaysBefore, MonthStart
  <1>2. epoch_days(year, month, a) = DaysBefore(y) + MonthStart(month) + a - 1 - 719468
    BY EpochDays
  <1>3. epoch_days(year, month, b) = DaysBefore(y) + MonthStart(month) + b - 1 - 719468
    BY EpochDays
  <1> HIDE DEF y
  <1>4. QED BY <1>1, <1>2, <1>3

\* What a date is.
IsDate(d) ==
  /\ d = [year |-> d.year, month |-> d.month, day |-> d.day]
  /\ d.year \in Nat /\ d.month \in 1..12 /\ d.day \in 1..MonthLength(d.year, d.month)
Count(d) == epoch_days(d.year, d.month, d.day)

LEMMA TomorrowCounts ==
  ASSUME NEW d, IsDate(d)
  PROVE  IsDate(Tomorrow(d)) /\ Count(Tomorrow(d)) = Count(d) + 1 /\ Count(d) \in Int
         /\ Tomorrow(d).year >= d.year
  <1> DEFINE y == d.year
             m == d.month
             k == d.day
             t == Tomorrow(d)
  <1>1. d = [year |-> y, month |-> m, day |-> k] /\ y \in Nat /\ m \in 1..12 /\ k \in 1..MonthLength(y, m)
    BY DEF IsDate
  <1>2. MonthLength(y, m) \in 28..31 /\ k \in Int
    BY <1>1, MonthsAgree
  <1>3. Count(d) = epoch_days(y, m, k) /\ Count(d) \in Int
    BY <1>1, <1>2, WithinMonth DEF Count
  <1>4. CASE k < MonthLength(y, m)
    <2>1. t = [year |-> y, month |-> m, day |-> k + 1]
      BY <1>1, <1>4 DEF Tomorrow
    <2>2. Count(t) = epoch_days(y, m, k + 1)
      BY <2>1 DEF Count
    <2>3. epoch_days(y, m, k + 1) = epoch_days(y, m, k) + (k + 1) - k
      BY <1>1, <1>2, WithinMonth
    <2>4. IsDate(t)
      BY <1>1, <1>2, <1>4, <2>1 DEF IsDate
    <2> HIDE DEF t, y, m, k
    <2>5. Count(t) = Count(d) + 1
      BY <1>2, <1>3, <2>2, <2>3
    <2>6. QED BY <1>1, <1>3, <2>1, <2>4, <2>5 DEF t, y
  <1>5. CASE ~(k < MonthLength(y, m)) /\ m < 12
    <2>1. k = MonthLength(y, m) /\ m \in 1..11
      BY <1>1, <1>2, <1>5
    <2>2. t = [year |-> y, month |-> m + 1, day |-> 1]
      BY <1>1, <1>5 DEF Tomorrow
    <2>3. Count(t) = epoch_days(y, m + 1, 1)
      BY <2>2 DEF Count
    <2>4. MonthLength(y, m + 1) \in 28..31
      BY <1>1, <2>1, MonthsAgree
    <2>5. IsDate(t)
      BY <1>1, <2>1, <2>2, <2>4 DEF IsDate
    <2>6. Count(t) = Count(d) + 1
      BY <1>1, <1>3, <2>1, <2>3, NextMonth
    <2>7. QED BY <1>1, <1>3, <2>2, <2>5, <2>6
  <1>6. CASE ~(k < MonthLength(y, m)) /\ ~(m < 12)
    <2>1. k = MonthLength(y, m) /\ m = 12
      BY <1>1, <1>2, <1>6
    <2>2. MonthLength(y, 12) = 31 /\ MonthLength(y + 1, 1) = 31
      BY DEF MonthLength
    <2>3. t = [year |-> y + 1, month |-> 1, day |-> 1]
      BY <1>1, <1>6 DEF Tomorrow
    <2>4. Count(t) = epoch_days(y + 1, 1, 1)
      BY <2>3 DEF Count
    <2>5. IsDate(t)
      BY <1>1, <2>2, <2>3 DEF IsDate
    <2>6. Count(t) = Count(d) + 1
      BY <1>1, <1>3, <2>1, <2>2, <2>4, NextYear
    <2>7. QED BY <1>1, <1>3, <2>3, <2>5, <2>6
  <1>7. QED BY <1>4, <1>5, <1>6

LEMMA MonthEnd ==
  ASSUME NEW y \in Nat, NEW m \in 1..11
  PROVE  Tomorrow([year |-> y, month |-> m, day |-> MonthLength(y, m)])
           = [year |-> y, month |-> m + 1, day |-> 1]
  <1>1. MonthLength(y, m) \in 28..31
    BY MonthsAgree
  <1> DEFINE d == [year |-> y, month |-> m, day |-> MonthLength(y, m)]
  <1>2. d = [year |-> d.year, month |-> d.month, day |-> d.day]
        /\ d.year = y /\ d.month = m /\ d.day = MonthLength(y, m)
    OBVIOUS
  <1> HIDE DEF d
  <1>3. ~(d.day < MonthLength(d.year, d.month)) /\ d.month < 12
    BY <1>1, <1>2
  <1>4. Tomorrow(d) = [year |-> d.year, month |-> d.month + 1, day |-> 1]
    BY <1>2, <1>3 DEF Tomorrow
  <1>5. QED BY <1>2, <1>4 DEF d

\* The day before is the day whose next day is this one, so it counts one less.
LEMMA YesterdayCounts ==
  ASSUME NEW d, IsDate(d), Yesterday(d).year \in Nat
  PROVE  IsDate(Yesterday(d)) /\ Count(Yesterday(d)) = Count(d) - 1 /\ Yesterday(d).year <= d.year
  <1> DEFINE y == d.year
             m == d.month
             k == d.day
             t == Yesterday(d)
  <1>1. d = [year |-> y, month |-> m, day |-> k] /\ y \in Nat /\ m \in 1..12 /\ k \in 1..MonthLength(y, m)
    BY DEF IsDate
  <1>2. MonthLength(y, m) \in 28..31 /\ k \in Int
    BY <1>1, MonthsAgree
  <1>3. IsDate(t) /\ Tomorrow(t) = d /\ t.year <= y
    <2>1. CASE k > 1
      <3>1. t = [year |-> y, month |-> m, day |-> k - 1]
        BY <1>1, <2>1 DEF Yesterday
      <3>2. IsDate(t)
        BY <1>1, <1>2, <2>1, <3>1 DEF IsDate
      <3>3. Tomorrow(t) = d
        BY <1>1, <1>2, <2>1, <3>1 DEF Tomorrow
      <3>4. QED BY <1>1, <3>1, <3>2, <3>3
    <2>2. CASE ~(k > 1) /\ m > 1
      <3>1. k = 1 /\ m - 1 \in 1..11
        BY <1>1, <1>2, <2>2
      <3>2. t = [year |-> y, month |-> m - 1, day |-> MonthLength(y, m - 1)]
        BY <1>1, <2>2 DEF Yesterday
      <3>3. MonthLength(y, m - 1) \in 28..31
        BY <1>1, <3>1, MonthsAgree
      <3>4. IsDate(t)
        BY <1>1, <3>1, <3>2, <3>3 DEF IsDate
      <3>5. Tomorrow(t) = d
        <4>1. Tomorrow([year |-> y, month |-> m - 1, day |-> MonthLength(y, m - 1)])
                = [year |-> y, month |-> (m - 1) + 1, day |-> 1]
          BY <1>1, <3>1, MonthEnd
        <4>2. (m - 1) + 1 = m
          BY <1>1
        <4>3. QED BY <1>1, <3>1, <3>2, <4>1, <4>2
      <3>6. QED BY <1>1, <3>2, <3>4, <3>5
    <2>3. CASE ~(k > 1) /\ ~(m > 1)
      <3>1. k = 1 /\ m = 1
        BY <1>1, <1>2, <2>3
      <3>2. t = [year |-> y - 1, month |-> 12, day |-> 31]
        BY <1>1, <2>3 DEF Yesterday
      <3>3. y - 1 \in Nat /\ MonthLength(y - 1, 12) = 31
        BY <3>2 DEF MonthLength
      <3>4. IsDate(t)
        BY <1>1, <3>2, <3>3 DEF IsDate
      <3>5. Tomorrow(t) = d
        BY <1>1, <3>1, <3>2, <3>3 DEF Tomorrow
      <3>6. QED BY <1>1, <3>2, <3>4, <3>5
    <2>4. QED BY <2>1, <2>2, <2>3
  <1>4. Count(d) = Count(t) + 1 /\ Count(t) \in Int
    BY <1>3, TomorrowCounts
  <1> HIDE DEF t
  <1>5. Count(t) = Count(d) - 1
    BY <1>4
  <1>6. QED BY <1>3, <1>5 DEF t

\* The names of the days: a day on is a name on.
LEMMA DayNames ==
  ASSUME NEW n \in Int, NEW k \in 0..31
  PROVE  /\ (epoch_weekday(n) + 1) % 7 = epoch_weekday(n + 1)
         /\ (epoch_weekday(n) + 6) % 7 = epoch_weekday(n - 1)
         /\ (epoch_weekday(n) + 0) % 7 = epoch_weekday(n)
         /\ (epoch_weekday(n) + k - 1 + 35) % 7 = epoch_weekday(n + k - 1)
  BY DEF epoch_weekday

\* A header that names a date, its day name and a time of it is that instant.
LEMMA RealHeader ==
  ASSUME NEW d, IsDate(d), NEW t \in (0..23) \X (0..59) \X (0..60)
  PROVE  header_instant(Header(d, epoch_weekday(Count(d)), t))
           = <<[day |-> Count(d), second |-> SecondOf(t)]>>
  <1> DEFINE h == Header(d, epoch_weekday(Count(d)), t)
  <1>1. /\ h.weekday = epoch_weekday(Count(d))
        /\ h.year = d.year /\ h.month = d.month /\ h.day = d.day
        /\ h.hour = t[1] /\ h.minute = t[2] /\ h.second = t[3]
    BY DEF Header
  <1>2. d.day \in 1..MonthLength(d.year, d.month) /\ MonthLength(d.year, d.month) \in 28..31
        /\ days_in_month(d.year, d.month) = MonthLength(d.year, d.month)
    BY MonthsAgree DEF IsDate
  <1>3. epoch_days(h.year, h.month, h.day) = Count(d)
    BY <1>1 DEF Count
  <1>4. t[1] \in 0..23 /\ t[2] \in 0..59 /\ t[3] \in 0..60
    OBVIOUS
  <1>5. ~(h.hour > 23) /\ ~(h.minute > 59) /\ ~(h.second > 60) /\ h.day # 0
        /\ ~(h.day > days_in_month(h.year, h.month))
    BY <1>1, <1>2, <1>4
  <1>6. h.hour * 3600 + h.minute * 60 + h.second = SecondOf(t)
    BY <1>1 DEF SecondOf
  <1> HIDE DEF h
  <1>7. header_instant(h) = <<[day |-> Count(d), second |-> SecondOf(t)]>>
    BY <1>1, <1>3, <1>5, <1>6 DEF header_instant
  <1>8. QED BY <1>7 DEF h

\* What the constants' assumption and the invariant give of today and tomorrow.
LEMMA Today ==
  ASSUME DateInv
  PROVE  /\ IsDate(date) /\ Count(date) = days /\ days \in Int
         /\ IsDate(Tomorrow(date)) /\ Count(Tomorrow(date)) = days + 1
  <1>1. IsDate(date)
    BY RetryAfterConstants DEF DateInv, IsDate
  <1>2. Count(date) = days
    BY DEF DateInv, DatesExact, FormulaCountsDays, Count
  <1>3. QED BY <1>1, <1>2, TomorrowCounts

\* A time of day, a leap second included, ends no later than the day.
LEMMA SecondsOfDay ==
  ASSUME NEW t \in (0..23) \X (0..59) \X (0..60)
  PROVE  SecondOf(t) \in Nat /\ SecondOf(t) <= 86400
  <1> DEFINE a == t[1]
             b == t[2]
             c == t[3]
  <1>1. a \in 0..23 /\ b \in 0..59 /\ c \in 0..60
    OBVIOUS
  <1>2. SecondOf(t) = a * 3600 + b * 60 + c
    BY DEF SecondOf
  <1> HIDE DEF a, b, c
  <1>3. QED BY <1>1, <1>2

\* The date header of an occasion is parsed to the delay that is left.
LEMMA DateDelay ==
  ASSUME DateInv, NEW o \in Occasions
  PROVE  /\ parse_retry_after(HeaderAt(o), NowAt(o))
              = IF Later(o) <= 0 THEN <<>> ELSE <<clamp(Later(o) * 1000)>>
         /\ Later(o) \in Int /\ Later(o) <= 172800
  <1> DEFINE d == IF o[3] = 0 THEN date ELSE Tomorrow(date)
             h == HeaderAt(o)
             n == NowAt(o)
  <1>1. /\ o[1] \in (0..23) \X (0..59) \X (0..60) /\ o[2] \in (0..23) \X (0..59) \X (0..60)
        /\ o[3] \in {0, 1}
    BY RetryAfterConstants DEF Occasions
  <1>2. IsDate(d) /\ Count(d) = days + o[3] /\ days \in Int
    BY <1>1, Today
  <1>3. /\ SecondOf(o[1]) \in Nat /\ SecondOf(o[1]) <= 86400
        /\ SecondOf(o[2]) \in Nat /\ SecondOf(o[2]) <= 86400
    BY <1>1, SecondsOfDay
  <1>4. Later(o) \in Int /\ Later(o) <= 172800
        /\ Later(o) = o[3] * 86400 + SecondOf(o[2]) - SecondOf(o[1])
    <2> DEFINE a == SecondOf(o[1])
               b == SecondOf(o[2])
               c == o[3]
    <2>1. a \in Nat /\ a <= 86400 /\ b \in Nat /\ b <= 86400 /\ c \in {0, 1}
      BY <1>1, <1>3
    <2>2. Later(o) = c * 86400 + b - a
      BY DEF Later
    <2> HIDE DEF a, b, c
    <2>3. c * 86400 + b - a \in Int /\ c * 86400 + b - a <= 172800
      BY <2>1
    <2>4. QED BY <2>2, <2>3 DEF a, b, c
  <1>5. (weekday + o[3]) % 7 = epoch_weekday(Count(d))
    <2>1. weekday = epoch_weekday(days)
      BY DEF DateInv
    <2>2. (epoch_weekday(days) + 1) % 7 = epoch_weekday(days + 1)
          /\ (epoch_weekday(days) + 0) % 7 = epoch_weekday(days)
      BY <1>2, DayNames
    <2>3. days + 0 = days
      BY <1>2
    <2>4. QED BY <1>1, <1>2, <2>1, <2>2, <2>3
  <1>6. h = Header(d, epoch_weekday(Count(d)), o[2])
    BY <1>5 DEF HeaderAt
  <1>7. header_instant(h) = <<[day |-> Count(d), second |-> SecondOf(o[2])]>>
    BY <1>1, <1>2, <1>6, RealHeader
  <1>8. h.form = "date"
    BY <1>6 DEF Header
  <1>9. n = [day |-> days, second |-> SecondOf(o[1])]
    BY DEF NowAt
  <1> HIDE DEF d, h, n
  <1>10. header_instant(h) # <<>> /\ header_instant(h)[1] = [day |-> Count(d), second |-> SecondOf(o[2])]
    BY <1>7
  <1>11. delta(header_instant(h)[1], n) = Later(o) * 1000
    <2>1. (days + o[3]) - days = o[3]
      BY <1>1, <1>2
    <2>2. header_instant(h)[1].day - n.day = o[3]
          /\ header_instant(h)[1].second = SecondOf(o[2]) /\ n.second = SecondOf(o[1])
      BY <1>2, <1>9, <1>10, <2>1
    <2>3. QED BY <1>1, <1>4, <2>2 DEF delta
  <1>12. future_date_millis(h, n) = IF Later(o) <= 0 THEN <<>> ELSE <<Later(o) * 1000>>
    <2>1. Later(o) * 1000 <= 0 <=> Later(o) <= 0
      BY <1>4
    <2>2. QED BY <1>10, <1>11, <2>1 DEF future_date_millis
  <1>13. parse_retry_after(h, n)
           = IF future_date_millis(h, n) = <<>> THEN <<>> ELSE <<clamp(future_date_millis(h, n)[1])>>
    BY <1>8 DEF parse_retry_after
  <1>14. parse_retry_after(h, n) = IF Later(o) <= 0 THEN <<>> ELSE <<clamp(Later(o) * 1000)>>
    <2>1. <<Later(o) * 1000>> # <<>> /\ <<Later(o) * 1000>>[1] = Later(o) * 1000
      OBVIOUS
    <2>2. QED BY <1>12, <1>13, <2>1
  <1>15. QED BY <1>4, <1>14 DEF h, n

\* So is the number of seconds left.
LEMMA SecondsDelay ==
  ASSUME NEW k \in Int, k > 0, k <= 172800, NEW instant
  PROVE  parse_retry_after([form |-> "delta", seconds |-> k], instant) = <<clamp(k * 1000)>>
  <1>1. delta_millis(k) = <<k * 1000>>
    BY DEF delta_millis
  <1>2. <<k * 1000>> # <<>> /\ <<k * 1000>>[1] = k * 1000
    OBVIOUS
  <1> DEFINE h == [form |-> "delta", seconds |-> k]
  <1>3. h.form = "delta" /\ h.seconds = k
    OBVIOUS
  <1> HIDE DEF h
  <1>4. parse_retry_after(h, instant)
          = IF delta_millis(k) = <<>> THEN <<>> ELSE <<clamp(delta_millis(k)[1])>>
    BY <1>3 DEF parse_retry_after
  <1>5. QED BY <1>1, <1>2, <1>4 DEF h

LEMMA DateStart == DateInit => DateInv
  <1> SUFFICES ASSUME DateInit PROVE DateInv
    OBVIOUS
  <1>1. date = [year |-> 1970, month |-> 1, day |-> 1] /\ days = 0 /\ weekday = 3
        /\ ~parsed /\ delays = {}
    BY DEF DateInit
  <1>2. date.year = 1970 /\ date.month = 1 /\ date.day = 1
        /\ date = [year |-> date.year, month |-> date.month, day |-> date.day]
    BY <1>1
  <1>3. MonthLength(1970, 1) \in 28..31
    BY MonthsAgree
  <1>4. epoch_days(1970, 1, 1) = 0 /\ epoch_weekday(0) = 3
    BY DEF epoch_days, epoch_weekday
  <1>5. DatesExact
    BY <1>1, <1>2, <1>4 DEF DatesExact, FormulaCountsDays, OnlyRealDates, DelayIsExact
  <1>6. QED BY <1>1, <1>2, <1>3, <1>4, <1>5, RetryAfterConstants DEF DateInv

\* A day that is another date of the walk, with its count and its name.
LEMMA AnotherDay ==
  ASSUME NEW d, IsDate(d), d.year \in FirstYear..LastYear, date' = d, days' = Count(d),
         weekday' = epoch_weekday(Count(d)), Unparsed
  PROVE  DateInv'
  <1>1. ~parsed' /\ delays' = {}
    BY DEF Unparsed
  <1>2. FormulaCountsDays' /\ OnlyRealDates' /\ DelayIsExact'
    BY <1>1 DEF FormulaCountsDays, OnlyRealDates, DelayIsExact, Count
  <1>3. QED BY <1>2 DEF DateInv, DatesExact, IsDate

\* Of a month's dates those are taken that exist, under their own day's name.
LEMMA MonthlyTaken ==
  ASSUME DateInv, NEW x \in Monthly
  PROVE  header_instant(Header([date EXCEPT !.day = x[2]], x[1], <<0, 0, 0>>)) # <<>>
           <=> /\ x[2] \in 1..MonthLength(date.year, date.month)
               /\ x[1] = (weekday + x[2] - date.day + 35) % 7
  <1> DEFINE e == [date EXCEPT !.day = x[2]]
             h == Header(e, x[1], <<0, 0, 0>>)
  <1>1. date.day = 1 /\ x[1] \in 0..6 /\ x[2] \in 0..31
    BY DEF Monthly
  <1>2. /\ date = [year |-> date.year, month |-> date.month, day |-> date.day]
        /\ date.year \in Nat /\ date.month \in 1..12 /\ weekday = epoch_weekday(days)
    BY RetryAfterConstants DEF DateInv
  <1>3. e.year = date.year /\ e.month = date.month /\ e.day = x[2]
    BY <1>2
  <1>4. /\ h.weekday = x[1] /\ h.year = date.year /\ h.month = date.month /\ h.day = x[2]
        /\ h.hour = 0 /\ h.minute = 0 /\ h.second = 0
    BY <1>3 DEF Header
  <1>5. days \in Int /\ days = epoch_days(date.year, date.month, 1)
    BY <1>1, Today DEF Count
  <1>6. epoch_days(date.year, date.month, x[2]) = days + x[2] - 1
    <2>1. x[2] \in Int /\ 1 \in Int
      BY <1>1
    <2>2. epoch_days(date.year, date.month, x[2]) = epoch_days(date.year, date.month, 1) + x[2] - 1
      BY <1>2, <2>1, WithinMonth
    <2>3. QED BY <1>5, <2>2
  <1>7. epoch_weekday(days + x[2] - 1) = (weekday + x[2] - date.day + 35) % 7
    BY <1>1, <1>2, <1>5, DayNames
  <1>8. days_in_month(date.year, date.month) = MonthLength(date.year, date.month)
        /\ MonthLength(date.year, date.month) \in 28..31
    BY <1>2, MonthsAgree
  <1> HIDE DEF h, e
  <1>9. header_instant(h) # <<>> <=>
          ~(\/ h.hour > 23 \/ h.minute > 59 \/ h.second > 60
            \/ h.day = 0 \/ h.day > days_in_month(h.year, h.month)
            \/ epoch_weekday(epoch_days(h.year, h.month, h.day)) # h.weekday)
    BY DEF header_instant
  <1>10. header_instant(h) # <<>> <=>
           ~(\/ x[2] = 0 \/ x[2] > MonthLength(date.year, date.month)
             \/ (weekday + x[2] - date.day + 35) % 7 # x[1])
    BY <1>4, <1>6, <1>7, <1>8, <1>9
  <1>11. x[2] \in 1..MonthLength(date.year, date.month)
           <=> ~(x[2] = 0 \/ x[2] > MonthLength(date.year, date.month))
    BY <1>1, <1>8
  <1>12. QED BY <1>10, <1>11 DEF h, e

LEMMA DateStep == DateInv /\ [DateNext]_dateVars => DateInv'
  <1> SUFFICES ASSUME DateInv, [DateNext]_dateVars PROVE DateInv'
    OBVIOUS
  <1>0. /\ IsDate(date) /\ Count(date) = days /\ days \in Int
        /\ IsDate(Tomorrow(date)) /\ Count(Tomorrow(date)) = days + 1
    BY Today
  <1>1. CASE NextDay
    <2>1. /\ date' = Tomorrow(date) /\ days' = days + 1 /\ weekday' = (weekday + 1) % 7
          /\ Tomorrow(date).year <= LastYear /\ Unparsed
      BY <1>1 DEF NextDay
    <2>2. weekday' = epoch_weekday(days + 1)
      BY <1>0, <2>1, DayNames DEF DateInv
    <2>3. Tomorrow(date).year \in FirstYear..LastYear
      <3>1. Tomorrow(date).year >= date.year /\ Tomorrow(date).year \in Nat
        BY <1>0, TomorrowCounts DEF IsDate
      <3>2. date.year \in Nat /\ date.year >= FirstYear
        BY RetryAfterConstants DEF DateInv
      <3>3. QED BY <2>1, <3>1, <3>2, RetryAfterConstants
    <2>4. QED BY <1>0, <2>1, <2>2, <2>3, AnotherDay
  <1>2. CASE PreviousDay
    <2>1. /\ date' = Yesterday(date) /\ days' = days - 1 /\ weekday' = (weekday + 6) % 7
          /\ Yesterday(date).year >= FirstYear /\ Unparsed
      BY <1>2 DEF PreviousDay
    <2>2. weekday' = epoch_weekday(days - 1)
      BY <1>0, <2>1, DayNames DEF DateInv
    <2>3. Yesterday(date).year \in Nat
      <3>1. Yesterday(date).year \in {date.year, date.year - 1} /\ date.year \in Nat
        BY <1>0 DEF IsDate, Yesterday
      <3>2. QED BY <2>1, <3>1, RetryAfterConstants
    <2>4. IsDate(Yesterday(date)) /\ Count(Yesterday(date)) = days - 1
          /\ Yesterday(date).year <= date.year
      BY <1>0, <2>3, YesterdayCounts
    <2>5. Yesterday(date).year \in FirstYear..LastYear
      <3>1. date.year \in Nat /\ date.year <= LastYear
        BY RetryAfterConstants DEF DateInv
      <3>2. QED BY <2>1, <2>3, <2>4, <3>1, RetryAfterConstants
    <2>6. QED BY <2>1, <2>2, <2>4, <2>5, AnotherDay
  <1>3. CASE ParseHeaders
    <2>1. UNCHANGED <<date, days, weekday, forward>>
      BY <1>3 DEF ParseHeaders
    <2>2. FormulaCountsDays'
      BY <2>1 DEF DateInv, DatesExact, FormulaCountsDays
    <2>3. OnlyRealDates'
      <3>1. taken' = {x \in Monthly : header_instant(Header([date EXCEPT !.day = x[2]], x[1], <<0, 0, 0>>)) # <<>>}
        BY <1>3 DEF ParseHeaders
      <3>2. taken' = {x \in Monthly : /\ x[2] \in 1..MonthLength(date.year, date.month)
                                      /\ x[1] = (weekday + x[2] - date.day + 35) % 7}
        BY <3>1, MonthlyTaken
      <3>3. Monthly' = Monthly
        BY <2>1 DEF Monthly
      <3>4. QED BY <2>1, <3>2, <3>3 DEF OnlyRealDates
    <2>4. DelayIsExact'
      <3> SUFFICES ASSUME NEW x \in delays'
          PROVE  /\ x.by_date = IF Later(x.occasion) <= 0 THEN <<>> ELSE <<clamp(Later(x.occasion) * 1000)>>
                 /\ x.by_seconds = x.by_date
        BY DEF DelayIsExact
      <3>1. PICK o \in Occasions :
              x = [occasion |-> o, by_date |-> parse_retry_after(HeaderAt(o), NowAt(o)),
                   by_seconds |-> IF Later(o) <= 0 THEN <<>>
                                  ELSE parse_retry_after([form |-> "delta", seconds |-> Later(o)], NowAt(o))]
        BY <1>3 DEF ParseHeaders
      <3>2. /\ x.occasion = o /\ x.by_date = parse_retry_after(HeaderAt(o), NowAt(o))
            /\ x.by_seconds = IF Later(o) <= 0 THEN <<>>
                              ELSE parse_retry_after([form |-> "delta", seconds |-> Later(o)], NowAt(o))
        BY <3>1
      <3>3. /\ x.by_date = IF Later(o) <= 0 THEN <<>> ELSE <<clamp(Later(o) * 1000)>>
            /\ Later(o) \in Int /\ Later(o) <= 172800
        BY <3>2, DateDelay
      <3>4. Later(o) > 0 =>
              parse_retry_after([form |-> "delta", seconds |-> Later(o)], NowAt(o)) = <<clamp(Later(o) * 1000)>>
        BY <3>3, SecondsDelay
      <3>5. Later(o) <= 0 \/ Later(o) > 0
        BY <3>3
      <3>6. x.by_seconds = x.by_date
        <4>1. CASE Later(o) <= 0
          BY <3>2, <3>3, <4>1
        <4>2. CASE Later(o) > 0
          <5>1. ~(Later(o) <= 0)
            BY <3>3, <4>2
          <5>2. QED BY <3>2, <3>3, <3>4, <4>2, <5>1
        <4>3. QED BY <3>5, <4>1, <4>2
      <3>7. QED BY <3>2, <3>3, <3>6
    <2>5. QED BY <2>1, <2>2, <2>3, <2>4 DEF DateInv, DatesExact
  <1>4. CASE UNCHANGED dateVars
    BY <1>4 DEF dateVars, DateInv, DatesExact, FormulaCountsDays, OnlyRealDates, DelayIsExact, Monthly
  <1>5. QED BY <1>1, <1>2, <1>3, <1>4 DEF DateNext

\* For every range of years around 1970 and all times of day, leap seconds
\* included: the parser's closed formula (epoch_millis) counts the days of the
\* calendar, a date header is taken exactly when its date exists under its own
\* day's name (future_date_millis), and its delay is the exact time left.
THEOREM Calendar == DateSpec => []DatesExact
  <1>1. DateInv => DatesExact
    BY DEF DateInv
  <1>2. QED BY DateStart, DateStep, <1>1, PTL DEF DateSpec
=============================================================================

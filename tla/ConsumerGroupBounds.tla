------------------------- MODULE ConsumerGroupBounds -------------------------
(* How often a message is delivered, handled and copied: proofs about      *)
(* ConsumerGroup that count, for every number of consumers and recoverers. *)
EXTENDS ConsumerGroupProofs

(* Exactly the entries behind the group's cursor were delivered, and what  *)
(* a recoverer remembers of an entry is at most what Redis counts by now.  *)
CountsOK ==
  /\ \A m \in Messages : deliveries[m] > 0 <=> m <= lastDelivered
  /\ \A t \in RecoverThreads, m \in Messages : seen[t][m] <= deliveries[m]

(* Redis never counts a delivery back.                                     *)
LEMMA DeliveriesGrow ==
  ASSUME TypeOK, CountsOK, [Next]_vars
  PROVE  \A m \in Messages : deliveries[m] <= deliveries'[m]
<1>1. XReadGroup => \A m \in Messages : deliveries[m] <= deliveries'[m]
  <2> SUFFICES ASSUME XReadGroup, NEW m \in Messages
               PROVE  deliveries[m] <= deliveries'[m]
    OBVIOUS
  <2>1. CASE m \in Undelivered
    <3>1. lastDelivered < m /\ lastDelivered \in Int /\ m \in Int
      BY <2>1, ConstantsAssumption DEF Undelivered, TypeOK, Messages
    <3>2. ~ (deliveries[m] > 0)
      BY <3>1 DEF CountsOK
    <3> QED
      BY <2>1, <3>2 DEF XReadGroup, TypeOK
  <2>2. CASE m \notin Undelivered
    BY <2>2 DEF XReadGroup, TypeOK
  <2> QED
    BY <2>1, <2>2
<1>2. \A n \in Messages : XClaim(n) =>
        \A m \in Messages : deliveries[m] <= deliveries'[m]
  BY DEF XClaim, TypeOK
<1>3. deliveries' = deliveries => \A m \in Messages : deliveries[m] <= deliveries'[m]
  BY DEF TypeOK
<1> QED
  BY <1>1, <1>2, <1>3, StepEffects DEF XAck, XAddDead, vars, redis

(* A snapshot entry is kept, crossed off, or taken from what is pending    *)
(* and idle right now.                                                     *)
LEMMA SnapshotSteps ==
  ASSUME TypeOK, [Next]_vars, NEW t \in RecoverThreads, NEW m \in Messages
  PROVE  \/ seen'[t][m] = seen[t][m]
         \/ seen'[t][m] = 0
         \/ /\ Scan(t) /\ m \in pending /\ seen[t][m] = 0
            /\ seen'[t][m] = deliveries[m]
<1>1. ASSUME NEW u \in RecoverThreads, Scan(u)
      PROVE  \/ seen'[t][m] = seen[t][m]
             \/ seen'[t][m] = 0
             \/ /\ Scan(t) /\ m \in pending /\ seen[t][m] = 0
                /\ seen'[t][m] = deliveries[m]
  <2>1. seen' = [seen EXCEPT ![u] = [n \in Messages |->
                    IF n \in Claimable THEN deliveries[n] ELSE 0]]
    BY <1>1 DEF Scan
  <2>2. CASE u # t
    BY <2>1, <2>2 DEF TypeOK
  <2>3. CASE u = t /\ m \notin Claimable
    BY <2>1, <2>3 DEF TypeOK
  <2>4. CASE u = t /\ m \in Claimable
    <3>1. m \in pending
      BY <2>4 DEF Claimable, TypeOK
    <3>2. seen[t][m] = 0
      BY <1>1, <2>4 DEF Scan, Todo, TypeOK
    <3>3. seen'[t][m] = deliveries[m]
      BY <2>1, <2>4 DEF TypeOK
    <3> QED
      BY <1>1, <2>4, <3>1, <3>2, <3>3
  <2> QED
    BY <2>2, <2>3, <2>4
<1>2. ASSUME NEW u \in RecoverThreads, NEW n \in Messages, RecoverStep(u, n)
      PROVE  seen'[t][m] = seen[t][m] \/ seen'[t][m] = 0
  <2>1. Take(u, n)
    BY <1>2 DEF RecoverStep, Claim, ClaimNothing, ClaimReplyLost, DeadLetter,
                DeadLetterReplyLost, ClaimFails, DeadLetterFails
  <2> QED
    BY <2>1 DEF Take, TypeOK
<1>3. CASE \E c \in Consumers : Crash(c)
  BY <1>3 DEF Crash, Nothing
<1>4. CASE \E u \in Threads : HandlerStep(u) \/ AckStep(u)
  BY <1>4 DEF HandlerStep, HandlerSucceeds, HandlerFails, AckStep, Ack, AckFails
<1>5. CASE \E u \in Readers : ReaderStep(u)
  BY <1>5 DEF ReaderStep, Read, ReadReplyLost, ProcessNext
<1> QED
  BY <1>1, <1>2, <1>3, <1>4, <1>5 DEF Next, Publish, IdleTimePasses, vars

(* Every step keeps CountsOK.                                              *)
LEMMA CountsStep ==
  ASSUME TypeOK, CountsOK, [Next]_vars
  PROVE  CountsOK'
<1>1. TypeOK'
  BY TypeStep
<1>2. \A m \in Messages : deliveries'[m] > 0 <=> m <= lastDelivered'
  <2>1. CASE XReadGroup
    <3>1. /\ lastDelivered \in Nat /\ lastDelivered' \in Nat
          /\ lastDelivered' = IF lastDelivered + BatchSize <= added
                              THEN lastDelivered + BatchSize ELSE added
          /\ lastDelivered <= added /\ added \in Nat
      BY <1>1, <2>1, ConstantsAssumption DEF TypeOK, XReadGroup
    <3>2. \A m \in Messages :
            m \in Undelivered <=> lastDelivered < m /\ m <= lastDelivered'
      BY <3>1, ConstantsAssumption DEF Undelivered, Messages
    <3> QED
      BY <2>1, <3>1, <3>2, ConstantsAssumption
      DEF XReadGroup, CountsOK, Messages, TypeOK
  <2>2. ASSUME NEW n \in Messages, XClaim(n)
        PROVE  \A m \in Messages : deliveries'[m] > 0 <=> m <= lastDelivered'
    <3>1. n <= lastDelivered
      BY <2>2, ConstantsAssumption DEF XClaim, TypeOK
    <3> QED
      BY <2>2, <3>1 DEF XClaim, CountsOK, TypeOK
  <2>3. CASE UNCHANGED <<lastDelivered, deliveries>>
    BY <2>3 DEF CountsOK
  <2> QED
    BY <2>1, <2>2, <2>3, StepEffects DEF XAck, XAddDead, vars, redis
<1>3. \A t \in RecoverThreads, m \in Messages : seen'[t][m] <= deliveries'[m]
  <2> TAKE t \in RecoverThreads, m \in Messages
  <2>1. /\ deliveries[m] \in Nat /\ deliveries'[m] \in Nat
        /\ seen[t][m] \in Nat /\ seen[t][m] <= deliveries[m]
    BY <1>1 DEF CountsOK, TypeOK
  <2>2. deliveries[m] <= deliveries'[m]
    BY DeliveriesGrow
  <2>3. seen'[t][m] \in {seen[t][m], 0, deliveries[m]}
    BY SnapshotSteps
  <2> QED
    BY <2>1, <2>2, <2>3
<1> QED
  BY <1>2, <1>3 DEF CountsOK

(* CountsOK is an invariant.                                               *)
LEMMA CountsCorrect == Spec => []CountsOK
<1>1. Init => CountsOK
  BY DEF Init, CountsOK, Nothing, Messages
<1> QED
  BY <1>1, CountsStep, TypeCorrect, PTL DEF Spec

(* README.md:626 and the recovery example promise MaxRetries retries       *)
(* before a message is dead-lettered, which RetriedBeforeDead refutes.     *)
(* This much is true: the first delivery included, there were MaxRetries.  *)
DeliveredBeforeDead ==
  \A m \in Messages : dead[m] > 0 => deliveries[m] >= MaxRetries

(* No message goes to the dead-letter stream before it was delivered       *)
(* MaxRetries times, so retried MaxRetries - 1 times, although the         *)
(* recoverers decide from snapshots that others have outdated.             *)
THEOREM DeadOnlyAfterDeliveries == Spec => []DeliveredBeforeDead
<1>1. Init => DeliveredBeforeDead
  BY DEF Init, DeliveredBeforeDead, Nothing
<1>2. ASSUME TypeOK, CountsOK, DeliveredBeforeDead, [Next]_vars
      PROVE  DeliveredBeforeDead'
  <2> SUFFICES ASSUME NEW m \in Messages, dead'[m] > 0
               PROVE  deliveries'[m] >= MaxRetries
    BY DEF DeliveredBeforeDead
  <2>1. deliveries[m] <= deliveries'[m]
    BY <1>2, DeliveriesGrow
  <2>2. deliveries[m] >= MaxRetries
    <3>1. CASE dead' = dead
      BY <1>2, <3>1 DEF DeliveredBeforeDead
    <3>2. ASSUME NEW t \in RecoverThreads, NEW n \in Messages,
                 Exhausted(t, n), XAddDead(n)
          PROVE  deliveries[m] >= MaxRetries
      <4>1. CASE m = n
        BY <1>2, <3>2, <4>1, ConstantsAssumption
        DEF Exhausted, CountsOK, TypeOK
      <4>2. CASE m # n
        BY <1>2, <3>2, <4>2 DEF XAddDead, DeliveredBeforeDead, TypeOK
      <4> QED
        BY <4>1, <4>2
    <3> QED
      BY <1>2, <3>1, <3>2, StepEffects
      DEF XReadGroup, XClaim, XAck, vars, redis
  <2>3. deliveries'[m] \in Nat /\ deliveries[m] \in Nat
    BY <1>2, TypeStep DEF TypeOK
  <2> QED
    BY <2>1, <2>2, <2>3, ConstantsAssumption
<1> QED
  BY <1>1, <1>2, TypeCorrect, CountsCorrect, PTL DEF Spec

-----------------------------------------------------------------------------
(* No reader holds what another holds, what it holds was delivered to it   *)
(* for one handler call that is still to be made, and no call was made     *)
(* without a delivery.                                                     *)
BatchesOK ==
  /\ \A t, u \in Readers : t # u => batch[t] \cap batch[u] = {}
  /\ \A t \in Readers : \A m \in batch[t] :
       m <= lastDelivered /\ attempts[m] < deliveries[m]
  /\ \A m \in Messages : attempts[m] <= deliveries[m]

(* A step that hands out nothing new and calls no handler.                 *)
LEMMA BatchesShrink ==
  ASSUME TypeOK, BatchesOK, TypeOK',
         \A t \in Readers : batch'[t] \subseteq batch[t],
         \A m \in Messages : deliveries[m] <= deliveries'[m],
         attempts' = attempts, lastDelivered' >= lastDelivered
  PROVE  BatchesOK'
<1>1. \A t, u \in Readers : t # u => batch'[t] \cap batch'[u] = {}
  BY DEF BatchesOK
<1>2. \A t \in Readers : \A m \in batch'[t] :
        m <= lastDelivered' /\ attempts'[m] < deliveries'[m]
  <2> TAKE t \in Readers
  <2> TAKE m \in batch'[t]
  <2>1. m \in batch[t] /\ m \in Messages
    BY DEF TypeOK
  <2>2. /\ m \in Int /\ lastDelivered \in Int /\ lastDelivered' \in Int
        /\ attempts[m] \in Nat /\ deliveries[m] \in Nat /\ deliveries'[m] \in Nat
    BY <2>1, ConstantsAssumption DEF TypeOK, Messages
  <2> QED
    BY <2>1, <2>2 DEF BatchesOK
<1>3. \A m \in Messages : attempts'[m] <= deliveries'[m]
  BY DEF BatchesOK, TypeOK
<1> QED
  BY <1>1, <1>2, <1>3 DEF BatchesOK

(* A reader that starts a message of its batch.                            *)
LEMMA BatchesProcess ==
  ASSUME TypeOK, BatchesOK, NEW t \in Readers, ProcessNext(t)
  PROVE  BatchesOK'
<1>1. PICK m \in Messages : /\ First(m, batch[t])
                            /\ batch' = [batch EXCEPT ![t] = @ \ {m}]
                            /\ CallHandler(t, m)
  BY DEF ProcessNext
<1>2. m \in batch[t] /\ attempts[m] < deliveries[m]
  BY <1>1 DEF First, BatchesOK
<1>3. UNCHANGED <<deliveries, lastDelivered>>
  BY DEF ProcessNext, redis
<1>4. \A u \in Readers : m \notin batch'[u] /\ batch'[u] \subseteq batch[u]
  BY <1>1, <1>2 DEF BatchesOK, TypeOK
<1>5. \A n \in Messages : /\ n # m => attempts'[n] = attempts[n]
                          /\ attempts'[m] \in {attempts[m], attempts[m] + 1}
  BY <1>1 DEF CallHandler, history, TypeOK
<1>6. \A u \in Readers : \A n \in batch'[u] :
        n <= lastDelivered' /\ attempts'[n] < deliveries'[n]
  BY <1>3, <1>4, <1>5 DEF BatchesOK, TypeOK
<1>7. \A n \in Messages : attempts'[n] <= deliveries'[n]
  <2>1. attempts[m] + 1 <= deliveries[m]
    BY <1>2 DEF TypeOK
  <2> QED
    BY <1>2, <1>3, <1>5, <2>1 DEF BatchesOK, TypeOK
<1> QED
  BY <1>4, <1>6, <1>7 DEF BatchesOK

(* A reader that gets a new batch.                                         *)
LEMMA BatchesRead ==
  ASSUME TypeOK, CountsOK, BatchesOK, NEW t \in Readers, Read(t)
  PROVE  BatchesOK'
<1>r. XReadGroup /\ batch' = [batch EXCEPT ![t] = Undelivered]
      /\ attempts' = attempts /\ batch[t] = {}
  BY DEF Read, history
<1>0. lastDelivered \in Nat /\ lastDelivered' \in Nat
      /\ lastDelivered <= lastDelivered'
  BY <1>r, TypeStep, ReadSettlesNothing, ConstantsAssumption
  DEF TypeOK, Next, ReaderStep
<1>1. \A m \in Undelivered : m \in Messages /\ m \in Nat /\ lastDelivered < m
  BY ConstantsAssumption DEF Undelivered, Messages
<1>2. \A m \in Undelivered : m <= lastDelivered'
  BY <1>r, <1>0, ReadSettlesNothing
<1>3. \A u \in Readers : batch[u] \cap Undelivered = {}
  BY <1>0, <1>1 DEF BatchesOK, TypeOK
<1>4. \A m \in Undelivered : attempts[m] = 0 /\ deliveries'[m] = 1
  BY <1>r, <1>0, <1>1 DEF XReadGroup, BatchesOK, CountsOK, TypeOK
<1>5. \A m \in Messages \ Undelivered : deliveries'[m] = deliveries[m]
  BY <1>r DEF XReadGroup
<1>6. \A u, v \in Readers : u # v => batch'[u] \cap batch'[v] = {}
  BY <1>r, <1>3 DEF BatchesOK, TypeOK
<1>7. \A u \in Readers : \A m \in batch'[u] :
        m <= lastDelivered' /\ attempts'[m] < deliveries'[m]
  <2> SUFFICES ASSUME NEW u \in Readers, NEW m \in batch'[u]
               PROVE  m <= lastDelivered' /\ attempts'[m] < deliveries'[m]
    OBVIOUS
  <2>1. CASE m \in Undelivered
    BY <1>r, <1>2, <1>4, <2>1
  <2>2. CASE m \notin Undelivered
    <3>1. m \in batch[u] /\ m \in Messages /\ m \in Int
      BY <1>r, <2>2, ConstantsAssumption DEF TypeOK, Messages
    <3> QED
      BY <1>r, <1>0, <1>5, <2>2, <3>1 DEF BatchesOK
  <2> QED
    BY <2>1, <2>2
<1>8. \A m \in Messages : attempts'[m] <= deliveries'[m]
  BY <1>r, <1>4, <1>5 DEF BatchesOK
<1> QED
  BY <1>6, <1>7, <1>8 DEF BatchesOK

(* A claim adds one delivery and one attempt.                              *)
LEMMA BatchesClaim ==
  ASSUME TypeOK, BatchesOK, NEW t \in RecoverThreads, NEW m \in Messages,
         Claim(t, m)
  PROVE  BatchesOK'
<1>1. /\ deliveries' = [deliveries EXCEPT ![m] = @ + 1]
      /\ UNCHANGED <<batch, lastDelivered>>
      /\ attempts' \in {attempts, [attempts EXCEPT ![m] = @ + 1]}
  BY DEF Claim, Take, XClaim, CallHandler, history
<1>2. \A n \in Messages :
        /\ attempts[n] <= deliveries[n] => attempts'[n] <= deliveries'[n]
        /\ attempts[n] < deliveries[n] => attempts'[n] < deliveries'[n]
  BY <1>1 DEF TypeOK
<1> QED
  BY <1>1, <1>2 DEF BatchesOK, TypeOK

(* Every step keeps BatchesOK.                                             *)
LEMMA BatchesStep ==
  ASSUME TypeOK, CountsOK, BatchesOK, [Next]_vars
  PROVE  BatchesOK'
<1>1. TypeOK' /\ \A m \in Messages : deliveries[m] <= deliveries'[m]
  BY TypeStep, DeliveriesGrow
<1>2. lastDelivered' >= lastDelivered
  <2>1. lastDelivered \in Int
    BY ConstantsAssumption DEF TypeOK
  <2>2. XReadGroup => lastDelivered' >= lastDelivered
    BY <1>1, <2>1, ReadSettlesNothing, ConstantsAssumption DEF TypeOK
  <2> QED
    BY <2>1, <2>2, StepEffects DEF XClaim, XAck, XAddDead, vars, redis
<1>3. CASE \E t \in Readers : Read(t)
  BY <1>3, BatchesRead
<1>4. CASE \E t \in Readers : ProcessNext(t)
  BY <1>4, BatchesProcess
<1>5. CASE \E t \in RecoverThreads, m \in Messages : Claim(t, m)
  BY <1>5, BatchesClaim
<1>6. CASE \E c \in Consumers : Crash(c)
  <2>1. \A t \in Readers : batch'[t] \subseteq batch[t]
    BY <1>6 DEF Crash
  <2>2. attempts' = attempts
    BY <1>6 DEF Crash, history
  <2> QED
    BY <1>1, <1>2, <2>1, <2>2, BatchesShrink
<1>7. CASE UNCHANGED <<batch, attempts>>
  <2>1. \A t \in Readers : batch'[t] \subseteq batch[t]
    BY <1>7
  <2> QED
    BY <1>1, <1>2, <1>7, <2>1, BatchesShrink
<1> QED
  BY <1>3, <1>4, <1>5, <1>6, <1>7
  DEF Next, vars, history, Publish, IdleTimePasses, HandlerStep,
      HandlerSucceeds, HandlerFails, AckStep, Ack, AckFails, ReaderStep,
      ReadReplyLost, Scan, RecoverStep, ClaimNothing, ClaimReplyLost,
      DeadLetter, DeadLetterReplyLost, ClaimFails, DeadLetterFails, Take

(* BatchesOK is an invariant.                                              *)
LEMMA BatchesCorrect == Spec => []BatchesOK
<1>1. Init => BatchesOK
  BY DEF Init, BatchesOK, Nothing
<1> QED
  BY <1>1, BatchesStep, TypeCorrect, CountsCorrect, PTL DEF Spec

-----------------------------------------------------------------------------
(* The recoverers whose snapshot still allows a claim of m.                *)
RetryHolders(m) ==
  {t \in RecoverThreads : seen[t][m] > 0 /\ seen[t][m] < MaxRetries}

(* Every delivery beyond MaxRetries - 1 uses up the snapshot of another    *)
(* recoverer: nobody takes a new one that allows a claim by then.          *)
DeliveriesOK ==
  \A m \in Messages :
    IF Recoverers = {} THEN deliveries[m] <= 1
    ELSE deliveries[m] + Cardinality(RetryHolders(m))
           <= MaxRetries - 1 + Cardinality(RecoverThreads)

(* There are as many recovery threads as recovering consumers.             *)
LEMMA RecoverersCounted ==
  /\ IsFiniteSet(RecoverThreads)
  /\ Cardinality(RecoverThreads) = Cardinality(Recoverers)
  /\ Cardinality(RecoverThreads) \in Nat
  /\ Recoverers # {} => Cardinality(RecoverThreads) >= 1
  /\ Recoverers = {} <=> RecoverThreads = {}
<1>1. IsFiniteSet(Recoverers)
  BY ConstantsAssumption, FS_Subset
<1>2. IsFiniteSet({"recovery"}) /\ Cardinality({"recovery"}) = 1
  BY FS_Singleton
<1>3. Cardinality(Recoverers) \in Nat
  BY <1>1, FS_CardinalityType
<1>4. /\ IsFiniteSet(RecoverThreads)
      /\ Cardinality(RecoverThreads) = Cardinality(Recoverers) * 1
  BY <1>1, <1>2, FS_Product DEF RecoverThreads
<1>5. Recoverers # {} => Cardinality(Recoverers) # 0
  BY <1>1, FS_EmptySet
<1>6. Recoverers = {} <=> RecoverThreads = {}
  BY <1>1, <1>3, <1>4, FS_EmptySet
<1> QED
  BY <1>3, <1>4, <1>5, <1>6

(* A set of recoverers has a size, and a smaller set a smaller one.        *)
LEMMA CountOfSome ==
  ASSUME NEW S \in SUBSET RecoverThreads
  PROVE  /\ IsFiniteSet(S)
         /\ Cardinality(S) \in Nat
         /\ Cardinality(S) <= Cardinality(RecoverThreads)
         /\ \A T \in SUBSET S : Cardinality(T) <= Cardinality(S)
<1>1. IsFiniteSet(S) /\ Cardinality(S) <= Cardinality(RecoverThreads)
  BY RecoverersCounted, FS_Subset
<1>2. Cardinality(S) \in Nat
  BY <1>1, FS_CardinalityType
<1>3. \A T \in SUBSET S : Cardinality(T) <= Cardinality(S)
  BY <1>1, FS_Subset
<1> QED
  BY <1>1, <1>2, <1>3

(* Every step keeps DeliveriesOK.                                          *)
LEMMA DeliveriesStep ==
  ASSUME TypeOK, CountsOK, DeliveriesOK, [Next]_vars
  PROVE  DeliveriesOK'
<1> SUFFICES ASSUME NEW m \in Messages
             PROVE  IF Recoverers = {} THEN deliveries'[m] <= 1
                    ELSE deliveries'[m] + Cardinality(RetryHolders(m)')
                           <= MaxRetries - 1 + Cardinality(RecoverThreads)
  BY DEF DeliveriesOK
<1>t. /\ TypeOK' /\ deliveries[m] \in Nat /\ deliveries'[m] \in Nat
      /\ MaxRetries \in Nat \ {0}
  BY TypeStep, ConstantsAssumption DEF TypeOK
<1>f. /\ Cardinality(RecoverThreads) \in Nat
      /\ Recoverers # {} => Cardinality(RecoverThreads) >= 1
  BY RecoverersCounted
<1>h. /\ RetryHolders(m) \subseteq RecoverThreads
      /\ RetryHolders(m)' \subseteq RecoverThreads
  BY DEF RetryHolders
<1>c. /\ IsFiniteSet(RetryHolders(m))
      /\ Cardinality(RetryHolders(m)) \in Nat
      /\ Cardinality(RetryHolders(m)') \in Nat
      /\ Cardinality(RetryHolders(m)') <= Cardinality(RecoverThreads)
      /\ RetryHolders(m)' \subseteq RetryHolders(m) =>
           Cardinality(RetryHolders(m)') <= Cardinality(RetryHolders(m))
  BY <1>h, CountOfSome
<1>1. CASE ~ (RetryHolders(m)' \subseteq RetryHolders(m))
  <2>1. PICK t \in RecoverThreads : t \in RetryHolders(m)' /\ t \notin RetryHolders(m)
    BY <1>1, <1>h
  <2>2. Scan(t) /\ seen'[t][m] = deliveries[m]
    BY <2>1, SnapshotSteps DEF RetryHolders
  <2>3. deliveries' = deliveries /\ deliveries[m] < MaxRetries
    BY <2>1, <2>2 DEF Scan, redis, RetryHolders
  <2>4. Recoverers # {}
    BY <2>1, RecoverersCounted
  <2> QED
    BY <1>t, <1>f, <1>c, <2>3, <2>4
<1>2. CASE RetryHolders(m)' \subseteq RetryHolders(m) /\ deliveries'[m] = deliveries[m]
  BY <1>t, <1>f, <1>c, <1>2 DEF DeliveriesOK
<1>3. CASE RetryHolders(m)' \subseteq RetryHolders(m) /\ XReadGroup
           /\ m \in Undelivered
  <2>1. deliveries'[m] = 1 /\ deliveries[m] = 0
    BY <1>3, <1>t, ConstantsAssumption
    DEF XReadGroup, CountsOK, Undelivered, TypeOK, Messages
  <2>2. RetryHolders(m) = {}
    BY <2>1 DEF RetryHolders, CountsOK, TypeOK
  <2>3. Cardinality(RetryHolders(m)') = 0
    BY <1>3, <2>2, FS_EmptySet
  <2> QED
    BY <1>t, <1>f, <2>1, <2>3
<1>4. ASSUME NEW t \in RecoverThreads, Take(t, m), MayRetry(t, m), XClaim(m),
             RetryHolders(m)' \subseteq RetryHolders(m)
      PROVE  /\ Recoverers # {}
             /\ deliveries'[m] + Cardinality(RetryHolders(m)')
                  <= MaxRetries - 1 + Cardinality(RecoverThreads)
  <2>1. t \in RetryHolders(m)
    BY <1>4 DEF Take, First, Todo, MayRetry, RetryHolders
  <2>2. t \notin RetryHolders(m)'
    BY <1>4 DEF Take, RetryHolders, TypeOK
  <2>3. RetryHolders(m)' \subseteq RetryHolders(m) \ {t}
    BY <1>4, <2>2
  <2>4. /\ Cardinality(RetryHolders(m) \ {t}) = Cardinality(RetryHolders(m)) - 1
        /\ Cardinality(RetryHolders(m)') <= Cardinality(RetryHolders(m) \ {t})
        /\ Cardinality(RetryHolders(m) \ {t}) \in Nat
    BY <1>h, <1>c, <2>1, <2>3, FS_RemoveElement, CountOfSome
  <2>5. deliveries'[m] = deliveries[m] + 1
    BY <1>4 DEF XClaim, TypeOK
  <2>6. Recoverers # {}
    BY <1>4, RecoverersCounted
  <2> QED
    BY <1>t, <1>f, <1>c, <2>4, <2>5, <2>6 DEF DeliveriesOK
<1>5. \/ deliveries'[m] = deliveries[m]
      \/ XReadGroup /\ m \in Undelivered
      \/ \E t \in RecoverThreads : Take(t, m) /\ MayRetry(t, m) /\ XClaim(m)
  <2>1. XReadGroup => deliveries'[m] = deliveries[m] \/ m \in Undelivered
    BY DEF XReadGroup
  <2>2. \A n \in Messages : XClaim(n) => deliveries'[m] = deliveries[m] \/ m = n
    BY DEF XClaim, TypeOK
  <2> QED
    BY <2>1, <2>2, StepEffects DEF XAck, XAddDead, vars, redis
<1> QED
  BY <1>1, <1>2, <1>3, <1>4, <1>5

(* The handler is called at most once per delivery, and a message is       *)
(* delivered at most MaxRetries - 1 times plus once per recoverer, however *)
(* old the snapshots are.                                                  *)
THEOREM AttemptsAreBounded == Spec => []AttemptsBounded
<1>1. Init => DeliveriesOK
  <2> SUFFICES ASSUME Init, NEW m \in Messages
               PROVE  IF Recoverers = {} THEN deliveries[m] <= 1
                      ELSE deliveries[m] + Cardinality(RetryHolders(m))
                             <= MaxRetries - 1 + Cardinality(RecoverThreads)
    BY DEF DeliveriesOK
  <2>1. deliveries[m] = 0 /\ RetryHolders(m) = {}
    BY DEF Init, Nothing, RetryHolders
  <2>2. Cardinality(RetryHolders(m)) = 0
    BY <2>1, FS_EmptySet
  <2> QED
    BY <2>1, <2>2, RecoverersCounted, ConstantsAssumption
<1>2. ASSUME TypeOK, BatchesOK, DeliveriesOK PROVE AttemptsBounded
  <2> SUFFICES ASSUME NEW m \in Messages
               PROVE  attempts[m] <= deliveries[m] /\ deliveries[m] <= MaxDeliveries
    BY DEF AttemptsBounded
  <2>1. RetryHolders(m) \subseteq RecoverThreads
    BY DEF RetryHolders
  <2>2. Cardinality(RetryHolders(m)) \in Nat
    BY <2>1, CountOfSome
  <2> QED
    BY <1>2, <2>2, RecoverersCounted, ConstantsAssumption
    DEF BatchesOK, DeliveriesOK, MaxDeliveries, TypeOK
<1> QED
  BY <1>1, <1>2, DeliveriesStep, TypeCorrect, CountsCorrect, BatchesCorrect, PTL
  DEF Spec

-----------------------------------------------------------------------------
(* The recoverers whose snapshot sends m to the dead-letter stream, and    *)
(* those that wrote their copy and have not acknowledged m yet.            *)
BuryHolders(m) == {t \in RecoverThreads : Exhausted(t, m)}
Burying(m)     == {t \in RecoverThreads : pc[t] = "dead" /\ cur[t] = m}

(* A copy uses up the snapshot of one recoverer.  While m is pending, the  *)
(* recoverers that may still take a new snapshot of m have left nothing    *)
(* behind but the copies of faults.                                        *)
CopiesOK ==
  /\ \A m \in Messages :
       dead[m] + Cardinality(BuryHolders(m))
         <= faults + Cardinality(RecoverThreads)
  /\ \A m \in pending : dead[m] <= faults + Cardinality(Burying(m))
  /\ \A t \in RecoverThreads : pc[t] = "dead" => seen[t][cur[t]] = 0

(* A step injects at most one fault.                                       *)
LEMMA FaultsStep ==
  ASSUME TypeOK, [Next]_vars
  PROVE  faults' = faults \/ faults' = faults + 1
BY DEF Next, vars, Publish, IdleTimePasses, HandlerStep, HandlerSucceeds,
       HandlerFails, AckStep, Ack, AckFails, ReaderStep, Read, ReadReplyLost,
       ProcessNext, Scan, RecoverStep, Claim, ClaimNothing, ClaimReplyLost,
       DeadLetter, DeadLetterReplyLost, ClaimFails, DeadLetterFails, Crash, Fault

(* A recoverer that wrote a copy goes on by acknowledging, or by a fault.  *)
LEMMA BuryingSteps ==
  ASSUME TypeOK, [Next]_vars, NEW t \in RecoverThreads, pc[t] = "dead"
  PROVE  /\ \/ pc'[t] = pc[t] /\ cur'[t] = cur[t] /\ seen'[t] = seen[t]
            \/ pc'[t] # "dead" /\ Ack(t)
            \/ pc'[t] # "dead" /\ faults' = faults + 1
               /\ (AckFails(t) \/ Crash(t[1]))
         /\ seen'[t] = seen[t] \/ pc'[t] # "dead"
<1>t. /\ pc \in [Threads -> {"loop", "handle", "ack", "dead"}]
      /\ cur \in [Threads -> Messages \cup {None}]
      /\ seen \in [RecoverThreads -> [Messages -> Nat]]
      /\ t \in Threads
  BY ThreadKinds DEF TypeOK
<1>1. ASSUME NEW u \in Threads, HandlerStep(u) \/ AckStep(u)
      PROVE  \/ pc'[t] = pc[t] /\ cur'[t] = cur[t] /\ seen'[t] = seen[t]
             \/ pc'[t] # "dead" /\ Ack(t)
             \/ pc'[t] # "dead" /\ faults' = faults + 1 /\ AckFails(t)
  <2>1. CASE u = t
    BY <1>1, <1>t, <2>1
    DEF HandlerStep, HandlerSucceeds, HandlerFails, AckStep, Ack, AckFails,
        Fault, Goto
  <2>2. CASE u # t
    BY <1>1, <1>t, <2>2
    DEF HandlerStep, HandlerSucceeds, HandlerFails, AckStep, Ack, AckFails, Goto
  <2> QED
    BY <2>1, <2>2
<1>2. ASSUME NEW u \in Threads, u # t, NEW m \in Messages, CallHandler(u, m)
      PROVE  pc'[t] = pc[t] /\ cur'[t] = cur[t]
  BY <1>2, <1>t DEF CallHandler, Goto
<1>3. ASSUME NEW u \in Readers, ReaderStep(u)
      PROVE  pc'[t] = pc[t] /\ cur'[t] = cur[t] /\ seen'[t] = seen[t]
  BY <1>2, <1>3, ThreadKinds DEF ReaderStep, Read, ReadReplyLost, ProcessNext
<1>4. ASSUME NEW u \in RecoverThreads, Scan(u)
      PROVE  pc'[t] = pc[t] /\ cur'[t] = cur[t] /\ seen'[t] = seen[t]
  BY <1>4, <1>t DEF Scan
<1>5. ASSUME NEW u \in RecoverThreads, NEW m \in Messages, RecoverStep(u, m)
      PROVE  pc'[t] = pc[t] /\ cur'[t] = cur[t] /\ seen'[t] = seen[t]
  <2>1. Take(u, m)
    BY <1>5 DEF RecoverStep, Claim, ClaimNothing, ClaimReplyLost, DeadLetter,
                DeadLetterReplyLost, ClaimFails, DeadLetterFails
  <2>2. u # t /\ seen'[t] = seen[t]
    BY <2>1, <1>t DEF Take
  <2> QED
    BY <1>5, <1>2, <1>t, <2>2, ThreadKinds
    DEF RecoverStep, Claim, ClaimNothing, ClaimReplyLost, DeadLetter,
        DeadLetterReplyLost, ClaimFails, DeadLetterFails, Goto
<1>6. ASSUME NEW c \in Consumers, Crash(c)
      PROVE  \/ pc'[t] = pc[t] /\ cur'[t] = cur[t] /\ seen'[t] = seen[t]
             \/ pc'[t] # "dead" /\ faults' = faults + 1 /\ Crash(t[1])
  BY <1>6, <1>t DEF Crash, Fault
<1> QED
  BY <1>1, <1>3, <1>4, <1>5, <1>6 DEF Next, Publish, IdleTimePasses, vars

(* All but at most one recoverer go on burying m, and that one exception   *)
(* comes with a fault or with the acknowledgement of m.                    *)
LEMMA BuryingLeft ==
  ASSUME TypeOK, [Next]_vars, NEW m \in Messages
  PROVE  \/ Burying(m) \subseteq Burying(m)'
         \/ m \notin pending'
         \/ /\ faults' = faults + 1
            /\ \E t \in Burying(m) : Burying(m) \ {t} \subseteq Burying(m)'
<1> SUFFICES ASSUME NEW t \in Burying(m), t \notin Burying(m)'
             PROVE  \/ m \notin pending'
                    \/ /\ faults' = faults + 1
                       /\ Burying(m) \ {t} \subseteq Burying(m)'
  BY DEF Burying
<1>t. t \in RecoverThreads /\ pc[t] = "dead" /\ cur[t] = m /\ t \in Threads
  BY ThreadKinds DEF Burying
<1>1. CASE Ack(t)
  BY <1>1, <1>t DEF Ack, XAck
<1>2. CASE faults' = faults + 1 /\ AckFails(t)
  <2>1. \A u \in Threads : u # t => pc'[u] = pc[u] /\ cur'[u] = cur[u]
    BY <1>2 DEF AckFails, Goto, TypeOK
  <2> QED
    BY <1>2, <2>1, ThreadKinds DEF Burying
<1>3. CASE faults' = faults + 1 /\ Crash(t[1])
  <2>1. \A u \in RecoverThreads : u # t => u[1] # t[1]
    BY <1>t DEF RecoverThreads
  <2>2. \A u \in RecoverThreads : u # t => pc'[u] = pc[u] /\ cur'[u] = cur[u]
    BY <1>3, <2>1, ThreadKinds DEF Crash
  <2> QED
    BY <1>3, <2>2 DEF Burying
<1> QED
  BY <1>1, <1>2, <1>3, <1>t, BuryingSteps DEF Burying

(* The sets CopiesOK counts are finite.                                    *)
LEMMA CopyCounts ==
  ASSUME NEW m \in Messages
  PROVE  /\ BuryHolders(m) \in SUBSET RecoverThreads
         /\ BuryHolders(m)' \in SUBSET RecoverThreads
         /\ Burying(m) \in SUBSET RecoverThreads
         /\ Burying(m)' \in SUBSET RecoverThreads
         /\ Cardinality(BuryHolders(m)) \in Nat
         /\ Cardinality(BuryHolders(m)') \in Nat
         /\ Cardinality(Burying(m)) \in Nat
         /\ Cardinality(Burying(m)') \in Nat
<1>1. /\ BuryHolders(m) \in SUBSET RecoverThreads
      /\ BuryHolders(m)' \in SUBSET RecoverThreads
      /\ Burying(m) \in SUBSET RecoverThreads
      /\ Burying(m)' \in SUBSET RecoverThreads
  BY DEF BuryHolders, Burying
<1> QED
  BY <1>1, CountOfSome

(* First conjunct: the copies and the snapshots that will make more.       *)
LEMMA CopiesHeld ==
  ASSUME TypeOK, CopiesOK, [Next]_vars, NEW m \in Messages
  PROVE  dead'[m] + Cardinality(BuryHolders(m)')
           <= faults' + Cardinality(RecoverThreads)
<1>t. /\ dead[m] \in Nat /\ dead'[m] \in Nat /\ faults \in Nat
      /\ faults' \in Nat /\ faults <= faults'
      /\ Cardinality(RecoverThreads) \in Nat
      /\ dead[m] + Cardinality(BuryHolders(m)) <= faults + Cardinality(RecoverThreads)
  BY TypeStep, FaultsStep, RecoverersCounted, ConstantsAssumption
  DEF TypeOK, CopiesOK
<1>c. /\ IsFiniteSet(BuryHolders(m))
      /\ Cardinality(BuryHolders(m)) \in Nat /\ Cardinality(BuryHolders(m)') \in Nat
  BY CopyCounts, CountOfSome
<1>1. ASSUME NEW t \in BuryHolders(m)', t \notin BuryHolders(m)
      PROVE  dead'[m] + Cardinality(BuryHolders(m)')
               <= faults' + Cardinality(RecoverThreads)
  <2>1. t \in RecoverThreads /\ Scan(t) /\ m \in pending
    BY <1>1, SnapshotSteps, ConstantsAssumption
    DEF BuryHolders, Exhausted, TypeOK
  <2>2. /\ UNCHANGED <<dead, faults>> /\ Burying(m)' = Burying(m)
        /\ \A u \in RecoverThreads : u # t => seen'[u] = seen[u]
        /\ t \notin Burying(m)
    BY <2>1 DEF Scan, redis, Burying, TypeOK
  <2>3. \A u \in Burying(m) : u \notin BuryHolders(m)'
    BY <2>2, ConstantsAssumption
    DEF CopiesOK, Burying, BuryHolders, Exhausted
  <2>4. Cardinality(BuryHolders(m)' \cup Burying(m)) <= Cardinality(RecoverThreads)
    BY CopyCounts, CountOfSome
  <2>5. BuryHolders(m)' \cap Burying(m) = {}
    BY <2>3
  <2>6. Cardinality(BuryHolders(m)' \cup Burying(m))
          = Cardinality(BuryHolders(m)') + Cardinality(Burying(m))
    <3>1. IsFiniteSet(BuryHolders(m)') /\ IsFiniteSet(Burying(m))
      BY CopyCounts, CountOfSome
    <3>2. Cardinality(BuryHolders(m)' \cap Burying(m)) = 0
      BY <2>5, FS_EmptySet
    <3>3. Cardinality(BuryHolders(m)' \cup Burying(m))
            = Cardinality(BuryHolders(m)') + Cardinality(Burying(m))
                - Cardinality(BuryHolders(m)' \cap Burying(m))
      BY <3>1, FS_Union
    <3> QED
      BY <3>2, <3>3, CopyCounts
  <2>7. dead[m] <= faults + Cardinality(Burying(m))
    BY <2>1 DEF CopiesOK
  <2> QED
    BY <1>t, <2>2, <2>4, <2>6, <2>7, CopyCounts
<1>2. CASE BuryHolders(m)' \subseteq BuryHolders(m) /\ dead'[m] = dead[m]
  <2>1. Cardinality(BuryHolders(m)') <= Cardinality(BuryHolders(m))
    BY <1>2, CopyCounts, CountOfSome
  <2> QED
    BY <1>t, <1>c, <1>2, <2>1
<1>3. ASSUME NEW t \in RecoverThreads, Take(t, m), Exhausted(t, m), XAddDead(m),
             BuryHolders(m)' \subseteq BuryHolders(m)
      PROVE  dead'[m] + Cardinality(BuryHolders(m)')
               <= faults' + Cardinality(RecoverThreads)
  <2>1. t \in BuryHolders(m) /\ t \notin BuryHolders(m)'
    BY <1>3, ConstantsAssumption DEF BuryHolders, Exhausted, Take, TypeOK
  <2>2. Cardinality(BuryHolders(m)') <= Cardinality(BuryHolders(m) \ {t})
    BY <1>3, <2>1, CopyCounts, CountOfSome
  <2>3. Cardinality(BuryHolders(m) \ {t}) = Cardinality(BuryHolders(m)) - 1
    BY <1>c, <2>1, FS_RemoveElement
  <2>4. dead'[m] = dead[m] + 1
    BY <1>3 DEF XAddDead, TypeOK
  <2> QED
    BY <1>t, <1>c, <2>2, <2>3, <2>4
<1>4. \/ dead'[m] = dead[m]
      \/ \E t \in RecoverThreads : Take(t, m) /\ Exhausted(t, m) /\ XAddDead(m)
  <2>1. \A n \in Messages : XAddDead(n) => dead'[m] = dead[m] \/ m = n
    BY DEF XAddDead, TypeOK
  <2> QED
    BY <2>1, StepEffects DEF XReadGroup, XClaim, XAck, vars, redis
<1> QED
  BY <1>1, <1>2, <1>3, <1>4

(* Second conjunct: while m is pending.                                    *)
LEMMA CopiesWhilePending ==
  ASSUME TypeOK, CountsOK, DeliveredBeforeDead, CopiesOK, [Next]_vars,
         NEW m \in pending'
  PROVE  dead'[m] <= faults' + Cardinality(Burying(m)')
<1>m. m \in Messages /\ m \in Int /\ lastDelivered \in Int
  <2>1. TypeOK'
    BY TypeStep
  <2>2. /\ added' \in 0..MaxMessages /\ lastDelivered' \in 0..added'
        /\ m \in 1..lastDelivered'
    BY <2>1 DEF TypeOK
  <2> QED
    BY <2>2, ConstantsAssumption DEF TypeOK, Messages
<1>t. /\ dead[m] \in Nat /\ dead'[m] \in Nat /\ faults \in Nat
      /\ faults' \in Nat /\ faults <= faults'
      /\ Cardinality(Burying(m)) \in Nat /\ Cardinality(Burying(m)') \in Nat
  BY <1>m, TypeStep, FaultsStep, CopyCounts, ConstantsAssumption DEF TypeOK
<1>1. CASE m \notin pending
  <2>1. XReadGroup /\ m \in Undelivered
    BY <1>1, StepEffects DEF XReadGroup, XClaim, XAck, XAddDead, vars, redis
  <2>2. deliveries[m] = 0
    BY <2>1, <1>m DEF Undelivered, CountsOK, TypeOK
  <2>3. dead[m] = 0
    BY <1>m, <1>t, <2>2, ConstantsAssumption DEF DeliveredBeforeDead
  <2> QED
    BY <1>t, <2>1, <2>3 DEF XReadGroup
<1>2. CASE m \in pending /\ dead'[m] = dead[m]
  <2>1. dead[m] <= faults + Cardinality(Burying(m))
    BY <1>2 DEF CopiesOK
  <2>2. CASE Burying(m) \subseteq Burying(m)'
    <3>1. Cardinality(Burying(m)) <= Cardinality(Burying(m)')
      BY <1>m, <2>2, CopyCounts, CountOfSome
    <3> QED
      BY <1>t, <1>2, <2>1, <3>1
  <2>3. ASSUME faults' = faults + 1, NEW t \in Burying(m),
               Burying(m) \ {t} \subseteq Burying(m)'
        PROVE  dead'[m] <= faults' + Cardinality(Burying(m)')
    <3>1. Cardinality(Burying(m) \ {t}) <= Cardinality(Burying(m)')
      BY <1>m, <2>3, CopyCounts, CountOfSome
    <3>2. IsFiniteSet(Burying(m))
      BY <1>m, CopyCounts, CountOfSome
    <3>3. Cardinality(Burying(m) \ {t}) = Cardinality(Burying(m)) - 1
      BY <3>2, FS_RemoveElement
    <3> QED
      BY <1>t, <1>2, <2>1, <2>3, <3>1, <3>3
  <2> QED
    BY <1>m, <2>2, <2>3, BuryingLeft
<1>3. ASSUME m \in pending, NEW t \in RecoverThreads, Take(t, m), XAddDead(m),
             DeadLetter(t, m) \/ DeadLetterReplyLost(t, m)
      PROVE  dead'[m] <= faults' + Cardinality(Burying(m)')
  <2>1. dead'[m] = dead[m] + 1 /\ dead[m] <= faults + Cardinality(Burying(m))
    BY <1>3, <1>m DEF XAddDead, CopiesOK, TypeOK
  <2>2. t \notin Burying(m)
    BY <1>3 DEF Take, Burying
  <2>3. CASE DeadLetter(t, m)
    <3>1. Burying(m)' = Burying(m) \cup {t}
      BY <2>3, ThreadKinds DEF DeadLetter, Goto, Burying, TypeOK
    <3>2. IsFiniteSet(Burying(m))
      BY <1>m, CopyCounts, CountOfSome
    <3>3. Cardinality(Burying(m)') = Cardinality(Burying(m)) + 1
      BY <2>2, <3>1, <3>2, FS_AddElement
    <3> QED
      BY <1>t, <2>1, <3>3
  <2>4. CASE DeadLetterReplyLost(t, m)
    <3>1. faults' = faults + 1 /\ Burying(m)' = Burying(m)
      BY <2>4 DEF DeadLetterReplyLost, Fault, Burying
    <3> QED
      BY <1>t, <2>1, <3>1
  <2> QED
    BY <1>3, <2>3, <2>4
<1>4. \/ dead'[m] = dead[m]
      \/ \E t \in RecoverThreads :
           /\ Take(t, m) /\ XAddDead(m)
           /\ DeadLetter(t, m) \/ DeadLetterReplyLost(t, m)
  <2>1. \A n \in Messages : XAddDead(n) => dead'[m] = dead[m] \/ m = n
    BY <1>m DEF XAddDead, TypeOK
  <2> QED
    BY <2>1, StepEffects DEF XReadGroup, XClaim, XAck, vars, redis
<1> QED
  BY <1>1, <1>2, <1>3, <1>4

(* Every step keeps CopiesOK.                                              *)
LEMMA CopiesStep ==
  ASSUME TypeOK, CountsOK, DeliveredBeforeDead, CopiesOK, [Next]_vars
  PROVE  CopiesOK'
<1>1. ASSUME NEW t \in RecoverThreads, pc'[t] = "dead"
      PROVE  seen'[t][cur'[t]] = 0
  <2>1. CASE pc'[t] = pc[t] /\ cur'[t] = cur[t]
    BY <1>1, <2>1, BuryingSteps DEF CopiesOK
  <2>2. ASSUME NEW m \in Messages, DeadLetter(t, m)
        PROVE  seen'[t][cur'[t]] = 0
    BY <2>2, ThreadKinds DEF DeadLetter, Take, Goto, TypeOK
  <2> QED
    BY <1>1, <2>1, <2>2, StepControl, ThreadKinds
<1> QED
  BY <1>1, CopiesHeld, CopiesWhilePending DEF CopiesOK

(* The dead-letter stream holds at most one copy of a message per          *)
(* recoverer, plus one per fault: recoverers do not keep copying it.       *)
THEOREM DeadCopiesAreBounded == Spec => []DeadCopiesBounded
<1>1. Init => CopiesOK
  <2> SUFFICES ASSUME Init PROVE CopiesOK
    OBVIOUS
  <2>1. ASSUME NEW m \in Messages
        PROVE  dead[m] + Cardinality(BuryHolders(m))
                 <= faults + Cardinality(RecoverThreads)
    <3>1. BuryHolders(m) = {}
      BY ConstantsAssumption DEF Init, BuryHolders, Exhausted, Nothing
    <3> QED
      BY <3>1, FS_EmptySet, RecoverersCounted DEF Init, Nothing
  <2> QED
    BY <2>1, ThreadKinds DEF Init, CopiesOK
<1>2. ASSUME TypeOK, CopiesOK PROVE DeadCopiesBounded
  <2> SUFFICES ASSUME NEW m \in Messages
               PROVE  dead[m] <= Cardinality(Recoverers) + faults
    BY DEF DeadCopiesBounded
  <2> QED
    BY <1>2, CopyCounts, RecoverersCounted, ConstantsAssumption
    DEF CopiesOK, TypeOK
<1> QED
  BY <1>1, <1>2, CopiesStep, TypeCorrect, CountsCorrect, DeadOnlyAfterDeliveries, PTL
  DEF Spec

-----------------------------------------------------------------------------
(* What a reader was given and has not finished.  No entry is with two     *)
(* readers: XREADGROUP moved the cursor past it, and recovery calls the    *)
(* handler itself.                                                         *)
Held(t) == batch[t] \cup (IF pc[t] = "handle" THEN {cur[t]} ELSE {})

ReadersApart ==
  /\ \A t, u \in Readers : t # u => Held(t) \cap Held(u) = {}
  /\ \A t \in Readers : \A m \in Held(t) : m <= lastDelivered

(* A step in which no reader is given anything.                            *)
LEMMA HeldShrinks ==
  ASSUME TypeOK, TypeOK', ReadersApart, lastDelivered <= lastDelivered',
         \A t \in Readers : Held(t)' \subseteq Held(t)
  PROVE  ReadersApart'
<1>1. \A t \in Readers : \A m \in Held(t)' : m <= lastDelivered'
  <2> SUFFICES ASSUME NEW t \in Readers, NEW m \in Held(t)'
               PROVE  m <= lastDelivered'
    OBVIOUS
  <2>1. m \in Held(t) /\ t \in Threads
    BY DEF Threads
  <2>2. m \in Int /\ lastDelivered \in Int /\ lastDelivered' \in Int
    BY <2>1, ConstantsAssumption DEF Held, TypeOK, Messages, None
  <2> QED
    BY <2>1, <2>2 DEF ReadersApart
<1> QED
  BY <1>1 DEF ReadersApart

(* A reader that is given a batch: nobody has any of it.                   *)
LEMMA HeldRead ==
  ASSUME TypeOK, ReadersApart, NEW t \in Readers, Read(t),
         lastDelivered <= lastDelivered', lastDelivered' \in Nat
  PROVE  ReadersApart'
<1>1. XReadGroup /\ batch' = [batch EXCEPT ![t] = Undelivered] /\ UNCHANGED <<pc, cur>>
  BY DEF Read
<1>2. \A u \in Readers :
        Held(u)' = IF u = t THEN Held(t)' ELSE Held(u)
  BY <1>1 DEF Held, TypeOK
<1>3. Held(t)' \subseteq Held(t) \cup Undelivered
  BY <1>1 DEF Held, TypeOK
<1>4. \A m \in Undelivered : lastDelivered < m /\ m <= lastDelivered'
  BY <1>1, ReadSettlesNothing, ConstantsAssumption DEF Undelivered
<1>5. \A u \in Readers : \A m \in Held(u) :
        m \in Int /\ m <= lastDelivered /\ m <= lastDelivered'
  <2> SUFFICES ASSUME NEW u \in Readers, NEW m \in Held(u)
               PROVE  m \in Int /\ m <= lastDelivered /\ m <= lastDelivered'
    OBVIOUS
  <2>1. m \in Int /\ lastDelivered \in Int
    BY ConstantsAssumption DEF Held, TypeOK, Messages, None, Threads
  <2> QED
    BY <2>1 DEF ReadersApart
<1>6. \A u \in Readers : Held(u) \cap Undelivered = {}
  <2>1. lastDelivered \in Int
    BY ConstantsAssumption DEF TypeOK
  <2>2. \A m \in Undelivered : m \in Int
    BY ConstantsAssumption DEF Undelivered, Messages
  <2> QED
    BY <1>4, <1>5, <2>1, <2>2
<1> QED
  BY <1>2, <1>3, <1>4, <1>5, <1>6 DEF ReadersApart

(* Every step keeps the readers apart.                                     *)
LEMMA ReadersStep ==
  ASSUME TypeOK, ReadersApart, [Next]_vars
  PROVE  ReadersApart'
<1>1. TypeOK' /\ lastDelivered' \in Nat
  BY TypeStep, ConstantsAssumption DEF TypeOK
<1>2. lastDelivered <= lastDelivered'
  <2>1. lastDelivered \in Int
    BY ConstantsAssumption DEF TypeOK
  <2>2. XReadGroup => lastDelivered' >= lastDelivered
    BY <1>1, <2>1, ReadSettlesNothing, ConstantsAssumption DEF TypeOK
  <2> QED
    BY <2>1, <2>2, <1>1, StepEffects DEF XClaim, XAck, XAddDead, vars, redis
<1>3. ASSUME NEW u \in Readers, Read(u) PROVE ReadersApart'
  BY <1>1, <1>2, <1>3, HeldRead
<1>4. ASSUME NEW u \in Readers, ProcessNext(u)
      PROVE  \A t \in Readers : Held(t)' \subseteq Held(t)
  <2>1. PICK m \in Messages : /\ First(m, batch[u])
                              /\ batch' = [batch EXCEPT ![u] = @ \ {m}]
                              /\ CallHandler(u, m)
    BY <1>4 DEF ProcessNext
  <2>2. m \in batch[u]
    BY <2>1 DEF First
  <2> QED
    BY <2>1, <2>2 DEF CallHandler, Goto, Held, TypeOK, Threads
<1>5. ASSUME NEW u \in Threads, HandlerStep(u) \/ AckStep(u)
      PROVE  \A t \in Readers : Held(t)' \subseteq Held(t)
  <2>1. batch' = batch /\ \E where \in {"ack", "loop"}, m \in Messages \cup {None} :
                            Goto(u, where, m)
    BY <1>5 DEF HandlerStep, HandlerSucceeds, HandlerFails, AckStep, Ack, AckFails, TypeOK
  <2> QED
    BY <2>1 DEF Goto, Held, TypeOK, Threads
<1>6. ASSUME NEW u \in RecoverThreads, NEW m \in Messages, RecoverStep(u, m)
      PROVE  \A t \in Readers : Held(t)' \subseteq Held(t)
  <2>1. batch' = batch /\ \A t \in Readers : t # u
    BY <1>6 DEF RecoverStep, Claim, ClaimNothing, ClaimReplyLost, DeadLetter,
                DeadLetterReplyLost, ClaimFails, DeadLetterFails, Take, Readers,
                RecoverThreads
  <2>2. UNCHANGED <<pc, cur>> \/ \E where \in {"handle", "dead"} : Goto(u, where, m)
    BY <1>6 DEF RecoverStep, Claim, ClaimNothing, ClaimReplyLost, DeadLetter,
                DeadLetterReplyLost, ClaimFails, DeadLetterFails, CallHandler
  <2> QED
    BY <2>1, <2>2 DEF Goto, Held, TypeOK, Threads
<1>7. ASSUME NEW c \in Consumers, Crash(c)
      PROVE  \A t \in Readers : Held(t)' \subseteq Held(t)
  BY <1>7 DEF Crash, Held, Threads
<1>8. CASE UNCHANGED <<batch, pc, cur>>
  <2>1. \A t \in Readers : Held(t)' = Held(t)
    BY <1>8 DEF Held
  <2> QED
    BY <1>1, <1>2, <2>1, HeldShrinks
<1> QED
  BY <1>1, <1>2, <1>3, <1>4, <1>5, <1>6, <1>7, <1>8, HeldShrinks
  DEF Next, vars, Publish, IdleTimePasses, ReaderStep, ReadReplyLost, Scan

(* README.md:27 has each message delivered to only one consumer of the     *)
(* group.  That is true of the readers, whatever crashes and is lost, and  *)
(* so of a group in which no recovery is enabled.                          *)
THEOREM OneReaderPerMessage ==
  Spec => [](/\ \A t, u \in Readers :
                  (pc[t] = "handle" /\ pc[u] = "handle" /\ cur[t] = cur[u]) => t = u
             /\ Recoverers = {} => OneHandlerAtATime)
<1>1. Init => ReadersApart
  BY DEF Init, ReadersApart, Held, Threads
<1>2. ReadersApart =>
        /\ \A t, u \in Readers :
             (pc[t] = "handle" /\ pc[u] = "handle" /\ cur[t] = cur[u]) => t = u
        /\ Recoverers = {} => OneHandlerAtATime
  BY DEF ReadersApart, Held, OneHandlerAtATime, Threads, RecoverThreads
<1> QED
  BY <1>1, <1>2, ReadersStep, TypeCorrect, PTL DEF Spec

=============================================================================

----------------------- MODULE ConsumerGroupRefinement -----------------------
(* ConsumerGroup implements DeliveryContract, for every number of          *)
(* consumers, recoverers, messages and faults: proof.                      *)
EXTENDS ConsumerGroupBounds

(* A running handler was called.                                           *)
RunningCounted == \A t \in Threads : pc[t] = "handle" => attempts[cur[t]] > 0

(* Attempts are never taken back.                                          *)
LEMMA AttemptsGrow ==
  ASSUME TypeOK, [Next]_vars
  PROVE  \A m \in Messages : attempts[m] <= attempts'[m]
<1>1. ASSUME NEW t \in Threads, NEW m \in Messages, CallHandler(t, m)
      PROVE  \A n \in Messages : attempts[n] <= attempts'[n]
  BY <1>1 DEF CallHandler, history, TypeOK
<1>2. CASE attempts' = attempts
  BY <1>2 DEF TypeOK
<1> QED
  BY <1>1, <1>2, ThreadKinds
  DEF Next, vars, history, Publish, IdleTimePasses, HandlerStep,
      HandlerSucceeds, HandlerFails, AckStep, Ack, AckFails, ReaderStep,
      Read, ReadReplyLost, ProcessNext, Scan, RecoverStep, Claim,
      ClaimNothing, ClaimReplyLost, DeadLetter, DeadLetterReplyLost,
      ClaimFails, DeadLetterFails, Crash

(* Every step keeps RunningCounted.                                        *)
LEMMA RunningStep ==
  ASSUME TypeOK, [Next]_vars, RunningCounted
  PROVE  RunningCounted'
<1> SUFFICES ASSUME NEW u \in Threads, pc'[u] = "handle"
             PROVE  attempts'[cur'[u]] > 0
  BY DEF RunningCounted
<1>t. /\ pc \in [Threads -> {"loop", "handle", "ack", "dead"}]
      /\ cur \in [Threads -> Messages \cup {None}]
      /\ attempts \in [Messages -> Nat]
      /\ attempts' \in [Messages -> Nat]
  BY TypeStep DEF TypeOK
<1>0. CASE pc'[u] = pc[u] /\ cur'[u] = cur[u]
  <2>1. cur[u] \in Messages /\ attempts[cur[u]] > 0
    BY <1>0, WorkingOnMessage DEF RunningCounted
  <2> QED
    BY <1>0, <1>t, <2>1, AttemptsGrow
<1>1. ASSUME NEW t \in Threads, NEW m \in Messages, CallHandler(t, m)
      PROVE  attempts'[cur'[u]] > 0
  <2>1. \/ pc'[u] = pc[u] /\ cur'[u] = cur[u]
        \/ cur'[u] = m /\ attempts'[m] > 0
    <3>1. CASE m \in Malformed
      BY <1>1, <3>1 DEF CallHandler
    <3>2. CASE m \notin Malformed
      <4>1. Goto(t, "handle", m) /\ attempts'[m] = attempts[m] + 1
        BY <1>1, <1>t, <3>2 DEF CallHandler
      <4> QED
        BY <1>t, <4>1 DEF Goto
    <3> QED
      BY <3>1, <3>2
  <2> QED
    BY <1>0, <2>1
<1>2. ASSUME NEW t \in Threads, HandlerStep(t) \/ AckStep(t)
      PROVE  pc'[u] = pc[u] /\ cur'[u] = cur[u]
  BY <1>2, <1>t DEF HandlerStep, HandlerSucceeds, HandlerFails, AckStep, Ack,
                    AckFails, Goto
<1>3. CASE \E t \in Readers : ReaderStep(t)
  BY <1>0, <1>1, <1>3, ThreadKinds
  DEF ReaderStep, Read, ReadReplyLost, ProcessNext
<1>4. ASSUME NEW t \in RecoverThreads, NEW m \in Messages, RecoverStep(t, m)
      PROVE  attempts'[cur'[u]] > 0
  <2>1. CASE DeadLetter(t, m)
    BY <1>0, <1>t, <2>1 DEF DeadLetter, Goto
  <2> QED
    BY <1>0, <1>1, <1>4, <2>1, ThreadKinds
    DEF RecoverStep, Claim, ClaimNothing, ClaimReplyLost, DeadLetterReplyLost,
        ClaimFails, DeadLetterFails
<1>5. CASE \E c \in Consumers : Crash(c)
  BY <1>0, <1>5, <1>t DEF Crash
<1> QED
  BY <1>0, <1>2, <1>3, <1>4, <1>5
  DEF Next, Publish, IdleTimePasses, Scan, vars

-----------------------------------------------------------------------------
(* Handing a published message to its handler is an attempt of the         *)
(* contract, or a stutter for a message that is not decoded.               *)
LEMMA Handing ==
  ASSUME TypeOK, TypeOK', AttemptsBounded', NEW t \in Threads, NEW m \in Messages,
         m \in 1..added, CallHandler(t, m),
         UNCHANGED <<added, Settled, dead>>
  PROVE  Contract!Attempt(m) \/ UNCHANGED Contract!cvars
<1>1. CASE m \in Malformed
  BY <1>1 DEF CallHandler, history, Contract!cvars
<1>2. CASE m \notin Malformed
  <2>1. attempts' = [attempts EXCEPT ![m] = @ + 1] /\ handled' = handled
    BY <1>2 DEF CallHandler
  <2>2. attempts[m] < MaxDeliveries
    <3>1. attempts'[m] = attempts[m] + 1 /\ attempts[m] \in Nat
      BY <2>1 DEF TypeOK
    <3>2. attempts'[m] <= deliveries'[m] /\ deliveries'[m] <= MaxDeliveries
      BY DEF AttemptsBounded
    <3>3. deliveries'[m] \in Nat
      BY DEF TypeOK
    <3>4. MaxDeliveries \in Int
      BY RecoverersCounted, ConstantsAssumption DEF MaxDeliveries
    <3> QED
      BY <3>1, <3>2, <3>3, <3>4
  <2> QED
    BY <2>1, <2>2 DEF Contract!Attempt
<1> QED
  BY <1>1, <1>2

(* Every step is a step of the contract or a stutter.                      *)
LEMMA StepImplements ==
  ASSUME TypeOK, TypeOK', CountsOK, BatchesOK, RunningCounted, AckJustified,
         AttemptsBounded', [Next]_vars
  PROVE  [Contract!CNext]_(Contract!cvars)
<1>a. /\ added \in Nat /\ lastDelivered \in Nat /\ lastDelivered <= added
      /\ added <= MaxMessages
      /\ 1..lastDelivered \subseteq 1..added /\ 1..added \subseteq Messages
      /\ pending \subseteq 1..lastDelivered
  BY ConstantsAssumption DEF TypeOK, Messages
<1>s. \A m \in Messages :
        Contract!Publish(m) \/ Contract!Attempt(m) \/ Contract!Succeed(m)
          \/ Contract!Bury(m) \/ Contract!Settle(m)
        => Contract!CNext
  BY DEF Contract!CNext
<1>1. CASE Publish
  <2>1. added' = added + 1 /\ added + 1 \in Messages
    BY <1>1, <1>a, ConstantsAssumption DEF Publish, Messages
  <2>2. 1..added' = (1..added) \cup {added + 1} /\ added + 1 \notin 1..added
    BY <2>1, <1>a
  <2>3. Contract!Publish(added + 1)
    BY <1>1, <2>1, <2>2 DEF Publish, Contract!Publish, Settled, history
  <2> QED
    BY <2>1, <2>3, <1>s
<1>2. CASE \E m \in Messages : IdleTimePasses(m)
  BY <1>2 DEF IdleTimePasses, Contract!cvars, Settled, history
<1>3. ASSUME NEW t \in Threads, HandlerStep(t)
      PROVE  [Contract!CNext]_(Contract!cvars)
  <2>1. CASE HandlerSucceeds(t)
    <3>1. cur[t] \in Messages /\ attempts[cur[t]] > 0
      BY <2>1, WorkingOnMessage DEF HandlerSucceeds, RunningCounted
    <3>2. Contract!Succeed(cur[t])
      BY <2>1, <3>1 DEF HandlerSucceeds, Contract!Succeed, Settled, redis
    <3> QED
      BY <3>1, <3>2, <1>s
  <2>2. CASE HandlerFails(t)
    BY <2>2 DEF HandlerFails, Contract!cvars, Settled, redis, history
  <2> QED
    BY <1>3, <2>1, <2>2 DEF HandlerStep
<1>4. ASSUME NEW t \in Threads, AckStep(t)
      PROVE  [Contract!CNext]_(Contract!cvars)
  <2>1. CASE Ack(t) /\ cur[t] \in pending
    <3>1. cur[t] \in Messages /\ cur[t] \in 1..lastDelivered
      BY <2>1, <1>a
    <3>2. Settled' = Settled \cup {cur[t]}
      BY <2>1, <3>1 DEF Ack, XAck, Settled
    <3>3. cur[t] \in handled \/ dead[cur[t]] > 0
      BY <2>1 DEF Ack, AckJustified
    <3>4. Contract!Settle(cur[t])
      BY <2>1, <1>a, <3>1, <3>2, <3>3 DEF Ack, XAck, Contract!Settle, history
    <3> QED
      BY <3>1, <3>4, <1>s
  <2>2. CASE Ack(t) /\ cur[t] \notin pending
    <3>1. Settled' = Settled
      BY <2>2 DEF Ack, XAck, Settled
    <3> QED
      BY <2>2, <3>1 DEF Ack, XAck, Contract!cvars, history
  <2>3. CASE AckFails(t)
    BY <2>3 DEF AckFails, Contract!cvars, Settled, redis, history
  <2> QED
    BY <1>4, <2>1, <2>2, <2>3 DEF AckStep
<1>5. ASSUME NEW t \in Readers, ReaderStep(t)
      PROVE  [Contract!CNext]_(Contract!cvars)
  <2>1. CASE Read(t) \/ ReadReplyLost(t)
    <3>1. XReadGroup /\ UNCHANGED history
      BY <2>1 DEF Read, ReadReplyLost
    <3>2. Settled' = Settled
      BY <3>1, ReadSettlesNothing
    <3> QED
      BY <3>1, <3>2 DEF XReadGroup, Contract!cvars, history
  <2>2. CASE ProcessNext(t)
    <3>1. PICK m \in Messages : First(m, batch[t]) /\ CallHandler(t, m)
      BY <2>2 DEF ProcessNext
    <3>2. m \in 1..added
      BY <3>1, <1>a, ConstantsAssumption DEF First, BatchesOK, Messages
    <3>3. UNCHANGED <<added, Settled, dead>>
      BY <2>2 DEF ProcessNext, redis, Settled
    <3> QED
      BY <3>1, <3>2, <3>3, <1>s, Handing, ThreadKinds
  <2> QED
    BY <1>5, <2>1, <2>2 DEF ReaderStep
<1>6. CASE \E t \in RecoverThreads : Scan(t)
  BY <1>6 DEF Scan, Contract!cvars, Settled, redis, history
<1>7. ASSUME NEW t \in RecoverThreads, NEW m \in Messages, RecoverStep(t, m)
      PROVE  [Contract!CNext]_(Contract!cvars)
  <2>1. CASE Claim(t, m)
    <3>1. /\ CallHandler(t, m) /\ m \in 1..added
          /\ UNCHANGED <<added, Settled, dead>>
      BY <2>1, <1>a DEF Claim, XClaim, Settled
    <3> QED
      BY <3>1, <1>s, Handing, ThreadKinds
  <2>2. CASE ClaimNothing(t, m) \/ ClaimFails(t, m) \/ DeadLetterFails(t, m)
    BY <2>2 DEF ClaimNothing, ClaimFails, DeadLetterFails, Contract!cvars,
                Settled, redis, history
  <2>3. CASE ClaimReplyLost(t, m)
    BY <2>3 DEF ClaimReplyLost, XClaim, Contract!cvars, Settled, history
  <2>4. CASE DeadLetter(t, m) \/ DeadLetterReplyLost(t, m)
    <3>1. /\ Take(t, m) /\ XAddDead(m) /\ UNCHANGED history
      BY <2>4 DEF DeadLetter, DeadLetterReplyLost
    <3>2. m \in 1..added
      <4>1. deliveries[m] > 0
        BY <3>1 DEF Take, First, Todo, CountsOK, TypeOK
      <4> QED
        BY <4>1, <1>a, ConstantsAssumption DEF CountsOK, Messages
    <3>3. Contract!Bury(m)
      BY <3>1, <3>2 DEF XAddDead, Contract!Bury, Settled, history
    <3> QED
      BY <3>3, <1>s
  <2> QED
    BY <1>7, <2>1, <2>2, <2>3, <2>4 DEF RecoverStep
<1>8. CASE \E c \in Consumers : Crash(c)
  BY <1>8 DEF Crash, Contract!cvars, Settled, redis, history
<1>9. CASE UNCHANGED vars
  BY <1>9 DEF vars, Contract!cvars, Settled, redis, history
<1> QED
  BY <1>1, <1>2, <1>3, <1>4, <1>5, <1>6, <1>7, <1>8, <1>9 DEF Next

(* The group keeps the delivery contract: what publishers and handlers can *)
(* observe of it is a behaviour of the abstract specification, with at     *)
(* most MaxDeliveries handler calls per message.                           *)
THEOREM ContractKept == Spec => KeepsDeliveryContract
<1>1. Init => Contract!CInit /\ RunningCounted /\ AckJustified
  BY DEF Init, Contract!CInit, RunningCounted, AckJustified, Settled, Nothing
<1>2. TypeOK /\ [Next]_vars /\ RunningCounted => RunningCounted'
  BY RunningStep
<1>3. TypeOK /\ [Next]_vars /\ AckJustified => AckJustified'
  BY AckJustifiedStep
<1>4. /\ TypeOK /\ TypeOK' /\ CountsOK /\ BatchesOK /\ RunningCounted
      /\ AckJustified /\ AttemptsBounded' /\ [Next]_vars
      => [Contract!CNext]_(Contract!cvars)
  BY StepImplements
<1> QED
  BY <1>1, <1>2, <1>3, <1>4, TypeCorrect, CountsCorrect, BatchesCorrect,
     AttemptsAreBounded, PTL
  DEF Spec, KeepsDeliveryContract, Contract!CSpec
=============================================================================

------------------------- MODULE ConsumerGroupProofs -------------------------
(* Proofs about ConsumerGroup, for every value of its constants. *)
EXTENDS ConsumerGroup, FiniteSetTheorems, TLAPS

(* Readers and recoverers are threads, and no thread is both.              *)
LEMMA ThreadKinds ==
  /\ Readers \subseteq Threads
  /\ RecoverThreads \subseteq Threads
  /\ Readers \cap RecoverThreads = {}
BY DEF Threads, Readers, RecoverThreads

(* The control part of the type: where a thread is and what it works on.   *)
ControlOK(p, c) ==
  /\ p \in [Threads -> {"loop", "handle", "ack", "dead"}]
  /\ c \in [Threads -> Messages \cup {None}]
  /\ \A t \in Threads : c[t] = None <=> p[t] = "loop"

(* The value for "no message" is not a message.                            *)
LEMMA NoneIsNoMessage == None \notin Messages
BY ConstantsAssumption DEF None, Messages

(* Goto keeps the control part of the type.                                *)
LEMMA GotoControl ==
  ASSUME ControlOK(pc, cur), NEW t \in Threads,
         NEW where \in {"loop", "handle", "ack", "dead"},
         NEW m \in Messages \cup {None}, m = None <=> where = "loop",
         Goto(t, where, m)
  PROVE  ControlOK(pc', cur')
BY DEF ControlOK, Goto

(* A thread outside its loop works on a message.                           *)
LEMMA WorkingOnMessage ==
  ASSUME TypeOK, NEW t \in Threads, pc[t] # "loop"
  PROVE  cur[t] \in Messages
BY DEF TypeOK

(* Calling a handler keeps the control part, and counts an attempt.        *)
LEMMA CallHandlerType ==
  ASSUME TypeOK, NEW t \in Threads, NEW m \in Messages, CallHandler(t, m)
  PROVE  /\ ControlOK(pc', cur')
         /\ attempts' \in [Messages -> Nat]
         /\ handled' = handled
<1>1. ControlOK(pc, cur)
  BY DEF TypeOK, ControlOK
<1>2. CASE m \in Malformed
  BY <1>1, <1>2 DEF CallHandler, history, TypeOK
<1>3. CASE m \notin Malformed
  <2>1. ControlOK(pc', cur')
    BY <1>1, <1>3, GotoControl, NoneIsNoMessage DEF CallHandler
  <2> QED
    BY <2>1, <1>3 DEF CallHandler, TypeOK
<1> QED
  BY <1>2, <1>3

(* What the commands do to the group keeps the types.                      *)
GroupOK ==
  /\ added \in 0..MaxMessages
  /\ lastDelivered \in 0..added
  /\ pending \subseteq 1..lastDelivered
  /\ idle \subseteq pending
  /\ deliveries \in [Messages -> Nat]
  /\ dead \in [Messages -> Nat]

(* The commands keep the types of what Redis holds.                        *)
LEMMA CommandTypes ==
  ASSUME TypeOK
  PROVE  /\ XReadGroup => GroupOK'
         /\ \A m \in Messages : XClaim(m) \/ XAck(m) \/ XAddDead(m) => GroupOK'
         /\ UNCHANGED redis => GroupOK'
<1> USE ConstantsAssumption
<1>1. ASSUME XReadGroup PROVE GroupOK'
  <2>1. lastDelivered' \in lastDelivered..added /\ added' = added
    BY <1>1 DEF XReadGroup, TypeOK
  <2>2. Undelivered \subseteq 1..lastDelivered'
    BY <1>1 DEF XReadGroup, TypeOK, Undelivered, Messages
  <2> QED
    BY <1>1, <2>1, <2>2 DEF XReadGroup, TypeOK, GroupOK
<1>2. ASSUME NEW m \in Messages, XClaim(m) PROVE GroupOK'
  BY <1>2 DEF XClaim, TypeOK, GroupOK
<1>3. ASSUME NEW m \in Messages, XAck(m) PROVE GroupOK'
  BY <1>3 DEF XAck, TypeOK, GroupOK
<1>4. ASSUME NEW m \in Messages, XAddDead(m) PROVE GroupOK'
  BY <1>4 DEF XAddDead, TypeOK, GroupOK
<1>5. ASSUME UNCHANGED redis PROVE GroupOK'
  BY <1>5 DEF redis, TypeOK, GroupOK
<1> QED
  BY <1>1, <1>2, <1>3, <1>4, <1>5

(* Taking an entry of the page keeps the types of the thread's memory.     *)
LEMMA TakeType ==
  ASSUME TypeOK, NEW t \in RecoverThreads, NEW m \in Messages, Take(t, m)
  PROVE  /\ batch' \in [Readers -> SUBSET Messages]
         /\ seen' \in [RecoverThreads -> [Messages -> Nat]]
BY DEF Take, TypeOK

(* Every step keeps the type invariant.                                    *)
LEMMA TypeStep ==
  ASSUME TypeOK, [Next]_vars
  PROVE  TypeOK'
<1> USE ConstantsAssumption
<1>0. TypeOK' <=> /\ GroupOK'
                  /\ batch' \in [Readers -> SUBSET Messages]
                  /\ seen' \in [RecoverThreads -> [Messages -> Nat]]
                  /\ ControlOK(pc', cur')
                  /\ attempts' \in [Messages -> Nat]
                  /\ handled' \subseteq Messages
                  /\ faults' \in 0..MaxFaults
  BY DEF TypeOK, GroupOK, ControlOK
<1>c. ControlOK(pc, cur)
  BY DEF TypeOK, ControlOK
<1>f. Fault => faults' \in 0..MaxFaults
  BY DEF Fault, TypeOK
<1>1. CASE Publish
  BY <1>1 DEF Publish, TypeOK, history
<1>2. ASSUME NEW m \in Messages, IdleTimePasses(m) PROVE TypeOK'
  BY <1>2 DEF IdleTimePasses, TypeOK, history
<1>3. ASSUME NEW t \in Threads, HandlerSucceeds(t) PROVE TypeOK'
  <2>1. cur[t] \in Messages
    BY <1>3, WorkingOnMessage DEF HandlerSucceeds
  <2>2. ControlOK(pc', cur')
    BY <1>3, <1>c, <2>1, GotoControl, NoneIsNoMessage DEF HandlerSucceeds
  <2> QED
    BY <1>0, <1>3, <2>1, <2>2, CommandTypes DEF HandlerSucceeds, TypeOK
<1>4. ASSUME NEW t \in Threads, HandlerFails(t) PROVE TypeOK'
  <2>1. ControlOK(pc', cur')
    BY <1>4, <1>c, GotoControl DEF HandlerFails
  <2> QED
    BY <1>0, <1>4, <2>1, CommandTypes DEF HandlerFails, TypeOK, history
<1>5. ASSUME NEW t \in Threads, Ack(t) PROVE TypeOK'
  <2>1. ControlOK(pc', cur')
    BY <1>5, <1>c, GotoControl DEF Ack
  <2>2. GroupOK'
    BY <1>5, WorkingOnMessage, CommandTypes DEF Ack
  <2> QED
    BY <1>0, <1>5, <2>1, <2>2 DEF Ack, TypeOK, history
<1>6. ASSUME NEW t \in Threads, AckFails(t) PROVE TypeOK'
  <2>1. ControlOK(pc', cur')
    BY <1>6, <1>c, GotoControl DEF AckFails
  <2> QED
    BY <1>0, <1>6, <1>f, <2>1, CommandTypes DEF AckFails, TypeOK, history
<1>7. ASSUME NEW t \in Readers, Read(t) PROVE TypeOK'
  <2>1. batch' \in [Readers -> SUBSET Messages]
    BY <1>7 DEF Read, TypeOK, Undelivered
  <2> QED
    BY <1>0, <1>7, <1>c, <2>1, CommandTypes DEF Read, TypeOK, history
<1>8. ASSUME NEW t \in Readers, ReadReplyLost(t) PROVE TypeOK'
  BY <1>0, <1>8, <1>c, <1>f, CommandTypes
  DEF ReadReplyLost, TypeOK, history
<1>9. ASSUME NEW t \in Readers, ProcessNext(t) PROVE TypeOK'
  <2>1. PICK m \in Messages : /\ batch' = [batch EXCEPT ![t] = @ \ {m}]
                              /\ CallHandler(t, m)
    BY <1>9 DEF ProcessNext
  <2> QED
    BY <1>0, <1>9, <2>1, CallHandlerType, CommandTypes, ThreadKinds
    DEF ProcessNext, TypeOK
<1>10. ASSUME NEW t \in RecoverThreads, Scan(t) PROVE TypeOK'
  <2>1. seen' \in [RecoverThreads -> [Messages -> Nat]]
    BY <1>10 DEF Scan, TypeOK
  <2> QED
    BY <1>0, <1>10, <1>c, <2>1, CommandTypes DEF Scan, TypeOK, history
<1>11. ASSUME NEW t \in RecoverThreads, NEW m \in Messages,
              RecoverStep(t, m)
       PROVE  TypeOK'
  <2>0. TypeOK' <=> /\ GroupOK'
                    /\ ControlOK(pc', cur')
                    /\ attempts' \in [Messages -> Nat]
                    /\ handled' \subseteq Messages
                    /\ faults' \in 0..MaxFaults
    BY <1>0, <1>11, TakeType
    DEF RecoverStep, Claim, ClaimNothing, ClaimReplyLost, DeadLetter,
        DeadLetterReplyLost, ClaimFails, DeadLetterFails
  <2>1. CASE Claim(t, m)
    BY <2>0, <2>1, CallHandlerType, CommandTypes, ThreadKinds
    DEF Claim, TypeOK
  <2>2. CASE ClaimNothing(t, m)
    BY <2>0, <2>2, <1>c, CommandTypes DEF ClaimNothing, TypeOK, history
  <2>3. CASE ClaimReplyLost(t, m)
    BY <2>0, <2>3, <1>c, <1>f, CommandTypes
    DEF ClaimReplyLost, TypeOK, history
  <2>4. CASE DeadLetter(t, m)
    <3>1. ControlOK(pc', cur')
      BY <2>4, <1>c, GotoControl, NoneIsNoMessage, ThreadKinds
      DEF DeadLetter
    <3> QED
      BY <2>0, <2>4, <3>1, CommandTypes DEF DeadLetter, TypeOK, history
  <2>5. CASE DeadLetterReplyLost(t, m)
    BY <2>0, <2>5, <1>c, <1>f, CommandTypes
    DEF DeadLetterReplyLost, TypeOK, history
  <2>6. CASE ClaimFails(t, m) \/ DeadLetterFails(t, m)
    BY <2>0, <2>6, <1>c, <1>f, CommandTypes
    DEF ClaimFails, DeadLetterFails, TypeOK, history
  <2> QED
    BY <1>11, <2>1, <2>2, <2>3, <2>4, <2>5, <2>6 DEF RecoverStep
<1>12. ASSUME NEW c \in Consumers, Crash(c) PROVE TypeOK'
  <2>1. ControlOK(pc', cur')
    BY <1>12, <1>c, NoneIsNoMessage DEF Crash, ControlOK
  <2>2. /\ batch' \in [Readers -> SUBSET Messages]
        /\ seen' \in [RecoverThreads -> [Messages -> Nat]]
    BY <1>12 DEF Crash, TypeOK, Nothing
  <2> QED
    BY <1>0, <1>12, <1>f, <2>1, <2>2, CommandTypes
    DEF Crash, TypeOK, history
<1>13. CASE UNCHANGED vars
  BY <1>0, <1>13, <1>c, CommandTypes DEF vars, history, TypeOK
<1> QED
  BY <1>1, <1>2, <1>3, <1>4, <1>5, <1>6, <1>7, <1>8, <1>9, <1>10, <1>11,
     <1>12, <1>13
  DEF Next, HandlerStep, AckStep, ReaderStep

(* Every variable keeps its type: in particular the group never delivers   *)
(* beyond the end of the stream and lists only delivered entries, and a    *)
(* thread works on a message exactly while it is out of its loop.          *)
THEOREM TypeCorrect == Spec => []TypeOK
<1>1. Init => TypeOK
  BY ConstantsAssumption DEF Init, TypeOK, Nothing, Messages, None
<1>2. TypeOK /\ [Next]_vars => TypeOK'
  BY TypeStep
<1> QED
  BY <1>1, <1>2, PTL DEF Spec

-----------------------------------------------------------------------------
(* What a step does to the stream's entries and who is allowed to do it.   *)
LEMMA StepEffects ==
  ASSUME TypeOK, Next
  PROVE  \/ UNCHANGED <<lastDelivered, pending, deliveries, dead>>
         \/ XReadGroup
         \/ \E t \in RecoverThreads, m \in Messages :
              Take(t, m) /\ MayRetry(t, m) /\ XClaim(m)
         \/ \E t \in Threads : pc[t] \in {"ack", "dead"} /\ XAck(cur[t])
         \/ \E t \in RecoverThreads, m \in Messages :
              /\ Take(t, m) /\ Exhausted(t, m) /\ XAddDead(m)
              /\ DeadLetter(t, m) \/ DeadLetterReplyLost(t, m)
<1>1. CASE Publish
  BY <1>1 DEF Publish
<1>2. CASE \E m \in Messages : IdleTimePasses(m)
  BY <1>2 DEF IdleTimePasses
<1>3. CASE \E t \in Threads : HandlerStep(t)
  BY <1>3 DEF HandlerStep, HandlerSucceeds, HandlerFails, redis
<1>4. CASE \E t \in Threads : AckStep(t)
  BY <1>4 DEF AckStep, Ack, AckFails, redis
<1>5. CASE \E t \in Readers : ReaderStep(t)
  BY <1>5 DEF ReaderStep, Read, ReadReplyLost, ProcessNext, redis
<1>6. CASE \E t \in RecoverThreads : Scan(t)
  BY <1>6 DEF Scan, redis
<1>7. CASE \E t \in RecoverThreads, m \in Messages : RecoverStep(t, m)
  BY <1>7 DEF RecoverStep, Claim, ClaimNothing, ClaimReplyLost, DeadLetter,
              DeadLetterReplyLost, ClaimFails, DeadLetterFails, redis
<1>8. CASE \E c \in Consumers : Crash(c)
  BY <1>8 DEF Crash, redis
<1> QED
  BY <1>1, <1>2, <1>3, <1>4, <1>5, <1>6, <1>7, <1>8 DEF Next

(* Reading new messages settles nothing: all that the cursor passes over   *)
(* becomes pending, and nothing behind the cursor is touched.              *)
LEMMA ReadSettlesNothing ==
  ASSUME TypeOK, XReadGroup
  PROVE  /\ Settled' = Settled
         /\ \A m \in 1..lastDelivered : deliveries'[m] = deliveries[m]
         /\ lastDelivered <= lastDelivered'
         /\ 1..lastDelivered' = (1..lastDelivered) \cup Undelivered
<1> USE ConstantsAssumption
<1>1. /\ lastDelivered \in Nat /\ added \in Nat /\ BatchSize \in Nat
      /\ lastDelivered <= added /\ added <= MaxMessages
  BY DEF TypeOK
<1>2. /\ 1..lastDelivered' = (1..lastDelivered) \cup Undelivered
      /\ lastDelivered <= lastDelivered'
  BY <1>1 DEF XReadGroup, Undelivered, Messages
<1>3. (1..lastDelivered) \cap Undelivered = {} /\ 1..lastDelivered \subseteq Messages
  BY <1>1 DEF Undelivered, Messages
<1>4. Settled' = Settled
  BY <1>2, <1>3 DEF XReadGroup, Settled, TypeOK
<1>5. \A m \in 1..lastDelivered : deliveries'[m] = deliveries[m]
  BY <1>3 DEF XReadGroup
<1> QED
  BY <1>2, <1>4, <1>5

(* An acknowledged message is settled for good and never delivered again,  *)
(* by whatever interleaving of snapshots, claims and acknowledgements.     *)
THEOREM SettledForGood == Spec => SettledIsFinal
<1>1. ASSUME TypeOK, [Next]_vars, NEW m \in Settled
      PROVE  m \in Settled' /\ deliveries'[m] = deliveries[m]
  <2> USE <1>1
  <2>m. m \in Messages /\ m \in 1..lastDelivered /\ m \notin pending
    BY ConstantsAssumption DEF Settled, TypeOK, Messages
  <2>1. CASE UNCHANGED <<lastDelivered, pending, deliveries, dead>>
    BY <2>1 DEF Settled
  <2>2. CASE XReadGroup
    BY <2>2, <2>m, ReadSettlesNothing
  <2>3. ASSUME NEW n \in Messages, XClaim(n)
        PROVE  m \in Settled' /\ deliveries'[m] = deliveries[m]
    BY <2>3, <2>m DEF XClaim, Settled, TypeOK
  <2>4. ASSUME NEW t \in Threads, XAck(cur[t])
        PROVE  m \in Settled' /\ deliveries'[m] = deliveries[m]
    BY <2>4 DEF XAck, Settled
  <2>5. ASSUME NEW n \in Messages, XAddDead(n)
        PROVE  m \in Settled' /\ deliveries'[m] = deliveries[m]
    BY <2>5 DEF XAddDead, Settled
  <2>6. CASE UNCHANGED vars
    BY <2>6, <2>1 DEF vars, redis
  <2> QED
    BY <2>1, <2>2, <2>3, <2>4, <2>5, <2>6, StepEffects
<1>2. TypeOK /\ [Next]_vars
        => [\A m \in Settled : m \in Settled' /\ deliveries'[m] = deliveries[m]]_vars
  BY <1>1
<1> QED
  BY <1>2, TypeCorrect, PTL DEF Spec, SettledIsFinal

-----------------------------------------------------------------------------
(* A thread about to acknowledge a message has the reason in hand: some    *)
(* handler call succeeded on it, or its dead-letter copy is written.       *)
AckJustified ==
  \A t \in Threads : /\ pc[t] = "ack" => cur[t] \in handled
                     /\ pc[t] = "dead" => dead[cur[t]] > 0

(* Successes and dead-letter copies are never taken back.                  *)
LEMMA EvidenceGrows ==
  ASSUME TypeOK, [Next]_vars
  PROVE  /\ handled \subseteq handled'
         /\ \A m \in Messages : dead'[m] \in Nat /\ dead[m] <= dead'[m]
<1>1. handled \subseteq handled'
  <2>1. CASE \E t \in Threads : HandlerStep(t) \/ AckStep(t)
    BY <2>1 DEF HandlerStep, HandlerSucceeds, HandlerFails, AckStep, Ack,
                AckFails, history
  <2>2. CASE \E t \in Readers : ReaderStep(t)
    BY <2>2 DEF ReaderStep, Read, ReadReplyLost, ProcessNext, CallHandler,
                history
  <2>3. CASE \E t \in RecoverThreads, m \in Messages : RecoverStep(t, m)
    BY <2>3 DEF RecoverStep, Claim, ClaimNothing, ClaimReplyLost, DeadLetter,
                DeadLetterReplyLost, ClaimFails, DeadLetterFails, CallHandler,
                history
  <2> QED
    BY <2>1, <2>2, <2>3
    DEF Next, vars, history, Publish, IdleTimePasses, Scan, Crash
<1>2. dead' = dead \/ \E m \in Messages : XAddDead(m)
  BY StepEffects DEF XReadGroup, XClaim, XAck, vars, redis
<1>3. \A m \in Messages : dead'[m] \in Nat /\ dead[m] <= dead'[m]
  BY <1>2 DEF XAddDead, TypeOK
<1> QED
  BY <1>1, <1>3

(* Where a thread can come to when it starts a message or drops one.       *)
LEMMA StepControl ==
  ASSUME TypeOK, [Next]_vars, NEW u \in Threads, pc'[u] \in {"ack", "dead"}
  PROVE  \/ pc'[u] = pc[u] /\ cur'[u] = cur[u]
         \/ pc'[u] = "ack" /\ HandlerSucceeds(u)
         \/ pc'[u] = "dead" /\ \E m \in Messages : DeadLetter(u, m)
<1>t. /\ pc \in [Threads -> {"loop", "handle", "ack", "dead"}]
      /\ cur \in [Threads -> Messages \cup {None}]
  BY DEF TypeOK
<1>1. ASSUME NEW t \in Threads, HandlerStep(t) \/ AckStep(t)
      PROVE  \/ pc'[u] = pc[u] /\ cur'[u] = cur[u]
             \/ pc'[u] = "ack" /\ HandlerSucceeds(u)
  <2>1. CASE HandlerSucceeds(t)
    BY <2>1, <1>t DEF HandlerSucceeds, Goto
  <2>2. CASE Goto(t, "loop", None)
    BY <2>2, <1>t DEF Goto
  <2> QED
    BY <1>1, <2>1, <2>2 DEF HandlerStep, AckStep, HandlerFails, Ack, AckFails
<1>2. ASSUME NEW t \in Threads, NEW m \in Messages, CallHandler(t, m)
      PROVE  pc'[u] = pc[u] /\ cur'[u] = cur[u]
  BY <1>2, <1>t DEF CallHandler, Goto
<1>3. CASE \E t \in Readers : ReaderStep(t)
  BY <1>2, <1>3, ThreadKinds DEF ReaderStep, Read, ReadReplyLost, ProcessNext
<1>4. ASSUME NEW t \in RecoverThreads, NEW m \in Messages, RecoverStep(t, m)
      PROVE  \/ pc'[u] = pc[u] /\ cur'[u] = cur[u]
             \/ pc'[u] = "dead" /\ DeadLetter(u, m)
  <2>1. CASE Claim(t, m)
    BY <2>1, <1>2, ThreadKinds DEF Claim
  <2>2. CASE DeadLetter(t, m)
    BY <2>2, <1>t, ThreadKinds DEF DeadLetter, Goto
  <2> QED
    BY <1>4, <2>1, <2>2
    DEF RecoverStep, ClaimNothing, ClaimReplyLost, DeadLetterReplyLost,
        ClaimFails, DeadLetterFails
<1>5. CASE \E c \in Consumers : Crash(c)
  BY <1>5, <1>t DEF Crash
<1> QED
  BY <1>1, <1>3, <1>4, <1>5
  DEF Next, Publish, IdleTimePasses, Scan, vars

(* Every step keeps AckJustified: "ack" and "dead" are entered together    *)
(* with their reasons.                                                     *)
LEMMA AckJustifiedStep ==
  ASSUME TypeOK, [Next]_vars, AckJustified
  PROVE  AckJustified'
<1> SUFFICES ASSUME NEW u \in Threads, pc'[u] \in {"ack", "dead"}
             PROVE  /\ pc'[u] = "ack" => cur'[u] \in handled'
                    /\ pc'[u] = "dead" => dead'[cur'[u]] > 0
  BY DEF AckJustified
<1>1. CASE pc'[u] = pc[u] /\ cur'[u] = cur[u]
  BY <1>1, EvidenceGrows, WorkingOnMessage DEF AckJustified, TypeOK
<1>2. CASE pc'[u] = "ack" /\ HandlerSucceeds(u)
  BY <1>2 DEF HandlerSucceeds, Goto, TypeOK
<1>3. ASSUME pc'[u] = "dead", NEW m \in Messages, DeadLetter(u, m)
      PROVE  dead'[cur'[u]] > 0
  BY <1>3 DEF DeadLetter, XAddDead, Goto, TypeOK
<1> QED
  BY <1>1, <1>2, <1>3, StepControl

(* At-least-once, whatever the interleaving and the faults: a message      *)
(* leaves the pending list only after a handler call succeeded on it or a  *)
(* copy of it is in the dead-letter stream.                                *)
THEOREM NothingLost == Spec => []NoMessageLost
<1>1. Init => AckJustified /\ NoMessageLost
  BY DEF Init, AckJustified, NoMessageLost, Settled
<1>2. ASSUME TypeOK, AckJustified, NoMessageLost, [Next]_vars
      PROVE  AckJustified' /\ NoMessageLost'
  <2> USE <1>2
  <2>1. AckJustified'
    BY AckJustifiedStep
  <2>2. ASSUME NEW m \in Settled', m \notin Settled
        PROVE  m \in handled \/ dead[m] > 0
    <3>1. ~ UNCHANGED <<lastDelivered, pending>>
      BY <2>2 DEF Settled
    <3>2. ~ XReadGroup
      BY <2>2, ReadSettlesNothing
    <3>3. PICK t \in Threads : pc[t] \in {"ack", "dead"} /\ XAck(cur[t])
      <4>1. \A n \in Messages : XClaim(n) \/ XAddDead(n) =>
              UNCHANGED <<lastDelivered, pending>>
        BY DEF XClaim, XAddDead
      <4> QED
        BY <3>1, <3>2, <4>1, StepEffects DEF vars, redis
    <3>4. m = cur[t]
      BY <2>2, <3>3 DEF XAck, Settled
    <3> QED
      BY <3>3, <3>4 DEF AckJustified
  <2>3. Settled' \subseteq Messages /\ Settled \subseteq Messages
    <3>1. TypeOK'
      BY TypeStep
    <3> QED
      BY <3>1, ConstantsAssumption DEF TypeOK, Settled, Messages
  <2>4. NoMessageLost'
    BY <2>2, <2>3, EvidenceGrows DEF NoMessageLost, TypeOK
  <2> QED
    BY <2>1, <2>4
<1> QED
  BY <1>1, <1>2, TypeCorrect, PTL DEF Spec

-----------------------------------------------------------------------------
(* Abandoned entries: a step of a reader is about its batch or the message *)
(* in its hand, one of a recoverer about its page.                         *)
Untouched(m) ==
  /\ m \in pending'
  /\ \A t \in Threads : cur'[t] = m => cur[t] = m
  /\ \A t \in Readers : m \in batch'[t] => m \in batch[t]

(* An untouched entry stays abandoned.                                     *)
LEMMA UntouchedStays ==
  ASSUME NEW m \in Messages, Abandoned(m), Untouched(m)
  PROVE  Abandoned(m)'
BY DEF Abandoned, Untouched

(* A step touches no abandoned entry but those in the page of a recoverer. *)
LEMMA AbandonedStep ==
  ASSUME TypeOK, [Next]_vars, NEW m \in Messages, Abandoned(m)
  PROVE  Abandoned(m)' \/ \E t \in RecoverThreads : m \in Todo(t)
<1>0. m \in pending /\ m # None /\ m <= lastDelivered
  BY ConstantsAssumption DEF Abandoned, Messages, None, TypeOK
<1>1. ASSUME NEW t \in Readers, ReaderStep(t) PROVE Untouched(m)
  <2>1. CASE Read(t) \/ ReadReplyLost(t)
    <3>1. m \notin Undelivered
      BY <1>0, ConstantsAssumption DEF Undelivered, TypeOK, Messages
    <3>2. /\ m \in pending' /\ cur' = cur
          /\ \A u \in Readers : batch'[u] = batch[u] \/ batch'[u] = Undelivered
      BY <1>0, <2>1 DEF Read, ReadReplyLost, XReadGroup, TypeOK
    <3> QED
      BY <3>1, <3>2 DEF Untouched
  <2>2. CASE ProcessNext(t)
    <3>1. PICK n \in Messages : /\ n \in batch[t] /\ CallHandler(t, n)
                                /\ batch' = [batch EXCEPT ![t] = @ \ {n}]
      BY <2>2 DEF ProcessNext, First
    <3>2. n # m /\ pending' = pending
      BY <2>2, <3>1 DEF Abandoned, ProcessNext, redis
    <3> QED
      BY <1>0, <3>1, <3>2 DEF CallHandler, Goto, Untouched, TypeOK
  <2> QED
    BY <1>1, <2>1, <2>2 DEF ReaderStep
<1>2. ASSUME NEW t \in Threads, HandlerStep(t) \/ AckStep(t) PROVE Untouched(m)
  <2>1. /\ batch' = batch /\ cur[t] # m
        /\ pending' = pending \/ pending' = pending \ {cur[t]}
        /\ \E where \in {"loop", "ack"}, n \in {None, cur[t]} : Goto(t, where, n)
    BY <1>2 DEF HandlerStep, HandlerSucceeds, HandlerFails, AckStep, Ack, AckFails,
                XAck, redis, Abandoned
  <2> QED
    BY <1>0, <2>1 DEF Goto, Untouched, TypeOK
<1>3. ASSUME NEW t \in RecoverThreads, NEW n \in Messages, RecoverStep(t, n)
      PROVE  Untouched(m) \/ m \in Todo(t)
  <2>1. /\ n \in Todo(t) /\ batch' = batch /\ pending' = pending
        /\ UNCHANGED cur \/ \E where \in {"handle", "dead"} : Goto(t, where, n)
    BY <1>3 DEF RecoverStep, Claim, ClaimNothing, ClaimReplyLost, DeadLetter,
                DeadLetterReplyLost, ClaimFails, DeadLetterFails, Take, First,
                CallHandler,
                XClaim, XAddDead, redis
  <2> QED
    BY <1>0, <2>1 DEF Goto, Untouched, TypeOK
<1>4. ASSUME NEW c \in Consumers, Crash(c) PROVE Untouched(m)
  BY <1>0, <1>4 DEF Crash, Untouched, redis
<1>5. ASSUME UNCHANGED <<pending, batch, cur>> PROVE Untouched(m)
  BY <1>0, <1>5 DEF Untouched
<1> QED
  BY <1>1, <1>2, <1>3, <1>4, <1>5, UntouchedStays
  DEF Next, vars, redis, Publish, IdleTimePasses, Scan

(* A reader only prints the error of a failed message (consumer.go:205):   *)
(* whatever was not acknowledged and is with nobody waits for recovery.    *)
THEOREM RecoveryResumes == Spec => OnlyRecoveryResumes
<1>1. TypeOK /\ [Next]_vars =>
        [\A m \in Messages : Abandoned(m) =>
           Abandoned(m)' \/ \E t \in RecoverThreads : m \in Todo(t)]_vars
  BY AbandonedStep
<1> QED
  BY <1>1, TypeCorrect, PTL DEF Spec, OnlyRecoveryResumes

=============================================================================

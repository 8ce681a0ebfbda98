-------------------------- MODULE DeadLettersProofs --------------------------
(***************************************************************************)
(* Theorems about DeadLetters: to the group reprocessing is publishing, a  *)
(* letter becomes at most one message, and no message falls between the    *)
(* stream and the dead-letter stream.                                      *)
(***************************************************************************)
EXTENDS DeadLetters, ConsumerGroupRefinement

(* Every step of the composition is a step of the group or leaves it alone. *)
LEMMA GroupSteps ==
  ASSUME [DLNext]_allVars
  PROVE  [Next]_vars
BY DEF DLNext, allVars, GroupStep, ReprocessDeadLetterMessage, Find, Exec, Move,
       Fail, Next

(* Whoever reprocesses whatever at whatever time, the group behaves as      *)
(* ConsumerGroup says: all its theorems hold here.                          *)
THEOREM StillAGroup == DLSpec => Spec
<1>1. DLInit => Init
  BY DEF DLInit
<1>2. [DLNext]_allVars => [Next]_vars
  BY GroupSteps
<1> QED
  BY <1>1, <1>2, PTL DEF DLSpec, Spec

(* The delivery contract also covers the messages made from letters.        *)
THEOREM ContractKeptWithReprocessing == DLSpec => KeepsDeliveryContract
BY StillAGroup, ContractKept

-----------------------------------------------------------------------------
(* The inductive invariant.  Every letter ever written is in the stream or  *)
(* was made into a message, but not both; a call that nothing touched has   *)
(* its letter still before it.                                              *)
Accounted ==
  \A l \in Written : l \in letters \/ \E n \in Messages : origin[n] = l

MovedAway == \A n \in Messages : origin[n] \notin letters

WatchHolds == \A r \in Watching : r \notin touched => target[r] \in letters

DLInv == DLTypeOK /\ Accounted /\ MovedAway /\ WatchHolds /\ OncePerLetter

LEMMA NoLetterIsNone == \A l \in Written : l # NoLetter
BY NoneIsNoMessage DEF Written, NoLetter, None, Messages

(* Letters are numbered without gaps, so what was written stays written.    *)
LEMMA WrittenGrows ==
  ASSUME TypeOK, [Next]_vars
  PROVE  Written \subseteq Written'
<1>1. \A m \in Messages : dead[m] \in Nat /\ dead'[m] \in Nat /\ dead[m] <= dead'[m]
  BY EvidenceGrows DEF TypeOK
<1> QED
  BY <1>1, Z3 DEF Written

LEMMA DLInitInv == DLInit => DLInv
<1> SUFFICES ASSUME DLInit PROVE DLInv
  OBVIOUS
<1>1. Written = {}
  BY ConstantsAssumption DEF DLInit, Init, Nothing, Written
<1> QED
  BY <1>1, NoneIsNoMessage DEF DLInit, DLInv, DLTypeOK, Accounted, MovedAway, WatchHolds,
     OncePerLetter, Watching, NoLetter, None

LEMMA StreamGrows ==
  ASSUME TypeOK, [Next]_vars
  PROVE  added \in Nat /\ added' \in Nat /\ added <= added'
<1>1. added' = added \/ added' = added + 1
  BY DEF Next, vars, redis, Publish, IdleTimePasses, HandlerStep, HandlerSucceeds,
         HandlerFails, AckStep, Ack, AckFails, XAck, ReaderStep, Read,
         ReadReplyLost, ProcessNext, XReadGroup, Scan, RecoverStep, Claim,
         ClaimNothing, ClaimReplyLost, XClaim, DeadLetter,
         DeadLetterReplyLost, XAddDead, ClaimFails, DeadLetterFails, Crash
<1> QED
  BY <1>1, ConstantsAssumption DEF TypeOK

(* A step of the group adds the letters it writes, and touches every watch *)
(* when it adds any.                                                       *)
LEMMA GroupStepInv ==
  ASSUME TypeOK, DLInv, GroupStep
  PROVE  DLInv'
<1>1. /\ Written \subseteq Written' /\ letters' = letters \cup (Written' \ Written)
      /\ origin' = origin /\ target' = target
  BY WrittenGrows DEF GroupStep
<1>2. Watching' = Watching
  BY <1>1 DEF Watching
<1>3. DLTypeOK'
  BY <1>1, <1>2, StreamGrows DEF DLInv, DLTypeOK, GroupStep, Messages
<1>4. Accounted'
  BY <1>1 DEF DLInv, Accounted
<1>5. MovedAway'
  <2> SUFFICES ASSUME NEW n \in Messages PROVE origin[n] \notin letters'
    BY <1>1 DEF MovedAway
  <2>1. origin[n] \in Written \/ origin[n] = NoLetter
    BY DEF DLInv, DLTypeOK
  <2>2. NoLetter \notin Written'
    BY NoneIsNoMessage DEF Written, NoLetter, None, Messages
  <2> QED
    BY <1>1, <2>1, <2>2 DEF DLInv, MovedAway
<1>6. WatchHolds'
  BY <1>1, <1>2 DEF DLInv, WatchHolds, GroupStep
<1>7. OncePerLetter'
  BY <1>1 DEF DLInv, OncePerLetter
<1> QED
  BY <1>3, <1>4, <1>5, <1>6, <1>7 DEF DLInv

(* EXEC: the letter that leaves is the one the new message is made from.   *)
LEMMA ExecInv ==
  ASSUME TypeOK, DLInv, NEW r \in Reprocessors, Exec(r)
  PROVE  DLInv'
<1> DEFINE new == added + 1
<1>1. /\ new \in Messages /\ added' = new /\ dead' = dead
      /\ origin' = [origin EXCEPT ![new] = target[r]]
      /\ letters' = letters \ {target[r]}
      /\ target' = [target EXCEPT ![r] = NoLetter]
      /\ touched' = Watching \ {r}
  BY ConstantsAssumption DEF Exec, Move, CallEnds, Publish, TypeOK, Messages
<1>2. target[r] \in letters /\ target[r] \in Written /\ target[r] # NoLetter
  BY DEF Exec, CallEnds, DLInv, WatchHolds, Watching, DLTypeOK
<1>3. Written' = Written
  BY <1>1 DEF Written
<1>4. origin[new] = NoLetter /\ \A n \in Messages : origin[n] # target[r]
  BY <1>1, <1>2, ConstantsAssumption DEF DLInv, DLTypeOK, MovedAway, Messages, TypeOK
<1>5. Watching' = Watching \ {r}
  BY <1>1 DEF Watching, DLInv, DLTypeOK
<1>6. DLTypeOK'
  <2>1. \A m \in Messages : added' < m => origin'[m] = NoLetter
    BY <1>1, ConstantsAssumption DEF DLInv, DLTypeOK, Messages, TypeOK
  <2> QED
    BY <1>1, <1>2, <1>3, <1>5, <2>1 DEF DLInv, DLTypeOK, Watching
<1>7. \A n \in Messages : origin'[n] = IF n = new THEN target[r] ELSE origin[n]
  BY <1>1 DEF DLInv, DLTypeOK
<1>8. Accounted'
  <2> SUFFICES ASSUME NEW l \in Written
               PROVE  l \in letters' \/ \E n \in Messages : origin'[n] = l
    BY <1>3 DEF Accounted
  <2>1. CASE l = target[r]
    BY <2>1, <1>1, <1>7
  <2>2. CASE l # target[r] /\ l \in letters
    BY <2>2, <1>1
  <2>3. ASSUME NEW n \in Messages, origin[n] = l PROVE origin'[n] = l
    BY <2>3, <1>4, <1>7, NoLetterIsNone
  <2> QED
    BY <2>1, <2>2, <2>3 DEF DLInv, Accounted
<1>9. MovedAway'
  BY <1>1, <1>7 DEF DLInv, MovedAway
<1>10. WatchHolds'
  BY <1>1, <1>5 DEF WatchHolds
<1>11. OncePerLetter'
  BY <1>4, <1>7 DEF DLInv, OncePerLetter
<1> QED
  BY <1>6, <1>8, <1>9, <1>10, <1>11 DEF DLInv

LEMMA DLStepInv ==
  ASSUME TypeOK, DLInv, [DLNext]_allVars
  PROVE  DLInv'
<1>1. ASSUME NEW r \in Reprocessors, NEW l \in letters, Find(r, l)
      PROVE  DLInv'
  <2>1. /\ UNCHANGED <<vars, letters, origin, touched>>
        /\ target' = [target EXCEPT ![r] = l] /\ r \notin Watching
        /\ l \in Written /\ l # NoLetter
    BY <1>1, NoLetterIsNone DEF Find, DLInv, DLTypeOK
  <2>2. Written' = Written /\ added' = added
    BY <2>1 DEF vars, redis, Written
  <2>3. Watching' = Watching \cup {r}
    BY <2>1 DEF Watching, DLInv, DLTypeOK
  <2>4. DLTypeOK'
    BY <2>1, <2>2, <2>3 DEF DLInv, DLTypeOK
  <2>5. Accounted' /\ MovedAway' /\ OncePerLetter'
    BY <2>1, <2>2 DEF DLInv, Accounted, MovedAway, OncePerLetter
  <2>6. WatchHolds'
    BY <1>1, <2>1, <2>3 DEF DLInv, WatchHolds, DLTypeOK
  <2> QED
    BY <2>4, <2>5, <2>6 DEF DLInv
<1>2. ASSUME NEW r \in Reprocessors, Fail(r)
      PROVE  DLInv'
  <2>1. /\ UNCHANGED <<vars, letters, origin>> /\ touched' = touched \ {r}
        /\ target' = [target EXCEPT ![r] = NoLetter]
    BY <1>2 DEF Fail, CallEnds
  <2>2. Written' = Written /\ added' = added
    BY <2>1 DEF vars, redis, Written
  <2>3. Watching' = Watching \ {r}
    BY <2>1 DEF Watching, DLInv, DLTypeOK
  <2>4. DLTypeOK'
    BY <2>1, <2>2, <2>3 DEF DLInv, DLTypeOK
  <2>5. Accounted' /\ MovedAway' /\ OncePerLetter'
    BY <2>1, <2>2 DEF DLInv, Accounted, MovedAway, OncePerLetter
  <2>6. WatchHolds'
    BY <2>1, <2>3 DEF DLInv, WatchHolds, DLTypeOK, Watching
  <2> QED
    BY <2>4, <2>5, <2>6 DEF DLInv
<1>3. CASE UNCHANGED allVars
  <2>1. Written' = Written /\ Watching' = Watching
    BY <1>3 DEF allVars, dlVars, vars, redis, Written, Watching
  <2> QED
    BY <1>3, <2>1 DEF allVars, dlVars, vars, redis, DLInv, DLTypeOK, Accounted,
                      MovedAway, WatchHolds, OncePerLetter
<1> QED
  BY <1>1, <1>2, <1>3, GroupStepInv, ExecInv DEF DLNext, ReprocessDeadLetterMessage

LEMMA DLInvariant == DLSpec => []DLInv
<1>1. TypeOK /\ DLInv /\ [DLNext]_allVars => DLInv'
  BY DLStepInv
<1> QED
  BY <1>1, DLInitInv, StillAGroup, TypeCorrect, PTL DEF DLSpec

-----------------------------------------------------------------------------
(* The types of the composition.                                           *)
THEOREM ReprocessingTyped == DLSpec => []DLTypeOK
BY DLInvariant, PTL DEF DLInv

(* WATCH suffices: a letter becomes at most one message, for any number of *)
(* callers, of retries after lost replies and of letters added meanwhile.  *)
THEOREM ReprocessedOnce == DLSpec => []OncePerLetter
BY DLInvariant, PTL DEF DLInv

(* No message is lost on its way through the dead-letter stream.           *)
THEOREM NothingFallsBetween == DLSpec => []LineageKept
<1>1. ASSUME TypeOK, DLInv, NoMessageLost
      PROVE  LineageKept
  <2> SUFFICES ASSUME NEW m \in Settled \ handled
               PROVE  \/ \E l \in letters : l[1] = m
                      \/ \E n \in 1..added : origin[n][1] = m
    BY DEF LineageKept
  <2>1. m \in Messages /\ dead[m] \in Nat /\ dead[m] > 0
    BY <1>1, ConstantsAssumption DEF NoMessageLost, Settled, TypeOK, Messages
  <2>2. <<m, 1>> \in Written
    BY <2>1 DEF Written
  <2>3. CASE <<m, 1>> \in letters
    BY <2>3
  <2>4. ASSUME NEW n \in Messages, origin[n] = <<m, 1>>
        PROVE  n \in 1..added /\ origin[n][1] = m
    <3>1. origin[n] # NoLetter
      BY <2>2, <2>4, NoLetterIsNone
    <3>2. ~(added < n)
      BY <1>1, <3>1 DEF DLInv, DLTypeOK
    <3>3. n \in 1..added
      BY <1>1, <3>2, ConstantsAssumption DEF Messages, TypeOK
    <3> QED
      BY <2>4, <3>3
  <2> QED
    BY <1>1, <2>2, <2>3, <2>4 DEF DLInv, Accounted
<1> QED
  BY <1>1, DLInvariant, StillAGroup, TypeCorrect, NothingLost, PTL

=============================================================================

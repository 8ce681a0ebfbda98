------------------------ MODULE DelayedSchedulerProofs ------------------------
(***************************************************************************)
(* Theorems about DelayedScheduler for all schedulers, tasks and bounds.   *)
(* Where a retry count comes from decides both of them: it is raised only  *)
(* by a step that counts a reschedule of the same task.                    *)
(***************************************************************************)
EXTENDS DelayedScheduler, FiniteSetTheorems, TLAPS

(* No member in either set, or in any scheduler's hands, was retried more  *)
(* often than its task was rescheduled.                                    *)
Earned(m) == m.retry <= reschedules[m.task]

(* Each path through executeTask is taken by members it is meant for.      *)
PathsOK ==
  \A s \in Schedulers :
    /\ pc[s] # "loop" => Earned(cur[s])
    /\ pc[s] = "retry" => cur[s].retry < MaxRetries
    /\ pc[s] \in {"bury", "buried"} => cur[s].retry = MaxRetries

RetriesEarned ==
  /\ TypeOK
  /\ \A m \in delayed : Earned(m)
  /\ \A s \in Schedulers : \A m \in todo[s] : Earned(m)
  /\ PathsOK
  /\ \A m \in failed : Earned(m) /\ m.retry = MaxRetries

-----------------------------------------------------------------------------
(* A member is a record of these fields.                                   *)
LEMMA MemberFields ==
  ASSUME NEW m \in Members
  PROVE  m.task \in Tasks /\ m.retry \in 0..MaxRetries /\ m.stamp \in Nat
BY DEF Members

(* Raising the retry count of a member that has retries left gives one.    *)
LEMMA RaisedMember ==
  ASSUME TypeOK, NEW m \in Members, m.retry < MaxRetries
  PROVE  /\ Raised(m) \in Members
         /\ Raised(m).task = m.task
         /\ Raised(m).retry = m.retry + 1
<1>1. /\ m.task \in Tasks /\ m.retry \in 0..MaxRetries
      /\ reschedules[m.task] \in Nat
  BY MemberFields DEF TypeOK
<1>2. m.retry + 1 \in 0..MaxRetries
  BY <1>1, SchedulerAssumption DEF SchedulerAssumption
<1> QED
  BY <1>1, <1>2 DEF Raised, Members

(* No task was retried at the start.                                       *)
LEMMA InitEarned == Init => RetriesEarned
<1> SUFFICES ASSUME Init PROVE RetriesEarned
  OBVIOUS
<1>1. TypeOK
  BY SchedulerAssumption DEF Init, TypeOK, SchedulerAssumption
<1> QED
  BY <1>1 DEF Init, RetriesEarned, PathsOK

(* The steps of a scheduler on one member of its page.                     *)
LEMMA ExecuteEarned ==
  ASSUME RetriesEarned, NEW s \in Schedulers, NEW m \in todo[s], ExecuteStep(s, m)
  PROVE  RetriesEarned'
<1>1. m \in Members /\ Earned(m) /\ m.retry \in 0..MaxRetries /\ m.task \in Tasks
  <2>1. m \in Members
    BY DEF RetriesEarned, TypeOK
  <2> QED
    BY <2>1, MemberFields DEF RetriesEarned
<1>2. UNCHANGED <<reschedules, failed, scheduled>> /\ delayed' \subseteq delayed
  BY DEF ExecuteStep, DropInvalid, Execute, ExecuteRefused, ExecuteFails,
         ExecuteReplyLost, ZRem, redis
<1>3. due' \subseteq delayed' /\ faults' \in 0..MaxFaults
  BY SchedulerAssumption
     DEF ExecuteStep, DropInvalid, Execute, ExecuteRefused, ExecuteFails,
         ExecuteReplyLost, ZRem, Fault, redis, RetriesEarned, TypeOK,
         SchedulerAssumption
<1>4. published' \in [Tasks -> Nat]
  BY <1>1 DEF ExecuteStep, DropInvalid, Execute, ExecuteRefused, ExecuteFails,
         ExecuteReplyLost, XAdd, redis, RetriesEarned, TypeOK
<1>5. todo' = [todo EXCEPT ![s] = @ \ {m}]
  BY DEF ExecuteStep, DropInvalid, Execute, ExecuteRefused, ExecuteFails,
         ExecuteReplyLost, Take
<1>6. \/ UNCHANGED <<pc, cur>>
      \/ \E where \in {"done", "retry", "bury"} :
           /\ Goto(s, where, m)
           /\ where = "retry" => m.retry < MaxRetries
           /\ where = "bury" => m.retry = MaxRetries
  <2>1. CASE DropInvalid(s, m)
    BY <2>1 DEF DropInvalid
  <2>2. CASE Execute(s, m)
    BY <2>2 DEF Execute
  <2>3. CASE ExecutionFailed(s, m)
    <3>1. CASE m.retry < MaxRetries
      BY <2>3, <3>1 DEF ExecutionFailed, MayRetry
    <3>2. CASE ~(m.retry < MaxRetries)
      <4>1. m.retry = MaxRetries
        BY <1>1, <3>2, SchedulerAssumption DEF SchedulerAssumption
      <4> QED
        BY <2>3, <3>2, <4>1 DEF ExecutionFailed, MayRetry
    <3> QED
      BY <3>1, <3>2
  <2> QED
    BY <2>1, <2>2, <2>3
       DEF ExecuteStep, ExecuteRefused, ExecuteFails, ExecuteReplyLost
<1>7. /\ pc' \in [Schedulers -> {"loop", "done", "retry", "again", "bury", "buried"}]
      /\ cur' \in [Schedulers -> Members \cup {NoMember}]
      /\ \A r \in Schedulers : pc'[r] # "loop" => cur'[r] \in Members
  BY <1>1, <1>6 DEF Goto, RetriesEarned, TypeOK
<1>8. PathsOK'
  BY <1>1, <1>2, <1>6 DEF Goto, RetriesEarned, TypeOK, PathsOK, Earned
<1>9. TypeOK'
  BY <1>2, <1>3, <1>4, <1>5, <1>7 DEF RetriesEarned, TypeOK
<1> QED
  BY <1>2, <1>5, <1>8, <1>9 DEF RetriesEarned, TypeOK, Earned

(* The steps after XADD.                                                   *)
LEMMA FinishEarned ==
  ASSUME RetriesEarned, NEW s \in Schedulers, FinishStep(s)
  PROVE  RetriesEarned'
<1>1. cur[s] \in Members /\ Earned(cur[s]) /\ cur[s].task \in Tasks
  <2>1. pc[s] # "loop"
    BY DEF FinishStep, Finish, Remove, Reschedule, RescheduleFails, Bury,
           BuryFails, RemoveBuried
  <2>2. cur[s] \in Members /\ Earned(cur[s])
    BY <2>1 DEF RetriesEarned, TypeOK, PathsOK
  <2> QED
    BY <2>2, MemberFields
<1>2. UNCHANGED <<todo, published, scheduled>> /\ faults' \in 0..MaxFaults
  BY SchedulerAssumption
     DEF FinishStep, Finish, Remove, Reschedule, RescheduleFails, Bury,
         BuryFails, RemoveBuried, ZRem, Fault, redis, RetriesEarned, TypeOK,
         SchedulerAssumption
<1>a. ASSUME Goto(s, "loop", NoMember), UNCHANGED <<reschedules, failed>>,
             delayed' \subseteq delayed \cup {cur[s]}, due' \subseteq delayed'
      PROVE  RetriesEarned'
  <2>1. /\ pc' \in [Schedulers -> {"loop", "done", "retry", "again", "bury", "buried"}]
        /\ cur' \in [Schedulers -> Members \cup {NoMember}]
        /\ \A r \in Schedulers : pc'[r] # "loop" => cur'[r] \in Members
    BY <1>a DEF Goto, RetriesEarned, TypeOK
  <2>2. TypeOK'
    BY <1>1, <1>2, <1>a, <2>1 DEF RetriesEarned, TypeOK
  <2>3. PathsOK'
    BY <1>a DEF Goto, RetriesEarned, TypeOK, PathsOK, Earned
  <2> QED
    BY <1>1, <1>2, <1>a, <2>2, <2>3 DEF RetriesEarned, Earned
<1>3. CASE Finish(s)
  BY <1>3, <1>a DEF Finish, NextTask, ZRem, RetriesEarned, TypeOK
<1>4. CASE RemoveBuried(s)
  BY <1>4, <1>a DEF RemoveBuried, NextTask, ZRem, RetriesEarned, TypeOK
<1>5. CASE Reschedule(s) \/ RescheduleFails(s)
  BY <1>5, <1>a DEF Reschedule, RescheduleFails, NextTask, redis,
                    RetriesEarned, TypeOK
<1>6. CASE Remove(s)
  <2>1. /\ cur[s].retry < MaxRetries
        /\ reschedules[cur[s].task] \in Nat
        /\ cur[s].retry \in Int
    BY <1>1, <1>6, MemberFields DEF Remove, RetriesEarned, PathsOK, TypeOK
  <2>2. /\ Raised(cur[s]) \in Members
        /\ Raised(cur[s]).task = cur[s].task
        /\ Raised(cur[s]).retry = cur[s].retry + 1
    BY <1>1, <2>1, RaisedMember DEF RetriesEarned
  <2>3. /\ Goto(s, "again", Raised(cur[s]))
        /\ UNCHANGED failed /\ delayed' \subseteq delayed /\ due' \subseteq delayed'
        /\ reschedules' = [reschedules EXCEPT ![cur[s].task] = @ + 1]
    BY <1>6 DEF Remove, ZRem, RetriesEarned, TypeOK
  <2>4. reschedules' \in [Tasks -> Nat]
    BY <1>1, <2>3 DEF RetriesEarned, TypeOK
  <2>5. /\ pc' \in [Schedulers -> {"loop", "done", "retry", "again", "bury", "buried"}]
        /\ cur' \in [Schedulers -> Members \cup {NoMember}]
        /\ \A r \in Schedulers : pc'[r] # "loop" => cur'[r] \in Members
    BY <2>2, <2>3 DEF Goto, RetriesEarned, TypeOK
  <2>6. TypeOK'
    BY <1>2, <2>3, <2>4, <2>5 DEF RetriesEarned, TypeOK
  <2>7. ASSUME NEW m \in Members, Earned(m)
        PROVE  m.retry <= reschedules'[m.task]
    <3>1. /\ m.task \in Tasks /\ m.retry \in Int
          /\ reschedules[m.task] \in Nat
      BY MemberFields DEF RetriesEarned, TypeOK
    <3> QED
      BY <1>1, <2>3, <2>7, <3>1 DEF RetriesEarned, TypeOK, Earned
  <2>8. Raised(cur[s]).retry <= reschedules'[Raised(cur[s]).task]
    BY <1>1, <2>1, <2>2, <2>3 DEF RetriesEarned, TypeOK, Earned
  <2>9. PathsOK'
    <3> SUFFICES ASSUME NEW r \in Schedulers
                 PROVE  /\ pc'[r] # "loop" => cur'[r].retry <= reschedules'[cur'[r].task]
                        /\ pc'[r] = "retry" => cur'[r].retry < MaxRetries
                        /\ pc'[r] \in {"bury", "buried"} => cur'[r].retry = MaxRetries
      BY DEF PathsOK, Earned
    <3>1. CASE r = s
      BY <2>3, <2>8, <3>1 DEF Goto, RetriesEarned, TypeOK
    <3>2. CASE r # s
      <4>1. pc'[r] = pc[r] /\ cur'[r] = cur[r]
        BY <2>3, <3>2 DEF Goto, RetriesEarned, TypeOK
      <4>2. pc[r] # "loop" => cur[r] \in Members /\ Earned(cur[r])
        BY DEF RetriesEarned, TypeOK, PathsOK
      <4> QED
        BY <2>7, <4>1, <4>2 DEF RetriesEarned, PathsOK
    <3> QED
      BY <3>1, <3>2
  <2> QED
    BY <1>2, <2>3, <2>6, <2>7, <2>9 DEF RetriesEarned, TypeOK, Earned
<1>7. CASE Bury(s) \/ BuryFails(s)
  <2>1. /\ Goto(s, "buried", cur[s]) /\ pc[s] = "bury"
        /\ UNCHANGED <<reschedules, delayed, due>>
        /\ failed' \subseteq failed \cup {cur[s]}
    BY <1>7 DEF Bury, BuryFails, redis
  <2>2. cur[s].retry = MaxRetries
    BY <2>1 DEF RetriesEarned, PathsOK
  <2>3. /\ pc' \in [Schedulers -> {"loop", "done", "retry", "again", "bury", "buried"}]
        /\ cur' \in [Schedulers -> Members \cup {NoMember}]
        /\ \A r \in Schedulers : pc'[r] # "loop" => cur'[r] \in Members
    BY <1>1, <2>1 DEF Goto, RetriesEarned, TypeOK
  <2>4. TypeOK'
    BY <1>1, <1>2, <2>1, <2>3 DEF RetriesEarned, TypeOK
  <2>5. PathsOK'
    BY <1>1, <2>1, <2>2 DEF Goto, RetriesEarned, TypeOK, PathsOK, Earned
  <2> QED
    BY <1>1, <1>2, <2>1, <2>2, <2>4, <2>5 DEF RetriesEarned, Earned
<1> QED
  BY <1>3, <1>4, <1>5, <1>6, <1>7 DEF FinishStep

(* Every step keeps RetriesEarned.                                         *)
LEMMA NextEarned == RetriesEarned /\ [Next]_vars => RetriesEarned'
<1> SUFFICES ASSUME RetriesEarned, [Next]_vars PROVE RetriesEarned'
  OBVIOUS
<1>1. ASSUME NEW t \in Tasks, ScheduleTask(t) PROVE RetriesEarned'
  <2> DEFINE new == [task |-> t, retry |-> 0, stamp |-> 0]
  <2>1. new \in Members /\ Earned(new)
    BY SchedulerAssumption
       DEF Members, SchedulerAssumption, RetriesEarned, TypeOK, Earned
  <2>2. /\ delayed' = delayed \cup {new} /\ scheduled' = scheduled \cup {t}
        /\ UNCHANGED <<due, failed, published, reschedules, todo, pc, cur, faults>>
    BY <1>1 DEF ScheduleTask, local
  <2> HIDE DEF new
  <2>3. TypeOK'
    BY <2>1, <2>2 DEF RetriesEarned, TypeOK
  <2> QED
    BY <2>1, <2>2, <2>3 DEF RetriesEarned, Earned, PathsOK
<1>2. ASSUME NEW m \in delayed, BecomesDue(m) PROVE RetriesEarned'
  BY <1>2 DEF BecomesDue, local, RetriesEarned, TypeOK, PathsOK, Earned
<1>3. ASSUME NEW s \in Schedulers, Poll(s) PROVE RetriesEarned'
  <2>1. PICK P \in SUBSET due : todo' = [todo EXCEPT ![s] = P]
    BY <1>3 DEF Poll
  <2>2. UNCHANGED <<scheduled, delayed, due, failed, published, reschedules,
                    pc, cur, faults>>
    BY <1>3 DEF Poll, redis
  <2>3. P \in SUBSET delayed /\ P \in SUBSET Members
    BY DEF RetriesEarned, TypeOK
  <2>4. TypeOK'
    BY <2>1, <2>2, <2>3 DEF RetriesEarned, TypeOK
  <2> QED
    BY <2>1, <2>2, <2>3, <2>4 DEF RetriesEarned, TypeOK, PathsOK, Earned
<1>4. ASSUME NEW s \in Schedulers, Crash(s) PROVE RetriesEarned'
  <2>1. /\ Goto(s, "loop", NoMember) /\ todo' = [todo EXCEPT ![s] = {}]
        /\ faults' \in 0..MaxFaults
        /\ UNCHANGED <<scheduled, delayed, due, failed, published, reschedules>>
    BY <1>4, SchedulerAssumption
       DEF Crash, NextTask, Fault, redis, RetriesEarned, TypeOK, SchedulerAssumption
  <2>2. TypeOK'
    BY <2>1 DEF Goto, RetriesEarned, TypeOK
  <2> QED
    BY <2>1, <2>2 DEF Goto, RetriesEarned, TypeOK, PathsOK, Earned
<1>5. CASE UNCHANGED vars
  BY <1>5 DEF vars, redis, local, RetriesEarned, TypeOK, PathsOK, Earned
<1> QED
  BY <1>1, <1>2, <1>3, <1>4, <1>5, ExecuteEarned, FinishEarned
     DEF Next, SchedulerStep

-----------------------------------------------------------------------------
(* The sorted sets hold tasks with a retry count within its bound, and a   *)
(* scheduler between two commands holds one of them.                       *)
THEOREM SchedulerTyped == Spec => []TypeOK
<1>1. RetriesEarned => TypeOK
  BY DEF RetriesEarned
<1> QED
  BY <1>1, InitEarned, NextEarned, PTL DEF Spec

(* However many schedulers execute the same task at once, and however many *)
(* copies of it their retries leave: nobody gives it up before it was      *)
(* rescheduled MaxRetries times.                                           *)
THEOREM GivenUpWhenExhausted == Spec => []FailedOnlyWhenExhausted
<1>1. RetriesEarned => FailedOnlyWhenExhausted
  BY DEF RetriesEarned, FailedOnlyWhenExhausted, Earned
<1> QED
  BY <1>1, InitEarned, NextEarned, PTL DEF Spec

-----------------------------------------------------------------------------
(* Hands.  What a scheduler works on was scheduled, is no longer in its    *)
(* page, and is published when it says so.                                 *)

OnMember == {"done", "retry", "bury", "buried"}

HandsOK ==
  /\ \A m \in delayed \cup failed : m.task \in scheduled
  /\ \A s \in Schedulers : \A m \in todo[s] : m.task \in scheduled
  /\ \A s \in Schedulers :
       /\ pc[s] # "loop" => cur[s].task \in scheduled
       /\ pc[s] \in OnMember => cur[s] \notin todo[s]
       /\ pc[s] = "done" => published[cur[s].task] > 0

(* Every step keeps HandsOK.                                               *)
LEMMA HandsStep ==
  ASSUME RetriesEarned, HandsOK, [Next]_vars
  PROVE  HandsOK'
<1>t. /\ pc \in [Schedulers -> {"loop", "done", "retry", "again", "bury", "buried"}]
      /\ cur \in [Schedulers -> Members \cup {NoMember}]
      /\ todo \in [Schedulers -> SUBSET Members]
      /\ published \in [Tasks -> Nat] /\ due \subseteq delayed
      /\ delayed \subseteq Members /\ scheduled \subseteq Tasks
  BY DEF RetriesEarned, TypeOK
<1> USE DEF HandsOK, OnMember
<1>1. ASSUME NEW t \in Tasks, ScheduleTask(t) PROVE HandsOK'
  BY <1>1, <1>t DEF ScheduleTask, local
<1>2. ASSUME NEW m \in delayed, BecomesDue(m) PROVE HandsOK'
  BY <1>2 DEF BecomesDue, local
<1>3. ASSUME NEW s \in Schedulers, Poll(s) PROVE HandsOK'
  BY <1>3, <1>t DEF Poll, redis
<1>4. ASSUME NEW s \in Schedulers, NEW m \in todo[s], ExecuteStep(s, m)
      PROVE  HandsOK'
  <2>1. m.task \in scheduled /\ m.task \in Tasks
    BY <1>t
  <2>2. /\ UNCHANGED <<scheduled, failed>> /\ delayed' \subseteq delayed
        /\ todo' = [todo EXCEPT ![s] = @ \ {m}]
    BY <1>4 DEF ExecuteStep, DropInvalid, Execute, ExecuteRefused, ExecuteFails,
                ExecuteReplyLost, ZRem, Take, redis
  <2>3. \/ UNCHANGED <<pc, cur>>
        \/ Goto(s, "done", m) /\ published'[m.task] > 0
        \/ \E where \in {"retry", "bury"} : Goto(s, where, m)
    BY <1>4, <1>t, <2>1
       DEF ExecuteStep, DropInvalid, Execute, ExecuteRefused, ExecuteFails,
           ExecuteReplyLost, ExecutionFailed, XAdd
  <2>4. \A t \in Tasks : published[t] > 0 => published'[t] > 0
    BY <1>4, <1>t, <2>1
       DEF ExecuteStep, DropInvalid, Execute, ExecuteRefused, ExecuteFails,
           ExecuteReplyLost, XAdd, redis
  <2>5. \A r \in Schedulers : pc'[r] # "loop" => cur'[r].task \in scheduled
    BY <1>t, <2>1, <2>3 DEF Goto
  <2>6. \A r \in Schedulers : pc'[r] \in OnMember => cur'[r] \notin todo'[r]
    BY <1>t, <2>2, <2>3 DEF Goto
  <2>7. \A r \in Schedulers : pc'[r] = "done" => published'[cur'[r].task] > 0
    BY <1>t, <2>3, <2>4 DEF Goto
  <2> QED
    BY <1>t, <2>2, <2>5, <2>6, <2>7
<1>5. ASSUME NEW s \in Schedulers, FinishStep(s) PROVE HandsOK'
  <2>1. UNCHANGED <<scheduled, published, todo>> /\ cur[s].task \in scheduled
    BY <1>5 DEF FinishStep, Finish, Remove, Reschedule, RescheduleFails, Bury,
                BuryFails, RemoveBuried, redis
  <2>2. delayed' \cup failed' \subseteq delayed \cup failed \cup {cur[s]}
    BY <1>5 DEF FinishStep, Finish, Remove, Reschedule, RescheduleFails, Bury,
                BuryFails, RemoveBuried, ZRem, redis
  <2>3. \/ Goto(s, "loop", NoMember)
        \/ Goto(s, "again", Raised(cur[s]))
        \/ Goto(s, "buried", cur[s]) /\ pc[s] = "bury"
    BY <1>5 DEF FinishStep, Finish, Remove, Reschedule, RescheduleFails, Bury,
                BuryFails, RemoveBuried, NextTask
  <2>4. Raised(cur[s]).task = cur[s].task
    BY DEF Raised
  <2> QED
    BY <1>t, <2>1, <2>2, <2>3, <2>4 DEF Goto
<1>6. ASSUME NEW s \in Schedulers, Crash(s) PROVE HandsOK'
  BY <1>6, <1>t DEF Crash, NextTask, Goto, redis
<1>7. CASE UNCHANGED vars
  BY <1>7 DEF vars, redis, local
<1> QED
  BY <1>1, <1>2, <1>3, <1>4, <1>5, <1>6, <1>7 DEF Next, SchedulerStep

-----------------------------------------------------------------------------
(* Losses.  A task Redis would have accepted has cost a fault from the     *)
(* moment its execution failed; any task has cost a fault from the moment  *)
(* a member was removed whose successor was not added, or was going to be  *)
(* removed although it was not buried.                                     *)

Original(t) == [task |-> t, retry |-> 0, stamp |-> 0]

OnPath(t) ==
  \E s \in Schedulers :
    pc[s] \in {"retry", "again", "bury", "buried"} /\ cur[s].task = t

Unpublished == {t \in scheduled \ Undecodable : published[t] = 0}

FailedOnce == {t \in Unpublished \ Refused : Original(t) \notin delayed \/ OnPath(t)}

NotBuried(t) ==
  \E s \in Schedulers : pc[s] = "buried" /\ cur[s].task = t /\ cur[s] \notin failed

Unkept == Lost \cup {t \in Unpublished : NotBuried(t)}

LossesPaid == Cardinality(FailedOnce) + Cardinality(Unkept) <= faults

(* Both are finite sets of tasks.                                          *)
LEMMA LossesFinite ==
  ASSUME TypeOK
  PROVE  /\ IsFiniteSet(FailedOnce) /\ Cardinality(FailedOnce) \in Nat
         /\ IsFiniteSet(Unkept) /\ Cardinality(Unkept) \in Nat
         /\ faults \in Nat
<1>1. FailedOnce \subseteq Tasks /\ Unkept \subseteq Tasks
  BY DEF TypeOK, FailedOnce, Unkept, Unpublished, Lost
<1> QED
  BY <1>1, SchedulerAssumption, FS_Subset, FS_CardinalityType
     DEF TypeOK, SchedulerAssumption

(* A fault pays for one more task in one of the sets.                      *)
LEMMA LossPaid ==
  ASSUME TypeOK, LossesPaid, NEW x,
         \/ /\ faults' \in {faults, faults + 1}
            /\ FailedOnce' \subseteq FailedOnce /\ Unkept' \subseteq Unkept
         \/ /\ faults' = faults + 1
            /\ FailedOnce' \subseteq FailedOnce \cup {x} /\ Unkept' \subseteq Unkept
         \/ /\ faults' = faults + 1
            /\ FailedOnce' \subseteq FailedOnce /\ Unkept' \subseteq Unkept \cup {x}
  PROVE  LossesPaid'
<1>1. ASSUME NEW S, IsFiniteSet(S), NEW T, T \subseteq S \cup {x}
      PROVE  /\ Cardinality(T) \in Nat /\ Cardinality(T) <= Cardinality(S) + 1
             /\ T \subseteq S => Cardinality(T) <= Cardinality(S)
  <2>1. /\ IsFiniteSet(S \cup {x}) /\ Cardinality(S) \in Nat
        /\ Cardinality(S \cup {x}) <= Cardinality(S) + 1
    BY <1>1, FS_AddElement, FS_CardinalityType
  <2>2. IsFiniteSet(T) /\ Cardinality(T) <= Cardinality(S \cup {x})
    BY <1>1, <2>1, FS_Subset
  <2>3. Cardinality(T) \in Nat /\ Cardinality(S \cup {x}) \in Nat
    BY <2>1, <2>2, FS_CardinalityType
  <2>4. T \subseteq S => Cardinality(T) <= Cardinality(S)
    BY <1>1, FS_Subset
  <2> QED
    BY <2>1, <2>2, <2>3, <2>4
<1>2. /\ Cardinality(FailedOnce') \in Nat /\ Cardinality(Unkept') \in Nat
      /\ Cardinality(FailedOnce') <= Cardinality(FailedOnce) + 1
      /\ FailedOnce' \subseteq FailedOnce
           => Cardinality(FailedOnce') <= Cardinality(FailedOnce)
      /\ Cardinality(Unkept') <= Cardinality(Unkept) + 1
      /\ Unkept' \subseteq Unkept => Cardinality(Unkept') <= Cardinality(Unkept)
  <2>1. FailedOnce' \subseteq FailedOnce \cup {x} /\ Unkept' \subseteq Unkept \cup {x}
    OBVIOUS
  <2> QED
    BY <1>1, <2>1, LossesFinite
<1> QED
  BY <1>2, LossesFinite DEF LossesPaid

(* The steps of a scheduler on one member of its page.                     *)
LEMMA LossesExecute ==
  ASSUME RetriesEarned, HandsOK, LossesPaid,
         NEW s \in Schedulers, NEW m \in todo[s], ExecuteStep(s, m)
  PROVE  LossesPaid'
<1>t. /\ pc \in [Schedulers -> {"loop", "done", "retry", "again", "bury", "buried"}]
      /\ cur \in [Schedulers -> Members \cup {NoMember}]
      /\ published \in [Tasks -> Nat] /\ scheduled \subseteq Tasks
      /\ m.task \in Tasks /\ faults \in Nat /\ TypeOK
  BY MemberFields DEF RetriesEarned, TypeOK
<1> USE DEF FailedOnce, Unkept, Unpublished, Lost, OnPath, NotBuried, InHand, Of, Original
<1>1. CASE DropInvalid(s, m)
  <2>1. /\ UNCHANGED <<scheduled, failed, published, pc, cur>>
        /\ m.task \in Undecodable
        /\ delayed' \in {delayed, delayed \ {m}} /\ faults' \in {faults, faults + 1}
    BY <1>1 DEF DropInvalid, ZRem, Fault
  <2>2. FailedOnce' \subseteq FailedOnce
    BY <2>1
  <2>3. Unkept' \subseteq Unkept
    BY <2>1
  <2> QED
    BY <1>t, <2>1, <2>2, <2>3, LossPaid
<1>2. CASE Execute(s, m) \/ ExecuteReplyLost(s, m)
  <2>1. /\ UNCHANGED <<scheduled, failed, delayed>> /\ pc[s] = "loop"
        /\ published' = [published EXCEPT ![m.task] = @ + 1]
        /\ faults' \in {faults, faults + 1}
        /\ \E where \in {"done", "retry", "bury"} : Goto(s, where, m)
    BY <1>2 DEF Execute, ExecuteReplyLost, ExecutionFailed, Take, XAdd, Fault
  <2>2. Unpublished' \subseteq Unpublished /\ m.task \notin Unpublished'
    BY <1>t, <2>1
  <2>3. \A r \in Schedulers : r # s => pc'[r] = pc[r] /\ cur'[r] = cur[r]
    BY <1>t, <2>1 DEF Goto
  <2>4. cur'[s] = m /\ pc'[s] # "buried" /\ pc[s] = "loop"
    BY <1>t, <2>1 DEF Goto
  <2>5. FailedOnce' \subseteq FailedOnce
    BY <2>1, <2>2, <2>3, <2>4
  <2>6. Lost' \subseteq Lost
    BY <1>t, <2>1, <2>3, <2>4
  <2>7. Unkept' \subseteq Unkept
    BY <2>1, <2>2, <2>3, <2>4, <2>6
  <2> QED
    BY <1>t, <2>1, <2>5, <2>7, LossPaid
<1>3. CASE ExecuteRefused(s, m) \/ ExecuteFails(s, m)
  <2>1. /\ UNCHANGED <<scheduled, failed, delayed, published>> /\ pc[s] = "loop"
        /\ \E where \in {"retry", "bury"} : Goto(s, where, m)
    BY <1>3 DEF ExecuteRefused, ExecuteFails, ExecutionFailed, Take, redis
  <2>2. \A r \in Schedulers : r # s => pc'[r] = pc[r] /\ cur'[r] = cur[r]
    BY <1>t, <2>1 DEF Goto
  <2>3. cur'[s] = m /\ pc'[s] \in {"retry", "bury"} /\ pc[s] = "loop"
    BY <1>t, <2>1 DEF Goto
  <2>4. FailedOnce' \subseteq FailedOnce \cup {m.task}
    BY <2>1, <2>2, <2>3
  <2>5. Unkept' \subseteq Unkept
    BY <2>1, <2>2, <2>3
  <2>6. CASE ExecuteRefused(s, m)
    <3>1. m.task \in Refused /\ faults' = faults
      BY <2>6 DEF ExecuteRefused
    <3>2. FailedOnce' \subseteq FailedOnce
      BY <2>4, <3>1
    <3> QED
      BY <1>t, <2>5, <3>1, <3>2, LossPaid
  <2>7. CASE ExecuteFails(s, m)
    BY <1>t, <2>4, <2>5, <2>7, LossPaid DEF ExecuteFails, Fault
  <2> QED
    BY <1>3, <2>6, <2>7
<1> QED
  BY <1>1, <1>2, <1>3 DEF ExecuteStep

(* The steps after XADD.                                                   *)
LEMMA LossesFinishStep ==
  ASSUME RetriesEarned, HandsOK, LossesPaid, NEW s \in Schedulers, FinishStep(s)
  PROVE  LossesPaid'
<1>t. /\ pc \in [Schedulers -> {"loop", "done", "retry", "again", "bury", "buried"}]
      /\ cur \in [Schedulers -> Members \cup {NoMember}]
      /\ published \in [Tasks -> Nat] /\ scheduled \subseteq Tasks
      /\ faults \in Nat /\ TypeOK
  BY DEF RetriesEarned, TypeOK
<1> DEFINE x == cur[s].task
<1>u. UNCHANGED <<scheduled, published>> /\ Unpublished' = Unpublished
  BY DEF FinishStep, Finish, Remove, Reschedule, RescheduleFails, Bury,
         BuryFails, RemoveBuried, redis, Unpublished
<1>v. /\ faults' \in {faults, faults + 1}
      /\ \A r \in Schedulers : r # s => pc'[r] = pc[r] /\ cur'[r] = cur[r]
  BY <1>t DEF FinishStep, Finish, Remove, Reschedule, RescheduleFails, Bury,
              BuryFails, RemoveBuried, ZRem, Fault, NextTask, Goto
<1> USE DEF FailedOnce, Unkept, Lost, OnPath, NotBuried, InHand, Of, Original
<1>1. CASE Finish(s)
  <2>1. /\ pc[s] = "done" /\ pc'[s] = "loop" /\ UNCHANGED failed
        /\ delayed' \in {delayed, delayed \ {cur[s]}}
    BY <1>1, <1>t DEF Finish, ZRem, NextTask, Goto
  <2>2. published[x] > 0
    BY <2>1 DEF HandsOK
  <2>3. x \notin Unpublished /\ x \notin Lost'
    BY <1>u, <2>2 DEF Unpublished
  <2>4. FailedOnce' \subseteq FailedOnce
    BY <1>u, <1>v, <2>1, <2>3
  <2>5. Lost' \subseteq Lost
    BY <1>u, <1>v, <2>1, <2>3
  <2>6. Unkept' \subseteq Unkept
    BY <1>u, <1>v, <2>1, <2>5
  <2> QED
    BY <1>t, <1>v, <2>4, <2>6, LossPaid
<1>2. CASE Remove(s)
  <2>1. /\ pc[s] = "retry" /\ pc'[s] = "again" /\ cur'[s].task = x
        /\ UNCHANGED failed /\ delayed' \in {delayed, delayed \ {cur[s]}}
    BY <1>2, <1>t DEF Remove, ZRem, Goto, Raised
  <2>2. FailedOnce' \subseteq FailedOnce
    BY <1>u, <1>v, <2>1
  <2>3. Lost' \subseteq Lost
    BY <1>u, <1>v, <2>1
  <2>4. Unkept' \subseteq Unkept
    BY <1>u, <1>v, <2>1, <2>3
  <2> QED
    BY <1>t, <1>v, <2>2, <2>4, LossPaid
<1>3. CASE Reschedule(s)
  <2>1. /\ pc[s] = "again" /\ pc'[s] = "loop" /\ UNCHANGED failed
        /\ delayed' = delayed \cup {cur[s]}
    BY <1>3, <1>t DEF Reschedule, NextTask, Goto
  <2>2. FailedOnce' \subseteq FailedOnce
    BY <1>u, <1>v, <2>1
  <2>3. Lost' \subseteq Lost
    BY <1>u, <1>v, <2>1
  <2>4. Unkept' \subseteq Unkept
    BY <1>u, <1>v, <2>1, <2>3
  <2> QED
    BY <1>t, <1>v, <2>2, <2>4, LossPaid
<1>4. CASE RescheduleFails(s)
  <2>1. /\ pc[s] = "again" /\ pc'[s] = "loop" /\ UNCHANGED <<failed, delayed>>
        /\ faults' = faults + 1
    BY <1>4, <1>t DEF RescheduleFails, NextTask, Goto, Fault, redis
  <2>2. FailedOnce' \subseteq FailedOnce
    BY <1>u, <1>v, <2>1
  <2>3. Unkept' \subseteq Unkept \cup {x}
    BY <1>u, <1>v, <2>1
  <2> QED
    BY <1>t, <2>1, <2>2, <2>3, LossPaid
<1>5. CASE Bury(s)
  <2>1. /\ pc[s] = "bury" /\ pc'[s] = "buried" /\ cur'[s] = cur[s]
        /\ failed' = failed \cup {cur[s]} /\ UNCHANGED delayed
    BY <1>5, <1>t DEF Bury, Goto
  <2>2. FailedOnce' \subseteq FailedOnce
    BY <1>u, <1>v, <2>1
  <2>3. Lost' \subseteq Lost
    BY <1>u, <1>v, <2>1
  <2>4. Unkept' \subseteq Unkept
    BY <1>u, <1>v, <2>1, <2>3
  <2> QED
    BY <1>t, <1>v, <2>2, <2>4, LossPaid
<1>6. CASE BuryFails(s)
  <2>1. /\ pc[s] = "bury" /\ pc'[s] = "buried" /\ cur'[s] = cur[s]
        /\ UNCHANGED <<failed, delayed>> /\ faults' = faults + 1
    BY <1>6, <1>t DEF BuryFails, Goto, Fault, redis
  <2>2. FailedOnce' \subseteq FailedOnce
    BY <1>u, <1>v, <2>1
  <2>3. Unkept' \subseteq Unkept \cup {x}
    BY <1>u, <1>v, <2>1
  <2> QED
    BY <1>t, <2>1, <2>2, <2>3, LossPaid
<1>7. CASE RemoveBuried(s)
  <2>1. /\ pc[s] = "buried" /\ pc'[s] = "loop" /\ UNCHANGED failed
        /\ delayed' \in {delayed, delayed \ {cur[s]}}
    BY <1>7, <1>t DEF RemoveBuried, ZRem, NextTask, Goto
  <2>2. FailedOnce' \subseteq FailedOnce
    BY <1>u, <1>v, <2>1
  <2>3. x \in Lost' => x \in Unkept
    BY <1>u, <2>1 DEF Unpublished
  <2>4. Unkept' \subseteq Unkept
    BY <1>u, <1>v, <2>1, <2>3
  <2> QED
    BY <1>t, <1>v, <2>2, <2>4, LossPaid
<1> QED
  BY <1>1, <1>2, <1>3, <1>4, <1>5, <1>6, <1>7 DEF FinishStep

(* Every step keeps LossesPaid.                                            *)
LEMMA LossesStep ==
  ASSUME RetriesEarned, HandsOK, LossesPaid, [Next]_vars
  PROVE  LossesPaid'
<1>t. TypeOK /\ faults \in Nat
  BY DEF RetriesEarned, TypeOK
<1> USE DEF FailedOnce, Unkept, Unpublished, Lost, OnPath, NotBuried, InHand, Of, Original
<1>1. ASSUME NEW u \in Tasks, ScheduleTask(u) PROVE LossesPaid'
  <2>1. /\ u \notin scheduled /\ scheduled' = scheduled \cup {u}
        /\ delayed' = delayed \cup {Original(u)}
        /\ UNCHANGED <<failed, published, pc, cur, faults>>
    BY <1>1 DEF ScheduleTask, local
  <2>2. ~OnPath(u) /\ ~NotBuried(u)
    BY <2>1 DEF HandsOK
  <2>3. FailedOnce' \subseteq FailedOnce
    BY <2>1, <2>2
  <2>4. u \notin Lost'
    <3>1. Original(u) \in {m \in delayed' \cup failed' : m.task = u}
      BY <2>1
    <3> QED
      BY <3>1
  <2>5. Lost' \subseteq Lost
    <3> SUFFICES ASSUME NEW t \in Lost', t # u PROVE t \in Lost
      BY <2>4
    <3>1. t \in scheduled \ Undecodable /\ published[t] = 0
      BY <2>1
    <3>2. {m \in delayed \cup failed : m.task = t} = {}
      BY <2>1
    <3>3. ~InHand(t)
      BY <2>1
    <3> QED
      BY <3>1, <3>2, <3>3
  <2>6. \A t : NotBuried(t)' => NotBuried(t)
    BY <2>1
  <2>7. Unpublished' \ {u} \subseteq Unpublished
    BY <2>1
  <2> HIDE DEF Lost, NotBuried, Unpublished, FailedOnce
  <2>8. Unkept' \subseteq Unkept
    BY <2>2, <2>4, <2>5, <2>6, <2>7
  <2> QED
    BY <1>t, <2>1, <2>3, <2>8, LossPaid
<1>2. ASSUME NEW s \in Schedulers, Crash(s) PROVE LossesPaid'
  <2>1. /\ UNCHANGED <<scheduled, delayed, failed, published>> /\ faults' = faults + 1
        /\ \A r \in Schedulers : r # s => pc'[r] = pc[r] /\ cur'[r] = cur[r]
        /\ pc'[s] = "loop"
    BY <1>2 DEF Crash, Fault, NextTask, Goto, redis, RetriesEarned, TypeOK
  <2>2. FailedOnce' \subseteq FailedOnce
    BY <2>1
  <2>3. Lost' \subseteq Lost \cup {cur[s].task}
    <3> SUFFICES ASSUME NEW t \in Lost', t # cur[s].task PROVE t \in Lost
      OBVIOUS
    <3>1. t \in scheduled \ Undecodable /\ published[t] = 0
      BY <2>1
    <3>2. {m \in delayed \cup failed : m.task = t} = {}
      BY <2>1
    <3>3. ~InHand(t)
      BY <2>1
    <3> QED
      BY <3>1, <3>2, <3>3
  <2>4. \A t : NotBuried(t)' => NotBuried(t)
    BY <2>1
  <2>5. Unpublished' = Unpublished
    BY <2>1
  <2> HIDE DEF Lost, NotBuried, Unpublished, FailedOnce
  <2>6. Unkept' \subseteq Unkept \cup {cur[s].task}
    BY <2>3, <2>4, <2>5
  <2> QED
    BY <1>t, <2>1, <2>2, <2>6, LossPaid
<1>3. CASE UNCHANGED <<scheduled, delayed, failed, published, pc, cur, faults>>
  BY <1>t, <1>3, LossPaid
<1>4. ASSUME NEW m \in delayed, BecomesDue(m)
      PROVE  UNCHANGED <<scheduled, delayed, failed, published, pc, cur, faults>>
  BY <1>4 DEF BecomesDue, local
<1>5. ASSUME NEW s \in Schedulers, Poll(s)
      PROVE  UNCHANGED <<scheduled, delayed, failed, published, pc, cur, faults>>
  BY <1>5 DEF Poll, redis
<1> QED
  BY <1>1, <1>2, <1>3, <1>4, <1>5, LossesExecute, LossesFinishStep
     DEF Next, SchedulerStep, vars, redis, local

(* A retry and a burial are two commands each (delayed_scheduler.go:255,   *)
(* :263): whoever runs them, and however many at once, a lost task stands  *)
(* for a fault of its own, and for two if Redis would have accepted it.    *)
THEOREM LossesNeedFaults == Spec => []LossNeedsFaults
<1>1. Init => HandsOK /\ LossesPaid
  <2> SUFFICES ASSUME Init PROVE HandsOK /\ LossesPaid
    OBVIOUS
  <2>1. FailedOnce = {} /\ Unkept = {} /\ faults = 0
    BY DEF Init, FailedOnce, Unkept, Unpublished, Lost
  <2> QED
    BY <2>1, FS_EmptySet DEF Init, HandsOK, OnMember, LossesPaid
<1>2. RetriesEarned /\ LossesPaid => LossNeedsFaults
  <2> SUFFICES ASSUME RetriesEarned, LossesPaid PROVE LossNeedsFaults
    OBVIOUS
  <2>1. TypeOK
    BY DEF RetriesEarned
  <2>2. Lost \subseteq Unkept /\ Lost \ Refused \subseteq FailedOnce
    BY DEF Unkept, FailedOnce, Lost, Unpublished, Of, Original
  <2>3. /\ Cardinality(Lost) <= Cardinality(Unkept) /\ IsFiniteSet(Lost)
        /\ Cardinality(Lost \ Refused) <= Cardinality(FailedOnce)
        /\ IsFiniteSet(Lost \ Refused)
    BY <2>1, <2>2, LossesFinite, FS_Subset
  <2>4. Cardinality(Lost) \in Nat /\ Cardinality(Lost \ Refused) \in Nat
    BY <2>3, FS_CardinalityType
  <2> QED
    BY <2>1, <2>3, <2>4, LossesFinite DEF LossesPaid, LossNeedsFaults
<1> QED
  BY <1>1, <1>2, InitEarned, NextEarned, HandsStep, LossesStep, PTL DEF Spec

-----------------------------------------------------------------------------
(* Publications.  A scheduler can publish a task once for each member it   *)
(* finds in the set or in its page, and has not yet taken; a member it is  *)
(* about to reschedule can be published by all of them.                    *)

N == Cardinality(Schedulers)

Waiting(t) ==
  {w \in Schedulers \X Members :
     /\ w[2].task = t /\ w[2] \in delayed \cup todo[w[1]]
     /\ ~(pc[w[1]] \in OnMember /\ cur[w[1]] = w[2])}

Reviving(t) == {s \in Schedulers : pc[s] \in {"retry", "again"} /\ cur[s].task = t}

Spent(t) == published[t] + Cardinality(Waiting(t)) + N * Cardinality(Reviving(t))

Granted(t) == IF t \in scheduled THEN N * (1 + faults) ELSE 0

PublicationsPaid ==
  \A t \in Tasks :
    /\ t \in Refused => published[t] = 0
    /\ t \notin Refused => IsFiniteSet(Waiting(t)) /\ Spent(t) <= Granted(t)

(* The products that appear in Spent and Granted.                          *)
LEMMA Products ==
  /\ N \in Nat
  /\ \A a \in Nat : N * a \in Nat /\ N * (a + 1) = N * a + N
  /\ \A a, b \in Nat : a <= b => N * a <= N * b
<1>1. N \in Nat
  BY SchedulerAssumption, FS_CardinalityType DEF N, SchedulerAssumption
<1>2. ASSUME NEW a \in Nat PROVE N * a \in Nat /\ N * (a + 1) = N * a + N
  BY <1>1
<1>3. ASSUME NEW a \in Nat, NEW b \in Nat, a <= b PROVE N * a <= N * b
  <2>1. b - a \in Nat
    BY <1>3
  <2>2. N * b = N * a + N * (b - a) /\ N * (b - a) \in Nat
    BY <1>1, <2>1
  <2> QED
    BY <1>1, <1>3, <2>2
<1> QED
  BY <1>1, <1>2, <1>3

(* The set of schedulers that revive a task is finite, in either state.    *)
LEMMA RevivingFinite ==
  ASSUME NEW t
  PROVE  /\ IsFiniteSet(Reviving(t)) /\ Cardinality(Reviving(t)) \in Nat
         /\ IsFiniteSet(Reviving(t)') /\ Cardinality(Reviving(t)') \in Nat
<1>1. Reviving(t) \subseteq Schedulers /\ Reviving(t)' \subseteq Schedulers
  BY DEF Reviving
<1> QED
  BY <1>1, SchedulerAssumption, FS_Subset, FS_CardinalityType DEF SchedulerAssumption

(* A union has at most as many elements as its parts.                      *)
LEMMA UnionBound ==
  ASSUME NEW S, NEW T, IsFiniteSet(S), IsFiniteSet(T)
  PROVE  /\ IsFiniteSet(S \cup T)
         /\ Cardinality(S \cup T) <= Cardinality(S) + Cardinality(T)
<1>1. /\ IsFiniteSet(S \cup T) /\ IsFiniteSet(S \cap T)
      /\ Cardinality(S \cup T)
           = Cardinality(S) + Cardinality(T) - Cardinality(S \cap T)
  BY FS_Union, FS_Subset
<1>2. /\ Cardinality(S) \in Nat /\ Cardinality(T) \in Nat
      /\ Cardinality(S \cap T) \in Nat
  BY <1>1, FS_CardinalityType
<1> QED
  BY <1>1, <1>2

(* How a step changes what is spent and granted for a task: not at all; by *)
(* a fault that gives one member back, or that leads to a reschedule; by   *)
(* an execution; by the second half of a reschedule.                       *)
LEMMA SpendingBounded ==
  ASSUME TypeOK, TypeOK', NEW t \in Tasks, IsFiniteSet(Waiting(t)),
         Spent(t) <= Granted(t), t \in scheduled' <=> t \in scheduled,
         NEW w, NEW s \in Schedulers, NEW m,
         \/ /\ published'[t] = published[t] /\ faults' \in {faults, faults + 1}
            /\ Waiting(t)' \subseteq Waiting(t)
            /\ Reviving(t)' \subseteq Reviving(t)
         \/ /\ t \in scheduled
            /\ published'[t] = published[t] /\ faults' = faults + 1
            /\ Waiting(t)' \subseteq Waiting(t) \cup {w}
            /\ Reviving(t)' \subseteq Reviving(t)
         \/ /\ published'[t] = published[t] + 1 /\ faults' = faults
            /\ w \in Waiting(t) /\ Waiting(t)' \subseteq Waiting(t) \ {w}
            /\ Reviving(t)' \subseteq Reviving(t)
         \/ /\ t \in scheduled
            /\ published'[t] \in {published[t], published[t] + 1}
            /\ faults' = faults + 1
            /\ w \in Waiting(t) /\ Waiting(t)' \subseteq Waiting(t) \ {w}
            /\ Reviving(t)' \subseteq Reviving(t) \cup {s}
         \/ /\ published'[t] = published[t] /\ faults' = faults
            /\ Waiting(t)' \subseteq Waiting(t) \cup (Schedulers \X {m})
            /\ s \in Reviving(t) /\ Reviving(t)' \subseteq Reviving(t) \ {s}
  PROVE  IsFiniteSet(Waiting(t)') /\ Spent(t)' <= Granted(t)'
<1> DEFINE W == Cardinality(Waiting(t))
           V == Cardinality(Waiting(t)')
           R == Cardinality(Reviving(t))
           Q == Cardinality(Reviving(t)')
           P == published[t]
           O == published'[t]
<1>1. /\ P \in Nat /\ O \in Nat /\ faults \in Nat /\ faults' \in Nat
      /\ W \in Nat /\ R \in Nat /\ Q \in Nat
  BY RevivingFinite, FS_CardinalityType DEF TypeOK
<1>2. N # 0
  BY SchedulerAssumption, FS_EmptySet DEF N, SchedulerAssumption
<1>3. /\ N * R \in Nat /\ N * Q \in Nat /\ N \in Nat
      /\ N * (R + 1) = N * R + N
      /\ Q <= R => N * Q <= N * R
      /\ Q <= R + 1 => N * Q <= N * R + N
      /\ N * (1 + faults) \in Nat
      /\ N * (1 + (faults + 1)) = N * (1 + faults) + N
  <2>1. N * R \in Nat /\ N * (R + 1) = N * R + N /\ R + 1 \in Nat
    BY <1>1, Products
  <2>2. /\ Q <= R => N * Q <= N * R
        /\ Q <= R + 1 => N * Q <= N * (R + 1)
    BY <1>1, <2>1, Products
  <2>3. /\ 1 + faults \in Nat /\ (1 + faults) + 1 = 1 + (faults + 1)
        /\ N * (1 + faults) \in Nat
        /\ N * ((1 + faults) + 1) = N * (1 + faults) + N
    BY <1>1, Products
  <2> HIDE DEF N, R, Q
  <2> QED
    BY <1>1, <2>1, <2>2, <2>3, Products
<1>4. P + W + N * R <= Granted(t)
  BY DEF Spent
<1>5. /\ faults' = faults => Granted(t)' = Granted(t)
      /\ faults' = faults + 1 /\ t \in scheduled => Granted(t)' = Granted(t) + N
      /\ faults' = faults + 1 /\ t \notin scheduled => Granted(t)' = Granted(t)
      /\ Granted(t) \in Nat
  BY <1>3 DEF Granted
<1>6. ASSUME NEW S, IsFiniteSet(S), Waiting(t)' \subseteq S
      PROVE  /\ IsFiniteSet(Waiting(t)') /\ V \in Nat /\ V <= Cardinality(S)
             /\ Cardinality(S) \in Nat
  BY <1>6, FS_Subset, FS_CardinalityType
<1>7. Reviving(t)' \subseteq Reviving(t) => Q <= R
  BY RevivingFinite, FS_Subset
<1>q. ASSUME IsFiniteSet(Waiting(t)'), O + V + N * Q <= Granted(t)'
      PROVE  IsFiniteSet(Waiting(t)') /\ Spent(t)' <= Granted(t)'
  BY <1>q DEF Spent, N
<1> HIDE DEF V, W, R, Q, P, O
<1>8. CASE /\ O = P /\ faults' \in {faults, faults + 1}
           /\ Waiting(t)' \subseteq Waiting(t)
           /\ Reviving(t)' \subseteq Reviving(t)
  <2>1. IsFiniteSet(Waiting(t)') /\ V \in Nat /\ V <= W
    BY <1>6, <1>8 DEF W
  <2>2. O + V + N * Q <= Granted(t)'
    BY <1>1, <1>3, <1>4, <1>5, <1>7, <1>8, <2>1
  <2> QED
    BY <1>q, <2>1, <2>2
<1>9. CASE /\ t \in scheduled /\ O = P /\ faults' = faults + 1
           /\ Waiting(t)' \subseteq Waiting(t) \cup {w}
           /\ Reviving(t)' \subseteq Reviving(t)
  <2>1. /\ IsFiniteSet(Waiting(t) \cup {w})
        /\ Cardinality(Waiting(t) \cup {w}) <= W + 1
    <3>1. IsFiniteSet({w}) /\ Cardinality({w}) = 1
      BY FS_Singleton
    <3> QED
      BY <3>1, UnionBound DEF W
  <2>2. /\ IsFiniteSet(Waiting(t)') /\ V \in Nat
        /\ V <= Cardinality(Waiting(t) \cup {w})
        /\ Cardinality(Waiting(t) \cup {w}) \in Nat
    BY <1>6, <1>9, <2>1
  <2>3. O + V + N * Q <= Granted(t)'
    BY <1>1, <1>2, <1>3, <1>4, <1>5, <1>7, <1>9, <2>1, <2>2
  <2> QED
    BY <1>q, <2>2, <2>3
<1>a. ASSUME w \in Waiting(t), Waiting(t)' \subseteq Waiting(t) \ {w}
      PROVE  IsFiniteSet(Waiting(t)') /\ V \in Nat /\ V <= W - 1
  <2>1. /\ IsFiniteSet(Waiting(t) \ {w})
        /\ Cardinality(Waiting(t) \ {w}) = W - 1
    BY <1>a, FS_RemoveElement DEF W
  <2> QED
    BY <1>a, <1>6, <2>1
<1>10. CASE /\ O = P + 1 /\ faults' = faults
            /\ w \in Waiting(t) /\ Waiting(t)' \subseteq Waiting(t) \ {w}
            /\ Reviving(t)' \subseteq Reviving(t)
  <2>1. O + V + N * Q <= Granted(t)'
    BY <1>1, <1>3, <1>4, <1>5, <1>7, <1>10, <1>a
  <2> QED
    BY <1>q, <1>10, <1>a, <2>1
<1>11. CASE /\ t \in scheduled /\ O \in {P, P + 1} /\ faults' = faults + 1
            /\ w \in Waiting(t) /\ Waiting(t)' \subseteq Waiting(t) \ {w}
            /\ Reviving(t)' \subseteq Reviving(t) \cup {s}
  <2>1. /\ IsFiniteSet(Reviving(t) \cup {s})
        /\ Cardinality(Reviving(t) \cup {s}) <= R + 1
    <3>1. IsFiniteSet({s}) /\ Cardinality({s}) = 1
      BY FS_Singleton
    <3> QED
      BY <3>1, RevivingFinite, UnionBound DEF R
  <2>2. /\ Q <= Cardinality(Reviving(t) \cup {s})
        /\ Cardinality(Reviving(t) \cup {s}) \in Nat
    BY <1>11, <2>1, FS_Subset, FS_CardinalityType DEF Q
  <2>3. Q <= R + 1
    BY <1>1, <2>1, <2>2
  <2>4. O + V + N * Q <= Granted(t)'
    BY <1>1, <1>3, <1>4, <1>5, <1>11, <1>a, <2>3
  <2> QED
    BY <1>q, <1>11, <1>a, <2>4
<1>12. CASE /\ O = P /\ faults' = faults
            /\ Waiting(t)' \subseteq Waiting(t) \cup (Schedulers \X {m})
            /\ s \in Reviving(t) /\ Reviving(t)' \subseteq Reviving(t) \ {s}
  <2>1. IsFiniteSet(Schedulers \X {m}) /\ Cardinality(Schedulers \X {m}) = N
    <3>1. IsFiniteSet({m}) /\ Cardinality({m}) = 1
      BY FS_Singleton
    <3>2. N * 1 = N
      BY <1>3
    <3> QED
      BY <3>1, <3>2, SchedulerAssumption, FS_Product DEF N, SchedulerAssumption
  <2>2. /\ IsFiniteSet(Waiting(t) \cup (Schedulers \X {m}))
        /\ Cardinality(Waiting(t) \cup (Schedulers \X {m})) <= W + N
    BY <2>1, UnionBound DEF W
  <2>3. /\ IsFiniteSet(Waiting(t)') /\ V \in Nat /\ V <= W + N
    BY <1>1, <1>3, <1>6, <1>12, <2>2
  <2>4. /\ IsFiniteSet(Reviving(t) \ {s})
        /\ Cardinality(Reviving(t) \ {s}) = R - 1
    BY <1>12, RevivingFinite, FS_RemoveElement DEF R
  <2>5. Q <= R - 1
    BY <1>12, <2>4, FS_Subset DEF Q
  <2>6. R - 1 \in Nat /\ N * ((R - 1) + 1) = N * (R - 1) + N
    BY <1>1, <2>5, Products
  <2>7. N * Q <= N * (R - 1) /\ (R - 1) + 1 = R /\ N * (R - 1) \in Nat
    BY <1>1, <2>5, <2>6, Products
  <2>8. O + V + N * Q <= Granted(t)'
    BY <1>1, <1>3, <1>4, <1>5, <1>12, <2>3, <2>6, <2>7
  <2> QED
    BY <1>q, <2>3, <2>8
<1> QED
  BY <1>8, <1>9, <1>10, <1>11, <1>12 DEF O, P

(* The steps of a scheduler on one member of its page.                     *)
LEMMA PublicationsExecute ==
  ASSUME RetriesEarned, TypeOK', HandsOK, PublicationsPaid,
         NEW s \in Schedulers, NEW m \in todo[s], ExecuteStep(s, m)
  PROVE  PublicationsPaid'
<1>t. /\ pc \in [Schedulers -> {"loop", "done", "retry", "again", "bury", "buried"}]
      /\ cur \in [Schedulers -> Members \cup {NoMember}]
      /\ todo \in [Schedulers -> SUBSET Members]
      /\ published \in [Tasks -> Nat] /\ faults \in Nat /\ TypeOK
      /\ m \in Members /\ m.task \in Tasks /\ m.task \in scheduled
  BY MemberFields DEF RetriesEarned, TypeOK, HandsOK
<1>u. /\ scheduled' = scheduled /\ delayed' \subseteq delayed
      /\ todo' = [todo EXCEPT ![s] = @ \ {m}] /\ pc[s] = "loop"
  BY DEF ExecuteStep, DropInvalid, Execute, ExecuteRefused, ExecuteFails,
         ExecuteReplyLost, ZRem, Take, redis
<1>1. ASSUME NEW t \in Tasks, t \in Refused PROVE published'[t] = 0
  <2>1. published'[t] = published[t]
    BY <1>1, <1>t
       DEF ExecuteStep, DropInvalid, Execute, ExecuteRefused, ExecuteFails,
           ExecuteReplyLost, XAdd, redis
  <2> QED
    BY <1>1, <2>1 DEF PublicationsPaid
<1>2. ASSUME NEW t \in Tasks, t \notin Refused
      PROVE  IsFiniteSet(Waiting(t)') /\ Spent(t)' <= Granted(t)'
  <2> DEFINE w == <<s, m>>
  <2>t. IsFiniteSet(Waiting(t)) /\ Spent(t) <= Granted(t)
    BY <1>2 DEF PublicationsPaid
  <2>1. CASE DropInvalid(s, m)
    <3>1. /\ UNCHANGED <<published, pc, cur>> /\ faults' \in {faults, faults + 1}
      BY <2>1 DEF DropInvalid, ZRem, Fault
    <3>2. Waiting(t)' \subseteq Waiting(t) /\ Reviving(t)' \subseteq Reviving(t)
      BY <1>t, <1>u, <3>1 DEF Waiting, Reviving
    <3> QED
      BY <1>t, <1>u, <2>t, <3>1, <3>2, SpendingBounded
  <2>2. CASE ~DropInvalid(s, m)
    <3>1. /\ \E where \in {"done", "retry", "bury"} : Goto(s, where, m)
          /\ faults' \in {faults, faults + 1}
      BY <2>2 DEF ExecuteStep, Execute, ExecuteRefused, ExecuteFails,
                  ExecuteReplyLost, ExecutionFailed, Fault
    <3>2. /\ pc'[s] \in {"done", "retry", "bury"} /\ cur'[s] = m
          /\ \A r \in Schedulers : r # s => pc'[r] = pc[r] /\ cur'[r] = cur[r]
      BY <1>t, <3>1 DEF Goto
    <3>3. Waiting(t)' \subseteq Waiting(t) \ {w}
      BY <1>t, <1>u, <3>2 DEF Waiting, OnMember
    <3>4. CASE t # m.task
      <4>1. Reviving(t)' \subseteq Reviving(t)
        BY <3>2, <3>4 DEF Reviving
      <4>2. published'[t] = published[t]
        BY <1>t, <2>2, <3>4
           DEF ExecuteStep, Execute, ExecuteRefused, ExecuteFails,
               ExecuteReplyLost, XAdd, redis
      <4> QED
        BY <1>t, <1>u, <2>t, <3>1, <3>3, <4>1, <4>2, SpendingBounded
    <3>5. CASE t = m.task
      <4>1. w \in Waiting(t)
        BY <1>t, <1>u, <3>5 DEF Waiting, OnMember
      <4>2. Reviving(t)' \subseteq Reviving(t) \cup {s}
        BY <3>2 DEF Reviving
      <4>3. CASE Execute(s, m)
        <5>1. pc'[s] = "done" /\ faults' = faults
          BY <1>t, <4>3 DEF Execute, Goto
        <5>2. published'[t] = published[t] + 1
          BY <1>t, <3>5, <4>3 DEF Execute, XAdd
        <5>3. Reviving(t)' \subseteq Reviving(t)
          BY <3>2, <5>1 DEF Reviving
        <5> QED
          BY <1>t, <1>u, <2>t, <3>3, <4>1, <5>1, <5>2, <5>3, SpendingBounded
      <4>4. CASE ExecuteFails(s, m) \/ ExecuteReplyLost(s, m)
        <5>1. faults' = faults + 1 /\ published'[t] \in {published[t], published[t] + 1}
          BY <1>t, <3>5, <4>4 DEF ExecuteFails, ExecuteReplyLost, Fault, XAdd, redis
        <5> QED
          BY <1>t, <1>u, <2>t, <3>3, <3>5, <4>1, <4>2, <5>1, SpendingBounded
      <4> QED
        BY <1>2, <2>2, <3>5, <4>3, <4>4 DEF ExecuteStep, ExecuteRefused
    <3> QED
      BY <3>4, <3>5
  <2> QED
    BY <2>1, <2>2
<1> QED
  BY <1>1, <1>2 DEF PublicationsPaid

(* The steps after XADD.                                                   *)
LEMMA PublicationsFinishStep ==
  ASSUME RetriesEarned, TypeOK', HandsOK, PublicationsPaid,
         NEW s \in Schedulers, FinishStep(s)
  PROVE  PublicationsPaid'
<1>t. /\ pc \in [Schedulers -> {"loop", "done", "retry", "again", "bury", "buried"}]
      /\ cur \in [Schedulers -> Members \cup {NoMember}]
      /\ todo \in [Schedulers -> SUBSET Members]
      /\ faults \in Nat /\ TypeOK /\ delayed \subseteq Members
  BY DEF RetriesEarned, TypeOK
<1>u. UNCHANGED <<scheduled, published, todo>>
  BY DEF FinishStep, Finish, Remove, Reschedule, RescheduleFails, Bury,
         BuryFails, RemoveBuried, redis
<1>v. /\ faults' \in {faults, faults + 1} /\ pc[s] # "loop"
      /\ \A r \in Schedulers : r # s => pc'[r] = pc[r] /\ cur'[r] = cur[r]
  BY <1>t DEF FinishStep, Finish, Remove, Reschedule, RescheduleFails, Bury,
              BuryFails, RemoveBuried, ZRem, Fault, NextTask, Goto
<1>w. /\ cur[s] \in Members /\ cur[s].task \in scheduled
      /\ pc[s] \in OnMember => cur[s] \notin todo[s]
  BY <1>t, <1>v DEF TypeOK, HandsOK
<1> SUFFICES ASSUME NEW t \in Tasks, t \notin Refused
             PROVE  IsFiniteSet(Waiting(t)') /\ Spent(t)' <= Granted(t)'
  BY <1>u DEF PublicationsPaid
<1> DEFINE w == <<s, cur[s]>>
<1>x. IsFiniteSet(Waiting(t)) /\ Spent(t) <= Granted(t)
  BY DEF PublicationsPaid
<1>1. CASE Finish(s) \/ Remove(s) \/ RemoveBuried(s)
  <2>1. /\ pc[s] \in {"done", "retry", "buried"} /\ ZRem(cur[s])
        /\ pc[s] = "retry" => cur'[s].task = cur[s].task
        /\ pc[s] # "retry" => pc'[s] = "loop"
        /\ pc'[s] \in {"loop", "again"}
    BY <1>1, <1>t DEF Finish, Remove, RemoveBuried, NextTask, Goto, Raised
  <2>2. Reviving(t)' \subseteq Reviving(t)
    BY <1>v, <2>1 DEF Reviving
  <2>3. CASE delayed' = delayed \ {cur[s]}
    <3>1. Waiting(t)' \subseteq Waiting(t)
      BY <1>t, <1>u, <1>v, <1>w, <2>1, <2>3 DEF Waiting, OnMember
    <3> QED
      BY <1>t, <1>u, <1>v, <1>x, <2>2, <3>1, SpendingBounded
  <2>4. CASE delayed' = delayed /\ faults' = faults + 1
    <3>1. Waiting(t)' \subseteq Waiting(t) \cup {w}
      BY <1>t, <1>u, <1>v, <1>w, <2>1, <2>4 DEF Waiting, OnMember
    <3>2. t \notin scheduled => Waiting(t)' \subseteq Waiting(t)
      BY <1>w, <3>1 DEF Waiting
    <3> QED
      BY <1>t, <1>u, <1>v, <1>x, <2>2, <2>4, <3>1, <3>2, SpendingBounded
  <2> QED
    BY <2>1, <2>3, <2>4 DEF ZRem, Fault
<1>2. CASE Reschedule(s)
  <2>1. /\ pc[s] = "again" /\ pc'[s] = "loop" /\ faults' = faults
        /\ delayed' = delayed \cup {cur[s]}
    BY <1>2, <1>t DEF Reschedule, NextTask, Goto
  <2>2. Waiting(t)' \subseteq Waiting(t) \cup (Schedulers \X {cur[s]})
    BY <1>t, <1>u, <1>v, <1>w, <2>1 DEF Waiting, OnMember
  <2>3. Reviving(t)' \subseteq Reviving(t) \ {s}
    BY <1>v, <2>1 DEF Reviving
  <2>4. CASE t = cur[s].task
    <3>1. s \in Reviving(t)
      BY <2>1, <2>4 DEF Reviving
    <3> QED
      BY <1>t, <1>u, <1>x, <2>1, <2>2, <2>3, <3>1, SpendingBounded
  <2>5. CASE t # cur[s].task
    <3>1. Waiting(t)' \subseteq Waiting(t)
      BY <2>2, <2>5 DEF Waiting
    <3> QED
      BY <1>t, <1>u, <1>v, <1>x, <2>3, <3>1, SpendingBounded
  <2> QED
    BY <2>4, <2>5
<1>3. CASE RescheduleFails(s) \/ Bury(s) \/ BuryFails(s)
  <2>1. /\ UNCHANGED delayed
        /\ \/ pc[s] = "again" /\ pc'[s] = "loop"
           \/ pc[s] = "bury" /\ pc'[s] = "buried" /\ cur'[s] = cur[s]
    BY <1>3, <1>t DEF RescheduleFails, Bury, BuryFails, NextTask, Goto, redis
  <2>2. Waiting(t)' \subseteq Waiting(t) /\ Reviving(t)' \subseteq Reviving(t)
    BY <1>t, <1>u, <1>v, <2>1 DEF Waiting, Reviving, OnMember
  <2> QED
    BY <1>t, <1>u, <1>v, <1>x, <2>2, SpendingBounded
<1> QED
  BY <1>1, <1>2, <1>3 DEF FinishStep

(* A task that is scheduled is granted one publication by each scheduler.  *)
LEMMA PublicationsSchedule ==
  ASSUME RetriesEarned, TypeOK', HandsOK, PublicationsPaid,
         NEW u \in Tasks, ScheduleTask(u)
  PROVE  PublicationsPaid'
<1>t. TypeOK /\ faults \in Nat /\ published \in [Tasks -> Nat]
  BY DEF RetriesEarned, TypeOK
<1>u. /\ u \notin scheduled /\ scheduled' = scheduled \cup {u}
      /\ delayed' = delayed \cup {Original(u)}
      /\ UNCHANGED <<published, todo, pc, cur, faults>>
  BY DEF ScheduleTask, local, Original
<1>1. ASSUME NEW t \in Tasks, t \notin Refused, t # u
      PROVE  IsFiniteSet(Waiting(t)') /\ Spent(t)' <= Granted(t)'
  <2>1. Waiting(t)' \subseteq Waiting(t) /\ Reviving(t)' \subseteq Reviving(t)
    BY <1>1, <1>u DEF Waiting, Reviving, Original
  <2>2. IsFiniteSet(Waiting(t)) /\ Spent(t) <= Granted(t)
    BY <1>1 DEF PublicationsPaid
  <2>3. CASE Schedulers = {}
    <3>1. N = 0 /\ Reviving(t) = {} /\ Waiting(t) = {}
      BY <2>3, FS_EmptySet DEF N, Reviving, Waiting
    <3> QED
      BY <1>1, <1>t, <1>u, <2>1, <2>2, <3>1 DEF Spent, Granted, N
  <2>4. CASE Schedulers # {}
    BY <1>1, <1>t, <1>u, <2>1, <2>2, <2>4, SpendingBounded
  <2> QED
    BY <2>3, <2>4
<1>2. ASSUME u \notin Refused
      PROVE  IsFiniteSet(Waiting(u)') /\ Spent(u)' <= Granted(u)'
  <2>1. Waiting(u) = {} /\ Reviving(u) = {}
    <3>1. \A s \in Schedulers : cur[s].task = u => pc[s] = "loop"
      BY <1>u DEF HandsOK
    <3>2. \A s \in Schedulers : \A m \in delayed \cup todo[s] : m.task # u
      BY <1>u DEF HandsOK
    <3> QED
      BY <3>1, <3>2 DEF Waiting, Reviving
  <2>2. published[u] = 0
    <3>1. Spent(u) <= 0
      BY <1>2, <1>u DEF PublicationsPaid, Granted
    <3>2. Cardinality(Waiting(u)) = 0 /\ N * Cardinality(Reviving(u)) = 0
      BY <2>1, FS_EmptySet, Products
    <3> QED
      BY <1>t, <3>1, <3>2 DEF Spent
  <2>3. Waiting(u)' \subseteq Schedulers \X {Original(u)} /\ Reviving(u)' = {}
    BY <1>u, <2>1 DEF Waiting, Reviving
  <2>4. /\ IsFiniteSet(Schedulers \X {Original(u)})
        /\ Cardinality(Schedulers \X {Original(u)}) = N
    <3>1. IsFiniteSet({Original(u)}) /\ Cardinality({Original(u)}) = 1
      BY FS_Singleton
    <3>2. N * 1 = N
      BY Products
    <3> QED
      BY <3>1, <3>2, SchedulerAssumption, FS_Product DEF N, SchedulerAssumption
  <2>5. IsFiniteSet(Waiting(u)') /\ Cardinality(Waiting(u)') <= N
    BY <2>3, <2>4, FS_Subset
  <2>6. Cardinality(Waiting(u)') \in Nat /\ Cardinality(Reviving(u)') = 0
    BY <2>3, <2>5, FS_CardinalityType, FS_EmptySet
  <2>7. N * 0 = 0 /\ N * (1 + faults) = N * faults + N /\ N * faults \in Nat
    BY <1>t, Products
  <2>8. /\ Spent(u)' = published'[u] + Cardinality(Waiting(u)')
                         + N * Cardinality(Reviving(u)')
        /\ Granted(u)' = N * (1 + faults)
    BY <1>u DEF Spent, Granted, N
  <2> QED
    BY <1>u, <2>2, <2>5, <2>6, <2>7, <2>8, Products
<1> QED
  BY <1>1, <1>2, <1>u DEF PublicationsPaid

(* Every step keeps PublicationsPaid.                                      *)
LEMMA PublicationsStep ==
  ASSUME RetriesEarned, RetriesEarned', HandsOK, PublicationsPaid, [Next]_vars
  PROVE  PublicationsPaid'
<1>t. /\ pc \in [Schedulers -> {"loop", "done", "retry", "again", "bury", "buried"}]
      /\ cur \in [Schedulers -> Members \cup {NoMember}]
      /\ todo \in [Schedulers -> SUBSET Members] /\ due \subseteq delayed
      /\ TypeOK /\ TypeOK' /\ faults \in Nat
  BY DEF RetriesEarned, TypeOK
<1>1. ASSUME NEW s \in Schedulers, Poll(s) \/ Crash(s) PROVE PublicationsPaid'
  <2>1. /\ UNCHANGED <<scheduled, delayed, published>>
        /\ \A r \in Schedulers : r # s =>
             pc'[r] = pc[r] /\ cur'[r] = cur[r] /\ todo'[r] = todo[r]
        /\ todo'[s] \subseteq delayed /\ pc'[s] = "loop"
    BY <1>1, <1>t DEF Poll, Crash, NextTask, Goto, redis
  <2>2. ASSUME NEW t \in Tasks, t \notin Refused
        PROVE  IsFiniteSet(Waiting(t)') /\ Spent(t)' <= Granted(t)'
    <3>1. IsFiniteSet(Waiting(t)) /\ Spent(t) <= Granted(t)
      BY <2>2 DEF PublicationsPaid
    <3>2. Reviving(t)' \subseteq Reviving(t)
      BY <2>1 DEF Reviving
    <3>3. CASE Poll(s)
      <4>1. pc[s] = "loop" /\ faults' = faults
        BY <3>3 DEF Poll
      <4>2. Waiting(t)' \subseteq Waiting(t)
        BY <2>1, <4>1 DEF Waiting, OnMember
      <4> QED
        BY <1>t, <2>1, <3>1, <3>2, <4>1, <4>2, SpendingBounded
    <3>4. CASE Crash(s)
      <4>1. faults' = faults + 1
        BY <3>4 DEF Crash, Fault
      <4>2. Waiting(t)' \subseteq Waiting(t) \cup {<<s, cur[s]>>}
        BY <2>1 DEF Waiting
      <4>3. t \notin scheduled => Waiting(t)' \subseteq Waiting(t)
        BY <2>1, <4>2 DEF Waiting, HandsOK
      <4> QED
        BY <1>t, <2>1, <3>1, <3>2, <4>1, <4>2, <4>3, SpendingBounded
    <3> QED
      BY <1>1, <3>3, <3>4
  <2> QED
    BY <2>1, <2>2 DEF PublicationsPaid
<1>2. CASE UNCHANGED <<scheduled, delayed, published, todo, pc, cur, faults>>
  BY <1>2 DEF PublicationsPaid, Waiting, Reviving, Spent, Granted, N
<1>3. ASSUME NEW m \in delayed, BecomesDue(m) PROVE PublicationsPaid'
  BY <1>2, <1>3 DEF BecomesDue, local
<1>4. CASE UNCHANGED vars
  BY <1>2, <1>4 DEF vars, redis, local
<1> QED
  BY <1>1, <1>3, <1>4, <1>t, PublicationsSchedule, PublicationsExecute,
     PublicationsFinishStep
     DEF Next, SchedulerStep

(* Nothing keeps two schedulers from executing one task                    *)
(* (delayed_scheduler.go:213), and a fault makes everybody execute it      *)
(* again: but a task is published at most once by each scheduler, and once *)
(* more by each for every fault.                                           *)
THEOREM PublicationsAreBounded == Spec => []PublicationsBounded
<1>1. Init => HandsOK /\ PublicationsPaid
  <2> SUFFICES ASSUME Init PROVE HandsOK /\ PublicationsPaid
    OBVIOUS
  <2>1. ASSUME NEW t \in Tasks
        PROVE  /\ published[t] = 0 /\ IsFiniteSet(Waiting(t))
               /\ Spent(t) <= Granted(t)
    <3>1. /\ Waiting(t) = {} /\ Reviving(t) = {} /\ Granted(t) = 0
          /\ published[t] = 0
      BY DEF Init, Waiting, Reviving, Granted
    <3>2. N * 0 = 0
      BY Products
    <3> QED
      BY <3>1, <3>2, FS_EmptySet DEF Spent
  <2> QED
    BY <2>1 DEF Init, HandsOK, OnMember, PublicationsPaid
<1>2. RetriesEarned /\ PublicationsPaid => PublicationsBounded
  <2> SUFFICES ASSUME RetriesEarned, PublicationsPaid, NEW t \in Tasks
               PROVE  published[t] <= N * (1 + faults)
    BY DEF PublicationsBounded, N
  <2>1. /\ published[t] \in Nat /\ faults \in Nat
        /\ N * (1 + faults) \in Nat
    BY Products DEF RetriesEarned, TypeOK
  <2>2. CASE t \notin Refused
    <3>1. /\ Cardinality(Waiting(t)) \in Nat
          /\ N * Cardinality(Reviving(t)) \in Nat
      BY <2>2, FS_CardinalityType, RevivingFinite, Products DEF PublicationsPaid
    <3> QED
      BY <2>1, <2>2, <3>1 DEF PublicationsPaid, Spent, Granted
  <2> QED
    BY <2>1, <2>2 DEF PublicationsPaid
<1> QED
  BY <1>1, <1>2, InitEarned, NextEarned, HandsStep, PublicationsStep, PTL DEF Spec

-----------------------------------------------------------------------------
(* Copies.  A copy of a task stands for the schedulers that rescheduled it *)
(* and its ancestors, in order.  The state does not record them; that it   *)
(* could have is the invariant: there is an assignment of such lists to    *)
(* the members under which no two live members of a task, and nothing that *)
(* may still become one, lie on one list.                                  *)

(* The stamps tell the copies apart: a new one has a stamp of its own.     *)
Stamped(m) == m.stamp <= reschedules[m.task]

StampsOK ==
  /\ \A m \in delayed \cup failed : Stamped(m)
  /\ \A s \in Schedulers : \A m \in todo[s] : Stamped(m)
  /\ \A s \in Schedulers : pc[s] # "loop" => Stamped(cur[s])

(* Nobody but the scheduler that is about to add it knows of a new member. *)
NewOnesHidden ==
  \A s \in Schedulers : pc[s] = "again" =>
    /\ cur[s] \notin delayed \cup failed
    /\ \A r \in Schedulers :
         /\ cur[s] \notin todo[r]
         /\ r # s /\ pc[r] # "loop" => cur[r] # cur[s]

(* Without faults only what Redis refuses is retried or given up, and a    *)
(* member that has no retries left is found in one of the sets.            *)
FaultlessOK ==
  faults = 0 => \A s \in Schedulers :
    /\ pc[s] \in {"retry", "again", "bury", "buried"}
         => cur[s].task \in Refused \ Undecodable
    /\ pc[s] = "done" => cur[s].task \notin Refused
    /\ pc[s] = "buried" => cur[s] \in failed
    /\ pc[s] = "bury" => cur[s] \in delayed \cup failed
    /\ \A m \in todo[s] :
         m.task \in Refused \ Undecodable /\ m.retry = MaxRetries
           => m \in delayed \cup failed

(* Taking a member from a page changes no stamp.                           *)
LEMMA StampsExecute ==
  ASSUME TypeOK, StampsOK, NEW s \in Schedulers, NEW m \in todo[s], ExecuteStep(s, m)
  PROVE  StampsOK'
<1>1. /\ UNCHANGED <<reschedules, failed>> /\ delayed' \subseteq delayed
      /\ todo' = [todo EXCEPT ![s] = @ \ {m}]
      /\ UNCHANGED <<pc, cur>> \/ \E where \in OnMember : Goto(s, where, m)
  BY DEF ExecuteStep, DropInvalid, Execute, ExecuteRefused, ExecuteFails, OnMember,
         ExecuteReplyLost, ExecutionFailed, ZRem, Take, redis
<1> QED
  BY <1>1 DEF StampsOK, Stamped, Goto, TypeOK, OnMember

(* A reschedule gives the new member a stamp no member had before.         *)
LEMMA StampsFinish ==
  ASSUME RetriesEarned, StampsOK, NEW s \in Schedulers, FinishStep(s)
  PROVE  StampsOK'
<1>1. pc[s] # "loop" /\ UNCHANGED todo /\ Stamped(cur[s]) /\ cur[s] \in Members
  BY DEF FinishStep, Finish, Remove, Reschedule, RescheduleFails, Bury,
         BuryFails, RemoveBuried, StampsOK, RetriesEarned, TypeOK
<1>2. delayed' \cup failed' \subseteq delayed \cup failed \cup {cur[s]}
  BY DEF FinishStep, Finish, Remove, Reschedule, RescheduleFails, Bury,
         BuryFails, RemoveBuried, ZRem, redis
<1>3. CASE Remove(s)
  <2>1. /\ cur[s].task \in Tasks /\ reschedules[cur[s].task] \in Nat
        /\ Raised(cur[s]).task = cur[s].task
        /\ Raised(cur[s]).stamp = reschedules[cur[s].task] + 1
    BY <1>1, MemberFields DEF RetriesEarned, TypeOK, Raised
  <2>2. /\ reschedules' = [reschedules EXCEPT ![cur[s].task] = @ + 1]
        /\ Goto(s, "again", Raised(cur[s]))
    BY <1>3 DEF Remove
  <2>3. ASSUME NEW m \in Members, Stamped(m) PROVE Stamped(m)'
    <3>1. m.task \in Tasks /\ m.stamp \in Nat /\ reschedules[m.task] \in Nat
      BY MemberFields DEF RetriesEarned, TypeOK
    <3> QED
      BY <2>1, <2>2, <2>3, <3>1 DEF Stamped, RetriesEarned, TypeOK
  <2>4. Raised(cur[s]).stamp <= reschedules'[Raised(cur[s]).task]
    BY <2>1, <2>2 DEF RetriesEarned, TypeOK
  <2>5. \A m \in delayed' \cup failed' : Stamped(m)'
    BY <1>1, <1>2, <2>3 DEF StampsOK, RetriesEarned, TypeOK
  <2>6. \A r \in Schedulers : \A m \in todo'[r] : Stamped(m)'
    BY <1>1, <2>3 DEF StampsOK, RetriesEarned, TypeOK
  <2>7. \A r \in Schedulers : pc'[r] # "loop" => cur'[r].stamp <= reschedules'[cur'[r].task]
    BY <2>2, <2>3, <2>4 DEF StampsOK, Stamped, Goto, RetriesEarned, TypeOK
  <2> QED
    BY <2>5, <2>6, <2>7 DEF StampsOK, Stamped
<1>4. CASE ~Remove(s)
  <2>1. UNCHANGED reschedules /\ \E where \in {"loop", "buried"} :
          Goto(s, where, IF where = "loop" THEN NoMember ELSE cur[s])
    BY <1>4 DEF FinishStep, Finish, Reschedule, RescheduleFails, Bury,
            BuryFails, RemoveBuried, NextTask, redis
  <2> QED
    BY <1>1, <1>2, <2>1 DEF StampsOK, Stamped, Goto, RetriesEarned, TypeOK
<1> QED
  BY <1>3, <1>4

(* Every step keeps StampsOK.                                              *)
LEMMA StampsStep ==
  ASSUME RetriesEarned, StampsOK, [Next]_vars
  PROVE  StampsOK'
<1>t. TypeOK
  BY DEF RetriesEarned
<1>1. ASSUME NEW t \in Tasks, ScheduleTask(t) PROVE StampsOK'
  BY <1>1, <1>t DEF ScheduleTask, local, StampsOK, Stamped, TypeOK
<1>2. ASSUME NEW m \in delayed, BecomesDue(m) PROVE StampsOK'
  BY <1>2 DEF BecomesDue, local, StampsOK, Stamped
<1>3. ASSUME NEW s \in Schedulers, Poll(s) PROVE StampsOK'
  <2>1. /\ UNCHANGED <<delayed, failed, reschedules, pc, cur>>
        /\ \E P \in SUBSET delayed : todo' = [todo EXCEPT ![s] = P]
    BY <1>3, <1>t DEF Poll, redis, TypeOK
  <2> QED
    BY <1>t, <2>1 DEF StampsOK, Stamped, TypeOK
<1>4. ASSUME NEW s \in Schedulers, Crash(s) PROVE StampsOK'
  BY <1>4, <1>t DEF Crash, NextTask, Goto, redis, StampsOK, Stamped, TypeOK
<1>5. CASE UNCHANGED vars
  BY <1>5 DEF vars, redis, local, StampsOK, Stamped
<1> QED
  BY <1>1, <1>2, <1>3, <1>4, <1>5, <1>t, StampsExecute, StampsFinish
     DEF Next, SchedulerStep

(* Every step keeps NewOnesHidden.                                         *)
LEMMA HiddenStep ==
  ASSUME RetriesEarned, HandsOK, StampsOK, NewOnesHidden, [Next]_vars
  PROVE  NewOnesHidden'
<1>t. TypeOK
  BY DEF RetriesEarned
<1>1. ASSUME NEW t \in Tasks, ScheduleTask(t) PROVE NewOnesHidden'
  BY <1>1, <1>t DEF ScheduleTask, local, NewOnesHidden, HandsOK, TypeOK
<1>2. ASSUME NEW m \in delayed, BecomesDue(m) PROVE NewOnesHidden'
  BY <1>2 DEF BecomesDue, local, NewOnesHidden
<1>3. ASSUME NEW s \in Schedulers, Poll(s) PROVE NewOnesHidden'
  <2>1. /\ UNCHANGED <<delayed, failed, pc, cur>>
        /\ \E P \in SUBSET delayed : todo' = [todo EXCEPT ![s] = P]
    BY <1>3, <1>t DEF Poll, redis, TypeOK
  <2> QED
    BY <1>t, <2>1 DEF NewOnesHidden, TypeOK
<1>4. ASSUME NEW s \in Schedulers, NEW m \in todo[s], ExecuteStep(s, m)
      PROVE  NewOnesHidden'
  <2>1. /\ UNCHANGED failed /\ delayed' \subseteq delayed /\ pc[s] = "loop"
        /\ todo' = [todo EXCEPT ![s] = @ \ {m}]
        /\ UNCHANGED <<pc, cur>> \/ \E where \in OnMember : Goto(s, where, m)
    BY <1>4 DEF ExecuteStep, DropInvalid, Execute, ExecuteRefused, ExecuteFails,
           OnMember, ExecuteReplyLost, ExecutionFailed, ZRem, Take, redis
  <2> QED
    BY <1>t, <2>1 DEF NewOnesHidden, Goto, TypeOK, OnMember
<1>5. ASSUME NEW s \in Schedulers, FinishStep(s) PROVE NewOnesHidden'
  <2>1. pc[s] # "loop" /\ UNCHANGED todo /\ cur[s] \in Members
    BY <1>5, <1>t DEF FinishStep, Finish, Remove, Reschedule, RescheduleFails, Bury,
           BuryFails, RemoveBuried, TypeOK
  <2>2. CASE Remove(s)
    <3> DEFINE new == Raised(cur[s])
    <3>1. /\ new.task \in Tasks /\ reschedules[new.task] \in Nat
          /\ new.stamp = reschedules[new.task] + 1
      BY <1>t, <2>1, MemberFields DEF TypeOK, Raised
    <3>2. /\ Goto(s, "again", new) /\ UNCHANGED failed /\ delayed' \subseteq delayed
      BY <2>2 DEF Remove, ZRem
    <3>3. \A m \in Members : Stamped(m) => m # new
      BY <3>1, MemberFields DEF Stamped, Members
    <3> HIDE DEF new
    <3>4. /\ new \notin delayed \cup failed
          /\ \A r \in Schedulers : new \notin todo[r]
          /\ \A r \in Schedulers : pc[r] # "loop" => cur[r] # new
      BY <1>t, <3>3 DEF StampsOK, TypeOK
    <3> QED
      BY <1>t, <2>1, <3>2, <3>4 DEF NewOnesHidden, Goto, TypeOK
  <2>3. CASE ~Remove(s)
    <3>1. /\ delayed' \cup failed' \subseteq delayed \cup failed \cup {cur[s]}
          /\ \/ Goto(s, "loop", NoMember)
             \/ Goto(s, "buried", cur[s])
      BY <1>5, <2>3
         DEF FinishStep, Finish, Reschedule, RescheduleFails, Bury, BuryFails,
             RemoveBuried, NextTask, ZRem, redis
    <3> QED
      BY <1>t, <2>1, <3>1 DEF NewOnesHidden, Goto, TypeOK
  <2> QED
    BY <2>2, <2>3
<1>6. ASSUME NEW s \in Schedulers, Crash(s) PROVE NewOnesHidden'
  BY <1>6, <1>t DEF Crash, NextTask, Goto, redis, NewOnesHidden, TypeOK
<1>7. CASE UNCHANGED vars
  BY <1>7 DEF vars, redis, local, NewOnesHidden
<1> QED
  BY <1>1, <1>2, <1>3, <1>4, <1>5, <1>6, <1>7 DEF Next, SchedulerStep

(* Every step keeps FaultlessOK.                                           *)
LEMMA FaultlessStep ==
  ASSUME RetriesEarned, HandsOK, FaultlessOK, [Next]_vars
  PROVE  FaultlessOK'
<1> SUFFICES ASSUME faults' = 0 PROVE FaultlessOK'
  BY DEF FaultlessOK
<1>t. TypeOK
  BY DEF RetriesEarned
<1>f. ~Fault
  BY <1>t, SchedulerAssumption DEF Fault, TypeOK, SchedulerAssumption
<1>1. ASSUME NEW t \in Tasks, ScheduleTask(t) PROVE FaultlessOK'
  BY <1>1 DEF ScheduleTask, local, FaultlessOK
<1>2. ASSUME NEW m \in delayed, BecomesDue(m) PROVE FaultlessOK'
  BY <1>2 DEF BecomesDue, local, FaultlessOK
<1>3. ASSUME NEW s \in Schedulers, Poll(s) PROVE FaultlessOK'
  <2>1. /\ UNCHANGED <<delayed, failed, pc, cur, faults>>
        /\ \E P \in SUBSET delayed : todo' = [todo EXCEPT ![s] = P]
    BY <1>3, <1>t DEF Poll, redis, TypeOK
  <2> QED
    BY <1>t, <2>1 DEF FaultlessOK, TypeOK
<1>4. ASSUME NEW s \in Schedulers, NEW m \in todo[s], ExecuteStep(s, m)
      PROVE  FaultlessOK'
  <2>1. /\ todo' = [todo EXCEPT ![s] = @ \ {m}] /\ UNCHANGED failed
        /\ pc[s] = "loop" /\ m \in Members
    BY <1>4, <1>t
       DEF ExecuteStep, DropInvalid, Execute, ExecuteRefused, ExecuteFails,
           ExecuteReplyLost, Take, redis, TypeOK
  <2>2. CASE DropInvalid(s, m)
    <3>1. /\ delayed' = delayed \ {m} /\ UNCHANGED <<pc, cur, faults>>
          /\ m.task \in Undecodable
      BY <1>f, <2>2 DEF DropInvalid, ZRem
    <3> QED
      BY <1>t, <2>1, <3>1 DEF FaultlessOK, TypeOK
  <2>3. CASE Execute(s, m)
    <3>1. Goto(s, "done", m) /\ m.task \notin Refused /\ UNCHANGED <<delayed, faults>>
      BY <2>3 DEF Execute
    <3> QED
      BY <1>t, <2>1, <3>1 DEF FaultlessOK, Goto, TypeOK
  <2>4. CASE ExecuteRefused(s, m)
    <3>1. /\ m.task \in Refused \ Undecodable /\ UNCHANGED <<delayed, faults>>
          /\ \E where \in {"retry", "bury"} :
               /\ Goto(s, where, m)
               /\ where = "bury" => ~(m.retry < MaxRetries)
      BY <2>4 DEF ExecuteRefused, ExecutionFailed, MayRetry, redis
    <3>2. ~(m.retry < MaxRetries) => m.retry = MaxRetries
      BY <2>1, MemberFields, SchedulerAssumption DEF SchedulerAssumption
    <3> QED
      BY <1>t, <2>1, <3>1, <3>2 DEF FaultlessOK, Goto, TypeOK
  <2> QED
    BY <1>4, <1>f, <2>2, <2>3, <2>4 DEF ExecuteStep, ExecuteFails, ExecuteReplyLost
<1>5. ASSUME NEW s \in Schedulers, FinishStep(s) PROVE FaultlessOK'
  <2>0. faults = 0 /\ UNCHANGED todo /\ cur[s] \in Members
    BY <1>5, <1>f, <1>t
       DEF FinishStep, Finish, Remove, Reschedule, RescheduleFails, Bury, BuryFails,
           RemoveBuried, ZRem, redis, TypeOK
  <2>1. CASE Finish(s)
    <3>1. /\ delayed' = delayed \ {cur[s]} /\ UNCHANGED failed
          /\ Goto(s, "loop", NoMember) /\ pc[s] = "done"
      BY <1>f, <2>1 DEF Finish, ZRem, NextTask
    <3>2. cur[s].task \notin Refused
      BY <2>0, <3>1 DEF FaultlessOK
    <3> QED
      BY <1>t, <2>0, <3>1, <3>2 DEF FaultlessOK, Goto, TypeOK
  <2>2. CASE Remove(s)
    <3>1. /\ delayed' = delayed \ {cur[s]} /\ UNCHANGED failed
          /\ Goto(s, "again", Raised(cur[s])) /\ pc[s] = "retry"
          /\ Raised(cur[s]).task = cur[s].task
      BY <1>f, <2>2 DEF Remove, ZRem, Raised
    <3>2. /\ cur[s].task \in Refused \ Undecodable /\ cur[s].retry # MaxRetries
      BY <2>0, <3>1, MemberFields, SchedulerAssumption
         DEF FaultlessOK, RetriesEarned, PathsOK, SchedulerAssumption
    <3>3. \A r \in Schedulers : pc[r] = "bury" => cur[r] # cur[s]
      BY <3>2 DEF RetriesEarned, PathsOK
    <3> QED
      BY <1>t, <2>0, <3>1, <3>2, <3>3 DEF FaultlessOK, Goto, TypeOK
  <2>3. CASE Reschedule(s)
    <3>1. /\ delayed' = delayed \cup {cur[s]} /\ UNCHANGED failed
          /\ Goto(s, "loop", NoMember)
      BY <2>3 DEF Reschedule, NextTask
    <3> QED
      BY <1>t, <2>0, <3>1 DEF FaultlessOK, Goto, TypeOK
  <2>4. CASE Bury(s)
    <3>1. /\ failed' = failed \cup {cur[s]} /\ UNCHANGED delayed
          /\ Goto(s, "buried", cur[s]) /\ pc[s] = "bury"
      BY <2>4 DEF Bury
    <3> QED
      BY <1>t, <2>0, <3>1 DEF FaultlessOK, Goto, TypeOK
  <2>5. CASE RemoveBuried(s)
    <3>1. /\ delayed' = delayed \ {cur[s]} /\ UNCHANGED failed
          /\ Goto(s, "loop", NoMember) /\ pc[s] = "buried"
      BY <1>f, <2>5 DEF RemoveBuried, ZRem, NextTask
    <3>2. cur[s] \in failed
      BY <2>0, <3>1 DEF FaultlessOK
    <3> QED
      BY <1>t, <2>0, <3>1, <3>2 DEF FaultlessOK, Goto, TypeOK
  <2> QED
    BY <1>5, <1>f, <2>1, <2>2, <2>3, <2>4, <2>5
       DEF FinishStep, RescheduleFails, BuryFails
<1>6. ASSUME NEW s \in Schedulers, Crash(s) PROVE FaultlessOK'
  BY <1>6, <1>f DEF Crash
<1>7. CASE UNCHANGED vars
  BY <1>7 DEF vars, redis, local, FaultlessOK
<1> QED
  BY <1>1, <1>2, <1>3, <1>4, <1>5, <1>6, <1>7 DEF Next, SchedulerStep

-----------------------------------------------------------------------------
(* Lists of schedulers.  Two of them differ before the given lengths; one  *)
(* is continued after its first n entries.                                 *)
Lists == [1..MaxRetries -> Schedulers]

Differ(f, n, g, k) == \E i \in 1..MaxRetries : i <= n /\ i <= k /\ f[i] # g[i]

Then(f, n, s) == [f EXCEPT ![n + 1] = s]

(* What differs within n entries differs when one of them is continued.    *)
LEMMA DifferFurther ==
  ASSUME NEW f, NEW g \in Lists, NEW n \in Nat, NEW k \in Nat, NEW s,
         Differ(f, n, g, k)
  PROVE  /\ Differ(f, n, Then(g, k, s), k + 1)
         /\ Differ(Then(g, k, s), k + 1, f, n)
<1>1. PICK i \in 1..MaxRetries : i <= n /\ i <= k /\ f[i] # g[i]
  BY DEF Differ
<1>2. Then(g, k, s)[i] = g[i] /\ i <= k + 1
  BY <1>1, SchedulerAssumption DEF Then, Lists, SchedulerAssumption
<1> QED
  BY <1>1, <1>2 DEF Differ

(* The same list continued by different schedulers differs.                *)
LEMMA DifferLast ==
  ASSUME NEW f \in Lists, NEW n \in Nat, n < MaxRetries, NEW r, NEW s, r # s
  PROVE  Differ(Then(f, n, r), n + 1, Then(f, n, s), n + 1)
<1>1. n + 1 \in 1..MaxRetries
  BY SchedulerAssumption DEF SchedulerAssumption
<1>2. Then(f, n, r)[n + 1] = r /\ Then(f, n, s)[n + 1] = s
  BY <1>1 DEF Then, Lists
<1> QED
  BY <1>1, <1>2 DEF Differ

(* Differing is symmetric.                                                 *)
LEMMA DifferSymmetric ==
  ASSUME NEW f, NEW g, NEW n, NEW k, Differ(f, n, g, k)
  PROVE  Differ(g, k, f, n)
BY DEF Differ

(* There are finitely many lists: each is a set of pairs.                  *)
LEMMA ListsFinite == IsFiniteSet(Lists)
<1> DEFINE Graph(f) == {<<i, f[i]>> : i \in 1..MaxRetries}
           Pairs == (1..MaxRetries) \X Schedulers
           G == [f \in Lists |-> Graph(f)]
<1>1. IsFiniteSet(SUBSET Pairs)
  <2>1. MaxRetries \in Int /\ 1 \in Int /\ IsFiniteSet(Schedulers)
    BY SchedulerAssumption DEF SchedulerAssumption
  <2>2. IsFiniteSet(1..MaxRetries)
    BY <2>1, FS_Interval
  <2>3. IsFiniteSet(Pairs)
    BY <2>1, <2>2, FS_Product
  <2> QED
    BY <2>3, FS_SUBSET
<1>2. \A f \in Lists : Graph(f) \in SUBSET Pairs
  BY DEF Lists
<1>3. ASSUME NEW f \in Lists, NEW g \in Lists, Graph(f) = Graph(g)
      PROVE  f = g
  <2>1. ASSUME NEW i \in 1..MaxRetries PROVE f[i] = g[i]
    <3>1. <<i, f[i]>> \in Graph(g)
      BY <1>3
    <3> QED
      BY <3>1
  <2>2. /\ f = [i \in 1..MaxRetries |-> f[i]]
        /\ g = [i \in 1..MaxRetries |-> g[i]]
    BY DEF Lists
  <2> QED
    BY <2>1, <2>2
<1>4. G \in Injection(Lists, SUBSET Pairs)
  BY <1>2, <1>3 DEF Injection, IsInjective
<1> QED
  BY <1>1, <1>4, FS_Injection

-----------------------------------------------------------------------------
(* The members that exist or are about to, and those a scheduler may still *)
(* reschedule.                                                             *)
Live == delayed \cup failed
          \cup {m \in Members : \E s \in Schedulers : pc[s] = "again" /\ cur[s] = m}

Holds(s, m) ==
  /\ m.retry < MaxRetries
  /\ m \in todo[s] \/ (pc[s] = "retry" /\ cur[s] = m)

(* list assigns lists to the members so that all of this stands apart.     *)
Traced(list) ==
  /\ \A x, y \in Live :
       x.task = y.task /\ x # y => Differ(list[x], x.retry, list[y], y.retry)
  /\ \A x \in Live, s \in Schedulers, m \in Members :
       x.task = m.task /\ x # m /\ Holds(s, m)
         => Differ(list[x], x.retry, Then(list[m], m.retry, s), m.retry + 1)
  /\ \A r, s \in Schedulers, x, m \in Members :
       x.task = m.task /\ <<r, x>> # <<s, m>> /\ Holds(r, x) /\ Holds(s, m)
         => Differ(Then(list[x], x.retry, r), x.retry + 1,
                   Then(list[m], m.retry, s), m.retry + 1)

CopiesTraced ==
  faults = 0 /\ Schedulers # {} => \E list \in [Members -> Lists] : Traced(list)

(* What stood apart does so when less is left of it.                       *)
LEMMA TracedShrinks ==
  ASSUME NEW list, Traced(list), Live' \subseteq Live,
         \A s \in Schedulers, m \in Members : Holds(s, m)' => Holds(s, m)
  PROVE  Traced(list)'
BY DEF Traced

(* A member is scheduled: nothing of its task is there.                    *)
LEMMA TracedSchedules ==
  ASSUME RetriesEarned, HandsOK, NEW list, Traced(list),
         NEW t \in Tasks, ScheduleTask(t)
  PROVE  Traced(list)'
<1> DEFINE new == [task |-> t, retry |-> 0, stamp |-> 0]
<1>1. Live' = Live \cup {new} /\ t \notin scheduled
  BY DEF ScheduleTask, local, Live
<1>2. \A s \in Schedulers, m \in Members :
        /\ Holds(s, m)' <=> Holds(s, m)
        /\ Holds(s, m) => m.task # t
  BY <1>1 DEF ScheduleTask, local, Holds, HandsOK
<1>3. \A x \in Live : x.task # t
  BY <1>1 DEF Live, HandsOK
<1>4. new.task = t
  OBVIOUS
<1> HIDE DEF new
<1> QED
  BY <1>1, <1>2, <1>3, <1>4 DEF Traced

(* A scheduler reads a page: it may reschedule any live member of it.      *)
LEMMA TracedPolls ==
  ASSUME TypeOK, NEW list \in [Members -> Lists], Traced(list),
         NEW s \in Schedulers, Poll(s)
  PROVE  Traced(list)'
<1>1. PICK P \in SUBSET delayed : todo' = [todo EXCEPT ![s] = P]
  BY DEF Poll, TypeOK
<1>2. UNCHANGED <<delayed, failed, pc, cur>> /\ pc[s] = "loop" /\ todo[s] = {}
  BY DEF Poll, redis
<1>3. Live' = Live /\ P \subseteq Live /\ Live \subseteq Members
  BY <1>2 DEF Live, TypeOK
<1>4. ASSUME NEW r \in Schedulers, NEW m \in Members, Holds(r, m)'
      PROVE  /\ m.retry \in Nat /\ m.retry < MaxRetries
             /\ (Holds(r, m) /\ r # s) \/ (r = s /\ m \in Live)
  BY <1>1, <1>2, <1>3, <1>4, MemberFields, SchedulerAssumption
     DEF Holds, TypeOK, SchedulerAssumption
<1>5. ASSUME NEW x \in Live, NEW r \in Schedulers, NEW m \in Members,
             x.task = m.task, x # m, Holds(r, m)'
      PROVE  Differ(list[x], x.retry, Then(list[m], m.retry, r), m.retry + 1)
  <2>1. CASE Holds(r, m)
    BY <1>5, <2>1 DEF Traced
  <2>2. CASE m \in Live
    <3>1. /\ Differ(list[x], x.retry, list[m], m.retry)
          /\ x.retry \in Nat /\ list[m] \in Lists
      BY <1>3, <1>5, <2>2, MemberFields DEF Traced
    <3> QED
      BY <1>4, <1>5, <3>1, DifferFurther
  <2> QED
    BY <1>4, <1>5, <2>1, <2>2
<1>6. ASSUME NEW r \in Schedulers, NEW q \in Schedulers,
             NEW x \in Members, NEW m \in Members,
             x.task = m.task, <<r, x>> # <<q, m>>, Holds(r, x)', Holds(q, m)'
      PROVE  Differ(Then(list[x], x.retry, r), x.retry + 1,
                    Then(list[m], m.retry, q), m.retry + 1)
  <2>1. /\ x.retry \in Nat /\ m.retry \in Nat /\ m.retry < MaxRetries
        /\ x.retry + 1 \in Nat /\ m.retry + 1 \in Nat
        /\ list[x] \in Lists /\ list[m] \in Lists
    BY <1>4, <1>6
  <2>2. CASE x = m
    BY <1>6, <2>1, <2>2, DifferLast
  <2>3. CASE x # m /\ x \in Live
    <3>1. Differ(list[x], x.retry, Then(list[m], m.retry, q), m.retry + 1)
      BY <1>5, <1>6, <2>3
    <3>2. Differ(Then(list[m], m.retry, q), m.retry + 1, list[x], x.retry)
      BY <3>1, DifferSymmetric
    <3> QED
      BY <2>1, <3>2, DifferFurther
  <2>4. CASE x # m /\ m \in Live
    <3>1. Differ(list[m], m.retry, Then(list[x], x.retry, r), x.retry + 1)
      BY <1>5, <1>6, <2>4
    <3>2. Differ(Then(list[x], x.retry, r), x.retry + 1, list[m], m.retry)
      BY <3>1, DifferSymmetric
    <3> QED
      BY <2>1, <3>2, DifferFurther
  <2>5. CASE Holds(r, x) /\ Holds(q, m)
    BY <1>6, <2>5 DEF Traced
  <2> QED
    BY <1>4, <1>6, <2>2, <2>3, <2>4, <2>5
<1>7. \A x, y \in Live' :
        x.task = y.task /\ x # y => Differ(list[x], x.retry, list[y], y.retry)
  BY <1>3 DEF Traced
<1> QED
  BY <1>3, <1>5, <1>6, <1>7 DEF Traced

(* A scheduler removes a member to reschedule it: the new member takes its *)
(* place on the list of this scheduler, which nobody else can take.        *)
LEMMA TracedRemoves ==
  ASSUME RetriesEarned, HandsOK, StampsOK, NewOnesHidden,
         NEW list \in [Members -> Lists], Traced(list),
         NEW s \in Schedulers, Remove(s), UNCHANGED faults
  PROVE  \E new \in [Members -> Lists] : Traced(new)'
<1> DEFINE m0 == cur[s]
           c == Raised(m0)
           lc == Then(list[m0], m0.retry, s)
<1>t. TypeOK
  BY DEF RetriesEarned
<1>1. /\ pc[s] = "retry" /\ UNCHANGED <<todo, failed>>
      /\ delayed' = delayed \ {m0} /\ Goto(s, "again", c)
  <2>1. ~Fault
    BY <1>t, SchedulerAssumption DEF Fault, TypeOK, SchedulerAssumption
  <2> QED
    BY <2>1 DEF Remove, ZRem
<1>2. /\ m0 \in Members /\ m0.retry \in Nat /\ m0.retry < MaxRetries
      /\ m0.task \in Tasks /\ reschedules[m0.task] \in Nat
  BY <1>1, <1>t, MemberFields DEF RetriesEarned, PathsOK, TypeOK
<1>3. /\ c \in Members /\ c.task = m0.task /\ c.retry = m0.retry + 1
      /\ c.stamp = reschedules[m0.task] + 1
  BY <1>2, <1>t, RaisedMember DEF Raised
<1>4. lc \in Lists
  BY <1>2, <1>3 DEF Then, Lists
<1>5. \A m \in Members : Stamped(m) => m # c
  BY <1>2, <1>3 DEF Stamped
<1>6. Holds(s, m0) /\ m0 \notin todo[s]
  BY <1>1, <1>2 DEF Holds, HandsOK, OnMember
<1> HIDE DEF c, lc
<1>7. /\ \A x \in Live : x # c
      /\ \A r \in Schedulers : c \notin todo[r] /\ (pc[r] # "loop" => cur[r] # c)
  BY <1>5, <1>t DEF Live, StampsOK, TypeOK
<1>8. \A x \in Live' : x = c \/ (x \in Live /\ x # m0)
  <2>1. m0 \notin failed
    BY <1>2 DEF RetriesEarned
  <2>2. \A r \in Schedulers : pc[r] = "again" => cur[r] # m0
    BY <1>1 DEF NewOnesHidden
  <2> QED
    BY <1>1, <1>t, <2>1, <2>2 DEF Live, Goto, TypeOK
<1>9. \A r \in Schedulers, m \in Members :
        Holds(r, m)' => Holds(r, m) /\ <<r, m>> # <<s, m0>> /\ m # c
  BY <1>1, <1>6, <1>7, <1>t DEF Holds, Goto, TypeOK
<1>10. PICK new \in [Members -> Lists] :
         new[c] = lc /\ \A m \in Members : m # c => new[m] = list[m]
  <2>1. [list EXCEPT ![c] = lc] \in [Members -> Lists]
    BY <1>4
  <2> QED
    BY <1>3, <2>1
<1>11. Live \subseteq Members
  BY <1>t DEF Live, TypeOK
<1>12. ASSUME NEW x \in Live', NEW y \in Live', x.task = y.task, x # y
       PROVE  Differ(new[x], x.retry, new[y], y.retry)
  <2>1. CASE x # c /\ y # c
    BY <1>8, <1>10, <1>11, <1>12, <2>1 DEF Traced
  <2>2. CASE x # c /\ y = c
    <3>1. Differ(list[x], x.retry, lc, m0.retry + 1)
      BY <1>2, <1>3, <1>6, <1>8, <1>12, <2>2 DEF Traced, lc
    <3> QED
      BY <1>3, <1>8, <1>10, <1>11, <2>2, <3>1
  <2>3. CASE x = c /\ y # c
    <3>1. Differ(list[y], y.retry, lc, m0.retry + 1)
      BY <1>2, <1>3, <1>6, <1>8, <1>12, <2>3 DEF Traced, lc
    <3>2. Differ(lc, m0.retry + 1, list[y], y.retry)
      BY <3>1, DifferSymmetric
    <3> QED
      BY <1>3, <1>8, <1>10, <1>11, <2>3, <3>2
  <2> QED
    BY <1>12, <2>1, <2>2, <2>3
<1>13. ASSUME NEW x \in Live', NEW r \in Schedulers, NEW m \in Members,
              x.task = m.task, x # m, Holds(r, m)'
       PROVE  Differ(new[x], x.retry, Then(new[m], m.retry, r), m.retry + 1)
  <2>1. Holds(r, m) /\ <<r, m>> # <<s, m0>> /\ new[m] = list[m]
    BY <1>9, <1>10, <1>13
  <2>2. CASE x # c
    BY <1>8, <1>10, <1>11, <1>13, <2>1, <2>2 DEF Traced
  <2>3. CASE x = c
    <3>1. Differ(lc, m0.retry + 1, Then(list[m], m.retry, r), m.retry + 1)
      BY <1>2, <1>3, <1>6, <1>13, <2>1, <2>3 DEF Traced, lc
    <3> QED
      BY <1>3, <1>10, <2>1, <2>3, <3>1
  <2> QED
    BY <2>2, <2>3
<1>14. ASSUME NEW r \in Schedulers, NEW q \in Schedulers,
              NEW x \in Members, NEW m \in Members,
              x.task = m.task, <<r, x>> # <<q, m>>, Holds(r, x)', Holds(q, m)'
       PROVE  Differ(Then(new[x], x.retry, r), x.retry + 1,
                     Then(new[m], m.retry, q), m.retry + 1)
  BY <1>9, <1>10, <1>14 DEF Traced
<1>15. Traced(new)'
  BY <1>12, <1>13, <1>14 DEF Traced
<1> QED
  BY <1>15

(* Every step keeps some assignment of lists.                              *)
LEMMA TracedStep ==
  ASSUME RetriesEarned, HandsOK, StampsOK, NewOnesHidden, FaultlessOK,
         CopiesTraced, [Next]_vars
  PROVE  CopiesTraced'
<1> SUFFICES ASSUME faults' = 0, Schedulers # {}
             PROVE  \E list \in [Members -> Lists] : Traced(list)'
  BY DEF CopiesTraced
<1>t. TypeOK
  BY DEF RetriesEarned
<1>f. ~Fault
  BY <1>t, SchedulerAssumption DEF Fault, TypeOK, SchedulerAssumption
<1>u. UNCHANGED faults
  BY <1>f DEF Next, vars, local, redis, ScheduleTask, BecomesDue, SchedulerStep, Poll,
         ExecuteStep, DropInvalid, Execute, ExecuteRefused, ExecuteFails,
         ExecuteReplyLost, FinishStep, Finish, Remove, Reschedule, RescheduleFails,
         Bury, BuryFails, RemoveBuried, ZRem, Crash
<1>l. PICK list \in [Members -> Lists] : Traced(list)
  BY <1>u DEF CopiesTraced
<1>1. ASSUME NEW t \in Tasks, ScheduleTask(t) PROVE Traced(list)'
  BY <1>1, <1>l, TracedSchedules
<1>2. ASSUME NEW m \in delayed, BecomesDue(m) PROVE Traced(list)'
  BY <1>2, <1>l, TracedShrinks DEF BecomesDue, local, Live, Holds
<1>3. ASSUME NEW s \in Schedulers, Poll(s) PROVE Traced(list)'
  BY <1>3, <1>l, <1>t, TracedPolls
<1>4. ASSUME NEW s \in Schedulers, NEW m \in todo[s], ExecuteStep(s, m)
      PROVE  Traced(list)'
  <2>1. /\ todo' = [todo EXCEPT ![s] = @ \ {m}] /\ UNCHANGED failed
        /\ delayed' \subseteq delayed /\ m \in Members
        /\ UNCHANGED <<pc, cur>> \/ \E where \in OnMember : Goto(s, where, m)
    BY <1>4, <1>t
       DEF ExecuteStep, DropInvalid, Execute, ExecuteRefused, ExecuteFails, OnMember,
           ExecuteReplyLost, ExecutionFailed, ZRem, Take, redis, TypeOK
  <2>2. Live' \subseteq Live
    BY <1>t, <2>1 DEF Live, Goto, OnMember, TypeOK
  <2>3. \A r \in Schedulers, x \in Members : Holds(r, x)' => Holds(r, x)
    BY <1>t, <2>1 DEF Holds, Goto, TypeOK
  <2> QED
    BY <1>l, <2>2, <2>3, TracedShrinks
<1>5. ASSUME NEW s \in Schedulers, FinishStep(s), ~Remove(s) PROVE Traced(list)'
  <2>1. /\ UNCHANGED todo
        /\ Goto(s, "loop", NoMember) \/ Goto(s, "buried", cur[s])
    BY <1>5 DEF FinishStep, Finish, Reschedule, RescheduleFails, Bury,
           BuryFails, RemoveBuried, NextTask, redis
  <2>2. cur[s] \in Members
    BY <1>5, <1>t DEF FinishStep, Finish, Reschedule, RescheduleFails, Bury,
           BuryFails, RemoveBuried, TypeOK
  <2>3. /\ delayed' \cup failed' \subseteq delayed \cup failed \cup {cur[s]}
        /\ \/ delayed' \cup failed' \subseteq delayed \cup failed
           \/ pc[s] = "again"
           \/ pc[s] = "bury"
    BY <1>5 DEF FinishStep, Finish, Reschedule, RescheduleFails, Bury,
           BuryFails, RemoveBuried, ZRem, redis
  <2>4. pc[s] = "bury" => cur[s] \in delayed \cup failed
    BY <1>u DEF FaultlessOK
  <2>5. Live' \subseteq Live
    <3>1. delayed' \cup failed' \subseteq Live
      BY <2>2, <2>3, <2>4 DEF Live
    <3>2. \A r \in Schedulers : pc'[r] = "again" => pc[r] = "again" /\ cur'[r] = cur[r]
      BY <1>t, <2>1 DEF Goto, TypeOK
    <3> QED
      BY <3>1, <3>2 DEF Live
  <2>6. \A r \in Schedulers, x \in Members : Holds(r, x)' => Holds(r, x)
    BY <1>t, <2>1 DEF Holds, Goto, TypeOK
  <2> QED
    BY <1>l, <2>5, <2>6, TracedShrinks
<1>6. ASSUME NEW s \in Schedulers, Remove(s)
      PROVE  \E new \in [Members -> Lists] : Traced(new)'
  BY <1>6, <1>l, <1>u, TracedRemoves
<1>7. ASSUME NEW s \in Schedulers, Crash(s) PROVE FALSE
  BY <1>7, <1>f DEF Crash
<1>8. CASE UNCHANGED vars
  <2>1. Traced(list)'
    BY <1>8, <1>l, TracedShrinks DEF vars, redis, local, Live, Holds
  <2> QED
    BY <2>1
<1> QED
  BY <1>1, <1>2, <1>3, <1>4, <1>5, <1>6, <1>7, <1>8 DEF Next, SchedulerStep

(* The lists of the copies are distinct, so there are no more copies than  *)
(* lists.                                                                  *)
LEMMA TracedBounds ==
  ASSUME TypeOK, NEW list \in [Members -> Lists], Traced(list), NEW t \in Tasks
  PROVE  Cardinality(Of(t, delayed \cup failed)) <= Cardinality(Lists)
<1> DEFINE Copies == Of(t, delayed \cup failed)
           f == [m \in Copies |-> list[m]]
<1>1. Copies \subseteq Members /\ Copies \subseteq Live
  BY DEF Of, Live, TypeOK
<1>2. \A x, y \in Copies : x # y => list[x] # list[y]
  BY <1>1 DEF Of, Traced, Differ
<1>3. f \in Injection(Copies, Lists)
  BY <1>1, <1>2 DEF Injection, IsInjective
<1> QED
  BY <1>3, ListsFinite, FS_Injection

(* Without faults, however many schedulers execute the same members at     *)
(* once: a task has no more copies than there are lists of MaxRetries      *)
(* schedulers.                                                             *)
THEOREM CopiesAreBounded == Spec => []CopiesBounded
<1> DEFINE Inv == /\ HandsOK /\ StampsOK /\ NewOnesHidden /\ FaultlessOK
                  /\ CopiesTraced
<1>1. Init => Inv
  <2> SUFFICES ASSUME Init PROVE Inv
    OBVIOUS
  <2>1. HandsOK /\ StampsOK /\ NewOnesHidden /\ FaultlessOK
    BY DEF Init, HandsOK, OnMember, StampsOK, NewOnesHidden, FaultlessOK
  <2>2. ASSUME Schedulers # {} PROVE \E list \in [Members -> Lists] : Traced(list)
    <3>1. PICK s : s \in Schedulers
      BY <2>2
    <3> DEFINE l == [m \in Members |-> [i \in 1..MaxRetries |-> s]]
    <3>2. l \in [Members -> Lists]
      BY <3>1 DEF Lists
    <3>3. Live = {} /\ \A r \in Schedulers, m \in Members : ~Holds(r, m)
      BY DEF Init, Live, Holds
    <3>4. Traced(l)
      BY <3>3 DEF Traced
    <3> QED
      BY <3>2, <3>4
  <2> QED
    BY <2>1, <2>2 DEF CopiesTraced
<1>2. RetriesEarned /\ Inv /\ [Next]_vars => Inv'
  BY HandsStep, StampsStep, HiddenStep, FaultlessStep, TracedStep
<1>3. RetriesEarned /\ Inv => CopiesBounded
  <2> SUFFICES ASSUME RetriesEarned, Inv, faults = 0, Schedulers # {}, NEW t \in Tasks
               PROVE  Cardinality(Of(t, delayed \cup failed))
                        <= Cardinality([1..MaxRetries -> Schedulers])
    BY DEF CopiesBounded
  <2>1. PICK list \in [Members -> Lists] : Traced(list)
    BY DEF CopiesTraced
  <2>2. TypeOK
    BY DEF RetriesEarned
  <2> QED
    BY <2>1, <2>2, TracedBounds DEF Lists
<1> QED
  BY <1>1, <1>2, <1>3, InitEarned, NextEarned, PTL DEF Spec

-----------------------------------------------------------------------------
(* The contract.  Whatever a scheduler executes was decoded.               *)
Decoded == \A s \in Schedulers : pc[s] # "loop" => cur[s].task \notin Undecodable

(* Every step keeps that.                                                  *)
LEMMA DecodedStep ==
  ASSUME TypeOK, Decoded, [Next]_vars
  PROVE  Decoded'
<1>1. ASSUME NEW s \in Schedulers, NEW m \in todo[s], ExecuteStep(s, m)
      PROVE  Decoded'
  <2>1. \/ UNCHANGED <<pc, cur>>
        \/ m.task \notin Undecodable /\ \E where \in OnMember : Goto(s, where, m)
    BY <1>1 DEF ExecuteStep, DropInvalid, Execute, ExecuteRefused, ExecuteFails,
                ExecuteReplyLost, ExecutionFailed, OnMember
  <2> QED
    BY <2>1 DEF Decoded, Goto, TypeOK
<1>2. ASSUME NEW s \in Schedulers, FinishStep(s) PROVE Decoded'
  <2>1. pc[s] # "loop"
    BY <1>2 DEF FinishStep, Finish, Remove, Reschedule, RescheduleFails, Bury,
                BuryFails, RemoveBuried
  <2>2. \/ Goto(s, "loop", NoMember)
        \/ Goto(s, "again", Raised(cur[s]))
        \/ Goto(s, "buried", cur[s])
    BY <1>2 DEF FinishStep, Finish, Remove, Reschedule, RescheduleFails, Bury,
                BuryFails, RemoveBuried, NextTask
  <2>3. Raised(cur[s]).task = cur[s].task
    BY DEF Raised
  <2> QED
    BY <2>1, <2>2, <2>3 DEF Decoded, Goto, TypeOK
<1>3. ASSUME NEW s \in Schedulers, Crash(s) PROVE Decoded'
  BY <1>3 DEF Crash, NextTask, Goto, Decoded, TypeOK
<1>4. CASE \/ \E t \in Tasks : ScheduleTask(t)
           \/ \E m \in delayed : BecomesDue(m)
           \/ \E s \in Schedulers : Poll(s)
           \/ UNCHANGED vars
  BY <1>4 DEF ScheduleTask, BecomesDue, Poll, vars, local, Decoded
<1> QED
  BY <1>1, <1>2, <1>3, <1>4 DEF Next, SchedulerStep

(* Nothing but ScheduleTask opens a task.                                  *)
LEMMA OpenShrinks ==
  ASSUME TypeOK, [Next]_vars, \A t \in Tasks : ~ScheduleTask(t)
  PROVE  Open' \subseteq Open
<1> SUFFICES ASSUME NEW t \in Tasks, t \notin Open PROVE t \notin Open'
  BY DEF Open
<1>o. /\ \A m \in delayed : m.task # t
      /\ \A s \in Schedulers : \A m \in todo[s] : m.task # t
      /\ \A s \in Schedulers : pc[s] # "loop" => cur[s].task # t
  BY DEF Open, Of, Hand
<1>p. ASSUME /\ \A m \in delayed' : m.task # t
             /\ \A s \in Schedulers : \A m \in todo'[s] : m.task # t
             /\ \A s \in Schedulers : pc'[s] # "loop" => cur'[s].task # t
      PROVE  t \notin Open'
  BY <1>p DEF Open, Of, Hand
<1>1. ASSUME NEW s \in Schedulers, NEW m \in todo[s], ExecuteStep(s, m)
      PROVE  t \notin Open'
  <2>1. /\ delayed' \subseteq delayed /\ todo' = [todo EXCEPT ![s] = @ \ {m}]
        /\ UNCHANGED <<pc, cur>> \/ \E where \in OnMember : Goto(s, where, m)
    BY <1>1 DEF ExecuteStep, DropInvalid, Execute, ExecuteRefused, ExecuteFails,
                ExecuteReplyLost, ExecutionFailed, ZRem, Take, redis, OnMember
  <2> QED
    BY <1>o, <1>p, <2>1 DEF Goto, TypeOK
<1>2. ASSUME NEW s \in Schedulers, FinishStep(s) PROVE t \notin Open'
  <2>1. /\ pc[s] # "loop" /\ UNCHANGED todo
        /\ delayed' \subseteq delayed \cup {cur[s]}
    BY <1>2 DEF FinishStep, Finish, Remove, Reschedule, RescheduleFails, Bury,
                BuryFails, RemoveBuried, ZRem, redis
  <2>2. \/ Goto(s, "loop", NoMember)
        \/ Goto(s, "again", Raised(cur[s]))
        \/ Goto(s, "buried", cur[s])
    BY <1>2 DEF FinishStep, Finish, Remove, Reschedule, RescheduleFails, Bury,
                BuryFails, RemoveBuried, NextTask
  <2>3. Raised(cur[s]).task = cur[s].task
    BY DEF Raised
  <2> QED
    BY <1>o, <1>p, <2>1, <2>2, <2>3 DEF Goto, TypeOK
<1>3. ASSUME NEW s \in Schedulers, Crash(s) PROVE t \notin Open'
  BY <1>3, <1>o, <1>p DEF Crash, NextTask, Goto, redis, TypeOK
<1>4. ASSUME NEW s \in Schedulers, Poll(s) PROVE t \notin Open'
  <2>1. /\ UNCHANGED <<delayed, pc, cur>>
        /\ \E P \in SUBSET delayed : todo' = [todo EXCEPT ![s] = P]
    BY <1>4 DEF Poll, redis, TypeOK
  <2> QED
    BY <1>o, <1>p, <2>1 DEF TypeOK
<1>5. CASE (\E m \in delayed : BecomesDue(m)) \/ UNCHANGED vars
  BY <1>5, <1>o, <1>p DEF BecomesDue, vars, redis, local
<1> QED
  BY <1>1, <1>2, <1>3, <1>4, <1>5 DEF Next, SchedulerStep

(* What vanished of the contract's tasks is lost, so faults pay for it.    *)
LEMMA VanishedPaid ==
  ASSUME TypeOK, LossNeedsFaults
  PROVE  Cardinality(Contract!Vanished) <= faults
<1>1. Contract!Vanished \subseteq Lost
  <2> SUFFICES ASSUME NEW t \in Contract!Vanished PROVE t \in Lost
    OBVIOUS
  <2>1. /\ t \in scheduled \ Undecodable /\ t \in Tasks /\ t \notin Open
        /\ published[t] = 0 /\ \A m \in failed : m.task # t
    BY DEF Contract!Vanished, TypeOK
  <2>2. /\ \A m \in delayed : m.task # t
        /\ \A s \in Schedulers : pc[s] # "loop" => cur[s].task # t
    BY <2>1 DEF Open, Of, Hand
  <2> QED
    BY <2>1, <2>2 DEF Lost, Of, InHand
<1>2. Lost \subseteq Tasks /\ Lost \ Refused \subseteq Tasks
  BY DEF Lost, TypeOK
<1>3. /\ IsFiniteSet(Lost) /\ Cardinality(Lost) \in Nat
      /\ Cardinality(Lost \ Refused) \in Nat
  BY <1>2, SchedulerAssumption, FS_Subset, FS_CardinalityType DEF SchedulerAssumption
<1>4. /\ Cardinality(Contract!Vanished) <= Cardinality(Lost)
      /\ Cardinality(Contract!Vanished) \in Nat
  BY <1>1, <1>3, FS_Subset, FS_CardinalityType
<1>5. faults \in Nat
  BY SchedulerAssumption DEF TypeOK, SchedulerAssumption
<1> QED
  BY <1>3, <1>4, <1>5 DEF LossNeedsFaults

(* Every step is a step of the contract.                                   *)
LEMMA StepKeepsContract ==
  ASSUME TypeOK, HandsOK, Decoded, Cardinality(Contract!Vanished)' <= faults', [Next]_vars
  PROVE  [Contract!TNext]_(Contract!tvars)
<1> DEFINE parked == {m.task : m \in failed}
           Something ==
             \/ \E t \in Tasks : Contract!Accept(t) \/ Contract!Execute(t)
                                   \/ Contract!Park(t)
             \/ \E T \in SUBSET Open : Contract!Release(T)
<1>f. faults' \in {faults, faults + 1}
  BY DEF Next, vars, local, redis, ScheduleTask, BecomesDue, SchedulerStep, Poll,
         ExecuteStep, DropInvalid, Execute, ExecuteRefused, ExecuteFails,
         ExecuteReplyLost, FinishStep, Finish, Remove, Reschedule, RescheduleFails,
         Bury, BuryFails, RemoveBuried, ZRem, Crash, Fault
<1>v. Cardinality(Contract!Vanished') <= faults'
  OBVIOUS
<1>q. SUFFICES Something
  BY <1>f, <1>v, Zenon DEF Contract!TNext, Contract!Cardinality, Cardinality
<1>r. ASSUME \A t \in Tasks : ~ScheduleTask(t), UNCHANGED <<scheduled, published, failed>>
      PROVE  Something
  <2>1. Open' \subseteq Open
    BY <1>r, OpenShrinks
  <2>2. Contract!Release(Open \ Open')
    BY <1>r, <2>1 DEF Contract!Release
  <2> QED
    BY <2>2
<1>1. ASSUME NEW t \in Tasks, ScheduleTask(t) PROVE Something
  <2> DEFINE new == [task |-> t, retry |-> 0, stamp |-> 0]
  <2>3. delayed' = delayed \cup {new} /\ UNCHANGED <<todo, pc, cur>> /\ new.task = t
    BY <1>1 DEF ScheduleTask, local
  <2> HIDE DEF new
  <2>4. /\ Of(t, delayed') # {}
        /\ \A u \in Tasks : u # t => Of(u, delayed') = Of(u, delayed)
    BY <2>3 DEF Of
  <2>1. Open' = Open \cup {t}
    BY <2>3, <2>4 DEF Open, Hand
  <2>2. Contract!Accept(t)
    BY <1>1, <2>1 DEF ScheduleTask, Contract!Accept
  <2> QED
    BY <2>2
<1>2. ASSUME NEW s \in Schedulers, NEW m \in todo[s],
             Execute(s, m) \/ ExecuteReplyLost(s, m)
      PROVE  Something
  <2>1. /\ m.task \in Tasks \ Undecodable /\ m.task \in Open /\ m \in Members
    BY <1>2, MemberFields DEF Execute, ExecuteReplyLost, TypeOK, Open, Of
  <2>2. /\ published' = [published EXCEPT ![m.task] = @ + 1]
        /\ UNCHANGED <<scheduled, delayed, failed>>
        /\ todo' = [todo EXCEPT ![s] = @ \ {m}]
        /\ \E where \in OnMember : Goto(s, where, m)
    BY <1>2 DEF Execute, ExecuteReplyLost, ExecutionFailed, XAdd, Take, OnMember
  <2>3. Open' = Open
    <3>1. Open' \subseteq Open
      <4>1. \A t \in Tasks : ~ScheduleTask(t)
        BY <2>2 DEF ScheduleTask
      <4> QED
        BY <4>1, OpenShrinks
    <3>2. ASSUME NEW t \in Open PROVE t \in Open'
      <4>1. CASE t = m.task
        <5>1. pc'[s] # "loop" /\ cur'[s] = m
          BY <2>2 DEF Goto, OnMember, TypeOK
        <5> QED
          BY <2>1, <4>1, <5>1 DEF Open, Of, Hand
      <4>2. CASE t # m.task
        <5>1. pc[s] = "loop"
          BY <1>2 DEF Execute, ExecuteReplyLost, Take
        <5>2. \A r \in Schedulers : r # s =>
                todo'[r] = todo[r] /\ pc'[r] = pc[r] /\ cur'[r] = cur[r]
          BY <2>2 DEF Goto, TypeOK
        <5>3. todo'[s] = todo[s] \ {m}
          BY <2>2 DEF TypeOK
        <5> QED
          BY <2>2, <4>2, <5>1, <5>2, <5>3 DEF Open, Of, Hand
      <4> QED
        BY <4>1, <4>2
    <3> QED
      BY <3>1, <3>2
  <2>4. Contract!Execute(m.task)
    BY <2>1, <2>2, <2>3 DEF Contract!Execute
  <2> QED
    BY <2>1, <2>4
<1>3. ASSUME NEW s \in Schedulers, Bury(s) PROVE Something
  <2>1. /\ pc[s] = "bury" /\ failed' = failed \cup {cur[s]}
        /\ UNCHANGED <<scheduled, delayed, published, todo>>
        /\ Goto(s, "buried", cur[s])
    BY <1>3 DEF Bury
  <2>2. PICK t \in Tasks : t = cur[s].task /\ t \in Open \ Undecodable
    BY <2>1, MemberFields DEF Open, Of, Hand, TypeOK, Decoded
  <2>3. \A r \in Schedulers : Hand(r)' = Hand(r)
    BY <2>1 DEF Hand, Goto, TypeOK
  <2>4. Open' = Open
    BY <2>1, <2>3 DEF Open, Of
  <2>5. parked' = parked \cup {t}
    BY <2>1, <2>2
  <2>6. Contract!Park(t)
    BY <2>1, <2>2, <2>4, <2>5 DEF Contract!Park
  <2> QED
    BY <2>6
<1>4. ASSUME NEW s \in Schedulers, NEW m \in todo[s],
             DropInvalid(s, m) \/ ExecuteRefused(s, m) \/ ExecuteFails(s, m)
      PROVE  Something
  BY <1>4, <1>r DEF DropInvalid, ExecuteRefused, ExecuteFails, redis, ScheduleTask
<1>5. ASSUME NEW s \in Schedulers, FinishStep(s), ~Bury(s) PROVE Something
  BY <1>5, <1>r DEF FinishStep, Finish, Remove, Reschedule, RescheduleFails,
                    BuryFails, RemoveBuried, redis, ScheduleTask
<1>6. ASSUME NEW s \in Schedulers, Crash(s) \/ Poll(s) PROVE Something
  BY <1>6, <1>r DEF Crash, Poll, redis, ScheduleTask
<1>7. CASE (\E m \in delayed : BecomesDue(m)) \/ UNCHANGED vars
  BY <1>7, <1>r DEF BecomesDue, vars, redis, ScheduleTask
<1> QED
  BY <1>1, <1>2, <1>3, <1>4, <1>5, <1>6, <1>7 DEF Next, SchedulerStep, ExecuteStep

(* Delayed tasks keep their contract: a task that left every set, page and *)
(* hand is never executed again, and it left executed, parked, or at the   *)
(* cost of a fault of its own.                                             *)
THEOREM TaskContractKept == Spec => KeepsTaskContract
<1>1. Init => Contract!TInit /\ HandsOK /\ Decoded
  BY DEF Init, Contract!TInit, HandsOK, OnMember, Decoded, Open, Of, Hand
<1>2. RetriesEarned => TypeOK
  BY DEF RetriesEarned
<1>3. RetriesEarned /\ HandsOK /\ [Next]_vars => HandsOK'
  BY HandsStep
<1>4. TypeOK /\ Decoded /\ [Next]_vars => Decoded'
  BY DecodedStep
<1>5. TypeOK /\ LossNeedsFaults => Cardinality(Contract!Vanished) <= faults
  BY VanishedPaid
<1>6. TypeOK' /\ LossNeedsFaults' => (Cardinality(Contract!Vanished) <= faults)'
  BY <1>5, PTL
<1>7. /\ TypeOK /\ HandsOK /\ Decoded /\ (Cardinality(Contract!Vanished) <= faults)'
      /\ [Next]_vars
      => [Contract!TNext]_(Contract!tvars)
  BY StepKeepsContract
<1> QED
  BY <1>1, <1>2, <1>3, <1>4, <1>5, <1>7, InitEarned, NextEarned,
     LossesNeedFaults, PTL
  DEF Spec, KeepsTaskContract, Contract!TSpec

-----------------------------------------------------------------------------
(* README.md:184-185 has a failed task retried or moved to the failed      *)
(* tasks.  Without a fault that is so, and one fault alone loses no task   *)
(* that Redis would have accepted.                                         *)
THEOREM KeptUnlessFaults ==
  Spec => [](/\ faults = 0 => FailedTasksAreKept
             /\ faults = 1 => Lost \subseteq Refused)
<1>1. TypeOK /\ LossNeedsFaults =>
        /\ faults = 0 => FailedTasksAreKept
        /\ faults = 1 => Lost \subseteq Refused
  <2> SUFFICES ASSUME TypeOK, LossNeedsFaults
               PROVE  /\ faults = 0 => Lost = {}
                      /\ faults = 1 => Lost \ Refused = {}
    BY DEF FailedTasksAreKept
  <2>1. IsFiniteSet(Lost) /\ IsFiniteSet(Lost \ Refused)
    <3>1. Lost \subseteq Tasks
      BY DEF Lost, TypeOK
    <3> QED
      BY <3>1, SchedulerAssumption, FS_Subset
  <2>2. Cardinality(Lost) \in Nat /\ Cardinality(Lost \ Refused) \in Nat
    BY <2>1, FS_CardinalityType
  <2>3. Cardinality(Lost \ Refused) <= Cardinality(Lost)
    BY <2>1, FS_Subset
  <2>4. Cardinality(Lost) + Cardinality(Lost \ Refused) <= faults
    BY DEF LossNeedsFaults
  <2>5. ASSUME faults = 0 PROVE Lost = {}
    <3>1. Cardinality(Lost) = 0
      BY <2>2, <2>4, <2>5
    <3> QED
      BY <2>1, <3>1, FS_EmptySet
  <2>6. ASSUME faults = 1 PROVE Lost \ Refused = {}
    <3>1. Cardinality(Lost \ Refused) = 0
      BY <2>2, <2>3, <2>4, <2>6
    <3> QED
      BY <2>1, <3>1, FS_EmptySet
  <2> QED
    BY <2>5, <2>6
<1> QED
  BY <1>1, SchedulerTyped, LossesNeedFaults, PTL

=============================================================================

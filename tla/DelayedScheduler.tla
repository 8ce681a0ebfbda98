--------------------------- MODULE DelayedScheduler ---------------------------
(***************************************************************************)
(* The delayed tasks of delayed_scheduler.go: a sorted set of tasks, a     *)
(* sorted set of failed tasks, and the schedulers of several processes     *)
(* that poll the first one.  A scheduler reads a page of due tasks and     *)
(* then, for each of them, sends one command after the other: XADD to the  *)
(* stream, then                                                            *)
(*   - ZREM, if XADD succeeded;                                            *)
(*   - ZREM and ZADD of the task with its retry count raised, if it failed *)
(*     and retries are left;                                               *)
(*   - ZADD to the failed tasks and ZREM, if none are left.                *)
(* Nothing ties these commands together, and no scheduler knows of the     *)
(* others.  The errors of ZREM and ZADD are logged or ignored, so a lost   *)
(* reply makes a difference for XADD only.                                 *)
(*                                                                         *)
(* Definitions marked "Mutant" are no part of the specification: each is   *)
(* the next definition with a plausible mistake in it.                     *)
(***************************************************************************)
EXTENDS Integers, FiniteSets

CONSTANTS
  Schedulers,   \* processes whose scheduler is started
  Reliable,     \* the schedulers that keep running (liveness only)
  Tasks,        \* tasks ever scheduled, by their ids
  Undecodable,  \* tasks of another program, which proto.Unmarshal rejects
  Refused,      \* tasks whose XADD Redis answers with an error each time
  MaxRetries,   \* DelayedTask.MaxRetries, 3 in ScheduleTask
  Page,         \* Count of ZRANGEBYSCORE, 100 in the code
  MaxFaults     \* bound: failed commands and crashes

ASSUME SchedulerAssumption ==
  /\ IsFiniteSet(Schedulers) /\ IsFiniteSet(Tasks)
  /\ Reliable \subseteq Schedulers
  /\ Undecodable \subseteq Tasks /\ Refused \subseteq Tasks
  /\ MaxRetries \in Nat
  /\ Page \in Nat \ {0}
  /\ MaxFaults \in Nat

(* A member of the sorted sets is a serialised task.  Rescheduling gives   *)
(* the task a new ExecuteAt in nanoseconds, hence always another member:   *)
(* the stamp tells them apart.                                             *)
Members == [task : Tasks, retry : 0..MaxRetries, stamp : Nat]

VARIABLES
  scheduled,   \* tasks ScheduleTask has added
  delayed,     \* the sorted set of delayed tasks
  due,         \* the part of it whose score is not in the future
  failed,      \* the sorted set of failed tasks
  published,   \* how often a task was added to its stream
  reschedules, \* how often a task was rescheduled
  todo,        \* what a scheduler has still to look at of its page
  pc,          \* where a scheduler is
  cur,         \* the member it works on
  faults       \* faults injected so far

redis == <<scheduled, delayed, due, failed, published>>
local == <<todo, pc, cur>>
vars  == <<redis, reschedules, local, faults>>

NoMember == [task |-> "none", retry |-> 0, stamp |-> 0]

TypeOK ==
  /\ scheduled \subseteq Tasks
  /\ delayed \subseteq Members /\ due \subseteq delayed
  /\ failed \subseteq Members
  /\ published \in [Tasks -> Nat]
  /\ reschedules \in [Tasks -> Nat]
  /\ todo \in [Schedulers -> SUBSET Members]
  /\ pc \in [Schedulers -> {"loop", "done", "retry", "again", "bury", "buried"}]
  /\ cur \in [Schedulers -> Members \cup {NoMember}]
  /\ \A s \in Schedulers : pc[s] # "loop" => cur[s] \in Members
  /\ faults \in 0..MaxFaults

Init ==
  /\ scheduled = {}
  /\ delayed = {} /\ due = {} /\ failed = {}
  /\ published = [t \in Tasks |-> 0]
  /\ reschedules = [t \in Tasks |-> 0]
  /\ todo = [s \in Schedulers |-> {}]
  /\ pc = [s \in Schedulers |-> "loop"]
  /\ cur = [s \in Schedulers |-> NoMember]
  /\ faults = 0

-----------------------------------------------------------------------------
(* Commands, and the environment. *)

Fault == faults < MaxFaults /\ faults' = faults + 1

(* ZREM, whose error nobody looks at. *)
ZRem(m) ==
  \/ /\ delayed' = delayed \ {m}
     /\ due' = due \ {m}
     /\ UNCHANGED faults
  \/ /\ Fault
     /\ UNCHANGED <<delayed, due>>

XAdd(t) == published' = [published EXCEPT ![t] = @ + 1]

Goto(s, where, m) ==
  /\ pc' = [pc EXCEPT ![s] = where]
  /\ cur' = [cur EXCEPT ![s] = m]

NextTask(s) == Goto(s, "loop", NoMember)

ScheduleTask(t) ==
  /\ t \notin scheduled
  /\ scheduled' = scheduled \cup {t}
  /\ delayed' = delayed \cup {[task |-> t, retry |-> 0, stamp |-> 0]}
  /\ UNCHANGED <<due, failed, published, reschedules, local, faults>>

BecomesDue(m) ==
  /\ m \in delayed \ due
  /\ due' = due \cup {m}
  /\ UNCHANGED <<scheduled, delayed, failed, published, reschedules, local,
                 faults>>

-----------------------------------------------------------------------------
(* processReadyTasks. *)

Poll(s) ==
  /\ pc[s] = "loop" /\ todo[s] = {}
  /\ due # {}
  /\ \E P \in SUBSET due :
       /\ P = due \/ Cardinality(P) = Page
       /\ Cardinality(P) <= Page
       /\ todo' = [todo EXCEPT ![s] = P]
  /\ UNCHANGED <<redis, reschedules, pc, cur, faults>>

Take(s, m) ==
  /\ pc[s] = "loop"
  /\ m \in todo[s]
  /\ todo' = [todo EXCEPT ![s] = @ \ {m}]

(* Mutant: a task that cannot be decoded is skipped.                      *)
SkipInvalid(s, m) ==
  /\ Take(s, m)
  /\ m.task \in Undecodable
  /\ UNCHANGED <<redis, reschedules, pc, cur, faults>>

DropInvalid(s, m) ==
  /\ Take(s, m)
  /\ m.task \in Undecodable
  /\ ZRem(m)
  /\ UNCHANGED <<scheduled, failed, published, reschedules, pc, cur>>

Execute(s, m) ==
  /\ Take(s, m)
  /\ m.task \notin Undecodable \cup Refused
  /\ XAdd(m.task)
  /\ Goto(s, "done", m)
  /\ UNCHANGED <<scheduled, delayed, due, failed, reschedules, faults>>

(* Mutants: comparisons that are off by one.                              *)
MayRetryOnceMore(m) == m.retry <= MaxRetries
MayRetryOnceLess(m) == m.retry + 1 < MaxRetries

MayRetry(m) == m.retry < MaxRetries

(* Mutant: a task without retries left is removed and kept nowhere.       *)
ExecutionFailedForGood(s, m) == Goto(s, IF MayRetry(m) THEN "retry" ELSE "buried", m)

ExecutionFailed(s, m) == Goto(s, IF MayRetry(m) THEN "retry" ELSE "bury", m)

ExecuteRefused(s, m) ==
  /\ Take(s, m)
  /\ m.task \in Refused \ Undecodable
  /\ ExecutionFailed(s, m)
  /\ UNCHANGED <<redis, reschedules, faults>>

ExecuteFails(s, m) ==
  /\ Take(s, m)
  /\ m.task \notin Undecodable \cup Refused
  /\ Fault
  /\ ExecutionFailed(s, m)
  /\ UNCHANGED <<redis, reschedules>>

(* XADD was executed, but its reply was lost. *)
ExecuteReplyLost(s, m) ==
  /\ Take(s, m)
  /\ m.task \notin Undecodable \cup Refused
  /\ Fault
  /\ XAdd(m.task)
  /\ ExecutionFailed(s, m)
  /\ UNCHANGED <<scheduled, delayed, due, failed, reschedules>>

(* Mutant: the executed task stays in the set.                            *)
FinishKeeps(s) ==
  /\ pc[s] = "done"
  /\ NextTask(s)
  /\ UNCHANGED <<redis, reschedules, todo, faults>>

Finish(s) ==
  /\ pc[s] = "done"
  /\ ZRem(cur[s])
  /\ NextTask(s)
  /\ UNCHANGED <<scheduled, failed, published, reschedules, todo>>

Raised(m) ==
  [task |-> m.task, retry |-> m.retry + 1, stamp |-> reschedules[m.task] + 1]

(* Mutant: the new member is added without the removal of the old one.    *)
RemoveNothing(s) ==
  /\ pc[s] = "retry"
  /\ Goto(s, "again", Raised(cur[s]))
  /\ reschedules' = [reschedules EXCEPT ![cur[s].task] = @ + 1]
  /\ UNCHANGED <<redis, todo, faults>>

(* The first half of a retry: the old member is removed. *)
Remove(s) ==
  /\ pc[s] = "retry"
  /\ ZRem(cur[s])
  /\ Goto(s, "again", Raised(cur[s]))
  /\ reschedules' = [reschedules EXCEPT ![cur[s].task] = @ + 1]
  /\ UNCHANGED <<scheduled, failed, published, todo>>

(* The second half: rescheduleTask adds the new one. *)
Reschedule(s) ==
  /\ pc[s] = "again"
  /\ delayed' = delayed \cup {cur[s]}
  /\ NextTask(s)
  /\ UNCHANGED <<scheduled, due, failed, published, reschedules, todo, faults>>

RescheduleFails(s) ==
  /\ pc[s] = "again"
  /\ Fault
  /\ NextTask(s)
  /\ UNCHANGED <<redis, reschedules, todo>>

(* Mutant: the task is removed without having been kept anywhere.         *)
BuryNowhere(s) ==
  /\ pc[s] = "bury"
  /\ Goto(s, "buried", cur[s])
  /\ UNCHANGED <<redis, reschedules, todo, faults>>

(* moveToFailedTasks, and then the removal from the delayed tasks.        *)
Bury(s) ==
  /\ pc[s] = "bury"
  /\ failed' = failed \cup {cur[s]}
  /\ Goto(s, "buried", cur[s])
  /\ UNCHANGED <<scheduled, delayed, due, published, reschedules, todo, faults>>

BuryFails(s) ==
  /\ pc[s] = "bury"
  /\ Fault
  /\ Goto(s, "buried", cur[s])
  /\ UNCHANGED <<redis, reschedules, todo>>

RemoveBuried(s) ==
  /\ pc[s] = "buried"
  /\ ZRem(cur[s])
  /\ NextTask(s)
  /\ UNCHANGED <<scheduled, failed, published, reschedules, todo>>

(* The process dies, or its context is cancelled, after which no command  *)
(* is executed any more; a scheduler is started again.                    *)
Crash(s) ==
  /\ Fault
  /\ todo' = [todo EXCEPT ![s] = {}]
  /\ NextTask(s)
  /\ UNCHANGED <<redis, reschedules>>

-----------------------------------------------------------------------------
ExecuteStep(s, m) ==
  \/ DropInvalid(s, m)
  \/ Execute(s, m)
  \/ ExecuteRefused(s, m)
  \/ ExecuteFails(s, m)
  \/ ExecuteReplyLost(s, m)

FinishStep(s) ==
  \/ Finish(s)
  \/ Remove(s)
  \/ Reschedule(s)
  \/ RescheduleFails(s)
  \/ Bury(s)
  \/ BuryFails(s)
  \/ RemoveBuried(s)

SchedulerStep(s) ==
  Poll(s) \/ (\E m \in todo[s] : ExecuteStep(s, m)) \/ FinishStep(s)

Next ==
  \/ \E t \in Tasks : ScheduleTask(t)
  \/ \E m \in delayed : BecomesDue(m)
  \/ \E s \in Schedulers : SchedulerStep(s) \/ Crash(s)

Spec == Init /\ [][Next]_vars

(* A reliable scheduler keeps polling, and time passes for every task.    *)
(* Faults and scheduling are not forced.                                  *)
Fairness ==
  /\ WF_vars(\E m \in delayed : BecomesDue(m))
  /\ \A s \in Reliable : WF_vars(SchedulerStep(s))

FairSpec == Spec /\ Fairness

-----------------------------------------------------------------------------
(* Properties. *)

Of(t, S) == {m \in S : m.task = t}

InHand(t) ==
  \E s \in Schedulers : pc[s] \in {"retry", "again", "bury"} /\ cur[s].task = t

(* A task that was scheduled and is nowhere any more.                     *)
Lost == {t \in scheduled \ Undecodable : /\ published[t] = 0
                                         /\ Of(t, delayed \cup failed) = {}
                                         /\ ~InHand(t)}

(* A task gets lost only if its publication failed and a second fault hit *)
(* between the removal of a member and the addition of its successor, or  *)
(* the burial: every lost task stands for a fault of its own, two if      *)
(* Redis would have accepted it.                                          *)
LossNeedsFaults == Cardinality(Lost) + Cardinality(Lost \ Refused) <= faults

(* How often a task can be published: every scheduler may hold it in a    *)
(* page, and a fault may put it back into everybody's reach.              *)
PublicationsBounded ==
  \A t \in Tasks : published[t] <= Cardinality(Schedulers) * (1 + faults)

(* Two schedulers whose execution of the same member fails reschedule it  *)
(* twice, so retries multiply, but without faults no further than this:   *)
(* there are no more copies of a task than lists of the schedulers that   *)
(* may have rescheduled one, Cardinality(Schedulers)^MaxRetries.          *)
CopiesBounded ==
  faults = 0 /\ Schedulers # {} => \A t \in Tasks :
    Cardinality(Of(t, delayed \cup failed))
      <= Cardinality([1..MaxRetries -> Schedulers])

(* A task is given up only after it was rescheduled MaxRetries times.     *)
FailedOnlyWhenExhausted ==
  \A m \in failed : reschedules[m.task] >= MaxRetries

(* The schedulers keep the contract of delayed tasks: a task is open while *)
(* a member of it is in the set, in a page or in somebody's hand.          *)
Hand(s) == IF pc[s] = "loop" THEN {} ELSE {cur[s]}

Open ==
  {t \in Tasks : \/ Of(t, delayed) # {}
                 \/ \E s \in Schedulers : Of(t, todo[s] \cup Hand(s)) # {}}

Contract == INSTANCE TaskContract WITH
  accepted <- scheduled,
  open     <- Open,
  executed <- published,
  parked   <- {m.task : m \in failed}

KeepsTaskContract == Contract!TSpec

(* A reliable scheduler, whatever the others do and whatever is not       *)
(* decodable or refused, works off every task that is scheduled: tasks    *)
(* are finitely many, so a time comes after which none is left.           *)
EventuallyDrained == <>[](delayed = {})

-----------------------------------------------------------------------------
(* What the documentation says and the code does not do. *)

(* README.md:184-185: "Failed tasks are automatically retried with         *)
(* exponential backoff", "Tasks exceeding max retries moved to failed      *)
(* queue".  A crash between ZREM and ZADD leaves neither.                  *)
FailedTasksAreKept == Lost = {}

=============================================================================

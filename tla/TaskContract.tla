---------------------------- MODULE TaskContract ----------------------------
(***************************************************************************)
(* What the delayed tasks promise to whoever schedules one, with no sorted *)
(* sets, pages, members or schedulers: a task that was accepted is open,   *)
(* and while it is open it is executed, perhaps more than once, or parked  *)
(* among the failed tasks, or both.  Once it is released it is never taken *)
(* up again, and a task that is released without having been executed or   *)
(* parked stands for a fault of its own.                                   *)
(***************************************************************************)
EXTENDS Integers, FiniteSets

CONSTANTS Tasks, Undecodable

VARIABLES
  accepted,   \* tasks ever scheduled
  open,       \* tasks that something may still happen to
  executed,   \* executions per task
  parked,     \* tasks found among the failed ones
  faults      \* faults so far

tvars == <<accepted, open, executed, parked, faults>>

TInit ==
  /\ accepted = {} /\ open = {} /\ parked = {}
  /\ executed = [t \in Tasks |-> 0]
  /\ faults = 0

Accept(t) ==
  /\ t \notin accepted
  /\ accepted' = accepted \cup {t}
  /\ open' = open \cup {t}
  /\ UNCHANGED <<executed, parked>>

Execute(t) ==
  /\ t \in open \ Undecodable
  /\ executed' = [executed EXCEPT ![t] = @ + 1]
  /\ UNCHANGED <<accepted, open, parked>>

Park(t) ==
  /\ t \in open \ Undecodable
  /\ parked' = parked \cup {t}
  /\ UNCHANGED <<accepted, open, executed>>

Release(T) ==
  /\ open' = open \ T
  /\ UNCHANGED <<accepted, executed, parked>>

(* Accepted, released, and nobody ever knew what became of it.             *)
Vanished ==
  {t \in accepted \ (open \cup Undecodable) : executed[t] = 0 /\ t \notin parked}

TNext ==
  /\ \/ \E t \in Tasks : Accept(t) \/ Execute(t) \/ Park(t)
     \/ \E T \in SUBSET open : Release(T)
  /\ faults' \in {faults, faults + 1}
  /\ Cardinality(Vanished') <= faults'

TSpec == TInit /\ [][TNext]_tvars
=============================================================================

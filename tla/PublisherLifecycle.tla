------------------------- MODULE PublisherLifecycle --------------------------
(***************************************************************************)
(* The life of one RedisPublisher (publisher.go) and of the scheduler it   *)
(* owns (delayed_scheduler.go): publishing calls, SetDeduplicationConfig   *)
(* and Close under the read-write lock p.mu, StartScheduler and            *)
(* StopScheduler under the scheduler's own lock d.mu, and schedulerLoop,   *)
(* which takes neither.  Close holds both locks while it waits for the     *)
(* loop.                                                                   *)
(*                                                                         *)
(* A step is what one goroutine does between two points where it can       *)
(* block.  A caller that waits for p.mu as a writer is shown, because      *)
(* sync.RWMutex lets no new reader in while a writer waits.                *)
(***************************************************************************)
EXTENDS GoProcess

VARIABLES
  pubCall,      \* the blocking call of the publisher a caller is in
  closed,       \* p.closed
  scheduling,   \* d.running
  channelGone,  \* d.stopCh, which is made once, is closed
  schedules,    \* loops started so far
  abandoned,    \* loops whose context is cancelled
  loop          \* schedulerLoop, a goroutine per effective Start

flags   == <<closed, scheduling, channelGone>>
loops   == <<schedules, abandoned, loop>>
pubVars == <<pubCall, flags, loops>>

(* "publishing" reads under p.mu; "configuring" and "closing" want p.mu to *)
(* write; "locked" has p.mu and wants d.mu; "stopping" has d.mu and waits  *)
(* for the loop, "finishing" does so with p.mu as well.                    *)
PubCalls == {"none", "publishing", "configuring", "closing", "locked",
             "stopping", "finishing"}

In(c, calls) == pubCall[c] \in calls

WantedByWriter == \E c \in Callers : In(c, {"configuring", "closing"})
HeldByReader   == \E c \in Callers : In(c, {"publishing"})
HeldByWriter   == \E c \in Callers : In(c, {"locked", "finishing"})
SchedulerHeld  == \E c \in Callers : In(c, {"stopping", "finishing"})

(* Mutant: a writer does not wait for the readers.                         *)
WriterBarges   == ~HeldByWriter

WriterEnters   == ~HeldByReader /\ ~HeldByWriter

LoopAlive(g) == loop[g] \in {"select", "work"}
NoLoop       == \A g \in Generations : ~LoopAlive(g)

PubTypeOK ==
  /\ pubCall \in [Callers -> PubCalls]
  /\ \A c, d \in Callers :
       /\ In(c, {"locked", "finishing"}) /\ In(d, {"locked", "finishing", "publishing"}) => c = d
       /\ In(c, {"stopping", "finishing"}) /\ In(d, {"stopping", "finishing"}) => c = d
  /\ closed \in BOOLEAN /\ scheduling \in BOOLEAN /\ channelGone \in BOOLEAN
  /\ schedules \in 0..MaxStarts
  /\ abandoned \subseteq 1..schedules
  /\ loop \in [Generations -> {"none", "select", "work", "gone"}]

PubInit ==
  /\ pubCall = [c \in Callers |-> "none"]
  /\ closed = FALSE
  /\ scheduling = FALSE
  /\ channelGone = FALSE
  /\ schedules = 0
  /\ abandoned = {}
  /\ loop = [g \in Generations |-> "none"]

-----------------------------------------------------------------------------
(* The methods. *)

Goes(c, from, to) ==
  /\ In(c, {from}) /\ ~panicked
  /\ pubCall' = [pubCall EXCEPT ![c] = to]

(* A publishing method has the read lock until it returns; a closed        *)
(* publisher refuses it.                                                   *)
PublishBegins(c) ==
  /\ Goes(c, "none", "publishing")
  /\ ~WantedByWriter /\ ~HeldByWriter /\ ~closed
  /\ UNCHANGED <<flags, loops, panicked>>

PublishReturns(c) ==
  /\ Goes(c, "publishing", "none")
  /\ UNCHANGED <<flags, loops, panicked>>

(* SetDeduplicationConfig and Close ask for the write lock.                *)
WantsToWrite(c) ==
  /\ \E want \in {"configuring", "closing"} : Goes(c, "none", want)
  /\ UNCHANGED <<flags, loops, panicked>>

(* SetDeduplicationConfig is one assignment under the lock.                *)
Configures(c) ==
  /\ Goes(c, "configuring", "none") /\ WriterEnters
  /\ UNCHANGED <<flags, loops, panicked>>

CloseAgain(c) ==
  /\ Goes(c, "closing", "none") /\ WriterEnters /\ closed
  /\ UNCHANGED <<flags, loops, panicked>>

CloseLocks(c) ==
  /\ Goes(c, "closing", "locked") /\ WriterEnters /\ ~closed
  /\ closed' = TRUE
  /\ UNCHANGED <<scheduling, channelGone, loops, panicked>>

(* Mutant: Close forgets its scheduler.                                    *)
CloseIdlesOn(c) ==
  /\ Goes(c, "locked", "none") /\ ~SchedulerHeld
  /\ UNCHANGED <<flags, loops, panicked>>

(* Stop of a scheduler that is not running, inside Close.                  *)
CloseFindsIdle(c) ==
  /\ Goes(c, "locked", "none") /\ ~SchedulerHeld /\ ~scheduling
  /\ UNCHANGED <<flags, loops, panicked>>

(* Stop closes stopCh and waits for the loop with d.mu in its hands; it is *)
(* called by StopScheduler and by Close.                                   *)
StopSchedulerBegins(c) ==
  /\ Goes(c, "none", "stopping") \/ Goes(c, "locked", "finishing")
  /\ ~SchedulerHeld /\ scheduling /\ ~channelGone
  /\ scheduling' = FALSE
  /\ channelGone' = TRUE
  /\ UNCHANGED <<closed, loops, panicked>>

(* close(stopCh) of a channel that an earlier Stop closed.                 *)
StopSchedulerPanics(c) ==
  /\ In(c, {"none", "locked"}) /\ ~panicked
  /\ ~SchedulerHeld /\ scheduling /\ channelGone
  /\ scheduling' = FALSE
  /\ panicked' = TRUE
  /\ UNCHANGED <<pubCall, closed, channelGone, loops>>

(* Mutant: the wait for the loop is dropped.                               *)
StopSchedulerReturnsAtOnce(c) ==
  /\ Goes(c, "stopping", "none") \/ Goes(c, "finishing", "none")
  /\ UNCHANGED <<flags, loops, panicked>>

StopSchedulerReturns(c) ==
  /\ Goes(c, "stopping", "none") \/ Goes(c, "finishing", "none")
  /\ NoLoop
  /\ UNCHANGED <<flags, loops, panicked>>

(* StartScheduler asks neither whether the publisher is closed nor whether *)
(* stopCh is.                                                              *)
StartScheduler(c) ==
  /\ In(c, {"none"}) /\ ~panicked
  /\ ~SchedulerHeld /\ ~scheduling
  /\ schedules < MaxStarts
  /\ scheduling' = TRUE
  /\ schedules' = schedules + 1
  /\ loop' = [loop EXCEPT ![schedules + 1] = "select"]
  /\ UNCHANGED <<pubCall, closed, channelGone, abandoned, panicked>>

(* The application cancels the context it gave to StartScheduler.          *)
Abandon(g) ==
  /\ g \in 1..schedules /\ g \notin abandoned /\ ~panicked
  /\ abandoned' = abandoned \cup {g}
  /\ UNCHANGED <<pubCall, flags, schedules, loop, panicked>>

-----------------------------------------------------------------------------
(* schedulerLoop. *)

StepLoop(g, from, to) ==
  /\ loop[g] = from /\ ~panicked
  /\ loop' = [loop EXCEPT ![g] = to]
  /\ UNCHANGED <<pubCall, flags, schedules, abandoned, panicked>>

LoopExits(g) == (g \in abandoned \/ channelGone) /\ StepLoop(g, "select", "gone")

LoopTicks(g) == StepLoop(g, "select", "work")

(* Mutant: tasks are published with Publish, which takes p.mu.             *)
LoopRestsUnlocked(g) ==
  /\ ~WantedByWriter /\ ~HeldByWriter
  /\ StepLoop(g, "work", "select")

(* Mutant: an error ends the loop.                                         *)
LoopRestsOrFails(g) == \E to \in {"select", "gone"} : StepLoop(g, "work", to)

(* The page is worked off, or a command failed.  executeTask sends XADD    *)
(* itself (delayed_scheduler.go:326) and takes no lock of the publisher.   *)
LoopRests(g) == StepLoop(g, "work", "select")

-----------------------------------------------------------------------------
PublisherCall(c) ==
  \/ PublishBegins(c)
  \/ WantsToWrite(c)
  \/ StartScheduler(c)
  \/ ~In(c, {"locked"}) /\ StopSchedulerBegins(c)
  \/ ~In(c, {"locked"}) /\ StopSchedulerPanics(c)

PublisherCallGoesOn(c) ==
  \/ PublishReturns(c)
  \/ Configures(c)
  \/ CloseAgain(c)
  \/ CloseLocks(c)
  \/ CloseFindsIdle(c)
  \/ In(c, {"locked"}) /\ StopSchedulerBegins(c)
  \/ In(c, {"locked"}) /\ StopSchedulerPanics(c)
  \/ StopSchedulerReturns(c)

LoopStep(g) == LoopExits(g) \/ LoopTicks(g) \/ LoopRests(g)

PublisherBackground ==
  \/ \E c \in Callers : PublisherCallGoesOn(c)
  \/ \E g \in Generations : Abandon(g) \/ LoopStep(g)

(* The loop runs and Redis answers it; select picks at random among the    *)
(* cases that are ready.  One loop is alive at a time.                     *)
LoopFairness ==
  /\ WF_<<pubVars, panicked>>(\E g \in Generations : LoopStep(g))
  /\ SF_<<pubVars, panicked>>(\E g \in Generations : LoopExits(g))

-----------------------------------------------------------------------------
(* Properties. *)

(* When StopScheduler or Close has stopped the scheduler no loop is left   *)
(* that would still move tasks, however many Starts, Stops and Closes      *)
(* overlap.                                                                *)
SchedulerQuiet == (~scheduling /\ ~SchedulerHeld /\ ~panicked) => NoLoop

(* While the scheduler says it is running there is one loop that polls,    *)
(* and no other: only a cancelled context, which does not reset running,   *)
(* or an earlier Stop can have ended it, whatever went wrong with a page.  *)
RunningHasLoop ==
  /\ \A g \in Generations : LoopAlive(g) => g = schedules
  /\ scheduling => LoopAlive(schedules) \/ schedules \in abandoned \/ channelGone

(* The Close that closes the publisher returns when no call is publishing  *)
(* and no loop, which would use the closed client, is alive.               *)
CloseLeavesNothing ==
  [][\A c \in Callers :
       (In(c, {"locked", "finishing"}) /\ In(c, {"none"})')
         => NoLoop /\ ~HeldByReader]_pubVars

=============================================================================

------------------------ MODULE ClientLifecycleProofs ------------------------
(* Proofs about ClientLifecycle, for any number of callers, streams,       *)
(* workers and starts: what holds of each object alone holds in a process  *)
(* with the others, where a panic of one ends all.                         *)
EXTENDS ClientLifecycle, ConsumerLifecycleProofs

USE ProcessAssumption, PoolAssumption

-----------------------------------------------------------------------------
(* Every step is a step of one object, and leaves the others alone but for *)
(* a panic; or it only goes on with a Close.                               *)
ConsumerStep == Next /\ OfConsumer

PublisherStep ==
  /\ \/ \E c \in Callers : PublisherCall(c)
     \/ \E c \in Callers : Goes(c, "none", "closing") /\ UNCHANGED <<flags, loops, panicked>>
     \/ PublisherBackground
  /\ OfPublisher

PoolStep ==
  /\ \/ \E c \in Callers : PoolCallBegins(c) \/ PoolCloses(c)
     \/ PoolBackground
  /\ OfConcurrent

NoObjectStep == UNCHANGED <<lifeVars, pubVars, poolVars, panicked>>

(* A step of the client is a step of one of its objects, or of none.       *)
LEMMA StepOfOne ==
  ASSUME [ClientNext]_everything
  PROVE  ConsumerStep \/ PublisherStep \/ PoolStep \/ NoObjectStep
<1>1. ASSUME NEW c \in Callers, Delegate(c)
      PROVE  ConsumerStep \/ PublisherStep \/ PoolStep
  BY <1>1 DEF Delegate, CallPublisher, CallConsumer, CallConcurrent, ConsumerStep, PublisherStep, PoolStep, Next
<1>2. ASSUME NEW c \in Callers, CloseBegins(c) PROVE NoObjectStep
  BY <1>2 DEF CloseBegins, NoObjectStep
<1>3. ASSUME NEW c \in Callers, ClosesPublisher(c) PROVE PublisherStep
  BY <1>3 DEF ClosesPublisher, PublisherStep
<1>4. ASSUME NEW c \in Callers, ClosesConsumer(c)
      PROVE  ConsumerStep \/ NoObjectStep
  BY <1>4 DEF ClosesConsumer, ConsumerStep, NoObjectStep, Next, vars, OfConsumer
<1>5. ASSUME NEW c \in Callers, ClosesConcurrent(c) PROVE PoolStep
  BY <1>5 DEF ClosesConcurrent, PoolStep
<1>6. CASE PublisherBackground /\ OfPublisher
  BY <1>6 DEF PublisherStep
<1>7. CASE Background /\ OfConsumer
  BY <1>7 DEF ConsumerStep, Next
<1>8. CASE PoolBackground /\ OfConcurrent
  BY <1>8 DEF PoolStep
<1>9. CASE UNCHANGED everything
  BY <1>9 DEF everything, NoObjectStep
<1> QED
  BY <1>1, <1>2, <1>3, <1>4, <1>5, <1>6, <1>7, <1>8, <1>9
  DEF ClientNext, CloseGoesOn

-----------------------------------------------------------------------------
(* The publisher. *)

(* The publisher starts with its types.                                    *)
LEMMA PublisherTypeInit == PubInit => PubTypeOK
<1> SUFFICES ASSUME PubInit PROVE PubTypeOK
  OBVIOUS
<1>1. \A c \in Callers : pubCall[c] = "none"
  BY DEF PubInit
<1>2. loop \in [Generations -> {"none", "select", "work", "gone"}]
  BY DEF PubInit
<1>3. schedules \in 0..MaxStarts /\ abandoned \subseteq 1..schedules
  BY DEF PubInit
<1> QED
  BY <1>1, <1>2, <1>3 DEF PubInit, PubTypeOK, PubCalls, In

(* What each kind of step of the publisher may change.                     *)
LEMMA PublisherTypeStep ==
  ASSUME PubTypeOK, PublisherStep
  PROVE  PubTypeOK'
<1> USE DEF PubTypeOK, PubCalls, In, Goes, flags, loops
<1>1. ASSUME NEW c \in Callers, PublishBegins(c) PROVE PubTypeOK'
  BY <1>1 DEF PublishBegins, HeldByWriter
<1>2. ASSUME NEW c \in Callers, PublishReturns(c) PROVE PubTypeOK'
  BY <1>2 DEF PublishReturns
<1>3. ASSUME NEW c \in Callers, WantsToWrite(c) PROVE PubTypeOK'
  BY <1>3 DEF WantsToWrite
<1>4. ASSUME NEW c \in Callers, Configures(c) PROVE PubTypeOK'
  BY <1>4 DEF Configures
<1>5. ASSUME NEW c \in Callers, CloseAgain(c) PROVE PubTypeOK'
  BY <1>5 DEF CloseAgain
<1>6. ASSUME NEW c \in Callers, CloseLocks(c) PROVE PubTypeOK'
  BY <1>6 DEF CloseLocks, WriterEnters, HeldByWriter, HeldByReader
<1>7. ASSUME NEW c \in Callers, CloseFindsIdle(c) PROVE PubTypeOK'
  BY <1>7 DEF CloseFindsIdle
<1>8. ASSUME NEW c \in Callers, StopSchedulerBegins(c) PROVE PubTypeOK'
  BY <1>8 DEF StopSchedulerBegins, SchedulerHeld
<1>9. ASSUME NEW c \in Callers, StopSchedulerPanics(c) PROVE PubTypeOK'
  BY <1>9 DEF StopSchedulerPanics
<1>10. ASSUME NEW c \in Callers, StopSchedulerReturns(c) PROVE PubTypeOK'
  BY <1>10 DEF StopSchedulerReturns
<1>11. ASSUME NEW c \in Callers, StartScheduler(c) PROVE PubTypeOK'
  <2>1. schedules' \in 0..MaxStarts /\ abandoned' \subseteq 1..schedules'
    BY <1>11 DEF StartScheduler
  <2>2. loop' \in [Generations -> {"none", "select", "work", "gone"}]
    BY <1>11 DEF StartScheduler
  <2> QED
    BY <1>11, <2>1, <2>2 DEF StartScheduler
<1>12. ASSUME NEW g \in Generations, Abandon(g) PROVE PubTypeOK'
  BY <1>12 DEF Abandon
<1>13. ASSUME NEW g \in Generations, LoopStep(g) PROVE PubTypeOK'
  BY <1>13 DEF LoopStep, LoopExits, LoopTicks, LoopRests, StepLoop
<1>14. ASSUME NEW c \in Callers, Goes(c, "none", "closing"),
              UNCHANGED <<flags, loops, panicked>>
       PROVE  PubTypeOK'
  BY <1>14
<1> QED
  BY <1>1, <1>2, <1>3, <1>4, <1>5, <1>6, <1>7, <1>8, <1>9, <1>10, <1>11, <1>12,
     <1>13, <1>14
  DEF PublisherStep, PublisherCall, PublisherCallGoesOn, PublisherBackground

(* Whose loop is alive: as Lifetimes for the consumer.                     *)
LoopLifetime == SchedulerQuiet /\ RunningHasLoop

(* There is no loop at the start.                                          *)
LEMMA LoopLifetimeInit == PubInit => LoopLifetime
BY DEF PubInit, LoopLifetime, SchedulerQuiet, RunningHasLoop, NoLoop, LoopAlive

(* The steps of the publisher keep LoopLifetime.                           *)
LEMMA LoopLifetimeStep ==
  ASSUME PubTypeOK, LoopLifetime, PublisherStep
  PROVE  LoopLifetime'
<1> USE DEF LoopLifetime, SchedulerQuiet, RunningHasLoop, NoLoop, LoopAlive
<1>1. ASSUME UNCHANGED <<scheduling, channelGone, loops, panicked>>,
             SchedulerHeld => SchedulerHeld' \/ NoLoop
      PROVE  LoopLifetime'
  BY <1>1 DEF loops
<1>2. ASSUME NEW c \in Callers, NEW from \in PubCalls \ {"stopping", "finishing"},
             NEW to \in PubCalls, Goes(c, from, to)
      PROVE  SchedulerHeld => SchedulerHeld'
  BY <1>2 DEF Goes, SchedulerHeld, In, PubTypeOK
<1>3. ASSUME NEW c \in Callers,
             \/ PublishBegins(c)
             \/ PublishReturns(c)
             \/ WantsToWrite(c)
             \/ Configures(c)
             \/ CloseAgain(c)
             \/ CloseLocks(c)
             \/ CloseFindsIdle(c)
             \/ Goes(c, "none", "closing") /\ UNCHANGED <<flags, loops, panicked>>
      PROVE  LoopLifetime'
  <2>1. UNCHANGED <<scheduling, channelGone, loops, panicked>>
    BY <1>3
    DEF PublishBegins, PublishReturns, WantsToWrite, Configures, CloseAgain,
        CloseLocks, CloseFindsIdle, flags
  <2>2. SchedulerHeld => SchedulerHeld'
    BY <1>2, <1>3
    DEF PublishBegins, PublishReturns, WantsToWrite, Configures, CloseAgain,
        CloseLocks, CloseFindsIdle, PubCalls
  <2> QED
    BY <1>1, <2>1, <2>2
<1>4. ASSUME NEW c \in Callers, StopSchedulerBegins(c) PROVE LoopLifetime'
  <2>1. SchedulerHeld'
    BY <1>4 DEF StopSchedulerBegins, Goes, SchedulerHeld, In, PubTypeOK
  <2> QED
    BY <1>4, <2>1 DEF StopSchedulerBegins, loops
<1>5. ASSUME NEW c \in Callers, StopSchedulerPanics(c) PROVE LoopLifetime'
  BY <1>5 DEF StopSchedulerPanics, loops
<1>6. ASSUME NEW c \in Callers, StopSchedulerReturns(c) PROVE LoopLifetime'
  BY <1>6 DEF StopSchedulerReturns, flags, loops
<1>7. ASSUME NEW c \in Callers, StartScheduler(c) PROVE LoopLifetime'
  <2>1. NoLoop
    BY <1>7 DEF StartScheduler
  <2> QED
    BY <1>7, <2>1 DEF StartScheduler, PubTypeOK, Generations
<1>8. ASSUME NEW g \in Generations, Abandon(g) PROVE LoopLifetime'
  <2>1. SchedulerHeld' <=> SchedulerHeld
    BY <1>8 DEF Abandon, SchedulerHeld, In
  <2> QED
    BY <1>8, <2>1 DEF Abandon, flags
<1>9. ASSUME NEW g \in Generations, LoopStep(g) PROVE LoopLifetime'
  BY <1>9
  DEF LoopStep, LoopExits, LoopTicks, LoopRests, StepLoop, flags, SchedulerHeld,
      In, PubTypeOK
<1> QED
  BY <1>3, <1>4, <1>5, <1>6, <1>7, <1>8, <1>9
  DEF PublisherStep, PublisherCall, PublisherCallGoesOn, PublisherBackground

-----------------------------------------------------------------------------
(* The concurrent consumer. *)

(* The pool starts with its types.                                         *)
LEMMA PoolTypeInit == PoolInit => PoolTypeOK
<1> SUFFICES ASSUME PoolInit PROVE PoolTypeOK
  OBVIOUS
<1>1. worker \in [Generations -> [Workers -> {"none", "select", "work", "updating", "gone"}]]
  BY DEF PoolInit
<1>2. /\ poolCall \in [Callers -> PoolCalls]
      /\ spawning \in [Callers -> Generations \cup {0}]
      /\ \A c \in Callers : poolCall[c] \in {"resetting", "spawning"} <=> spawning[c] # 0
  BY DEF PoolInit, PoolCalls
<1>3. /\ workerCount \in 0..MaxWorkers /\ poolStarts \in 0..MaxStarts
      /\ poolCancelled \subseteq 1..poolStarts
      /\ total \in Nat /\ sinceStart \in 0..total
  BY DEF PoolInit
<1> QED
  BY <1>1, <1>2, <1>3 DEF PoolInit, PoolTypeOK

(* The counters.  The map that holds the count is missing until a Start    *)
(* has replaced it, and no worker is alive before that; one worker at a    *)
(* time has read a count it has not written back.                          *)
CountsOK ==
  /\ CountHonest
  /\ \A c \in Callers : poolCall[c] = "spawning" => processed # NoCount
  /\ \A g \in Generations, i \in Workers :
       /\ WorkerAlive(g, i) => processed # NoCount
       /\ worker[g][i] = "updating" => sinceStart <= readCount /\ readCount <= total
  /\ \A g, h \in Generations, i, j \in Workers :
       worker[g][i] = "updating" /\ worker[h][j] = "updating" => g = h /\ i = j

(* Nothing is counted at the start.                                        *)
LEMMA CountsInit == PoolInit => CountsOK
BY DEF PoolInit, CountsOK, CountHonest, WorkerAlive, NoCount

(* The methods keep types and counters.                                    *)
LEMMA PoolMethods ==
  ASSUME PoolTypeOK, CountsOK, NEW c \in Callers,
         PoolCallBegins(c) \/ PoolCloses(c) \/ PoolCallGoesOn(c)
  PROVE  PoolTypeOK' /\ CountsOK'
<1> USE DEF PoolGoes, PoolCalls, counters
<1>1. ASSUME UNCHANGED <<worker, counters>>,
             \A d \in Callers : poolCall'[d] = "spawning" => poolCall[d] = "spawning"
      PROVE  CountsOK'
  BY <1>1 DEF CountsOK, CountHonest, WorkerAlive
<1>2. CASE SetWorkerCount(c)
  <2>1. PoolTypeOK'
    BY <1>2 DEF SetWorkerCount, PoolTypeOK
  <2> QED
    BY <1>1, <1>2, <2>1 DEF SetWorkerCount, PoolTypeOK
<1>3. CASE PoolStarts(c)
  <2>1. poolStarts' \in 0..MaxStarts /\ poolStarts' # 0
    BY <1>3 DEF PoolStarts, PoolTypeOK
  <2>2. spawning' \in [Callers -> Generations \cup {0}]
    BY <1>3, <2>1 DEF PoolStarts, PoolTypeOK, Generations
  <2>3. poolCancelled' \subseteq 1..poolStarts'
    BY <1>3 DEF PoolStarts, PoolTypeOK
  <2>4. PoolTypeOK'
    BY <1>3, <2>1, <2>2, <2>3 DEF PoolStarts, PoolTypeOK
  <2> QED
    BY <1>1, <1>3, <2>4 DEF PoolStarts, PoolTypeOK
<1>4. CASE ResetsStats(c)
  <2>1. PoolTypeOK'
    BY <1>4 DEF ResetsStats, PoolTypeOK
  <2> QED
    BY <1>4, <2>1 DEF ResetsStats, PoolTypeOK, CountsOK, CountHonest, NoCount, WorkerAlive
<1>5. CASE SpawnsWorker(c)
  <2>1. PICK i \in 1..workerCount :
          worker' = [worker EXCEPT ![spawning[c]][i] = "select"]
    BY <1>5 DEF SpawnsWorker
  <2>2. i \in Workers /\ spawning[c] \in Generations
    BY <1>5, <2>1 DEF SpawnsWorker, PoolTypeOK, Workers
  <2>3. PoolTypeOK'
    BY <1>5, <2>1, <2>2 DEF SpawnsWorker, PoolTypeOK
  <2>4. processed # NoCount
    BY <1>5 DEF SpawnsWorker, CountsOK
  <2>5. \A g \in Generations, j \in Workers :
          worker'[g][j] = "updating" => worker[g][j] = "updating"
    BY <2>1, <2>2 DEF PoolTypeOK
  <2>6. /\ UNCHANGED counters
        /\ \A d \in Callers : poolCall'[d] = poolCall[d]
    BY <1>5 DEF SpawnsWorker, PoolTypeOK
  <2> QED
    BY <2>3, <2>4, <2>5, <2>6 DEF CountsOK, CountHonest
<1>6. CASE StartReturns(c)
  <2>1. PoolTypeOK'
    BY <1>6 DEF StartReturns, PoolTypeOK
  <2> QED
    BY <1>1, <1>6, <2>1 DEF StartReturns, PoolTypeOK
<1>7. CASE PoolStops(c)
  <2>1. PoolTypeOK'
    BY <1>7 DEF PoolStops, PoolTypeOK
  <2> QED
    BY <1>1, <1>7, <2>1 DEF PoolStops, PoolTypeOK
<1>8. CASE PoolCloses(c)
  <2>1. PoolTypeOK'
    BY <1>8 DEF PoolCloses, PoolTypeOK
  <2> QED
    BY <1>1, <1>8, <2>1 DEF PoolCloses, PoolTypeOK
<1> QED
  BY <1>2, <1>3, <1>4, <1>5, <1>6, <1>7, <1>8 DEF PoolCallBegins, PoolCallGoesOn

(* The workers keep types and counters.                                    *)
LEMMA PoolWorkers ==
  ASSUME PoolTypeOK, CountsOK, NEW g \in Generations, NEW i \in Workers,
         WorkerStep(g, i)
  PROVE  PoolTypeOK' /\ CountsOK'
<1>1. CASE WorkerExits(g, i) \/ WorkerWorks(g, i)
  <2>1. /\ UNCHANGED <<poolCall, counters>>
        /\ \A h \in Generations, j \in Workers :
             /\ WorkerAlive(h, j)' => WorkerAlive(h, j)
             /\ worker'[h][j] = "updating" => worker[h][j] = "updating"
    BY <1>1 DEF WorkerExits, WorkerWorks, StepWorker, WorkerAlive, PoolTypeOK
  <2>2. PoolTypeOK'
    <3>1. PICK to \in {"work", "gone"} :
            StepWorker(g, i, "select", to) /\ UNCHANGED counters
      BY <1>1 DEF WorkerExits, WorkerWorks
    <3> QED
      BY <3>1 DEF StepWorker, PoolTypeOK, counters
  <2> QED
    BY <2>1, <2>2 DEF CountsOK, CountHonest, counters
<1>2. CASE WorkerReads(g, i)
  <2>1. processed # NoCount /\ processed \in Nat
    BY <1>2 DEF WorkerReads, StepWorker, CountsOK, WorkerAlive, PoolTypeOK
  <2>2. PoolTypeOK'
    BY <1>2 DEF WorkerReads, StepWorker, PoolTypeOK
  <2>3. \A h \in Generations, j \in Workers :
          worker'[h][j] = "updating" <=> h = g /\ j = i
    BY <1>2 DEF WorkerReads, StepWorker, PoolLocked, PoolTypeOK
  <2> QED
    BY <1>2, <2>1, <2>2, <2>3
    DEF WorkerReads, StepWorker, CountsOK, CountHonest, WorkerAlive
<1>3. CASE WorkerWrites(g, i)
  <2>1. readCount \in Nat /\ sinceStart <= readCount /\ readCount <= total
    BY <1>3 DEF WorkerWrites, StepWorker, CountsOK, PoolTypeOK, NoCount
  <2>2. \A h \in Generations, j \in Workers : worker'[h][j] # "updating"
    BY <1>3 DEF WorkerWrites, StepWorker, CountsOK, PoolTypeOK
  <2>3. PoolTypeOK'
    BY <1>3, <2>1 DEF WorkerWrites, StepWorker, PoolTypeOK
  <2>4. /\ processed' # NoCount
        /\ sinceStart' <= processed' /\ processed' <= total'
    BY <1>3, <2>1 DEF WorkerWrites, NoCount, PoolTypeOK
  <2> QED
    BY <2>2, <2>3, <2>4 DEF CountsOK, CountHonest
<1> QED
  BY <1>1, <1>2, <1>3 DEF WorkerStep

(* So does every step of the pool.                                         *)
LEMMA PoolKept ==
  ASSUME PoolTypeOK, CountsOK, PoolStep
  PROVE  PoolTypeOK' /\ CountsOK'
<1>1. ASSUME NEW g \in Generations, PoolCancel(g) PROVE PoolTypeOK' /\ CountsOK'
  BY <1>1 DEF PoolCancel, PoolTypeOK, CountsOK, CountHonest, WorkerAlive, counters
<1> QED
  BY <1>1, PoolMethods, PoolWorkers DEF PoolStep, PoolBackground

-----------------------------------------------------------------------------
(* A panic is the second close of a channel, which needs a second Start.   *)
PanicsOK ==
  /\ running \/ stopClosed => starts >= 1
  /\ running /\ stopClosed => starts >= 2
  /\ scheduling \/ channelGone => schedules >= 1
  /\ scheduling /\ channelGone => schedules >= 2
  /\ PanicNeedsRestart

(* Only a Stop of the consumer can panic.                                  *)
LEMMA PanicsByConsumer ==
  ASSUME TypeOK, PubTypeOK, PanicsOK, ConsumerStep
  PROVE  PanicsOK'
<1> UNCHANGED <<scheduling, channelGone, schedules>>
  BY DEF ConsumerStep, OfConsumer, pubVars, flags, loops
<1>1. ASSUME UNCHANGED <<running, stopClosed, starts, panicked>> PROVE PanicsOK'
  BY <1>1 DEF PanicsOK, PanicNeedsRestart
<1>2. ASSUME NEW c \in Callers, StartBegins(c) PROVE PanicsOK'
  BY <1>2 DEF StartBegins, PanicsOK, PanicNeedsRestart, TypeOK
<1>3. ASSUME NEW c \in Callers, NEW kind \in {"stopping", "closing"}, StopBegins(c, kind)
      PROVE  PanicsOK'
  BY <1>3 DEF StopBegins, PanicsOK, PanicNeedsRestart
<1>4. ASSUME NEW c \in Callers, StopPanics(c) PROVE PanicsOK'
  BY <1>4 DEF StopPanics, PanicsOK, PanicNeedsRestart
<1>5. \/ UNCHANGED <<running, stopClosed, starts, panicked>>
      \/ \E c \in Callers : StartBegins(c) \/ StopPanics(c)
      \/ \E c \in Callers, kind \in {"stopping", "closing"} : StopBegins(c, kind)
  BY ReaderMoves, RecovererMoves
  DEF ConsumerStep, Next, MethodCall, CloseCall, Background, CallReturns, fields,
      Subscribe, EnableRecovery, CloseIdle, StartFails, StartSpawns, StopReturns,
      Unwait, CloseClient, Cancel, StepReader, StepRecoverer
<1> QED
  BY <1>1, <1>2, <1>3, <1>4, <1>5

(* Only a Stop of its scheduler can panic in the publisher.                *)
LEMMA PanicsByPublisher ==
  ASSUME TypeOK, PubTypeOK, PanicsOK, PublisherStep
  PROVE  PanicsOK'
<1> UNCHANGED <<running, stopClosed, starts>>
  BY DEF PublisherStep, OfPublisher, lifeVars, fields
<1>1. ASSUME UNCHANGED <<scheduling, channelGone, schedules, panicked>> PROVE PanicsOK'
  BY <1>1 DEF PanicsOK, PanicNeedsRestart
<1>2. ASSUME NEW c \in Callers, StartScheduler(c) PROVE PanicsOK'
  BY <1>2 DEF StartScheduler, PanicsOK, PanicNeedsRestart, PubTypeOK
<1>3. ASSUME NEW c \in Callers, StopSchedulerBegins(c) PROVE PanicsOK'
  BY <1>3 DEF StopSchedulerBegins, loops, PanicsOK, PanicNeedsRestart
<1>4. ASSUME NEW c \in Callers, StopSchedulerPanics(c) PROVE PanicsOK'
  BY <1>4 DEF StopSchedulerPanics, loops, PanicsOK, PanicNeedsRestart
<1>5. \/ UNCHANGED <<scheduling, channelGone, schedules, panicked>>
      \/ \E c \in Callers :
           StartScheduler(c) \/ StopSchedulerBegins(c) \/ StopSchedulerPanics(c)
  BY DEF PublisherStep, PublisherCall, PublisherCallGoesOn, PublisherBackground,
         PublishBegins, PublishReturns, WantsToWrite, Configures, CloseAgain,
         CloseLocks, CloseFindsIdle, StopSchedulerReturns, Abandon, LoopStep,
         LoopExits, LoopTicks, LoopRests, StepLoop, flags, loops
<1> QED
  BY <1>1, <1>2, <1>3, <1>4, <1>5

-----------------------------------------------------------------------------
(* All of it together. *)
Parts == TypeOK /\ PubTypeOK /\ PoolTypeOK

ClientInv ==
  /\ Parts
  /\ Lifetimes
  /\ LoopLifetime
  /\ CountsOK
  /\ PanicsOK

(* The invariant of the client holds at the start.                         *)
LEMMA ClientInvInit == ClientInit => ClientInv
<1> SUFFICES ASSUME ClientInit PROVE ClientInv
  OBVIOUS
<1>1. Init /\ PubInit /\ PoolInit
  BY DEF ClientInit
<1>2. PanicsOK
  BY <1>1 DEF Init, PubInit, PanicsOK, PanicNeedsRestart
<1> QED
  BY <1>1, <1>2, TypeInit, PublisherTypeInit, PoolTypeInit, LifetimesInit,
     LoopLifetimeInit, CountsInit DEF ClientInv, Parts

(* What an object keeps while another one steps, though that may panic.    *)
LEMMA ConsumerUntouched ==
  ASSUME TypeOK, Lifetimes, UNCHANGED lifeVars, panicked' \in BOOLEAN,
         panicked => panicked'
  PROVE  TypeOK' /\ Lifetimes'
<1>1. TypeOK'
  BY DEF TypeOK, lifeVars, fields, goroutines
<1>2. UNCHANGED <<mu, call, running, starts, goroutines>>
  BY DEF lifeVars, fields
<1> QED
  BY <1>1, <1>2, SameGoroutines DEF Lifetimes, QuietWhenStopped

(* The same of the publisher.                                              *)
LEMMA PublisherUntouched ==
  ASSUME PubTypeOK, LoopLifetime, UNCHANGED pubVars, panicked => panicked'
  PROVE  PubTypeOK' /\ LoopLifetime'
<1>1. UNCHANGED <<pubCall, closed, scheduling, channelGone, schedules, abandoned, loop>>
  BY DEF pubVars, flags, loops
<1>2. PubTypeOK'
  BY <1>1 DEF PubTypeOK, In
<1>3. NoLoop' = NoLoop /\ SchedulerHeld' = SchedulerHeld
  BY <1>1 DEF NoLoop, LoopAlive, SchedulerHeld, In
<1> QED
  BY <1>1, <1>2, <1>3 DEF LoopLifetime, SchedulerQuiet, RunningHasLoop, LoopAlive

(* The same of the pool, whose invariant does not speak of panics.         *)
LEMMA PoolUntouched ==
  ASSUME PoolTypeOK, CountsOK, UNCHANGED poolVars
  PROVE  PoolTypeOK' /\ CountsOK'
<1>1. UNCHANGED <<poolCall, spawning, poolRunning, workerCount, poolStarts,
                  poolCancelled, worker, processed, readCount, total, sinceStart>>
  BY DEF poolVars, counters
<1>2. PoolTypeOK'
  BY <1>1 DEF PoolTypeOK
<1>3. CountsOK'
  BY <1>1 DEF CountsOK, CountHonest, WorkerAlive
<1> QED
  BY <1>2, <1>3

(* Nobody takes a panic back.                                              *)
LEMMA PanicStays ==
  ASSUME TypeOK, PublisherStep
  PROVE  panicked' \in BOOLEAN /\ (panicked => panicked')
<1>1. \/ UNCHANGED panicked
      \/ \E c \in Callers : StopSchedulerPanics(c)
  BY DEF PublisherStep, PublisherCall, PublisherCallGoesOn, PublisherBackground,
         PublishBegins, PublishReturns, WantsToWrite, Configures, CloseAgain,
         CloseLocks, CloseFindsIdle, StopSchedulerBegins, StopSchedulerReturns,
         StartScheduler, Abandon, LoopStep, LoopExits, LoopTicks, LoopRests, StepLoop
<1> QED
  BY <1>1 DEF StopSchedulerPanics, TypeOK

(* The same of the steps of the consumer.                                  *)
LEMMA PanicStaysInConsumer ==
  ASSUME ConsumerStep
  PROVE  panicked => panicked'
BY ReaderMoves, RecovererMoves
DEF ConsumerStep, Next, MethodCall, CloseCall, Background, CallReturns,
    Subscribe, EnableRecovery, StartBegins, StopBegins, StopPanics, CloseIdle,
    StartFails, StartSpawns, StopReturns, Unwait, CloseClient, Cancel,
    StepReader, StepRecoverer

(* The pool never panics.                                                  *)
LEMMA PoolPanicsNever ==
  ASSUME PoolStep
  PROVE  UNCHANGED panicked
BY DEF PoolStep, PoolBackground, PoolCallBegins, PoolCallGoesOn, SetWorkerCount,
       PoolStarts, ResetsStats, SpawnsWorker, StartReturns, PoolStops, PoolCloses,
       PoolCancel, WorkerStep, WorkerExits, WorkerWorks, WorkerReads,
       WorkerWrites, StepWorker

(* Every step keeps it.                                                    *)
LEMMA ClientInvStep ==
  ASSUME ClientInv, [ClientNext]_everything
  PROVE  ClientInv'
<1>1. CASE ConsumerStep
  <2>1. TypeOK' /\ Lifetimes'
    BY <1>1, TypeStep, LifetimesStep DEF ClientInv, Parts, ConsumerStep
  <2>2. PubTypeOK' /\ LoopLifetime'
    BY <1>1, PublisherUntouched, PanicStaysInConsumer
    DEF ClientInv, Parts, ConsumerStep, OfConsumer
  <2>3. PoolTypeOK' /\ CountsOK'
    BY <1>1, PoolUntouched DEF ClientInv, Parts, ConsumerStep, OfConsumer
  <2> QED
    BY <1>1, <2>1, <2>2, <2>3, PanicsByConsumer DEF ClientInv, Parts
<1>2. CASE PublisherStep
  <2>1. TypeOK' /\ Lifetimes'
    BY <1>2, ConsumerUntouched, PanicStays DEF ClientInv, Parts, PublisherStep, OfPublisher
  <2>2. PubTypeOK' /\ LoopLifetime'
    BY <1>2, PublisherTypeStep, LoopLifetimeStep DEF ClientInv, Parts
  <2>3. PoolTypeOK' /\ CountsOK'
    BY <1>2, PoolUntouched DEF ClientInv, Parts, PublisherStep, OfPublisher
  <2> QED
    BY <1>2, <2>1, <2>2, <2>3, PanicsByPublisher DEF ClientInv, Parts
<1>3. ASSUME UNCHANGED <<lifeVars, pubVars, panicked>>
      PROVE  /\ TypeOK' /\ Lifetimes' /\ PubTypeOK' /\ LoopLifetime' /\ PanicsOK'
  <2>1. TypeOK' /\ Lifetimes' /\ PubTypeOK' /\ LoopLifetime'
    BY <1>3, ConsumerUntouched, PublisherUntouched DEF ClientInv, Parts, TypeOK
  <2> QED
    BY <1>3, <2>1
    DEF ClientInv, PanicsOK, PanicNeedsRestart, lifeVars, fields, pubVars, flags, loops
<1>4. CASE PoolStep
  BY <1>3, <1>4, PoolKept, PoolPanicsNever DEF ClientInv, Parts, PoolStep, OfConcurrent
<1>5. CASE NoObjectStep
  BY <1>3, <1>5, PoolUntouched DEF ClientInv, Parts, NoObjectStep
<1> QED
  BY <1>1, <1>2, <1>4, <1>5, StepOfOne

(* It is an invariant.                                                     *)
LEMMA ClientInvCorrect == ClientSpec => []ClientInv
<1> QED
  BY ClientInvInit, ClientInvStep, PTL DEF ClientSpec

-----------------------------------------------------------------------------
(* Whose calls a caller is in. *)
CallsOwned ==
  /\ parts \in Clients
  /\ rest \in [Callers -> SUBSET parts]
  /\ \A c \in Callers :
       /\ call[c] # "none" => "consumer" \in parts /\ pubCall[c] = "none"
       /\ pubCall[c] # "none" => "publisher" \in parts
       /\ poolCall[c] # "none" => "concurrent" \in parts

(* Nobody enters a call but by calling a method.                           *)
LEMMA BackgroundCallsNothing ==
  ASSUME Parts
  PROVE  /\ Background => \A c \in Callers : call[c] = "none" => call'[c] = "none"
         /\ PublisherBackground =>
              \A c \in Callers : pubCall[c] = "none" => pubCall'[c] = "none"
         /\ PoolBackground =>
              \A c \in Callers : poolCall[c] = "none" => poolCall'[c] = "none"
<1>1. ASSUME Background
      PROVE  \A c \in Callers : call[c] = "none" => call'[c] = "none"
  BY <1>1, ReaderMoves, RecovererMoves
  DEF Background, CallReturns, StartFails, StartSpawns, Leave, StopReturns,
      Stopping, Unwait, CloseClient, Cancel, StepReader, StepRecoverer, Parts, TypeOK
<1>2. ASSUME PublisherBackground
      PROVE  \A c \in Callers : pubCall[c] = "none" => pubCall'[c] = "none"
  <2>1. \/ UNCHANGED pubCall
        \/ \E c \in Callers, from \in PubCalls \ {"none"}, to \in PubCalls : Goes(c, from, to)
        \/ \E c \in Callers : In(c, {"locked"}) /\ Goes(c, "none", "stopping")
    BY <1>2
    DEF PublisherBackground, PublisherCallGoesOn, PublishReturns, Configures,
        CloseAgain, CloseLocks, CloseFindsIdle, StopSchedulerBegins,
        StopSchedulerPanics, StopSchedulerReturns, Abandon, LoopStep, LoopExits,
        LoopTicks, LoopRests, StepLoop, PubCalls
  <2> QED
    BY <2>1 DEF Goes, In, Parts, PubTypeOK
<1>3. ASSUME PoolBackground
      PROVE  \A c \in Callers : poolCall[c] = "none" => poolCall'[c] = "none"
  BY <1>3
  DEF PoolBackground, PoolCallGoesOn, ResetsStats, SpawnsWorker, StartReturns,
      PoolStops, PoolGoes, PoolCancel, WorkerStep, WorkerExits, WorkerWorks,
      WorkerReads, WorkerWrites, StepWorker, Parts, PoolTypeOK
<1> QED
  BY <1>1, <1>2, <1>3

(* A method is called by one caller.                                       *)
LEMMA OneCaller ==
  ASSUME Parts, NEW c \in Callers, NEW d \in Callers, c # d
  PROVE  /\ MethodCall(c) \/ CloseCall(c) => call'[d] = call[d]
         /\ PublisherCall(c) \/ Goes(c, "none", "closing") => pubCall'[d] = pubCall[d]
         /\ PoolCallBegins(c) \/ PoolCloses(c) => poolCall'[d] = poolCall[d]
<1>1. ASSUME MethodCall(c) \/ CloseCall(c) PROVE call'[d] = call[d]
  BY <1>1
  DEF MethodCall, CloseCall, Subscribe, EnableRecovery, StartBegins, StopBegins,
      StopPanics, CloseIdle, Parts, TypeOK
<1>2. ASSUME PublisherCall(c) \/ Goes(c, "none", "closing")
      PROVE  pubCall'[d] = pubCall[d]
  BY <1>2
  DEF PublisherCall, PublishBegins, WantsToWrite, StartScheduler,
      StopSchedulerBegins, StopSchedulerPanics, Goes, Parts, PubTypeOK
<1>3. ASSUME PoolCallBegins(c) \/ PoolCloses(c) PROVE poolCall'[d] = poolCall[d]
  BY <1>3
  DEF PoolCallBegins, SetWorkerCount, PoolStarts, PoolStops, PoolCloses, PoolGoes,
      Parts, PoolTypeOK
<1> QED
  BY <1>1, <1>2, <1>3

(* Every step keeps CallsOwned.                                            *)
LEMMA CallsOwnedStep ==
  ASSUME Parts, CallsOwned, [ClientNext]_everything
  PROVE  CallsOwned'
<1> USE DEF CallsOwned
<1>1. ASSUME NEW c \in Callers, Delegate(c) PROVE CallsOwned'
  <2>1. UNCHANGED <<parts, rest>> /\ Idle(c)
    BY <1>1 DEF Delegate, clientVars, Busy
  <2>2. CASE CallPublisher(c)
    <3>1. UNCHANGED <<call, poolCall>> /\ "publisher" \in parts
      BY <2>2 DEF CallPublisher, OfPublisher, lifeVars, poolVars
    <3> QED
      BY <2>1, <2>2, <3>1, OneCaller DEF CallPublisher, Idle
  <2>3. CASE CallConsumer(c)
    <3>1. UNCHANGED <<pubCall, poolCall>> /\ "consumer" \in parts
      BY <2>3 DEF CallConsumer, OfConsumer, pubVars, poolVars
    <3> QED
      BY <2>1, <2>3, <3>1, OneCaller DEF CallConsumer, Idle
  <2>4. CASE CallConcurrent(c)
    <3>1. UNCHANGED <<call, pubCall>> /\ "concurrent" \in parts
      BY <2>4 DEF CallConcurrent, OfConcurrent, lifeVars, pubVars
    <3> QED
      BY <2>1, <2>4, <3>1, OneCaller DEF CallConcurrent, Idle
  <2> QED
    BY <1>1, <2>2, <2>3, <2>4 DEF Delegate
<1>2. ASSUME NEW c \in Callers, CloseBegins(c) PROVE CallsOwned'
  BY <1>2 DEF CloseBegins, lifeVars, pubVars, poolVars
<1>3. ASSUME NEW c \in Callers, NEW object, Closes(c, object)
      PROVE  UNCHANGED parts /\ rest' \in [Callers -> SUBSET parts] /\ object \in parts
             /\ Idle(c)
  BY <1>3 DEF Closes
<1>4. ASSUME NEW c \in Callers, ClosesPublisher(c) PROVE CallsOwned'
  <2>1. UNCHANGED <<call, poolCall>> /\ Goes(c, "none", "closing")
    BY <1>4 DEF ClosesPublisher, OfPublisher, lifeVars, poolVars
  <2> QED
    BY <1>3, <1>4, <2>1, OneCaller DEF ClosesPublisher, Idle
<1>5. ASSUME NEW c \in Callers, ClosesConsumer(c) PROVE CallsOwned'
  <2>1. UNCHANGED <<pubCall, poolCall>> /\ (CloseCall(c) \/ UNCHANGED call)
    BY <1>5 DEF ClosesConsumer, OfConsumer, pubVars, poolVars, vars, lifeVars
  <2> QED
    BY <1>3, <1>5, <2>1, OneCaller DEF ClosesConsumer, Idle
<1>6. ASSUME NEW c \in Callers, ClosesConcurrent(c) PROVE CallsOwned'
  <2>1. UNCHANGED <<call, pubCall>> /\ PoolCloses(c)
    BY <1>6 DEF ClosesConcurrent, OfConcurrent, lifeVars, pubVars
  <2> QED
    BY <1>3, <1>6, <2>1, OneCaller DEF ClosesConcurrent, Idle
<1>7. CASE PublisherBackground /\ OfPublisher /\ UNCHANGED clientVars
  BY <1>7, BackgroundCallsNothing DEF OfPublisher, lifeVars, poolVars, clientVars
<1>8. CASE Background /\ OfConsumer /\ UNCHANGED clientVars
  BY <1>8, BackgroundCallsNothing DEF OfConsumer, pubVars, poolVars, clientVars
<1>9. CASE PoolBackground /\ OfConcurrent /\ UNCHANGED clientVars
  BY <1>9, BackgroundCallsNothing DEF OfConcurrent, lifeVars, pubVars, clientVars
<1>10. CASE UNCHANGED everything
  BY <1>10 DEF everything, lifeVars, pubVars, poolVars, clientVars
<1> QED
  BY <1>1, <1>2, <1>4, <1>5, <1>6, <1>7, <1>8, <1>9, <1>10
  DEF ClientNext, CloseGoesOn

(* Types; who holds which lock: a writer of the publisher excludes its     *)
(* readers, one caller at a time waits for its loop; and no caller is in a *)
(* call of an object the client was made without.                          *)
THEOREM ClientTyped == ClientSpec => [](TypeOK /\ ClientTypeOK)
<1>1. ClientInit => CallsOwned
  BY DEF ClientInit, Init, PubInit, PoolInit, CallsOwned
<1>2. ClientInv /\ CallsOwned => TypeOK /\ ClientTypeOK
  BY DEF ClientInv, Parts, CallsOwned, ClientTypeOK
<1>3. ClientInv => Parts
  BY DEF ClientInv
<1> QED
  BY <1>1, <1>2, <1>3, ClientInvCorrect, CallsOwnedStep, PTL DEF ClientSpec

(* What is proved of a consumer alone holds of the one in a client: no     *)
(* goroutine outlives a Stop, and those of two Starts never meet.          *)
THEOREM ConsumerOfClientQuiet == ClientSpec => [](QuietWhenStopped /\ OneGeneration)
<1>1. ClientInv => QuietWhenStopped /\ OneGeneration
  BY DEF ClientInv, Lifetimes, OneGeneration
<1> QED
  BY <1>1, ClientInvCorrect, PTL

(* StopScheduler and Close (delayed_scheduler.go:85, publisher.go:391)     *)
(* leave no loop behind, however calls of any number of callers overlap.   *)
THEOREM StoppedSchedulerQuiet == ClientSpec => []SchedulerQuiet
<1> QED
  BY ClientInvCorrect, PTL DEF ClientInv, LoopLifetime

(* A scheduler that says it is running has its one loop, unless its        *)
(* context or its channel ended it (delayed_scheduler.go:69).              *)
THEOREM RunningSchedulerPolls == ClientSpec => []RunningHasLoop
<1> QED
  BY ClientInvCorrect, PTL DEF ClientInv, LoopLifetime

(* The count of messages is wrong at most by what an earlier Start counted *)
(* (concurrent_consumer.go:145).                                           *)
THEOREM CountStaysHonest == ClientSpec => []CountHonest
<1> QED
  BY ClientInvCorrect, PTL DEF ClientInv, CountsOK

(* No overlap of calls closes a stopCh twice, only a second Start and Stop *)
(* of one object does (consumer.go:148, delayed_scheduler.go:94).          *)
THEOREM PanicOnlyByRestart == ClientSpec => []PanicNeedsRestart
<1> QED
  BY ClientInvCorrect, PTL DEF ClientInv, PanicsOK

(* Subscribe through the client changes the subscriptions only while no    *)
(* goroutine of its consumer is alive.                                     *)
THEOREM HandlersOfClientFrozen == ClientSpec => HandlersFrozen
<1>1. ClientInv /\ [ClientNext]_everything => [AllGone \/ handlers' = handlers]_vars
  <2> SUFFICES ASSUME ClientInv, [ClientNext]_everything
               PROVE  AllGone \/ handlers' = handlers
    OBVIOUS
  <2>1. CASE ConsumerStep
    BY <2>1, HandlersStep DEF ClientInv, Parts, ConsumerStep
  <2>2. CASE UNCHANGED lifeVars
    BY <2>2 DEF lifeVars, fields
  <2> QED
    BY <2>1, <2>2, StepOfOne
    DEF PublisherStep, OfPublisher, PoolStep, OfConcurrent, NoObjectStep
<1> QED
  BY <1>1, ClientInvCorrect, PTL DEF ClientSpec, HandlersFrozen

(* When Close of the publisher (publisher.go:391) returns no call is       *)
(* publishing and no loop is alive.                                        *)
THEOREM ClosedPublisherLeavesNothing == ClientSpec => CloseLeavesNothing
<1>1. ASSUME ClientInv, [ClientNext]_everything, NEW c \in Callers,
             In(c, {"locked", "finishing"}), In(c, {"none"})'
      PROVE  NoLoop /\ ~HeldByReader
  <2>1. ~HeldByReader
    BY <1>1 DEF ClientInv, Parts, PubTypeOK, HeldByReader, In
  <2>2. pubCall' # pubCall
    BY <1>1 DEF In
  <2>3. PublisherStep
    BY <1>1, <2>2, StepOfOne
    DEF ConsumerStep, OfConsumer, PoolStep, OfConcurrent, NoObjectStep, pubVars
  <2>4. \E d \in Callers : CloseFindsIdle(d) \/ StopSchedulerReturns(d)
    BY <1>1, <2>2, <2>3
    DEF PublisherStep, PublisherCall, PublisherCallGoesOn, PublisherBackground,
        PublishBegins, PublishReturns, WantsToWrite, Configures, CloseAgain,
        CloseLocks, StopSchedulerBegins, StopSchedulerPanics, StartScheduler,
        Abandon, LoopStep, LoopExits, LoopTicks, LoopRests, StepLoop, Goes, In,
        ClientInv, Parts, PubTypeOK
  <2> QED
    BY <1>1, <2>1, <2>4
    DEF CloseFindsIdle, StopSchedulerReturns, Goes, ClientInv, LoopLifetime, SchedulerQuiet
<1>2. ClientInv /\ [ClientNext]_everything
        => [\A c \in Callers :
              (In(c, {"locked", "finishing"}) /\ In(c, {"none"})')
                => NoLoop /\ ~HeldByReader]_pubVars
  BY <1>1
<1> QED
  BY <1>2, ClientInvCorrect, PTL DEF ClientSpec, CloseLeavesNothing

(* The first Start of a client's consumer consumes, whatever is called on  *)
(* its publisher.                                                          *)
THEOREM FirstStartOfClientConsumes ==
  ClientSpec => [](~stopClosed => StartedConsumes)
<1>1. ClientInit => Reading
  BY DEF ClientInit, Init, Reading, Stopping, StartedConsumes
<1>2. ClientInv /\ Reading /\ [ClientNext]_everything => Reading'
  <2> SUFFICES ASSUME ClientInv, Reading, [ClientNext]_everything PROVE Reading'
    OBVIOUS
  <2>1. CASE ConsumerStep
    BY <2>1, ReadingStep DEF ClientInv, Parts, ConsumerStep
  <2>2. CASE UNCHANGED lifeVars
    BY <2>2 DEF lifeVars, fields, goroutines, Reading, Stopping, StartedConsumes
  <2> QED
    BY <2>1, <2>2, StepOfOne
    DEF PublisherStep, OfPublisher, PoolStep, OfConcurrent, NoObjectStep
<1>3. Reading => (~stopClosed => StartedConsumes)
  BY DEF Reading
<1> QED
  BY <1>1, <1>2, <1>3, ClientInvCorrect, PTL DEF ClientSpec

(* A client whose Close, or Stop, meets a recovery that wants c.mu never   *)
(* gets out of it (client.go:310).                                         *)
THEOREM ClientDeadlockIsForever ==
  ClientSpec => [][\A c \in Callers, g \in Generations : Deadlocked(c, g) =>
                     Deadlocked(c, g)' /\ call'[c] = call[c]]_vars
<1>1. ClientInv /\ [ClientNext]_everything =>
        [\A c \in Callers, g \in Generations : Deadlocked(c, g) =>
           Deadlocked(c, g)' /\ call'[c] = call[c]]_vars
  <2> SUFFICES ASSUME ClientInv, [ClientNext]_everything,
                      NEW c \in Callers, NEW g \in Generations, Deadlocked(c, g)
               PROVE  UNCHANGED <<call[c], recoverer[g]>>
    BY DEF Deadlocked, Stopping
  <2>1. CASE ConsumerStep
    BY <2>1, DeadlockStep DEF ClientInv, Parts, ConsumerStep
  <2>2. CASE UNCHANGED lifeVars
    BY <2>2 DEF lifeVars, goroutines
  <2> QED
    BY <2>1, <2>2, StepOfOne
    DEF PublisherStep, OfPublisher, PoolStep, OfConcurrent, NoObjectStep
<1> QED
  BY <1>1, ClientInvCorrect, PTL DEF ClientSpec

=============================================================================

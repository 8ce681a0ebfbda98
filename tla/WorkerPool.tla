----------------------------- MODULE WorkerPool ------------------------------
(***************************************************************************)
(* One ConcurrentConsumer (concurrent_consumer.go): workers that simulate  *)
(* work and count it in stats, and the methods that start and stop them.   *)
(*                                                                         *)
(* Start sets running and makes stopCh under cc.mu, but replaces stats,    *)
(* reads workerCount and spawns workers after it gave cc.mu back.  Workers *)
(* read stopCh without the lock.  A step is what a goroutine does between  *)
(* two points where another may come in between; a worker that evaluates   *)
(* its select, and a method that only has cc.mu and accesses nothing       *)
(* besides what cc.mu guards, is one step.                                 *)
(*                                                                         *)
(* stopCh is open exactly while running is set, so it is not shown.  The   *)
(* handlers are not either: no code reads them.                            *)
(***************************************************************************)
EXTENDS GoProcess, FiniteSets

CONSTANTS
  MaxWorkers,  \* bound: workers of one Start; also the default
  MaxRounds    \* bound: rounds of work all workers do together

ASSUME PoolAssumption == MaxWorkers \in Nat /\ MaxRounds \in Nat

Workers == 1..MaxWorkers

VARIABLES
  poolCall,     \* the call of the pool a caller is in
  spawning,     \* the generation a caller in Start is spawning
  poolRunning,  \* cc.running
  workerCount,  \* cc.workerCount
  poolStarts,   \* generations so far
  poolCancelled,\* generations whose context is cancelled
  worker,       \* a goroutine per generation and worker
  processed,    \* stats["messages_processed"], None before the first Start
  readCount,    \* what the worker that updates stats has read
  total,        \* updates of stats so far
  sinceStart    \* updates of stats since a Start replaced it

counters == <<processed, readCount, total, sinceStart>>
poolVars == <<poolCall, spawning, poolRunning, workerCount, poolStarts,
              poolCancelled, worker, counters>>

PoolCalls == {"none", "resetting", "spawning", "closing"}

NoCount == -1

WorkerAlive(g, i) == worker[g][i] \in {"select", "work", "updating"}
WorkersGone(g)    == \A i \in Workers : ~WorkerAlive(g, i)

Working == {w \in Generations \X Workers : worker[w[1]][w[2]] \in {"work", "updating"}}

(* cc.mu is held by a worker between its read and its write of stats.      *)
PoolLocked == \E g \in Generations, i \in Workers : worker[g][i] = "updating"

PoolTypeOK ==
  /\ poolCall \in [Callers -> PoolCalls]
  /\ spawning \in [Callers -> Generations \cup {0}]
  /\ \A c \in Callers : poolCall[c] \in {"resetting", "spawning"} <=> spawning[c] # 0
  /\ poolRunning \in BOOLEAN
  /\ workerCount \in 0..MaxWorkers
  /\ poolStarts \in 0..MaxStarts
  /\ poolCancelled \subseteq 1..poolStarts
  /\ worker \in [Generations -> [Workers -> {"none", "select", "work", "updating", "gone"}]]
  /\ processed \in Nat \cup {NoCount} /\ readCount \in Nat \cup {NoCount}
  /\ total \in Nat /\ sinceStart \in 0..total

PoolInit ==
  /\ poolCall = [c \in Callers |-> "none"]
  /\ spawning = [c \in Callers |-> 0]
  /\ poolRunning = FALSE
  /\ workerCount = MaxWorkers
  /\ poolStarts = 0
  /\ poolCancelled = {}
  /\ worker = [g \in Generations |-> [i \in Workers |-> "none"]]
  /\ processed = NoCount
  /\ readCount = NoCount
  /\ total = 0
  /\ sinceStart = 0

-----------------------------------------------------------------------------
(* The methods. *)

PoolGoes(c, from, to) ==
  /\ poolCall[c] = from /\ ~panicked
  /\ poolCall' = [poolCall EXCEPT ![c] = to]

SetWorkerCount(c) ==
  /\ PoolGoes(c, "none", "none") /\ ~PoolLocked
  /\ \E n \in 0..MaxWorkers : workerCount' = n
  /\ UNCHANGED <<spawning, poolRunning, poolStarts, poolCancelled, worker,
                 counters, panicked>>

(* The part of Start under cc.mu.                                          *)
PoolStarts(c) ==
  /\ PoolGoes(c, "none", "resetting") /\ ~PoolLocked
  /\ ~poolRunning /\ poolStarts < MaxStarts
  /\ poolRunning' = TRUE
  /\ poolStarts' = poolStarts + 1
  /\ spawning' = [spawning EXCEPT ![c] = poolStarts + 1]
  /\ UNCHANGED <<workerCount, poolCancelled, worker, counters, panicked>>

(* stats is replaced without cc.mu.                                        *)
ResetsStats(c) ==
  /\ PoolGoes(c, "resetting", "spawning")
  /\ processed' = 0
  /\ sinceStart' = 0
  /\ UNCHANGED <<spawning, poolRunning, workerCount, poolStarts,
                 poolCancelled, worker, readCount, total, panicked>>

Spawned(g) == {i \in Workers : worker[g][i] # "none"}

(* The loop reads workerCount anew before each worker.                     *)
SpawnsWorker(c) ==
  /\ PoolGoes(c, "spawning", "spawning")
  /\ \E i \in 1..workerCount :
       /\ i \notin Spawned(spawning[c]) /\ 1..(i - 1) \subseteq Spawned(spawning[c])
       /\ worker' = [worker EXCEPT ![spawning[c]][i] = "select"]
  /\ UNCHANGED <<spawning, poolRunning, workerCount, poolStarts,
                 poolCancelled, counters, panicked>>

StartReturns(c) ==
  /\ PoolGoes(c, "spawning", "none")
  /\ 1..workerCount \subseteq Spawned(spawning[c])
  /\ spawning' = [spawning EXCEPT ![c] = 0]
  /\ UNCHANGED <<poolRunning, workerCount, poolStarts, poolCancelled, worker,
                 counters, panicked>>

(* Stop, also that of Close, which may find that another one was faster.   *)
PoolStops(c) ==
  /\ \/ PoolGoes(c, "none", "none") /\ poolRunning
     \/ PoolGoes(c, "closing", "none")
  /\ ~PoolLocked
  /\ poolRunning' = FALSE
  /\ UNCHANGED <<spawning, workerCount, poolStarts, poolCancelled, worker,
                 counters, panicked>>

(* Close reads running without cc.mu.  A Close that finds the pool not     *)
(* running closes the client, which no worker uses.                        *)
PoolCloses(c) ==
  /\ PoolGoes(c, "none", IF poolRunning THEN "closing" ELSE "none")
  /\ UNCHANGED <<spawning, poolRunning, workerCount, poolStarts,
                 poolCancelled, worker, counters, panicked>>

(* The application cancels the context it gave to Start.                   *)
PoolCancel(g) ==
  /\ g \in 1..poolStarts /\ g \notin poolCancelled /\ ~panicked
  /\ poolCancelled' = poolCancelled \cup {g}
  /\ UNCHANGED <<poolCall, spawning, poolRunning, workerCount, poolStarts,
                 worker, counters, panicked>>

-----------------------------------------------------------------------------
(* worker.  stopCh is the one of the latest Start, whichever Start spawned *)
(* the worker.                                                             *)
ToldToEnd(g) == g \in poolCancelled \/ ~poolRunning

StepWorker(g, i, from, to) ==
  /\ worker[g][i] = from /\ ~panicked
  /\ worker' = [worker EXCEPT ![g][i] = to]
  /\ UNCHANGED <<poolCall, spawning, poolRunning, workerCount, poolStarts,
                 poolCancelled, panicked>>

(* Mutant: the case of stopCh is forgotten.                                *)
WorkerExitsOnCancel(g, i) ==
  /\ g \in poolCancelled
  /\ StepWorker(g, i, "select", "gone")
  /\ UNCHANGED counters

WorkerExits(g, i) ==
  /\ ToldToEnd(g)
  /\ StepWorker(g, i, "select", "gone")
  /\ UNCHANGED counters

WorkerWorks(g, i) ==
  /\ ~ToldToEnd(g)
  /\ total + Cardinality(Working) < MaxRounds
  /\ StepWorker(g, i, "select", "work")
  /\ UNCHANGED counters

(* Mutant: stats is updated without cc.mu.                                 *)
WorkerReadsUnlocked(g, i) ==
  /\ StepWorker(g, i, "work", "updating")
  /\ readCount' = processed
  /\ UNCHANGED <<processed, total, sinceStart>>

WorkerReads(g, i) ==
  /\ ~PoolLocked
  /\ StepWorker(g, i, "work", "updating")
  /\ readCount' = processed
  /\ UNCHANGED <<processed, total, sinceStart>>

(* stats may be another map than the one that was read.                    *)
WorkerWrites(g, i) ==
  /\ StepWorker(g, i, "updating", "select")
  /\ processed' = readCount + 1
  /\ total' = total + 1
  /\ sinceStart' = sinceStart + 1
  /\ readCount' = NoCount

-----------------------------------------------------------------------------
PoolCallGoesOn(c) ==
  \/ ResetsStats(c)
  \/ SpawnsWorker(c)
  \/ StartReturns(c)
  \/ poolCall[c] = "closing" /\ PoolStops(c)

PoolCallBegins(c) ==
  \/ SetWorkerCount(c)
  \/ PoolStarts(c)
  \/ poolCall[c] = "none" /\ PoolStops(c)

WorkerStep(g, i) ==
  WorkerExits(g, i) \/ WorkerWorks(g, i) \/ WorkerReads(g, i) \/ WorkerWrites(g, i)

PoolBackground ==
  \/ \E c \in Callers : PoolCallGoesOn(c)
  \/ \E g \in Generations : PoolCancel(g)
  \/ \E g \in Generations, i \in Workers : WorkerStep(g, i)

(* Workers run.  Their rounds are bounded, so some worker of each Start is *)
(* enough.                                                                 *)
WorkerFairness ==
  \A g \in Generations :
    WF_<<poolVars, panicked>>(\E i \in Workers : WorkerStep(g, i))

-----------------------------------------------------------------------------
(* Properties. *)

(* messages_processed counts every update since stats was replaced, and    *)
(* never one that did not happen.  Between the two it may be anything: a   *)
(* worker of an earlier Start can carry the old count over into the new    *)
(* map.                                                                    *)
CountHonest ==
  processed # NoCount => sinceStart <= processed /\ processed <= total

(* A Start is over when its context is cancelled or the pool was stopped   *)
(* since; a next Start that comes before its workers looked at stopCh      *)
(* takes them back, until the pool is stopped again.                       *)
Over(g)      == g \in poolCancelled \/ g < poolStarts \/ ~poolRunning
TakenBack(g) == g \notin poolCancelled /\ g < poolStarts /\ poolRunning

(* The workers of a Start that is over end, whatever other Starts and      *)
(* Stops go on, also those a slow Start spawns only after the Stop.  Not   *)
(* so those that are taken back: README.md:114, "Proper worker cleanup on  *)
(* stop", is not true of them.                                             *)
WorkersEnd ==
  []<>(panicked \/ \A g \in Generations :
         Over(g) => WorkersGone(g) \/ TakenBack(g))

=============================================================================

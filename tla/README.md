# Verification of redigo-streams

TLA+ modules, TLC runs and TLAPS proofs about redigo-streams, a Go library that
publishes protobuf messages to Redis Streams and consumes them with consumer
groups, recovers pending messages, schedules delayed tasks and suppresses
duplicates. Paths such as `consumer.go:193` are in `src/`.

## 1. The system

| Component | State | Operations | Made correct by |
|---|---|---|---|
| Consumer (`consumer.go`) | Redis: the group's cursor and pending entries. Memory: `handlers`, `streams`, `running`, `stopCh`, `wg`, `recovery`, the lock `mu` | `Subscribe`, `Start`, `Stop`, `Close`, `EnableRecovery`; a goroutine per stream: XREADGROUP, handler, XACK | nothing acknowledged unhandled; bounded attempts; `Stop` ends every goroutine |
| Message recovery (`recovery.go`) | a page of XPENDING; the dead-letter stream | per tick and stream: XPENDING, then XCLAIM and handler, or copy to the dead-letter stream and XACK; reprocessing of dead letters | bounded deliveries and copies; everything settled in the end |
| Delayed task scheduler (`delayed_scheduler.go`) | two sorted sets, delayed and failed; a page of due tasks | `ScheduleTask...`; per tick: XADD, then ZREM, or ZREM and ZADD, or ZADD and ZREM | a task is lost, published twice or given up only as far as faults explain it |
| Publisher (`publisher.go`) | `closed`, `deduplicator`, `scheduler`, a read-write lock | plain, idempotent, content-deduplicated, immediate and delayed publishing; `SetDeduplicationConfig`; `Close` | one message per life of a mark; no call survives `Close` |
| Deduplicator (`deduplication.go`) | a key with a TTL per message | `CheckAndMark` (SETNX), key functions, statistics | as above |
| Concurrent consumer (`concurrent_consumer.go`) | `running`, `stopCh`, `stats` | a pool of workers that count simulated work; it never reads Redis | workers end when stopped or cancelled; the count is honest |
| Client (`client.go`) | three pointers | delegates every call; `Close` closes one object after the other | every call returns; no overlap of calls panics |
| Types, errors, generated code | - | - | - |

How they interact. Publishers, schedulers and consumers share nothing but
Redis; a message goes from XADD (publisher or scheduler) through the stream to
XREADGROUP (some consumer of the group) and to that consumer's handler. Within
a process, recovery calls back into its consumer (`ProcessMessage`, which takes
`mu`), `Stop` waits for recovery with `mu` held, and a publisher owns the
scheduler and deduplicator it uses. Each client call to Redis is one command;
only the reprocessing of dead letters uses a transaction.

What is hard. Every decision is taken on data read by an earlier command (the
page of XPENDING, the page of due tasks, the mark); two commands that belong
together (XADD and XACK, XADD and ZREM, ZREM and ZADD, SETNX and XADD) can be
separated by a crash, a failure, a lost reply or another process; the
lifecycle of a consumer mixes a lock, a channel closed once, a wait group and a
context. The complete list, line by line, is under `hazards` in `PROJECT.json`.

## 2. Modules

| Module | Models |
|---|---|
| `ConsumerGroup` | one stream, one group: readers and recoverers of all consumers, command by command |
| `DeadLetters` | EXTENDS it with the other end of the dead-letter stream: several callers that reprocess letters in transactions |
| `DeliveryContract` | what a group promises for each message: published, attempted a bounded number of times, handled, buried, settled once and with a reason |
| `DelayedScheduler` | several schedulers over one pair of sorted sets |
| `TaskContract` | what the schedulers promise for each task: while it is open it may be executed or parked; released once, it vanishes only at the cost of a fault |
| `Publishing` | several publishers and goroutines over one set of marks |
| `MarkContract` | what deduplication promises for each mark: one holder until it expires, whose permit becomes one message or is lost to a fault |
| `GoProcess` | what the objects of one Go process share: callers, generations of goroutines, a panic |
| `ConsumerLifecycle`, `PublisherLifecycle`, `WorkerPool` | one consumer, one publisher with its scheduler, one concurrent consumer: methods called from several goroutines, the goroutines they start, the locks and channels between them |
| `ClientLifecycle` | the composition of these three under one client, which delegates calls and closes one object after the other |
| `MCConsumerGroup`, `MCPublishing` | symmetry for TLC |
| `ConsumerGroupProofs`, `ConsumerGroupBounds`, `ConsumerGroupRefinement`, `DeadLettersProofs`, `DelayedSchedulerProofs`, `PublishingProofs`, `ConsumerLifecycleProofs`, `ClientLifecycleProofs` | theorems |

Definitions marked "Mutant" belong to no specification: each is a copy of the
next definition with one plausible mistake, and `PROJECT.json` says which
property has to notice it.

### ConsumerGroup

A step is one command to Redis or one return of a handler. Each consumer has
two threads, `<<c, "reader">>` and, if it is in `Recoverers`,
`<<c, "recovery">>`; they share only Redis.

- The stream is `1..added`; `lastDelivered` is the cursor of the group,
  `pending` its pending entries, `deliveries` the delivery count Redis keeps,
  `idle` the entries whose idle time exceeds `IdleTime`, `dead` the copies in
  the dead-letter stream.
- `Read` / `ProcessNext` / `HandlerSucceeds` / `HandlerFails` / `Ack` are
  `consumeStream` and `processMessage`. A message in `Malformed` fails to
  decode: no handler is called and nothing acknowledged.
- `Scan` is XPENDING: it stores in `seen[t]` the delivery counts of the entries
  of the page that are idle. `Claim`, `ClaimNothing`, `DeadLetter` walk through
  that snapshot in stream order, as the loop at `recovery.go:113` does. The
  count compared with `MaxRetries` is the one in the snapshot.
- `...ReplyLost` executes a command whose caller sees an error, `...Fails` does
  not execute it. `Crash(c)` ends both threads of `c`; its successor reads new
  entries only (`">"`).
- The owner of a pending entry is left out: no code reads it, XCLAIM and XACK
  ignore it.

The refinement to `DeliveryContract` maps `published` to `1..added` and
`settled` to the delivered entries that are no longer pending.

### DeadLetters

Every step of the group is `GroupStep`, a `Next` of `ConsumerGroup`: the k-th
copy of message m that recovery adds is the letter `<<m, k>>`. The rest is
`ReprocessDeadLetterMessage` (`recovery.go:244`), of which the batch form is
one call after another. `Find` is WATCH and XRANGE: one step, because a change
between the two has the effect of a change after them. `Exec` is the
transaction, XADD and XDEL together; `touched` holds the callers whose watched
stream changed since, and to them `Exec` is refused. `Fail` is a refusal, an
error, or the death of the process, after each of which the connection no
longer watches. A lost reply of EXEC needs no action: the caller sees an error,
and may call again for the same letter, as any caller may at any time. To the
group a reprocessed message is a publication, which is why the refinement to
`DeliveryContract` holds of the composition too.

### ConsumerLifecycle

A step is what a goroutine does between two points where it can block. `mu` is
the holder of `c.mu`; `call[c]` the blocking call of a caller ("starting": the
group creation inside `Start`; "stopping", "closing": `wg.Wait` inside `Stop`;
"stopped": `Close` between `Stop` and the closing of the client). `reader` and
`recoverer` are the goroutines of each Start. `StartFails` leaves `running`
set, as the code does; `stopClosed` is never reset, as `stopCh` is never made
again. A reader gets its handler as an argument and recovery looks it up under
the lock; `c.streams` and `c.recovery` are read without it (consumer.go:130-131),
the former unchanged while that goroutine lives (`HandlersFrozen`), the latter
with no outcome the model tells apart.

### PublisherLifecycle

`pubCall[c]` is the blocking call a caller is in. Publishing holds the read
lock `p.mu` to its return; `SetDeduplicationConfig` and `Close` wait for the
write lock, and `sync.RWMutex` lets no new reader in meanwhile
(`WantedByWriter`). `Close` goes from "closing" through "locked" (it holds
`p.mu` and wants the scheduler's `d.mu`) to "finishing" (it holds both and waits
for the loop); `StopScheduler` is "stopping". `loop[g]` is the goroutine
`schedulerLoop` of the g-th effective Start. `StartScheduler` asks neither
whether the publisher is closed nor whether `stopCh` is, so the model does not
either. What the loop does in "work" is `DelayedScheduler`; here it matters only
that it takes no lock of the publisher (`executeTask` sends XADD itself;
`PublishMessageDirectly` has no caller) and goes on after an error.

### WorkerPool

`PoolStarts` is the part of `Start` under `cc.mu`; `ResetsStats`,
`SpawnsWorker` and `StartReturns` come after the unlock and interleave with
everything. `stopCh` is made by each Start and closed by each Stop, so it is
open exactly while `poolRunning` holds; workers read the pointer anew in each
round and without the lock, so a worker of an earlier Start sees the channel of
the latest (`ToldToEnd`). The race on that pointer is a read at another time,
which the interleaving has as well. `WorkerReads` and `WorkerWrites` are the
update of the counter, under `cc.mu`, while the map itself may be replaced in
between. `total` and `sinceStart` are history variables.

### ClientLifecycle

`parts` says which of the four constructors made the client, `rest[c]` what a
caller in `Close` has still to close. `Delegate` is a method of the client,
`CloseBegins`, `ClosesPublisher`, `ClosesConsumer` and `ClosesConcurrent` are
`Client.Close`. A step of one object leaves the others alone, but a panic of any
of them ends the process. Whether the go-redis client of a publisher or a pool
is closed is left out: no step depends on it, except that a second `Close`
reports an error; for the consumer, whose recovery and Start fail on a closed
client, it is `client`.

### DelayedScheduler

Members of the sorted sets are `[task, retry, stamp]`: rescheduling changes
`ExecuteAt` in nanoseconds, so it always makes a new member. `Poll` takes any
page of at most `Page` due members (which tasks are due first depends on scores
the properties do not speak of). `Execute...` is the XADD; `Finish`, `Remove`
and `Reschedule`, `Bury` and `RemoveBuried` are the commands after it. `Refused`
tasks are those whose XADD Redis always answers with an error (their stream's
key holds another type); `Undecodable` ones are dropped. A cancelled context
makes every later command of the page fail unexecuted, which is `Crash`.

The refinement to `TaskContract` maps `open` to the tasks of which a member is
in the delayed set, in a page or in somebody's hand, and `parked` to the tasks
among the failed ones.

### Publishing

`Begin` takes the read lock and branches on the deduplicator; `Mark...` is
SETNX; `Send...` is XADD, or ZADD for the delayed calls: the six deduplicated
methods differ only in that command and in how the key is computed. A mark is a
prefix and a key, because `SetDeduplicationConfig` may change the prefix. The
history variable `silent` holds the marks under which nothing was sent since
they were set, whatever an earlier life of the mark sent; `Blocked` are those of
them for which nobody is about to send.

The refinement to `MarkContract` maps the permits of a mark to the number of
calls between SETNX and XADD; locks, goroutines and configuration do not show.

## 3. Runs

| Run | Question | Result |
|---|---|---|
| `CG_recovery` | 2 recovering consumers, 2 messages, 1 fault: is anything acknowledged unhandled (`NoMessageLost`), attempted (`AttemptsBounded`) or copied (`DeadCopiesBounded`) more often than faults and stale pages explain? | holds, 1.3 million states |
| `CG_live` | 2 consumers, 1 reliable and recovering, 1 without recovery, a malformed message, pages of 1, 1 fault, 2 callers that reprocess: is everything settled in the end (`EventuallySettled`), for good (`SettledIsFinal`), does nobody but recovery take up what a reader gave up (`OnlyRecoveryResumes`), is the contract kept (`KeepsDeliveryContract`), is a letter made into one message at most (`OncePerLetter`), and does nothing fall between the two streams (`LineageKept`)? | holds, 190 thousand states |
| `CG_one_handler` | README.md:27: one consumer at a time | violated: recovery claims by idle time alone |
| `CG_dead_failed` | README.md:375: only failing messages are dead-lettered | violated: the decision is as old as the page |
| `CG_retries` | README.md:626 and examples/recovery/consumer/main.go:38: MaxRetries retries before the dead-letter stream | violated: the first delivery counts, and the third attempt the example waits for is never made |
| `LC_life` | all four kinds of client, 2 callers, 2 streams, 2 Starts. Consumer: nothing outlives a Stop (`QuietWhenStopped`), no two generations (`OneGeneration`), subscriptions fixed while a goroutine lives (`HandlersFrozen`), cancelling ends everything unless a Stop waits (`CancelTerminates`). Publisher: no loop outlives a stop (`SchedulerQuiet`), a running scheduler polls (`RunningHasLoop`), `Close` leaves nothing (`CloseLeavesNothing`). Pool: `CountHonest`, `WorkersEnd`. All: only a restart panics (`PanicNeedsRestart`), every call returns unless a recovery holds up a Stop (`CallsReturn`) | holds, 90 thousand states |
| `LC_restart` | consumer.go:97: Start begins consuming | violated after any Stop, also the Stop after a failed Start |
| `LC_deadlock` | examples/recovery/consumer/main.go:118: stopped gracefully | violated: Stop holds the lock recovery needs |
| `DS_schedulers` | 1 reliable scheduler beside another, pages of 1, an undecodable, a refused and a good task, 2 faults: every lost task costs a fault, two if Redis would accept it (`LossNeedsFaults`); publications (`PublicationsBounded`), copies (`CopiesBounded`) and burials (`FailedOnlyWhenExhausted`) are bounded; the contract of tasks is kept (`KeepsTaskContract`); every task is worked off (`EventuallyDrained`) | holds, 0.8 million states |
| `DS_lost` | README.md:184-185: failed tasks are retried or kept | violated by one crash between ZREM and ZADD |
| `PB_race` | 2 publishers with 2 goroutines, 2 keys, 2 prefixes, expiring marks, 2 faults: one message per life of a mark, no blocked key without a fault, Close and reconfiguration between calls only; the contract of marks is kept (`KeepsMarkContract`) | holds, 110 thousand states |
| `PB_original` | publisher.go:97, deduplication.go:114: what is rejected is a duplicate | violated: the mark is set, the XADD fails, and the retry is a duplicate of nothing; `RejectedHasOriginal` asks only about marks whose call got as far as sending |

Bounds. All bounds are CONSTANTS (`MaxMessages`, `MaxFaults`, `MaxRetries`,
`MaxCalls`, ...). Two consumers with recovery have four threads, which is what
a stale page, a concurrent claim and a slow handler take together; one fault
is enough to separate any two commands; with `MaxRetries = 2` a message goes
through first delivery, retry and dead letter. `BatchSize` and `PendingPage`
are both smaller than and equal to the number of messages in different runs.
In `CG_live` one message is published (`MaxPublished`) and two can be made from
its letters: enough for a letter that two callers find, for one that is moved
while recovery adds another, and for a reprocessed message that is malformed and
buried again. `MaxStarts = 2` is no restriction for consumers and schedulers: a
third Start needs a second successful Stop, which panics instead; for the pool
it lets the workers of two Starts overlap, with one worker for each
(`MaxWorkers`) and two rounds of work in all (`MaxRounds`); the loop that spawns
workers is thus run with a bound of none and of one, and a second worker, which
multiplies the states beyond five minutes, only in the theorems. `WithinBounds`
shares callers, Starts and streams evenly among the objects of a client: with
both a publisher and a consumer, each has one caller at a time, one Start and
one stream, beside the concurrency of their goroutines; with one object, all of
them. That overlapping calls of a full client cause no panic either is left to
`PanicOnlyByRestart`. For schedulers, `MaxRetries = 1` lets a task be
refused, rescheduled twice and buried; pages hold one task, so that another can
take its place, and the theorems hold for any page size; the bounds of `LossNeedsFaults`,
`PublicationsBounded` and `CopiesBounded` are all attained. Deadlock checking
is off because each bound lets the system come to rest.

Symmetry is used in runs without liveness only, over consumers, publishers, goroutines and keys that the specification does not tell apart.

Fairness. Goroutines run, Redis answers and handlers return (weak fairness of
each thread of a *reliable* consumer or scheduler); time passes. Nobody is
forced to publish, to call a method or to fail. Fairness of a recoverer is over
the successful and the not-executed steps of its loop together, so a fault may
take the place of a step, but faults are finite. Strong fairness
appears in the lifecycle modules only: Go's `select` picks at random among ready
cases, so a cancelled context or a closed `stopCh` is chosen in the end, and a
page of XPENDING is finite. There one generation of goroutines is alive at a time
(`OneGeneration`, `RunningHasLoop`), so fairness of some generation is fairness
of the living one; the workers of a pool need not be fair to each other, because
the rounds they work are bounded. A call that has begun goes on (weak fairness
of `CallGoesOn`), locks included: a waiting writer is not overtaken by readers,
because new ones are not let in.

Further disagreements met while modelling, which have no run of their own: a
worker of the concurrent consumer that a quick Stop and Start overtake waits on
the new channel and lives on beside the new ones (concurrent_consumer.go:138),
against README.md:114 "Proper worker cleanup on stop" (`TakenBack` in
`WorkerPool`, which `WorkersEnd` leaves out); `GetProcessedInfo` always fails,
since the `%s` of its `Sscanf` takes the colon too (deduplication.go:133), so
the messages at publisher.go:95, :219 and :253 are never made; README.md:709-710 documents `MaxRetries` and `RetryBackoff` of `ConsumerConfig`
as settings for messages, but nothing reads the former and a consumer without
recovery never hands a failed message out again; `EnableRecovery` accepts a
running consumer and starts nothing; a Stop after a restart panics
(`StopPanics` in `ConsumerLifecycle`); `BatchSize` and `MaxRetries` of
`DelayedSchedulerConfig` are ignored in favour of 100 and 3; publisher_test.go
:117-129 still expects `PublishDelayed` not to be implemented;
`ReprocessMultipleDeadLetterMessages` works "atomically" by its comment
(recovery.go:301) but is one transaction after another; `StartScheduler` on a
closed publisher starts a loop over a closed client; a cancelled context ends the
scheduler's loop and leaves `running` set, so that the next `Start` silently does
nothing (delayed_scheduler.go:73, the exception in `RunningHasLoop`); README.md:78
offers the concurrent consumer for consuming, but it never reads a message.

## 4. Proofs

Checked by TLAPS for every value of the constants the assumption of each module
allows (finite sets of processes, positive page sizes, natural bounds):

| Theorem | States |
|---|---|
| `TypeCorrect` | `Spec => []TypeOK` |
| `NothingLost` | `Spec => []NoMessageLost` |
| `RecoveryResumes` | `Spec => OnlyRecoveryResumes` |
| `SettledForGood` | `Spec => SettledIsFinal` |
| `AttemptsAreBounded` | `Spec => []AttemptsBounded` |
| `DeadCopiesAreBounded` | `Spec => []DeadCopiesBounded` |
| `ContractKept` | `Spec => KeepsDeliveryContract`, the refinement |
| `ReprocessedOnce` | `DLSpec => []OncePerLetter` |
| `NothingFallsBetween` | `DLSpec => []LineageKept` |
| `ContractKeptWithReprocessing` | `DLSpec => KeepsDeliveryContract` |
| `LifecycleTyped`, `SchedulerTyped`, `PublishingTyped`, `ReprocessingTyped`, `ClientTyped` | the type invariants of the other modules |
| `StopLeavesNothing`, `OneGenerationOnly` | `Spec => []QuietWhenStopped`, `[]OneGeneration` |
| `HandlersStayFrozen` | `Spec => HandlersFrozen` |
| `ConsumerOfClientQuiet`, `HandlersOfClientFrozen` | the three above for `ClientSpec` |
| `StoppedSchedulerQuiet`, `RunningSchedulerPolls` | `ClientSpec => []SchedulerQuiet`, `[]RunningHasLoop` |
| `ClosedPublisherLeavesNothing` | `ClientSpec => CloseLeavesNothing` |
| `CountStaysHonest` | `ClientSpec => []CountHonest` |
| `PanicOnlyByRestart` | `ClientSpec => []PanicNeedsRestart` |
| `GivenUpWhenExhausted` | `Spec => []FailedOnlyWhenExhausted` |
| `LossesNeedFaults` | `Spec => []LossNeedsFaults` |
| `PublicationsAreBounded` | `Spec => []PublicationsBounded` |
| `CopiesAreBounded` | `Spec => []CopiesBounded` |
| `TaskContractKept` | `Spec => KeepsTaskContract`, the refinement of `TaskContract` |
| `CloseWaits`, `ConfigurationStays` | `Spec => []ClosedIsQuiet`, `[]ConfigurationFixed` |
| `OnceOnly` | `Spec => []OneMessagePerMark` |
| `BlockedOnlyByFaults` | `Spec => []BlockedNeedsFaults` |
| `MarkContractKept` | `Spec => KeepsMarkContract`, the refinement of `MarkContract` |

Seven claims of the documentation are refuted by a run. What is true of five of
them is proved:

| Theorem | What is true | Refuted in general by |
|---|---|---|
| `OneReaderPerMessage` | two readers never handle one message, and no two threads do if no recovery is enabled | `CG_one_handler` |
| `DeadOnlyAfterDeliveries` | a dead-lettered message was delivered `MaxRetries` times, so retried `MaxRetries - 1` times | `CG_retries` |
| `FirstStartConsumes`, `FirstStartOfClientConsumes` | until the first Stop a started consumer has a living reader for every stream, unless its context is cancelled | `LC_restart` |
| `KeptUnlessFaults` | without a fault no task is lost, and one fault loses none that Redis would have accepted | `DS_lost` |
| `RejectedHasOriginalUnlessFaults` | without a fault a rejected call is a duplicate of a message that was sent or is about to be | `PB_original` |

Of the sixth, the deadlock that `LC_deadlock` finds, `DeadlockIsForever` and
`ClientDeadlockIsForever` say that no step of anybody ends it. Of the seventh,
`DeadMeansFailed`, no condition on the configuration is known under which it
would hold: one consumer with recovery and one slow handler break it.

The argument for `ConsumerGroup`:

- `NoMessageLost` is not inductive: nothing in it says why a thread that is
  about to send XACK may do so. `AckJustified` adds that: a thread in "ack" has
  a message some handler succeeded on, one in "dead" a message with a copy.
- `DeliveredBeforeDead`, which `DeadOnlyAfterDeliveries` proves, needs
  `CountsOK`: a count in a snapshot is never above
  the current delivery count, which never falls (the snapshot may be stale, but
  only in the safe direction).
- `AttemptsBounded` needs to know who may still deliver a message.
  `BatchesOK`: what a reader holds was delivered to it alone, for one attempt
  that is still to come. `DeliveriesOK`: the delivery count plus the number of
  recoverers whose snapshot still allows a claim is at most
  `MaxRetries - 1 + |Recoverers|`. A claim adds one delivery and uses up one
  snapshot; a new snapshot that allows a claim is taken only while the count
  is below `MaxRetries`. Without recoverers a message is delivered once.
- `DeadCopiesBounded` counts the recoverers whose snapshot sends the message to
  the dead-letter stream (`CopiesOK`): copies plus such recoverers are at most
  `faults + |Recoverers|`. While the message is pending, the copies not paid for
  by a fault belong to recoverers between XADD and XACK, which take no new
  snapshot.
- `OneReaderPerMessage` is `ReadersApart`: what readers hold, in the batch or
  in the handler, is disjoint and behind the cursor, which XREADGROUP moves past
  whatever it hands out.
- `ContractKept` maps each action to an action of `DeliveryContract` or to a
  stutter, using the invariants above for the guards (bounded attempts, settled
  for a reason, settled once).

The arguments for the other modules:

- `ConsumerLifecycle`: `Lifetimes` says that only the goroutines of the latest
  Start can be alive, that none is while a Start still creates groups, and that
  none is once a Stop has given the lock back. `HandlersFrozen` follows because
  `Subscribe` needs `running` to be false.
- `DeadLetters`: `StillAGroup` says that a step is a step of `ConsumerGroup` or
  leaves its variables alone, which takes every theorem about the group over.
  `OncePerLetter` needs that a letter some message was made from has left the
  stream, and that a caller whose letter is gone was touched; `LineageKept` that
  the copy of a settled message is a letter or an origin.
- `ClientLifecycle`: `StepOfOne` splits every step into a step of one object or
  a step of none, so that an invariant of each object is proved over its own
  steps only and survives the others'. `LoopLifetime` does for the scheduler's
  loop what `Lifetimes` does for the consumer. `CountsOK` adds to `CountHonest`
  that the count a worker has read and not written lies within the same bounds,
  and that one worker at a time holds one. `PanicsOK` relates the flag, the
  channel and the number of Starts of each object: both "running" and "channel
  closed" need two Starts. `CallsOwned` gives the rest of `ClientTypeOK`.
- `DelayedScheduler`: `RetriesEarned` says of every member, in the sets, in a
  page or in a scheduler's hand, that its retry count is at most the number of
  reschedules of its task, and of every scheduler that it retries only what has
  retries left. `LossesPaid` counts two sets of tasks that a fault is spent on:
  `FailedOnce`, whose execution failed though Redis would have accepted it, and
  `Unkept`, whose member was removed, or is about to be, without a successor or
  a burial. A step without a fault enlarges neither, a fault one of them by one
  task; a lost task is in `Unkept`, and in `FailedOnce` too unless refused.
  `PublicationsPaid` counts for each task the publications made, the pairs of a
  scheduler and a member it has yet to take, and `N` for each scheduler about to
  reschedule, whose new member all `N` of them may publish. `N * (1 + faults)` is
  granted; an execution uses a pair up, and a fault pays for a new member.
  `CopiesBounded` needs what no variable remembers: which schedulers rescheduled
  the ancestors of a member. The invariant says that lists of `MaxRetries`
  schedulers can be assigned to the members (`Traced`) such that the lists of
  any two members of a task differ within both their retry counts, and go on to
  differ when whoever may still reschedule one of them puts its name at the next
  place. Without faults nothing else makes members (`FaultlessOK`,
  `NewOnesHidden`), so there are no more of them than lists. Lists instead of a
  power spare an induction; and the proof showed that the bound needs a scheduler
  to exist, since without one tasks are scheduled all the same.
  `TaskContractKept` uses `LossNeedsFaults` for the tasks that vanish, and
  `Decoded`: whatever is in a scheduler's hand was decoded.
- `Publishing`: `LivesUsedOnce` says that messages sent for a mark plus calls
  that passed its SETNX and have not sent yet are at most the lives the mark has
  had. SETNX begins a life and makes one sender; a sender sends once or fails.
  `BlockedNeedsFaults` is inductive as it stands: a mark gets blocked when its
  sender fails, and one crash takes at most the goroutines of one publisher.
  `RejectedHasOriginalUnlessFaults` adds `Spoken`: a mark that is not silent has
  a message.
  `MarkContractKept` follows what each step does to the number of senders of
  every mark: one more with SETNX, one less with XADD, fewer with a fault.

Only model-checked: everything under fairness (`EventuallySettled`,
`EventuallyDrained`, `CancelTerminates`, `WorkersEnd`, `CallsReturn`), which is
out of the prover's reach. Every other property of a passing run is a theorem.

## 5. Not modelled, and why

- Contents and formats of messages, hashing, logging, configuration parsing.
- go-redis retries commands by itself on network errors; such a retry of XADD
  after a lost reply adds the message twice. The models take a command as sent
  once; the duplicates they show are those of this library's own code.
- Trimming of streams: the library never trims, so XRANGE finds every entry.
- Statistics and the read-only queries: no state depends on them.
- `IsDuplicate` and `MarkAsProcessed` of the deduplicator: nothing in the library
  calls them.
- The key functions: they hash stream, data and fields without separators, so
  different messages can share a key (deduplication.go:63). A key is a model
  value, and what two messages with one key may expect is what `Publishing` shows.
- Several groups on one stream: a reprocessed message reaches all of them, also
  those that had handled it. One group is modelled; to another it is a new
  message.
- XADD failing inside EXEC, when the key of the original stream has become
  another type: Redis runs XDEL all the same (recovery.go:279).
- Two tasks scheduled in one nanosecond with equal contents, which would be one
  member of the sorted set: task ids are distinct.
- `EnableRecovery` on a running consumer replaces `c.recovery` while the recovery
  goroutine reads it without the lock: which configuration it runs with is not
  modelled.
- Types, errors, configuration, generated code and the examples.

## 6. What is left

1. An end-to-end composition of `Publishing`, `DelayedScheduler` and
   `ConsumerGroup`, from a publisher's call to the handler. Its safety follows
   from the bounds of the parts, which share nothing but the stream; the product
   of their states is beyond one TLC run with faults in each.
2. Several groups over one stream and one dead-letter stream.

---------------------------- MODULE ConsumerGroup ----------------------------
(***************************************************************************)
(* One Redis stream read by one consumer group of RedisConsumer instances  *)
(* (consumer.go), some of which also run MessageRecovery (recovery.go).    *)
(*                                                                         *)
(* Every consumer runs two threads that share nothing but Redis:           *)
(*   - the reader, consumeStream: XREADGROUP a batch, then for each        *)
(*     message decode it, call the handler, XACK it if the handler         *)
(*     succeeded;                                                          *)
(*   - the recoverer, recoverPendingMessages: take a snapshot of the       *)
(*     pending entries, then for each entry that was idle long enough      *)
(*     either XCLAIM it and call the handler, or, when it was delivered    *)
(*     MaxRetries times, copy it to the dead-letter stream and XACK it.    *)
(*                                                                         *)
(* A step is one command sent to Redis or one return of the handler: every *)
(* interleaving of the threads between two commands is a behaviour.  A     *)
(* command may fail in two ways the caller cannot tell apart: it was not   *)
(* executed, or it was and the reply was lost.                             *)
(*                                                                         *)
(* Definitions marked "Mutant" are no part of the specification: each is   *)
(* the next definition with a plausible mistake in it, for showing that a  *)
(* property notices the mistake.                                           *)
(***************************************************************************)
EXTENDS Integers, FiniteSets

CONSTANTS
  Consumers,    \* consumer names of the group
  Recoverers,   \* the consumers on which EnableRecovery was called
  Reliable,     \* the consumers that keep running (liveness only)
  Malformed,    \* messages the handler's type cannot decode
  BatchSize,    \* ConsumerConfig.BatchSize
  PendingPage,  \* Count of XPENDING, 100 in the code
  MaxRetries,   \* RecoveryConfig.MaxRetries
  MaxMessages,  \* bound: messages ever published
  MaxFaults     \* bound: failed commands and crashes

Messages == 1..MaxMessages   \* stream entry ids, in stream order
None     == 0                \* no message

ASSUME ConstantsAssumption ==
  /\ IsFiniteSet(Consumers)
  /\ Recoverers \subseteq Consumers
  /\ Reliable \subseteq Consumers
  /\ MaxMessages \in Nat
  /\ Malformed \subseteq Messages
  /\ BatchSize \in Nat \ {0}
  /\ PendingPage \in Nat \ {0}
  /\ MaxRetries \in Nat \ {0}
  /\ MaxFaults \in Nat

Readers        == Consumers \X {"reader"}
RecoverThreads == Recoverers \X {"recovery"}
Threads        == Readers \cup RecoverThreads

VARIABLES
  added,          \* entries XADDed so far: the stream is 1..added
  lastDelivered,  \* the group's last-delivered id
  pending,        \* the group's pending entries list
  idle,           \* pending entries not delivered for at least IdleTime
  deliveries,     \* delivery count of each entry
  dead,           \* how many entries of the dead-letter stream copy a message
  batch,          \* what a reader got from XREADGROUP and has not started
  seen,           \* snapshot of a recoverer: the delivery count of each entry
                  \* it has still to look at, 0 for the others
  pc,             \* where a thread is
  cur,            \* the message a thread works on, None in its loop
  attempts,       \* history: handler calls per message
  handled,        \* history: messages some handler call succeeded on
  faults          \* faults injected so far

redis   == <<added, lastDelivered, pending, idle, deliveries, dead>>
history == <<attempts, handled>>
vars    == <<redis, batch, seen, pc, cur, history, faults>>

TypeOK ==
  /\ added \in 0..MaxMessages
  /\ lastDelivered \in 0..added
  /\ pending \subseteq 1..lastDelivered
  /\ idle \subseteq pending
  /\ deliveries \in [Messages -> Nat]
  /\ dead \in [Messages -> Nat]
  /\ batch \in [Readers -> SUBSET Messages]
  /\ seen \in [RecoverThreads -> [Messages -> Nat]]
  /\ pc \in [Threads -> {"loop", "handle", "ack", "dead"}]
  /\ cur \in [Threads -> Messages \cup {None}]
  /\ \A t \in Threads : cur[t] = None <=> pc[t] = "loop"
  /\ attempts \in [Messages -> Nat]
  /\ handled \subseteq Messages
  /\ faults \in 0..MaxFaults

Nothing == [m \in Messages |-> 0]

Init ==
  /\ added = 0
  /\ lastDelivered = 0
  /\ pending = {}
  /\ idle = {}
  /\ deliveries = Nothing
  /\ dead = Nothing
  /\ batch = [t \in Readers |-> {}]
  /\ seen = [t \in RecoverThreads |-> Nothing]
  /\ pc = [t \in Threads |-> "loop"]
  /\ cur = [t \in Threads |-> None]
  /\ attempts = Nothing
  /\ handled = {}
  /\ faults = 0

-----------------------------------------------------------------------------
(* Redis and the environment. *)

Fault == faults < MaxFaults /\ faults' = faults + 1

First(m, S) == m \in S /\ \A n \in S : m <= n

(* XADD of a new message by some publisher. *)
Publish ==
  /\ added < MaxMessages
  /\ added' = added + 1
  /\ UNCHANGED <<lastDelivered, pending, idle, deliveries, dead, batch, seen,
                 pc, cur, history, faults>>

(* A pending entry has not been delivered for IdleTime. *)
IdleTimePasses(m) ==
  /\ m \in pending \ idle
  /\ idle' = idle \cup {m}
  /\ UNCHANGED <<added, lastDelivered, pending, deliveries, dead, batch, seen,
                 pc, cur, history, faults>>

(* What XREADGROUP ">" COUNT BatchSize delivers, in stream order. *)
Undelivered ==
  {m \in Messages : /\ lastDelivered < m /\ m <= added
                    /\ m <= lastDelivered + BatchSize}

(* Mutant: the cursor moves by a whole batch, past the end of the stream. *)
XReadGroupOvershoots ==
  /\ Undelivered # {}
  /\ lastDelivered' = lastDelivered + BatchSize
  /\ pending' = pending \cup Undelivered
  /\ UNCHANGED <<added, idle, deliveries, dead>>

XReadGroup ==
  /\ Undelivered # {}
  /\ lastDelivered' = IF lastDelivered + BatchSize <= added
                      THEN lastDelivered + BatchSize ELSE added
  /\ pending' = pending \cup Undelivered
  /\ deliveries' = [m \in Messages |-> IF m \in Undelivered
                                       THEN 1 ELSE deliveries[m]]
  /\ UNCHANGED <<added, idle, dead>>

(* Mutant: FORCE, an acknowledged entry is claimed as well.                *)
XClaimForced(m) ==
  /\ pending' = pending \cup {m}
  /\ deliveries' = [deliveries EXCEPT ![m] = @ + 1]
  /\ idle' = idle \ {m}
  /\ UNCHANGED <<added, lastDelivered, dead>>

(* XCLAIM with MinIdle 0: only an entry that is still pending is claimed; *)
(* it counts as a delivery and restarts the idle time.                     *)
XClaim(m) ==
  /\ m \in pending
  /\ deliveries' = [deliveries EXCEPT ![m] = @ + 1]
  /\ idle' = idle \ {m}
  /\ UNCHANGED <<added, lastDelivered, pending, dead>>

XAck(m) ==
  /\ pending' = pending \ {m}
  /\ idle' = idle \ {m}
  /\ UNCHANGED <<added, lastDelivered, deliveries, dead>>

XAddDead(m) ==
  /\ dead' = [dead EXCEPT ![m] = @ + 1]
  /\ UNCHANGED <<added, lastDelivered, pending, idle, deliveries>>

-----------------------------------------------------------------------------
(* Decoding and calling the handler, the same code in both threads.       *)

Goto(t, where, m) ==
  /\ pc' = [pc EXCEPT ![t] = where]
  /\ cur' = [cur EXCEPT ![t] = m]

(* Mutant: a message that cannot be decoded is acknowledged and dropped.  *)
CallHandlerDropsMalformed(t, m) ==
  IF m \in Malformed
  THEN Goto(t, "ack", m) /\ UNCHANGED history
  ELSE /\ Goto(t, "handle", m)
       /\ attempts' = [attempts EXCEPT ![m] = @ + 1]
       /\ UNCHANGED handled

CallHandler(t, m) ==
  IF m \in Malformed
  THEN UNCHANGED <<pc, cur, history>>
  ELSE /\ Goto(t, "handle", m)
       /\ attempts' = [attempts EXCEPT ![m] = @ + 1]
       /\ UNCHANGED handled

HandlerSucceeds(t) ==
  /\ pc[t] = "handle"
  /\ Goto(t, "ack", cur[t])
  /\ handled' = handled \cup {cur[t]}
  /\ UNCHANGED <<redis, batch, seen, attempts, faults>>

(* Mutant: the message is acknowledged whatever the handler returned.     *)
HandlerFailsButAcks(t) ==
  /\ pc[t] = "handle"
  /\ Goto(t, "ack", cur[t])
  /\ UNCHANGED <<redis, batch, seen, history, faults>>

(* A failed message is not acknowledged: it stays pending. *)
HandlerFails(t) ==
  /\ pc[t] = "handle"
  /\ Goto(t, "loop", None)
  /\ UNCHANGED <<redis, batch, seen, history, faults>>

(* Mutant: the acknowledgement covers the messages before it as well.     *)
AckUpTo(t) ==
  /\ pc[t] \in {"ack", "dead"}
  /\ pending' = {m \in pending : m > cur[t]}
  /\ idle' = {m \in idle : m > cur[t]}
  /\ Goto(t, "loop", None)
  /\ UNCHANGED <<added, lastDelivered, deliveries, dead, batch, seen, history,
                 faults>>

(* An error of XACK is only logged, so a lost reply makes no difference. *)
Ack(t) ==
  /\ pc[t] \in {"ack", "dead"}
  /\ XAck(cur[t])
  /\ Goto(t, "loop", None)
  /\ UNCHANGED <<batch, seen, history, faults>>

AckFails(t) ==
  /\ pc[t] \in {"ack", "dead"}
  /\ Fault
  /\ Goto(t, "loop", None)
  /\ UNCHANGED <<redis, batch, seen, history>>

-----------------------------------------------------------------------------
(* The reader: consumeStream. *)

Read(t) ==
  /\ pc[t] = "loop" /\ batch[t] = {}
  /\ XReadGroup
  /\ batch' = [batch EXCEPT ![t] = Undelivered]
  /\ UNCHANGED <<seen, pc, cur, history, faults>>

(* The group moved on, but the reader never got the messages. *)
ReadReplyLost(t) ==
  /\ pc[t] = "loop" /\ batch[t] = {}
  /\ Fault
  /\ XReadGroup
  /\ UNCHANGED <<batch, seen, pc, cur, history>>

ProcessNext(t) ==
  /\ pc[t] = "loop"
  /\ \E m \in Messages :
       /\ First(m, batch[t])
       /\ batch' = [batch EXCEPT ![t] = @ \ {m}]
       /\ CallHandler(t, m)
  /\ UNCHANGED <<redis, seen, faults>>

-----------------------------------------------------------------------------
(* The recoverer: recoverPendingMessages. *)

(* The entries the XPENDING page lists that have been idle long enough. *)
Claimable ==
  {m \in idle : Cardinality({n \in pending : n < m}) < PendingPage}

Todo(t) == {m \in Messages : seen[t][m] > 0}

Scan(t) ==
  /\ pc[t] = "loop" /\ Todo(t) = {}
  /\ Claimable # {}
  /\ seen' = [seen EXCEPT ![t] = [m \in Messages |->
                 IF m \in Claimable THEN deliveries[m] ELSE 0]]
  /\ UNCHANGED <<redis, batch, pc, cur, history, faults>>

(* The recoverer takes the next entry of its snapshot. *)
Take(t, m) ==
  /\ pc[t] = "loop"
  /\ First(m, Todo(t))
  /\ seen' = [seen EXCEPT ![t][m] = 0]
  /\ UNCHANGED batch

(* Mutants: comparisons that are off by one.                              *)
MayRetryOnceMore(t, m)    == seen[t][m] <= MaxRetries
ExhaustedStrictly(t, m)   == seen[t][m] > MaxRetries

MayRetry(t, m)  == seen[t][m] < MaxRetries
Exhausted(t, m) == seen[t][m] >= MaxRetries

Claim(t, m) ==
  /\ Take(t, m) /\ MayRetry(t, m)
  /\ XClaim(m)
  /\ CallHandler(t, m)
  /\ UNCHANGED faults

(* The entry was acknowledged since the snapshot: nothing is claimed. *)
ClaimNothing(t, m) ==
  /\ Take(t, m) /\ MayRetry(t, m)
  /\ m \notin pending
  /\ UNCHANGED <<redis, pc, cur, history, faults>>

ClaimReplyLost(t, m) ==
  /\ Take(t, m) /\ MayRetry(t, m)
  /\ Fault
  /\ XClaim(m)
  /\ UNCHANGED <<pc, cur, history>>

(* Mutant: the message is copied but not acknowledged.                    *)
DeadLetterUnacknowledged(t, m) ==
  /\ Take(t, m) /\ Exhausted(t, m)
  /\ XAddDead(m)
  /\ UNCHANGED <<pc, cur, history, faults>>

(* moveToDeadLetter: XRANGE and XADD; the XACK is Ack. *)
DeadLetter(t, m) ==
  /\ Take(t, m) /\ Exhausted(t, m)
  /\ XAddDead(m)
  /\ Goto(t, "dead", m)
  /\ UNCHANGED <<history, faults>>

DeadLetterReplyLost(t, m) ==
  /\ Take(t, m) /\ Exhausted(t, m)
  /\ Fault
  /\ XAddDead(m)
  /\ UNCHANGED <<pc, cur, history>>

(* XCLAIM was not executed: on to the next entry. *)
ClaimFails(t, m) ==
  /\ Take(t, m) /\ MayRetry(t, m)
  /\ Fault
  /\ UNCHANGED <<redis, pc, cur, history>>

(* XRANGE or XADD was not executed: on to the next entry. *)
DeadLetterFails(t, m) ==
  /\ Take(t, m) /\ Exhausted(t, m)
  /\ Fault
  /\ UNCHANGED <<redis, pc, cur, history>>

-----------------------------------------------------------------------------
(* The process of a consumer dies, with both its threads; a new one is    *)
(* started under the same name and reads new messages only (">").         *)
Crash(c) ==
  /\ Fault
  /\ batch' = [t \in Readers |-> IF t[1] = c THEN {} ELSE batch[t]]
  /\ seen' = [t \in RecoverThreads |-> IF t[1] = c THEN Nothing ELSE seen[t]]
  /\ pc' = [t \in Threads |-> IF t[1] = c THEN "loop" ELSE pc[t]]
  /\ cur' = [t \in Threads |-> IF t[1] = c THEN None ELSE cur[t]]
  /\ UNCHANGED <<redis, history>>

HandlerStep(t) == HandlerSucceeds(t) \/ HandlerFails(t)

AckStep(t) == Ack(t) \/ AckFails(t)

ReaderStep(t) == Read(t) \/ ReadReplyLost(t) \/ ProcessNext(t)

RecoverStep(t, m) ==
  \/ Claim(t, m)
  \/ ClaimNothing(t, m)
  \/ ClaimReplyLost(t, m)
  \/ ClaimFails(t, m)
  \/ DeadLetter(t, m)
  \/ DeadLetterReplyLost(t, m)
  \/ DeadLetterFails(t, m)

Next ==
  \/ Publish
  \/ \E m \in Messages : IdleTimePasses(m)
  \/ \E t \in Threads : HandlerStep(t) \/ AckStep(t)
  \/ \E t \in Readers : ReaderStep(t)
  \/ \E t \in RecoverThreads :
       Scan(t) \/ \E m \in Messages : RecoverStep(t, m)
  \/ \E c \in Consumers : Crash(c)

Spec == Init /\ [][Next]_vars

(* The goroutines of a reliable consumer keep running, its handler        *)
(* returns, and time passes.  Faults and publishing are not forced.       *)
Fairness ==
  /\ \A m \in Messages : WF_vars(IdleTimePasses(m))
  /\ \A t \in Threads : t[1] \in Reliable =>
       WF_vars(HandlerStep(t) \/ AckStep(t))
  /\ \A t \in Readers : t[1] \in Reliable => WF_vars(Read(t) \/ ProcessNext(t))
  /\ \A t \in RecoverThreads : t[1] \in Reliable =>
       WF_vars(Scan(t) \/ \E m \in Messages : RecoverStep(t, m))

FairSpec == Spec /\ Fairness

-----------------------------------------------------------------------------
(* Properties. *)

Settled == (1..lastDelivered) \ pending   \* acknowledged messages

(* At-least-once: a message leaves the pending list only after a handler  *)
(* call succeeded on it or a copy of it is in the dead-letter stream,     *)
(* whatever crashes and whichever replies are lost.                       *)
NoMessageLost == \A m \in Settled : m \in handled \/ dead[m] > 0

(* How many times a message can be delivered.  MaxRetries is compared     *)
(* with the count of a snapshot, so every recoverer may hold one that is  *)
(* out of date and claim once more.                                       *)
MaxDeliveries ==
  IF Recoverers = {} THEN 1 ELSE MaxRetries - 1 + Cardinality(Recoverers)

(* The handler is never called on a message more often than that, nor     *)
(* more often than Redis counted a delivery: a restarted or a slow        *)
(* consumer does not call it again for the same delivery.                 *)
AttemptsBounded ==
  \A m \in Messages : /\ attempts[m] <= deliveries[m]
                      /\ deliveries[m] <= MaxDeliveries

(* Copies in the dead-letter stream: one per recoverer that held a         *)
(* snapshot of the exhausted message, one more per fault.                  *)
DeadCopiesBounded ==
  \A m \in Messages : dead[m] <= Cardinality(Recoverers) + faults

(* An acknowledged message is never delivered again: a claim made on an   *)
(* out-of-date snapshot gets nothing.                                     *)
SettledIsFinal ==
  [][\A m \in Settled : m \in Settled' /\ deliveries'[m] = deliveries[m]]_vars

(* An entry that is pending and with nobody: its handler failed, it cannot *)
(* be decoded, a command failed or a process died.                         *)
Abandoned(m) ==
  /\ m \in pending
  /\ \A t \in Threads : cur[t] # m
  /\ \A t \in Readers : m \notin batch[t]

(* The reader only prints the error of a failed message: nobody but a      *)
(* recoverer that has the entry in its page takes up an abandoned message, *)
(* and it stays pending until one does.                                    *)
OnlyRecoveryResumes ==
  [][\A m \in Messages :
       Abandoned(m) => Abandoned(m)' \/ \E t \in RecoverThreads : m \in Todo(t)]_vars

(* The group implements the delivery contract: every step of it is a      *)
(* publish, an attempt, a success, a burial or a settlement there, or     *)
(* changes nothing the contract speaks of.                                *)
Contract == INSTANCE DeliveryContract WITH
  MaxAttempts <- MaxDeliveries,
  published   <- 1..added,
  settled     <- Settled

KeepsDeliveryContract == Contract!CSpec

(* With recovery on a consumer that keeps running, every published        *)
(* message is eventually acknowledged, whatever its handler answers.      *)
EventuallySettled ==
  \A m \in Messages : (m <= added) ~> (m \in Settled)

-----------------------------------------------------------------------------
(* What the documentation says and the code does not do. *)

(* README.md:27: "Each message is delivered to only one consumer within a *)
(* consumer group".  Recovery claims by idle time alone, so a message     *)
(* whose handler is still running is handed to a second thread.           *)
OneHandlerAtATime ==
  \A t, u \in Threads :
    (pc[t] = "handle" /\ pc[u] = "handle" /\ cur[t] = cur[u]) => t = u

(* README.md:375 has the dead-letter queue behind "still failing".  The   *)
(* copy is made from a snapshot, without asking whether the message was   *)
(* acknowledged in the meantime.                                          *)
DeadMeansFailed == \A m \in Messages : dead[m] > 0 => m \notin handled

(* The handler was called for every delivery of m and has failed each time. *)
FailedEachTime(m) ==
  /\ attempts[m] = deliveries[m]
  /\ m \notin handled
  /\ \A t \in Threads : pc[t] = "handle" => cur[t] # m

(* README.md:626: "Max 3 retries before dead letter", with MaxRetries 3;   *)
(* examples/recovery/consumer/main.go:38 says the same of 2, and has a     *)
(* handler that succeeds in its third attempt: MaxRetries retries after a  *)
(* first attempt.  recovery.go:125 compares MaxRetries with the delivery   *)
(* count, which includes the first, and the last retry is never made.      *)
RetriedBeforeDead ==
  \A m \in Messages :
    dead[m] > 0 /\ FailedEachTime(m) => attempts[m] - 1 >= MaxRetries

=============================================================================

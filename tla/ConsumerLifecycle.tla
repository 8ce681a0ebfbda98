-------------------------- MODULE ConsumerLifecycle --------------------------
(***************************************************************************)
(* The life of one RedisConsumer object (consumer.go): Subscribe, Start,   *)
(* Stop, Close and EnableRecovery called from several goroutines, the      *)
(* reader goroutine of each stream, and the recovery goroutine of          *)
(* recovery.go, which calls back into the consumer.                        *)
(*                                                                         *)
(* They share the write lock c.mu, the flag running, the channel stopCh,   *)
(* which is made once and closed by Stop, the wait group, and the context  *)
(* given to Start.  A step is what one goroutine does between two points   *)
(* where it can block: acquiring c.mu, waiting for the wait group, a call  *)
(* to Redis, a call of the handler.  A critical section without such a     *)
(* point is one step that needs c.mu free.                                 *)
(*                                                                         *)
(* Definitions marked "Mutant" are no part of the specification: each is   *)
(* the next definition with a plausible mistake in it.                     *)
(***************************************************************************)
EXTENDS GoProcess

CONSTANTS
  Streams,         \* streams there are handlers for
  Free             \* nobody holds c.mu

ASSUME LifecycleAssumption == Free \notin Callers

VARIABLES
  mu,         \* who holds the write lock c.mu
  call,       \* the blocking call a caller is in
  handlers,   \* streams with a handler
  running,    \* c.running
  stopClosed, \* stopCh is closed
  recovery,   \* c.recovery # nil
  starts,     \* generations so far
  outcome,    \* what the latest Start returned
  cancelled,  \* generations whose context is cancelled
  reader,     \* consumeStream: a goroutine per generation and stream
  recoverer,  \* StartRecovery: a goroutine per generation
  client      \* the Redis client is open

fields     == <<handlers, running, stopClosed, recovery, client>>
goroutines == <<reader, recoverer>>
lifeVars   == <<mu, call, fields, starts, outcome, cancelled, goroutines>>
vars       == <<lifeVars, panicked>>

(* Where a goroutine is: a reader selects or works on a batch; a recoverer *)
(* selects, recovers a page, wants c.mu to find the handler of a claimed   *)
(* message, or runs the handler.                                           *)
Live == {"select", "work", "claimed", "handling"}

TypeOK ==
  /\ mu \in Callers \cup {Free}
  /\ call \in [Callers -> {"none", "starting", "stopping", "closing", "stopped"}]
  /\ \A c \in Callers : call[c] \in {"starting", "stopping", "closing"} <=> mu = c
  /\ handlers \subseteq Streams
  /\ running \in BOOLEAN /\ stopClosed \in BOOLEAN /\ recovery \in BOOLEAN
  /\ client \in BOOLEAN /\ panicked \in BOOLEAN
  /\ starts \in 0..MaxStarts
  /\ outcome \in {"none", "ok", "failed"}
  /\ cancelled \subseteq 1..starts
  /\ reader \in [Generations -> [Streams -> {"none", "select", "work", "gone"}]]
  /\ recoverer \in [Generations -> {"none", "gone"} \cup Live]

Init ==
  /\ mu = Free
  /\ call = [c \in Callers |-> "none"]
  /\ handlers = {}
  /\ running = FALSE
  /\ stopClosed = FALSE
  /\ recovery = FALSE
  /\ client = TRUE
  /\ starts = 0
  /\ outcome = "none"
  /\ cancelled = {}
  /\ reader = [g \in Generations |-> [s \in Streams |-> "none"]]
  /\ recoverer = [g \in Generations |-> "none"]
  /\ panicked = FALSE

ReadersGone(g) == \A s \in Streams : reader[g][s] \notin Live
Gone(g)        == ReadersGone(g) /\ recoverer[g] \notin Live
AllGone        == \A g \in Generations : Gone(g)

-----------------------------------------------------------------------------
(* The methods. *)

Enter(c) == call[c] = "none" /\ mu = Free /\ ~panicked

(* Mutant: a consumer that is running accepts subscriptions.              *)
SubscribeAnytime(c, s) ==
  /\ Enter(c)
  /\ handlers' = handlers \cup {s}
  /\ UNCHANGED <<mu, call, running, stopClosed, recovery, client, starts,
                 outcome, cancelled, goroutines, panicked>>

(* Subscribe is refused while the consumer is running.                    *)
Subscribe(c, s) ==
  /\ Enter(c) /\ ~running
  /\ handlers' = handlers \cup {s}
  /\ UNCHANGED <<mu, call, running, stopClosed, recovery, client, starts,
                 outcome, cancelled, goroutines, panicked>>

EnableRecovery(c) ==
  /\ Enter(c)
  /\ recovery' = TRUE
  /\ UNCHANGED <<mu, call, handlers, running, stopClosed, client, starts,
                 outcome, cancelled, goroutines, panicked>>

(* Mutant: the check of running is dropped.                               *)
StartBeginsAgain(c) ==
  /\ Enter(c) /\ handlers # {}
  /\ starts < MaxStarts
  /\ mu' = c
  /\ call' = [call EXCEPT ![c] = "starting"]
  /\ running' = TRUE
  /\ starts' = starts + 1
  /\ UNCHANGED <<handlers, stopClosed, recovery, client, outcome, cancelled,
                 goroutines, panicked>>

(* Start holds c.mu while it creates the consumer groups, a call to Redis *)
(* for each stream.                                                       *)
StartBegins(c) ==
  /\ Enter(c) /\ ~running /\ handlers # {}
  /\ starts < MaxStarts
  /\ mu' = c
  /\ call' = [call EXCEPT ![c] = "starting"]
  /\ running' = TRUE
  /\ starts' = starts + 1
  /\ UNCHANGED <<handlers, stopClosed, recovery, client, outcome, cancelled,
                 goroutines, panicked>>

Leave(c) == mu' = Free /\ call' = [call EXCEPT ![c] = "none"]

(* Mutant: the error return skips the unlock.                             *)
StartFailsLocked(c) ==
  /\ call[c] = "starting" /\ ~panicked
  /\ call' = [call EXCEPT ![c] = "none"]
  /\ outcome' = "failed"
  /\ UNCHANGED <<mu, fields, starts, cancelled, goroutines, panicked>>

(* Some group cannot be created: running stays set.                       *)
StartFails(c) ==
  /\ call[c] = "starting" /\ ~panicked
  /\ Leave(c)
  /\ outcome' = "failed"
  /\ UNCHANGED <<fields, starts, cancelled, goroutines, panicked>>

StartSpawns(c) ==
  /\ call[c] = "starting" /\ ~panicked /\ client
  /\ Leave(c)
  /\ outcome' = "ok"
  /\ reader' = [reader EXCEPT ![starts] =
                  [s \in Streams |-> IF s \in handlers THEN "select" ELSE "none"]]
  /\ recoverer' = [recoverer EXCEPT ![starts] =
                     IF recovery THEN "select" ELSE "none"]
  /\ UNCHANGED <<fields, starts, cancelled, panicked>>

Stopping(c) == call[c] \in {"stopping", "closing"}

(* Stop closes stopCh and waits for the goroutines with c.mu in its hands. *)
(* Close is Stop ("closing") and then, without c.mu, the closing of the    *)
(* client ("stopped").                                                     *)
StopBegins(c, kind) ==
  /\ Enter(c) /\ running /\ ~stopClosed
  /\ mu' = c
  /\ call' = [call EXCEPT ![c] = kind]
  /\ running' = FALSE
  /\ stopClosed' = TRUE
  /\ UNCHANGED <<handlers, recovery, client, starts, outcome, cancelled,
                 goroutines, panicked>>

(* Mutant: the check of running is dropped.                               *)
StopPanicsAgain(c) ==
  /\ Enter(c) /\ stopClosed
  /\ running' = FALSE
  /\ panicked' = TRUE
  /\ UNCHANGED <<mu, call, handlers, stopClosed, recovery, client, starts,
                 outcome, cancelled, goroutines>>

(* close(stopCh) of a channel that an earlier Stop closed.                *)
StopPanics(c) ==
  /\ Enter(c) /\ running /\ stopClosed
  /\ running' = FALSE
  /\ panicked' = TRUE
  /\ UNCHANGED <<mu, call, handlers, stopClosed, recovery, client, starts,
                 outcome, cancelled, goroutines>>

Unwait(c) ==
  /\ mu' = Free
  /\ call' = [call EXCEPT ![c] = IF @ = "closing" THEN "stopped" ELSE "none"]
  /\ UNCHANGED <<fields, starts, outcome, cancelled, goroutines, panicked>>

(* Mutant: the wait for the goroutines is dropped.                        *)
StopReturnsAtOnce(c) == Stopping(c) /\ ~panicked /\ Unwait(c)

StopReturns(c) == Stopping(c) /\ ~panicked /\ AllGone /\ Unwait(c)

(* Close of a consumer that is not running: its Stop does nothing.        *)
CloseIdle(c) ==
  /\ Enter(c) /\ ~running /\ client
  /\ call' = [call EXCEPT ![c] = "stopped"]
  /\ UNCHANGED <<mu, fields, starts, outcome, cancelled, goroutines, panicked>>

CloseClient(c) ==
  /\ call[c] = "stopped" /\ ~panicked
  /\ client' = FALSE
  /\ call' = [call EXCEPT ![c] = "none"]
  /\ UNCHANGED <<mu, handlers, running, stopClosed, recovery, starts, outcome,
                 cancelled, goroutines, panicked>>

(* The application cancels the context it gave to a Start.                *)
Cancel(g) ==
  /\ g \in 1..starts /\ g \notin cancelled /\ ~panicked
  /\ cancelled' = cancelled \cup {g}
  /\ UNCHANGED <<mu, call, fields, starts, outcome, goroutines, panicked>>

-----------------------------------------------------------------------------
(* The goroutines. *)

StepReader(g, s, from, to) ==
  /\ reader[g][s] = from /\ ~panicked
  /\ reader' = [reader EXCEPT ![g][s] = to]
  /\ UNCHANGED <<mu, call, fields, starts, outcome, cancelled, recoverer,
                 panicked>>

(* Mutant: the case of stopCh is forgotten.                               *)
ReaderExitsOnCancel(g, s) ==
  /\ g \in cancelled
  /\ StepReader(g, s, "select", "gone")

ReaderExits(g, s) ==
  /\ g \in cancelled \/ stopClosed
  /\ StepReader(g, s, "select", "gone")

ReaderReads(g, s) ==
  /\ ~ (g \in cancelled \/ stopClosed)
  /\ StepReader(g, s, "select", "work")

(* XREADGROUP returned, and the handler on whatever it returned.          *)
ReaderLoops(g, s) == StepReader(g, s, "work", "select")

StepRecoverer(g, from, to) ==
  /\ recoverer[g] = from /\ ~panicked
  /\ recoverer' = [recoverer EXCEPT ![g] = to]
  /\ UNCHANGED <<mu, call, fields, starts, outcome, cancelled, reader,
                 panicked>>

(* Mutant: recovery waits for stopCh instead of the context.              *)
RecovererExitsOnStop(g) == stopClosed /\ StepRecoverer(g, "select", "gone")

(* StartRecovery selects between the context and its ticker, stopCh is not *)
(* among the cases; when both are ready either may be chosen.              *)
RecovererExits(g) == g \in cancelled /\ StepRecoverer(g, "select", "gone")

RecovererTicks(g) == StepRecoverer(g, "select", "work")

RecovererClaims(g) ==
  /\ g \notin cancelled /\ client
  /\ StepRecoverer(g, "work", "claimed")

(* The page is done, or a command failed.                                 *)
RecovererRests(g) == StepRecoverer(g, "work", "select")

(* ProcessMessage takes the read lock of c.mu to look up the handler.     *)
RecovererCallsHandler(g) ==
  /\ mu = Free
  /\ StepRecoverer(g, "claimed", "handling")

RecovererHandled(g) == StepRecoverer(g, "handling", "work")

-----------------------------------------------------------------------------
CallReturns(c) ==
  StartFails(c) \/ StartSpawns(c) \/ StopReturns(c) \/ CloseClient(c)

ReaderStep(g, s) == ReaderExits(g, s) \/ ReaderReads(g, s) \/ ReaderLoops(g, s)

RecovererStep(g) ==
  \/ RecovererExits(g)
  \/ RecovererTicks(g)
  \/ RecovererClaims(g)
  \/ RecovererRests(g)
  \/ RecovererCallsHandler(g)
  \/ RecovererHandled(g)

MethodCall(c) ==
  \/ \E s \in Streams : Subscribe(c, s)
  \/ EnableRecovery(c)
  \/ StartBegins(c)
  \/ StopBegins(c, "stopping")
  \/ StopPanics(c)

CloseCall(c) == StopBegins(c, "closing") \/ StopPanics(c) \/ CloseIdle(c)

(* What goes on when nobody calls a method.                                *)
Background ==
  \/ \E c \in Callers : CallReturns(c)
  \/ \E g \in Generations : Cancel(g)
  \/ \E g \in Generations, s \in Streams : ReaderStep(g, s)
  \/ \E g \in Generations : RecovererStep(g)

Next == (\E c \in Callers : MethodCall(c) \/ CloseCall(c)) \/ Background

Spec == Init /\ [][Next]_vars

(* Goroutines run, Redis answers, handlers return; nobody is forced to     *)
(* call a method or to cancel a context.  select picks at random among the *)
(* cases that are ready, so a cancelled context is not overlooked forever; *)
(* a page of recovery is finite.  One generation is alive at a time, so    *)
(* fairness of any of them is fairness of each.                            *)
GoroutineFairness ==
  /\ \A s \in Streams : WF_vars(\E g \in Generations : ReaderStep(g, s))
  /\ WF_vars(\E g \in Generations : RecovererStep(g))
  /\ SF_vars(\E g \in Generations : RecovererExits(g))
  /\ SF_vars(\E g \in Generations : RecovererRests(g))

Fairness == GoroutineFairness /\ \A c \in Callers : WF_vars(CallReturns(c))

FairSpec == Spec /\ Fairness

-----------------------------------------------------------------------------
(* Properties. *)

(* When Stop returned nothing is left behind: while the consumer is not    *)
(* running and no Stop is in progress, no goroutine of any Start, however  *)
(* many there were, reads, recovers or runs a handler.                     *)
QuietWhenStopped == (~running /\ mu = Free /\ ~panicked) => AllGone

(* Two generations of goroutines never live at the same time: a restarted *)
(* consumer does not read a stream twice under one consumer name.         *)
OneGeneration ==
  \A g \in Generations :
    ~Gone(g) => g = starts

(* The subscriptions do not change while a goroutine of the consumer is   *)
(* alive: a reader works with the handler it was given, recovery reads    *)
(* c.streams without the lock when it begins and looks the handler up     *)
(* under it for each message, and all of them find what Start found.      *)
HandlersFrozen == [][AllGone \/ handlers' = handlers]_vars

(* Cancelling the context of a Start ends all its goroutines: there is     *)
(* always a time to come when no goroutine with a cancelled context is     *)
(* alive, unless a Stop waits for them first.                              *)
CancelTerminates ==
  []<>(\/ \A g \in cancelled : Gone(g)
       \/ panicked
       \/ \E c \in Callers : Stopping(c))

-----------------------------------------------------------------------------
(* What the documentation says and the code does not do. *)

(* consumer.go:97: "Start begins consuming messages from subscribed        *)
(* streams".  stopCh is not made anew: the readers of a consumer that was  *)
(* stopped before leave at their first select.                             *)
StartedConsumes ==
  (outcome = "ok" /\ running /\ mu = Free /\ starts \notin cancelled)
    => \A s \in handlers : reader[starts][s] \in Live

(* examples/recovery/consumer/main.go:113-118 cancels the context of a    *)
(* consumer with recovery, says "Consumer stopped gracefully" and closes   *)
(* it.  Stop waits, with c.mu in its hands, for a recovery that waits for  *)
(* c.mu.                                                                   *)
CancelledStopTerminates ==
  \A c \in Callers :
    (Stopping(c) /\ starts \in cancelled) ~> ~Stopping(c)

=============================================================================

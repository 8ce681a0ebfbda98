--------------------------- MODULE ClientLifecycle ---------------------------
(***************************************************************************)
(* One Client (client.go) and the objects it wraps: a publisher with its   *)
(* scheduler, a consumer, or a concurrent consumer, which run side by side *)
(* in one process.  Goroutines of the application call the methods of the  *)
(* client; each is a call of one object, refused when the client was made  *)
(* without it, except Close, which closes one object after the other.      *)
(***************************************************************************)
EXTENDS ConsumerLifecycle, PublisherLifecycle, WorkerPool

VARIABLES
  parts,   \* the objects the client was made with
  rest     \* the objects that a caller in Close has still to close

clientVars == <<parts, rest>>
everything == <<lifeVars, pubVars, poolVars, clientVars, panicked>>

Objects == {"publisher", "consumer", "concurrent"}

(* NewClient, NewPublisherOnly, NewConsumerOnly, NewConcurrentConsumerOnly *)
Clients == {{"publisher", "consumer"}, {"publisher"}, {"consumer"}, {"concurrent"}}

Idle(c) == call[c] = "none" /\ pubCall[c] = "none" /\ poolCall[c] = "none"

ClientTypeOK ==
  /\ PubTypeOK
  /\ PoolTypeOK
  /\ parts \in Clients
  /\ rest \in [Callers -> SUBSET parts]
  /\ \A c \in Callers :
       /\ call[c] # "none" => "consumer" \in parts /\ pubCall[c] = "none"
       /\ pubCall[c] # "none" => "publisher" \in parts
       /\ poolCall[c] # "none" => "concurrent" \in parts

ClientInit ==
  /\ Init
  /\ PubInit
  /\ PoolInit
  /\ parts \in Clients
  /\ rest = [c \in Callers |-> {}]

(* A step of one object is no step of the others.                          *)
OfPublisher  == UNCHANGED <<lifeVars, poolVars>>
OfConsumer   == UNCHANGED <<pubVars, poolVars>>
OfConcurrent == UNCHANGED <<lifeVars, pubVars>>

Busy(c) == ~Idle(c) \/ rest[c] # {}

(* Bounds: the objects of a client share the calls that overlap, the       *)
(* Starts and the streams evenly.                                          *)
WithinBounds ==
  LET share(n, all) == n * Cardinality(parts) <= all
  IN  /\ share(Cardinality({c \in Callers : Busy(c)}), Cardinality(Callers))
      /\ share(Cardinality(handlers), Cardinality(Streams))
      /\ \A n \in {starts, schedules, poolStarts} : share(n, MaxStarts)

-----------------------------------------------------------------------------
(* A method of the client calls the method of its object, if it has one.   *)
CallPublisher(c) == "publisher" \in parts /\ PublisherCall(c) /\ OfPublisher

CallConsumer(c) == "consumer" \in parts /\ MethodCall(c) /\ OfConsumer

CallConcurrent(c) == "concurrent" \in parts /\ PoolCallBegins(c) /\ OfConcurrent

Delegate(c) ==
  /\ ~Busy(c)
  /\ CallPublisher(c) \/ CallConsumer(c) \/ CallConcurrent(c)
  /\ UNCHANGED clientVars
  /\ WithinBounds'

CloseBegins(c) ==
  /\ ~Busy(c) /\ ~panicked
  /\ rest' = [rest EXCEPT ![c] = parts]
  /\ UNCHANGED <<lifeVars, pubVars, poolVars, parts, panicked>>
  /\ WithinBounds'

Closes(c, object) ==
  /\ Idle(c) /\ object \in rest[c] /\ ~panicked
  /\ rest' = [rest EXCEPT ![c] = @ \ {object}]
  /\ UNCHANGED parts

ClosesPublisher(c) ==
  /\ Closes(c, "publisher")
  /\ Goes(c, "none", "closing")
  /\ UNCHANGED <<flags, loops, panicked>>
  /\ OfPublisher

(* A client that is closed already makes the second Close an error.        *)
ClosesConsumer(c) ==
  /\ Closes(c, "consumer") /\ "publisher" \notin rest[c]
  /\ \/ CloseCall(c)
     \/ Enter(c) /\ ~running /\ ~client /\ UNCHANGED vars
  /\ OfConsumer

ClosesConcurrent(c) ==
  /\ Closes(c, "concurrent")
  /\ PoolCloses(c)
  /\ OfConcurrent

CloseGoesOn(c) == ClosesPublisher(c) \/ ClosesConsumer(c) \/ ClosesConcurrent(c)

ClientNext ==
  \/ \E c \in Callers : Delegate(c) \/ CloseBegins(c) \/ CloseGoesOn(c)
  \/ PublisherBackground /\ OfPublisher /\ UNCHANGED clientVars
  \/ Background /\ OfConsumer /\ UNCHANGED clientVars
  \/ PoolBackground /\ OfConcurrent /\ UNCHANGED clientVars

ClientSpec == ClientInit /\ [][ClientNext]_everything

(* The call a goroutine of the application is in goes on.                  *)
CallGoesOn(c) ==
  \/ CloseGoesOn(c)
  \/ PublisherCallGoesOn(c) /\ OfPublisher /\ UNCHANGED clientVars
  \/ CallReturns(c) /\ OfConsumer /\ UNCHANGED clientVars
  \/ PoolCallGoesOn(c) /\ OfConcurrent /\ UNCHANGED clientVars

ClientFairSpec ==
  /\ ClientSpec
  /\ GoroutineFairness /\ LoopFairness /\ WorkerFairness
  /\ \A c \in Callers : WF_everything(CallGoesOn(c))

-----------------------------------------------------------------------------
(* Properties. *)

(* The only calls that end the process are those on an object that was     *)
(* started a second time, whose stopCh an earlier Stop closed: no overlap  *)
(* of calls closes it twice.                                               *)
PanicNeedsRestart == panicked => starts >= 2 \/ schedules >= 2

(* Stop of the consumer waits, with c.mu in its hands, for a recovery.     *)
HeldUp == \E c \in Callers, g \in Generations : Stopping(c) /\ recoverer[g] \in Live

(* Every call of the client returns, whoever else calls it: Close of the   *)
(* publisher, which waits for the loop with both locks in its hands, every *)
(* Stop, every Start, and Close of the client, which goes through all of   *)
(* its objects; unless a recovery holds up a Stop of the consumer.         *)
CallsReturn == \A c \in Callers : Busy(c) ~> (~Busy(c) \/ panicked \/ HeldUp)

=============================================================================

----------------------- MODULE ConsumerLifecycleProofs -----------------------
(* Proofs about ConsumerLifecycle, for any number of callers, streams and  *)
(* starts.                                                                 *)
EXTENDS ConsumerLifecycle, TLAPS

USE LifecycleAssumption, ProcessAssumption

(* What a goroutine step does: one goroutine moves, and it was alive.      *)
LEMMA ReaderMoves ==
  ASSUME NEW g \in Generations, NEW s \in Streams, ReaderStep(g, s)
  PROVE  \E from \in {"select", "work"}, to \in {"select", "work", "gone"} :
           StepReader(g, s, from, to)
BY DEF ReaderStep, ReaderExits, ReaderReads, ReaderLoops

(* Every step of a recovery goroutine moves it from one place to another.  *)
LEMMA RecovererMoves ==
  ASSUME NEW g \in Generations, RecovererStep(g)
  PROVE  \E from \in Live, to \in Live \cup {"gone"} : StepRecoverer(g, from, to)
BY DEF RecovererStep, RecovererExits, RecovererTicks, RecovererClaims,
       RecovererRests, RecovererCallsHandler, RecovererHandled, Live

-----------------------------------------------------------------------------
(* Types. *)

(* The type invariant holds at the start.                                  *)
LEMMA TypeInit == Init => TypeOK
<1> SUFFICES ASSUME Init PROVE TypeOK
  OBVIOUS
<1>1. \A c \in Callers :
        call[c] \in {"starting", "stopping", "closing"} <=> mu = c
  BY DEF Init
<1>2. reader \in [Generations -> [Streams -> {"none", "select", "work", "gone"}]]
  BY DEF Init
<1>3. recoverer \in [Generations -> {"none", "gone"} \cup Live]
  BY DEF Init
<1>4. starts \in 0..MaxStarts /\ cancelled \subseteq 1..starts
  BY DEF Init
<1> QED
  BY <1>1, <1>2, <1>3, <1>4 DEF Init, TypeOK

(* The calls of methods keep the type invariant.                           *)
LEMMA TypeMethods ==
  ASSUME TypeOK, NEW c \in Callers,
         MethodCall(c) \/ CloseCall(c)
  PROVE  TypeOK'
<1>1. ASSUME NEW s \in Streams, Subscribe(c, s) PROVE TypeOK'
  BY <1>1 DEF Subscribe, Enter, TypeOK, goroutines
<1>2. CASE EnableRecovery(c)
  BY <1>2 DEF EnableRecovery, Enter, TypeOK, goroutines
<1>3. CASE StartBegins(c)
  BY <1>3 DEF StartBegins, Enter, TypeOK, goroutines
<1>4. ASSUME NEW kind \in {"stopping", "closing"}, StopBegins(c, kind)
      PROVE  TypeOK'
  BY <1>4 DEF StopBegins, Enter, TypeOK, goroutines
<1>5. CASE StopPanics(c)
  BY <1>5 DEF StopPanics, Enter, TypeOK, goroutines
<1>6. CASE CloseIdle(c)
  BY <1>6 DEF CloseIdle, Enter, TypeOK, goroutines, fields
<1> QED
  BY <1>1, <1>2, <1>3, <1>4, <1>5, <1>6 DEF MethodCall, CloseCall

(* The returns of blocking calls keep the type invariant.                  *)
LEMMA TypeReturns ==
  ASSUME TypeOK, NEW c \in Callers, CallReturns(c)
  PROVE  TypeOK'
<1>1. CASE StartFails(c)
  BY <1>1 DEF StartFails, Leave, TypeOK, goroutines, fields
<1>2. CASE StartSpawns(c)
  <2>1. reader' \in [Generations -> [Streams -> {"none", "select", "work", "gone"}]]
    BY <1>2 DEF StartSpawns, TypeOK
  <2>2. recoverer' \in [Generations -> {"none", "gone"} \cup Live]
    BY <1>2 DEF StartSpawns, TypeOK, Live
  <2> QED
    BY <1>2, <2>1, <2>2 DEF StartSpawns, Leave, TypeOK, fields
<1>3. CASE StopReturns(c)
  BY <1>3 DEF StopReturns, Stopping, Unwait, TypeOK, goroutines, fields
<1>4. CASE CloseClient(c)
  BY <1>4 DEF CloseClient, TypeOK, goroutines
<1> QED
  BY <1>1, <1>2, <1>3, <1>4 DEF CallReturns

(* Every step keeps the type invariant.                                    *)
LEMMA TypeStep ==
  ASSUME TypeOK, [Next]_vars
  PROVE  TypeOK'
<1>1. ASSUME NEW g \in Generations, NEW s \in Streams, ReaderStep(g, s)
      PROVE  TypeOK'
  <2>1. PICK from \in {"select", "work"}, to \in {"select", "work", "gone"} :
          StepReader(g, s, from, to)
    BY <1>1, ReaderMoves
  <2> QED
    BY <2>1 DEF StepReader, TypeOK, fields
<1>2. ASSUME NEW g \in Generations, RecovererStep(g) PROVE TypeOK'
  <2>1. PICK from \in Live, to \in Live \cup {"gone"} : StepRecoverer(g, from, to)
    BY <1>2, RecovererMoves
  <2> QED
    BY <2>1 DEF StepRecoverer, TypeOK, fields
<1>3. ASSUME NEW g \in Generations, Cancel(g) PROVE TypeOK'
  BY <1>3 DEF Cancel, TypeOK, fields, goroutines
<1>4. CASE UNCHANGED vars
  BY <1>4 DEF vars, lifeVars, TypeOK, fields, goroutines
<1> QED
  BY <1>1, <1>2, <1>3, <1>4, TypeMethods, TypeReturns DEF Next, Background

(* The type invariant, which says as well that a caller has c.mu exactly  *)
(* while it is in Start or Stop.                                          *)
THEOREM LifecycleTyped == Spec => []TypeOK
<1> QED
  BY TypeInit, TypeStep, PTL DEF Spec

-----------------------------------------------------------------------------
(* Whose goroutines are alive.  Only the latest Start can have any, it has *)
(* none before it has created all groups, and it has none after a Stop     *)
(* gave c.mu back.                                                         *)
Lifetimes ==
  /\ \A g \in Generations : ~Gone(g) => g = starts
  /\ \A c \in Callers : call[c] = "starting" => running /\ AllGone
  /\ QuietWhenStopped

(* A step of a goroutine brings none to life.                              *)
LEMMA GoneForGood ==
  ASSUME TypeOK, NEW h \in Generations,
         \/ \E g \in Generations, s \in Streams : ReaderStep(g, s)
         \/ \E g \in Generations : RecovererStep(g),
         Gone(h)
  PROVE  Gone(h)'
<1>1. ASSUME NEW g \in Generations, NEW s \in Streams, ReaderStep(g, s)
      PROVE  Gone(h)'
  <2>1. PICK from \in {"select", "work"}, to \in {"select", "work", "gone"} :
          StepReader(g, s, from, to)
    BY <1>1, ReaderMoves
  <2>2. g # h
    BY <2>1 DEF StepReader, Gone, ReadersGone, Live
  <2> QED
    BY <2>1, <2>2 DEF StepReader, Gone, ReadersGone, TypeOK
<1>2. ASSUME NEW g \in Generations, RecovererStep(g)
      PROVE  Gone(h)'
  <2>1. PICK from \in Live, to \in Live \cup {"gone"} : StepRecoverer(g, from, to)
    BY <1>2, RecovererMoves
  <2>2. g # h
    BY <2>1 DEF StepRecoverer, Gone
  <2> QED
    BY <2>1, <2>2 DEF StepRecoverer, Gone, ReadersGone, TypeOK
<1> QED
  BY <1>1, <1>2

(* A step that leaves the goroutines alone.                                *)
LEMMA SameGoroutines ==
  ASSUME UNCHANGED goroutines
  PROVE  /\ \A g \in Generations : Gone(g)' = Gone(g)
         /\ AllGone' = AllGone
BY DEF goroutines, Gone, ReadersGone, AllGone

(* No goroutine is alive at the start.                                     *)
LEMMA LifetimesInit == Init => Lifetimes
<1> SUFFICES ASSUME Init PROVE Lifetimes
  OBVIOUS
<1>1. AllGone
  BY DEF Init, AllGone, Gone, ReadersGone, Live
<1> QED
  BY <1>1 DEF Init, Lifetimes, QuietWhenStopped, AllGone

(* Every step keeps Lifetimes.                                             *)
LEMMA LifetimesStep ==
  ASSUME TypeOK, Lifetimes, [Next]_vars
  PROVE  Lifetimes'
<1>1. ASSUME NEW c \in Callers, Enter(c), UNCHANGED <<goroutines, starts>>,
             \A d \in Callers : call'[d] # "starting",
             running' = running \/ mu' # Free \/ panicked'
      PROVE  Lifetimes'
  BY <1>1, SameGoroutines DEF Lifetimes, QuietWhenStopped, Enter
<1>2. ASSUME NEW c \in Callers, NEW s \in Streams, Subscribe(c, s)
      PROVE  Lifetimes'
  BY <1>1, <1>2 DEF Subscribe, Enter, TypeOK
<1>3. ASSUME NEW c \in Callers, EnableRecovery(c) PROVE Lifetimes'
  BY <1>1, <1>3 DEF EnableRecovery, Enter, TypeOK
<1>4. ASSUME NEW c \in Callers, StartBegins(c) PROVE Lifetimes'
  <2>1. AllGone /\ UNCHANGED goroutines /\ running'
    BY <1>4 DEF StartBegins, Enter, Lifetimes, QuietWhenStopped
  <2> QED
    BY <2>1, SameGoroutines DEF Lifetimes, QuietWhenStopped, AllGone
<1>5. ASSUME NEW c \in Callers, NEW kind \in {"stopping", "closing"},
             StopBegins(c, kind)
      PROVE  Lifetimes'
  BY <1>1, <1>5 DEF StopBegins, Enter, TypeOK
<1>6. ASSUME NEW c \in Callers, StopPanics(c) PROVE Lifetimes'
  BY <1>1, <1>6 DEF StopPanics, Enter, TypeOK
<1>7. ASSUME NEW c \in Callers, CloseIdle(c) PROVE Lifetimes'
  BY <1>1, <1>7 DEF CloseIdle, Enter, TypeOK, fields
<1>8. ASSUME NEW c \in Callers, StartFails(c) PROVE Lifetimes'
  BY <1>8, SameGoroutines
  DEF StartFails, Leave, Lifetimes, QuietWhenStopped, TypeOK, fields
<1>9. ASSUME NEW c \in Callers, StartSpawns(c) PROVE Lifetimes'
  <2>1. running' /\ starts' = starts /\ AllGone
    BY <1>9 DEF StartSpawns, Lifetimes, fields
  <2>2. \A g \in Generations : g # starts => Gone(g)'
    BY <1>9, <2>1 DEF StartSpawns, Gone, ReadersGone, AllGone, TypeOK
  <2>3. \A d \in Callers : call'[d] # "starting"
    BY <1>9 DEF StartSpawns, Leave, TypeOK
  <2> QED
    BY <2>1, <2>2, <2>3 DEF Lifetimes, QuietWhenStopped
<1>10. ASSUME NEW c \in Callers, StopReturns(c) PROVE Lifetimes'
  <2>1. AllGone' /\ \A g \in Generations : Gone(g)'
    BY <1>10, SameGoroutines DEF StopReturns, Unwait, AllGone
  <2>2. \A d \in Callers : call'[d] # "starting"
    BY <1>10 DEF StopReturns, Unwait, Stopping, TypeOK
  <2> QED
    BY <2>1, <2>2 DEF Lifetimes, QuietWhenStopped
<1>11. ASSUME NEW c \in Callers, CloseClient(c) PROVE Lifetimes'
  BY <1>11, SameGoroutines
  DEF CloseClient, Lifetimes, QuietWhenStopped, TypeOK
<1>12. ASSUME NEW g \in Generations, Cancel(g) PROVE Lifetimes'
  BY <1>12, SameGoroutines DEF Cancel, Lifetimes, QuietWhenStopped, fields
<1>13. ASSUME \/ \E g \in Generations, s \in Streams : ReaderStep(g, s)
              \/ \E g \in Generations : RecovererStep(g)
       PROVE  Lifetimes'
  <2>1. UNCHANGED <<mu, call, running, starts, panicked>>
    BY <1>13, ReaderMoves, RecovererMoves DEF StepReader, StepRecoverer, fields
  <2>2. \A h \in Generations : Gone(h) => Gone(h)'
    BY <1>13, GoneForGood
  <2>3. AllGone => AllGone'
    BY <2>2 DEF AllGone
  <2> QED
    BY <2>1, <2>2, <2>3 DEF Lifetimes, QuietWhenStopped
<1>14. CASE UNCHANGED vars
  BY <1>14, SameGoroutines DEF vars, lifeVars, fields, Lifetimes, QuietWhenStopped
<1> QED
  BY <1>2, <1>3, <1>4, <1>5, <1>6, <1>7, <1>8, <1>9, <1>10, <1>11, <1>12, <1>13,
     <1>14 DEF Next, MethodCall, CloseCall, Background, CallReturns

(* Lifetimes is an invariant.                                              *)
LEMMA LifetimesCorrect == Spec => [](TypeOK /\ Lifetimes)
<1> QED
  BY TypeInit, TypeStep, LifetimesInit, LifetimesStep, PTL DEF Spec

(* Stop (consumer.go:139) leaves no goroutine behind, however many         *)
(* callers, streams and starts there were.                                 *)
THEOREM StopLeavesNothing == Spec => []QuietWhenStopped
<1> QED
  BY LifetimesCorrect, PTL DEF Lifetimes

(* The goroutines of two Starts (consumer.go:98) are never alive together. *)
THEOREM OneGenerationOnly == Spec => []OneGeneration
<1>1. Lifetimes => OneGeneration
  BY DEF Lifetimes, OneGeneration
<1> QED
  BY <1>1, LifetimesCorrect, PTL

(* A step changes the handlers only while no goroutine is alive.           *)
LEMMA HandlersStep ==
  ASSUME TypeOK, Lifetimes, [Next]_vars
  PROVE  AllGone \/ handlers' = handlers
<1>1. ASSUME NEW c \in Callers, NEW s \in Streams, Subscribe(c, s)
      PROVE  AllGone
  BY <1>1 DEF Subscribe, Enter, Lifetimes, QuietWhenStopped
<1>2. \/ \E c \in Callers, s \in Streams : Subscribe(c, s)
      \/ handlers' = handlers
  BY ReaderMoves, RecovererMoves
  DEF Next, MethodCall, CloseCall, Background, vars, lifeVars, fields,
      EnableRecovery, StartBegins, StopBegins, StopPanics, CloseIdle, CallReturns,
      StartFails, StartSpawns, StopReturns, Unwait, CloseClient, Cancel,
      StepReader, StepRecoverer
<1> QED
  BY <1>1, <1>2

(* Subscribe (consumer.go:54) changes the subscriptions only while no      *)
(* goroutine of the consumer is alive.                                     *)
THEOREM HandlersStayFrozen == Spec => HandlersFrozen
<1>1. TypeOK /\ Lifetimes /\ [Next]_vars => [AllGone \/ handlers' = handlers]_vars
  BY HandlersStep
<1> QED
  BY <1>1, LifetimesCorrect, PTL DEF Spec, HandlersFrozen

-----------------------------------------------------------------------------
(* Until the first Stop, a reader of the latest Start leaves only when its *)
(* context is cancelled.                                                   *)
Reading ==
  /\ starts = 0 => ~running /\ \A c \in Callers : call[c] # "starting"
  /\ \A c \in Callers : Stopping(c) => stopClosed
  /\ ~stopClosed => StartedConsumes

(* The calls of methods keep that.                                         *)
LEMMA ReadingMethods ==
  ASSUME TypeOK, Reading, NEW c \in Callers, MethodCall(c) \/ CloseCall(c)
  PROVE  Reading'
<1> USE DEF Reading, StartedConsumes, Stopping, TypeOK
<1>1. ASSUME NEW s \in Streams, Subscribe(c, s) PROVE Reading'
  BY <1>1 DEF Subscribe, Enter, goroutines
<1>2. CASE EnableRecovery(c)
  BY <1>2 DEF EnableRecovery, Enter, goroutines
<1>3. CASE StartBegins(c)
  BY <1>3 DEF StartBegins, Enter
<1>4. ASSUME NEW kind \in {"stopping", "closing"}, StopBegins(c, kind) PROVE Reading'
  BY <1>4 DEF StopBegins, Enter
<1>5. CASE StopPanics(c)
  BY <1>5 DEF StopPanics, Enter
<1>6. CASE CloseIdle(c)
  BY <1>6 DEF CloseIdle, Enter, fields, goroutines
<1> QED
  BY <1>1, <1>2, <1>3, <1>4, <1>5, <1>6 DEF MethodCall, CloseCall

(* So do the returns of calls: the Start that returns well has a reader    *)
(* for each handler.                                                       *)
LEMMA ReadingReturns ==
  ASSUME TypeOK, Reading, NEW c \in Callers, CallReturns(c)
  PROVE  Reading'
<1> USE DEF Reading, Stopping, TypeOK
<1>1. CASE StartFails(c)
  BY <1>1 DEF StartFails, Leave, fields, goroutines, StartedConsumes
<1>2. CASE StartSpawns(c)
  <2>1. starts \in Generations /\ UNCHANGED <<handlers, starts, running, stopClosed>>
    BY <1>2 DEF StartSpawns, fields, Generations
  <2>2. \A s \in handlers : reader'[starts][s] = "select"
    BY <1>2, <2>1 DEF StartSpawns
  <2>3. StartedConsumes'
    BY <2>1, <2>2 DEF StartedConsumes, Live
  <2> QED
    BY <1>2, <2>1, <2>3 DEF StartSpawns, Leave
<1>3. CASE StopReturns(c)
  BY <1>3 DEF StopReturns, Unwait, fields
<1>4. CASE CloseClient(c)
  BY <1>4 DEF CloseClient, goroutines, StartedConsumes
<1> QED
  BY <1>1, <1>2, <1>3, <1>4 DEF CallReturns

(* Every step keeps it.                                                    *)
LEMMA ReadingStep ==
  ASSUME TypeOK, Reading, [Next]_vars
  PROVE  Reading'
<1>1. ASSUME NEW g \in Generations, NEW s \in Streams, ReaderStep(g, s)
      PROVE  Reading'
  <2>1. UNCHANGED <<mu, call, fields, starts, outcome, cancelled>>
    BY <1>1, ReaderMoves DEF StepReader
  <2>2. ASSUME ~stopClosed, StartedConsumes PROVE StartedConsumes'
    <3>1. ReaderExits(g, s) => g \in cancelled
      BY <2>2 DEF ReaderExits
    <3>2. CASE g \in cancelled /\ g = starts
      BY <2>1, <3>2 DEF StartedConsumes
    <3>3. CASE ~(g \in cancelled /\ g = starts)
      <4>1. \A h \in Generations, x \in Streams :
              h = starts /\ starts \notin cancelled /\ reader[h][x] \in Live
                => reader'[h][x] \in Live
        BY <1>1, <3>1, <3>3 DEF ReaderStep, ReaderExits, ReaderReads, ReaderLoops,
                                StepReader, Live, TypeOK
      <4>2. running => starts \in Generations
        BY DEF Reading, TypeOK, Generations
      <4> QED
        BY <2>1, <2>2, <4>1, <4>2 DEF StartedConsumes, fields, TypeOK
    <3> QED
      BY <3>2, <3>3
  <2> QED
    BY <2>1, <2>2 DEF Reading, Stopping, fields
<1>2. ASSUME NEW g \in Generations, RecovererStep(g) PROVE Reading'
  BY <1>2, RecovererMoves DEF StepRecoverer, Reading, StartedConsumes, Stopping, fields
<1>3. ASSUME NEW g \in Generations, Cancel(g) PROVE Reading'
  BY <1>3 DEF Cancel, Reading, StartedConsumes, Stopping, fields, goroutines
<1>4. CASE UNCHANGED vars
  BY <1>4 DEF vars, lifeVars, Reading, StartedConsumes, Stopping, fields, goroutines
<1> QED
  BY <1>1, <1>2, <1>3, <1>4, ReadingMethods, ReadingReturns DEF Next, Background

(* consumer.go:97 has Start begin consuming.  That is true until the first *)
(* Stop: a consumer that was started well, and whose context is not        *)
(* cancelled, has a living reader for every stream it has a handler for.   *)
THEOREM FirstStartConsumes == Spec => [](~stopClosed => StartedConsumes)
<1>1. Init => Reading
  BY DEF Init, Reading, Stopping, StartedConsumes
<1>2. Reading => (~stopClosed => StartedConsumes)
  BY DEF Reading
<1> QED
  BY <1>1, <1>2, ReadingStep, LifecycleTyped, PTL DEF Spec

-----------------------------------------------------------------------------
(* The deadlock of consumer.go:149 and :215: a Stop that holds c.mu while  *)
(* recovery wants it.                                                      *)
Deadlocked(c, g) == Stopping(c) /\ recoverer[g] = "claimed"

(* No step of the consumer ends it.                                        *)
LEMMA DeadlockStep ==
  ASSUME TypeOK, [Next]_vars, NEW c \in Callers, NEW g \in Generations,
         Deadlocked(c, g)
  PROVE  UNCHANGED <<mu, call[c], recoverer[g]>>
<1> USE DEF Deadlocked
<1>1. mu = c /\ mu # Free /\ ~AllGone
  BY LifecycleAssumption DEF TypeOK, Stopping, AllGone, Gone, Live
<1>2. ASSUME NEW d \in Callers, MethodCall(d) \/ CloseCall(d) PROVE FALSE
  BY <1>1, <1>2 DEF MethodCall, CloseCall, Subscribe, EnableRecovery, StartBegins,
                    StopBegins, StopPanics, CloseIdle, Enter
<1>3. ASSUME NEW d \in Callers, CallReturns(d)
      PROVE  UNCHANGED <<mu, call[c], recoverer[g]>>
  <2>1. CloseClient(d) /\ d # c
    BY <1>1, <1>3 DEF CallReturns, StartFails, StartSpawns, StopReturns,
                            CloseClient, Stopping, TypeOK
  <2> QED
    BY <2>1 DEF CloseClient, goroutines, TypeOK
<1>4. ASSUME NEW h \in Generations, RecovererStep(h)
      PROVE  UNCHANGED <<mu, call[c], recoverer[g]>>
  <2>1. h # g
    BY <1>1, <1>4 DEF RecovererStep, RecovererExits, RecovererTicks,
         RecovererClaims, RecovererRests, RecovererCallsHandler, RecovererHandled,
         StepRecoverer
  <2> QED
    BY <1>4, <2>1, RecovererMoves DEF StepRecoverer, TypeOK
<1>5. ASSUME NEW h \in Generations, NEW s \in Streams, ReaderStep(h, s)
      PROVE  UNCHANGED <<mu, call[c], recoverer[g]>>
  BY <1>5, ReaderMoves DEF StepReader
<1>6. ASSUME NEW h \in Generations, Cancel(h)
      PROVE  UNCHANGED <<mu, call[c], recoverer[g]>>
  BY <1>6 DEF Cancel, goroutines
<1>7. CASE UNCHANGED vars
  BY <1>7 DEF vars, lifeVars, goroutines
<1> QED
  BY <1>2, <1>3, <1>4, <1>5, <1>6, <1>7 DEF Next, Background

(* Once a Stop has c.mu and recovery wants it, neither ever goes on,       *)
(* whatever anybody else does, a cancelled context included.               *)
THEOREM DeadlockIsForever ==
  Spec => [][\A c \in Callers, g \in Generations : Deadlocked(c, g) =>
               UNCHANGED <<mu, call[c], recoverer[g]>>]_vars
<1>1. TypeOK /\ [Next]_vars =>
        [\A c \in Callers, g \in Generations : Deadlocked(c, g) =>
           UNCHANGED <<mu, call[c], recoverer[g]>>]_vars
  BY DeadlockStep
<1> QED
  BY <1>1, LifecycleTyped, PTL DEF Spec

=============================================================================

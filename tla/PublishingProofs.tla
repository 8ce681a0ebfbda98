--------------------------- MODULE PublishingProofs ---------------------------
(* Proofs about Publishing, for any number of publishers, goroutines, keys *)
(* and prefixes.                                                           *)
EXTENDS Publishing, FiniteSetTheorems, FunctionTheorems, TLAPS

(* What PublishingAssumption says of marks and routes.                     *)
LEMMA Constants ==
  /\ MaxCalls \in Nat /\ MaxExpiries \in Nat
  /\ MaxChanges \in Nat /\ MaxFaults \in Nat
  /\ Default \in Prefixes /\ Off \notin Prefixes
  /\ Marks \subseteq Routes
  /\ \A k \in Keys, x \in Prefixes : <<x, k>> \in Marks
  /\ \A k \in Keys : <<Off, k>> \in Routes /\ <<Off, k>> \notin Marks
BY PublishingAssumption DEF Marks, Routes

(* There are finitely many callers.                                        *)
LEMMA CallersFinite == IsFiniteSet(Callers)
BY PublishingAssumption, FS_Product DEF Callers

-----------------------------------------------------------------------------
(* Types. *)

(* The type invariant holds at the start.                                  *)
LEMMA TypeInit == Init => TypeOK
BY Constants DEF Init, TypeOK

(* The steps of a publishing call keep the type invariant.                 *)
LEMMA TypeCalls ==
  ASSUME TypeOK, NEW c \in Callers, CallStep(c)
  PROVE  TypeOK'
<1> USE DEF TypeOK, Goto, Return, config, redis
<1>1. CASE MarkIsNew(c)
  BY <1>1, Constants DEF MarkIsNew
<1>2. CASE MarkReplyLost(c)
  BY <1>2, Constants DEF MarkReplyLost, Fault
<1>3. CASE MarkExists(c)
  BY <1>3, Constants DEF MarkExists
<1>4. CASE Send(c)
  BY <1>4, Constants DEF Send
<1>5. CASE SendReplyLost(c)
  BY <1>5, Constants DEF SendReplyLost, Fault
<1>6. CASE CheckFails(c) \/ SendFails(c)
  BY <1>6, Constants DEF CheckFails, SendFails, Fault
<1> QED
  BY <1>1, <1>2, <1>3, <1>4, <1>5, <1>6 DEF CallStep

(* Every step keeps the type invariant.                                    *)
LEMMA TypeStep ==
  ASSUME TypeOK, [Next]_vars
  PROVE  TypeOK'
<1> USE DEF TypeOK, config, redis
<1>1. ASSUME NEW c \in Callers, NEW k \in Keys, Begin(c, k) PROVE TypeOK'
  <2>1. dedup[c[1]] \in Prefixes \cup {Off}
    BY DEF Callers
  <2>2. IF dedup[c[1]] = Off THEN <<dedup[c[1]], k>> \in Routes
                             ELSE <<dedup[c[1]], k>> \in Marks
    BY <2>1, Constants
  <2> QED
    BY <1>1, <2>2, Constants DEF Begin, Goto
<1>2. ASSUME NEW p \in Publishers, NEW x \in Prefixes \cup {Off},
             SetDeduplicationConfig(p, x)
      PROVE  TypeOK'
  BY <1>2, Constants DEF SetDeduplicationConfig
<1>3. ASSUME NEW p \in Publishers, Close(p) PROVE TypeOK'
  BY <1>3 DEF Close
<1>4. ASSUME NEW p \in Publishers, Crash(p) PROVE TypeOK'
  BY <1>4, Constants DEF Crash, Fault
<1>5. ASSUME NEW m \in Marks, Expire(m) PROVE TypeOK'
  BY <1>5 DEF Expire
<1>6. CASE UNCHANGED vars
  BY <1>6 DEF vars
<1> QED
  BY <1>1, <1>2, <1>3, <1>4, <1>5, <1>6, TypeCalls DEF Next

(* The type invariant: among others, a call that checks a mark has one, so *)
(* the deduplicator it uses is not nil (publisher.go:85).                  *)
THEOREM PublishingTyped == Spec => []TypeOK
<1> QED
  BY TypeInit, TypeStep, PTL DEF Spec

-----------------------------------------------------------------------------
(* The lock. *)

(* No call is in progress at the start.                                    *)
LEMMA LockInit == Init => ConfigurationFixed /\ ClosedIsQuiet
BY DEF Init, ConfigurationFixed, ClosedIsQuiet, InCall

(* Every step keeps what the read-write lock guarantees: no change of the  *)
(* configuration and no Close while a call is in progress.                 *)
LEMMA LockStep ==
  ASSUME TypeOK, ConfigurationFixed, ClosedIsQuiet, [Next]_vars
  PROVE  ConfigurationFixed' /\ ClosedIsQuiet'
<1> USE DEF ConfigurationFixed, ClosedIsQuiet, InCall, TypeOK, config
<1>1. ASSUME NEW c \in Callers, NEW k \in Keys, Begin(c, k)
      PROVE  ConfigurationFixed' /\ ClosedIsQuiet'
  BY <1>1 DEF Begin, Goto
<1>2. ASSUME NEW c \in Callers, CallStep(c)
      PROVE  ConfigurationFixed' /\ ClosedIsQuiet'
  <2>1. /\ UNCHANGED <<dedup, closed>>
        /\ pc[c] # "none"
        /\ Goto(c, "send", route[c]) \/ Return(c)
    BY <1>2 DEF CallStep, MarkIsNew, MarkReplyLost, MarkExists, Send,
                SendReplyLost, CheckFails, SendFails
  <2>2. \A d \in Callers :
          pc'[d] # "none" => pc[d] # "none" /\ route'[d] = route[d]
    BY <2>1 DEF Goto, Return
  <2> QED
    BY <2>1, <2>2
<1>3. ASSUME NEW p \in Publishers, NEW x \in Prefixes \cup {Off},
             SetDeduplicationConfig(p, x)
      PROVE  ConfigurationFixed' /\ ClosedIsQuiet'
  <2>1. \A c \in Callers : c[1] \in Publishers
    BY DEF Callers
  <2> QED
    BY <1>3, <2>1 DEF SetDeduplicationConfig
<1>4. ASSUME NEW p \in Publishers, Close(p)
      PROVE  ConfigurationFixed' /\ ClosedIsQuiet'
  BY <1>4 DEF Close
<1>5. ASSUME NEW p \in Publishers, Crash(p)
      PROVE  ConfigurationFixed' /\ ClosedIsQuiet'
  <2>1. \A c \in Callers : c[1] \in Publishers
    BY DEF Callers
  <2> QED
    BY <1>5, <2>1 DEF Crash
<1>6. ASSUME NEW m \in Marks, Expire(m)
      PROVE  ConfigurationFixed' /\ ClosedIsQuiet'
  BY <1>6 DEF Expire
<1>7. CASE UNCHANGED vars
  BY <1>7 DEF vars
<1> QED
  BY <1>1, <1>2, <1>3, <1>4, <1>5, <1>6, <1>7 DEF Next

(* No call of a publisher is in progress after its Close (publisher.go:391) *)
(* took the write lock.                                                     *)
THEOREM CloseWaits == Spec => []ClosedIsQuiet
<1> QED
  BY PublishingTyped, LockInit, LockStep, PTL DEF Spec

(* A call ends under the configuration it began with (publisher.go:59).     *)
THEOREM ConfigurationStays == Spec => []ConfigurationFixed
<1> QED
  BY PublishingTyped, LockInit, LockStep, PTL DEF Spec

-----------------------------------------------------------------------------
(* One message per life of a mark.  A life begins with a SETNX, which      *)
(* makes one sender; the sender becomes a message or is gone.              *)

Lives(m) == expiries[m] + (IF m \in marks THEN 1 ELSE 0)

LivesUsedOnce == \A m \in Marks : messages[m] + Cardinality(Senders(m)) <= Lives(m)

(* There are finitely many senders for a mark, before and after a step.    *)
LEMMA SendersFinite ==
  ASSUME NEW m \in Marks
  PROVE  /\ IsFiniteSet(Senders(m)) /\ Cardinality(Senders(m)) \in Nat
         /\ IsFiniteSet(Senders(m)') /\ Cardinality(Senders(m)') \in Nat
<1>1. Senders(m) \subseteq Callers /\ Senders(m)' \subseteq Callers
  BY DEF Senders
<1> QED
  BY <1>1, CallersFinite, FS_Subset, FS_CardinalityType

(* No new sender of m, no message, and no life less.                       *)
LEMMA NobodyMore ==
  ASSUME TypeOK, TypeOK', NEW m \in Marks,
         messages[m] + Cardinality(Senders(m)) <= Lives(m),
         Senders(m)' \subseteq Senders(m),
         messages'[m] = messages[m],
         Lives(m) <= Lives(m)'
  PROVE  messages'[m] + Cardinality(Senders(m)') <= Lives(m)'
<1>1. Cardinality(Senders(m)') <= Cardinality(Senders(m))
  BY SendersFinite, FS_Subset
<1>2. /\ messages[m] \in Nat /\ messages'[m] \in Nat
      /\ Lives(m) \in Nat /\ Lives(m)' \in Nat
  BY Constants DEF TypeOK, Lives
<1> QED
  BY <1>1, <1>2, SendersFinite

(* No life was used at the start.                                          *)
LEMMA LivesInit == Init => LivesUsedOnce
<1> SUFFICES ASSUME Init, NEW m \in Marks
             PROVE  messages[m] + Cardinality(Senders(m)) <= Lives(m)
  BY DEF LivesUsedOnce
<1>1. Senders(m) = {}
  BY DEF Init, Senders
<1>2. Cardinality(Senders(m)) = 0
  BY <1>1, FS_EmptySet
<1> QED
  BY <1>2, Constants DEF Init, Lives

(* The steps of a publishing call keep LivesUsedOnce for each mark.        *)
LEMMA LivesCalls ==
  ASSUME TypeOK, TypeOK', LivesUsedOnce, NEW c \in Callers, CallStep(c),
         NEW m \in Marks
  PROVE  messages'[m] + Cardinality(Senders(m)') <= Lives(m)'
<1>t. /\ messages[m] \in Nat /\ expiries[m] \in Nat
      /\ messages[m] + Cardinality(Senders(m)) <= Lives(m)
      /\ pc \in [Callers -> {"none", "check", "send"}]
      /\ route \in [Callers -> Routes \cup {NoRoute}]
      /\ messages \in [Routes -> Nat]
  BY Constants DEF TypeOK, LivesUsedOnce
<1>1. CASE MarkIsNew(c) /\ route[c] = m
  <2>1. Senders(m)' = Senders(m) \cup {c} /\ c \notin Senders(m)
    BY <1>1, <1>t DEF MarkIsNew, Goto, Senders
  <2>2. Cardinality(Senders(m)') = Cardinality(Senders(m)) + 1
    BY <2>1, SendersFinite, FS_AddElement
  <2>3. Lives(m)' = Lives(m) + 1 /\ messages'[m] = messages[m]
    BY <1>1, <1>t DEF MarkIsNew, Lives
  <2>4. Lives(m) \in Nat
    BY <1>t DEF Lives
  <2> QED
    BY <2>2, <2>3, <2>4, <1>t, SendersFinite
<1>2. CASE MarkIsNew(c) /\ route[c] # m
  <2>1. Senders(m)' \subseteq Senders(m)
    BY <1>2, <1>t DEF MarkIsNew, Goto, Senders
  <2>2. messages'[m] = messages[m] /\ Lives(m) <= Lives(m)'
    BY <1>2, <1>t DEF MarkIsNew, Lives
  <2> QED
    BY <2>1, <2>2, <1>t, NobodyMore
<1>3. CASE (Send(c) \/ SendReplyLost(c)) /\ route[c] = m
  <2>1. Senders(m)' = Senders(m) \ {c} /\ c \in Senders(m)
    BY <1>3, <1>t DEF Send, SendReplyLost, Return, Goto, Senders
  <2>2. Cardinality(Senders(m)') = Cardinality(Senders(m)) - 1
    BY <2>1, SendersFinite, FS_RemoveElement
  <2>3. messages'[m] = messages[m] + 1 /\ Lives(m)' = Lives(m)
    BY <1>3, <1>t, Constants DEF Send, SendReplyLost, Lives
  <2>4. Lives(m) \in Nat
    BY <1>t DEF Lives
  <2> QED
    BY <2>2, <2>3, <2>4, <1>t, SendersFinite
<1>4. CASE (Send(c) \/ SendReplyLost(c)) /\ route[c] # m
  <2>1. Senders(m)' \subseteq Senders(m)
    BY <1>4, <1>t DEF Send, SendReplyLost, Return, Goto, Senders
  <2>2. messages'[m] = messages[m] /\ Lives(m) <= Lives(m)'
    BY <1>4, <1>t, Constants DEF Send, SendReplyLost, Lives
  <2> QED
    BY <2>1, <2>2, <1>t, NobodyMore
<1>5. CASE MarkReplyLost(c) \/ MarkExists(c) \/ CheckFails(c) \/ SendFails(c)
  <2>1. Senders(m)' \subseteq Senders(m)
    BY <1>5, <1>t
    DEF MarkReplyLost, MarkExists, CheckFails, SendFails, Return, Goto, Senders
  <2>2. messages'[m] = messages[m] /\ Lives(m) <= Lives(m)'
    BY <1>5, <1>t
    DEF MarkReplyLost, MarkExists, CheckFails, SendFails, Lives, redis
  <2> QED
    BY <2>1, <2>2, <1>t, NobodyMore
<1> QED
  BY <1>1, <1>2, <1>3, <1>4, <1>5 DEF CallStep

(* Every step keeps LivesUsedOnce.                                         *)
LEMMA LivesStep ==
  ASSUME TypeOK, LivesUsedOnce, [Next]_vars
  PROVE  LivesUsedOnce'
<1> SUFFICES ASSUME NEW m \in Marks
             PROVE  messages'[m] + Cardinality(Senders(m)') <= Lives(m)'
  BY DEF LivesUsedOnce
<1>t. /\ TypeOK'
      /\ expiries[m] \in Nat /\ expiries'[m] \in Nat
      /\ messages[m] + Cardinality(Senders(m)) <= Lives(m)
      /\ pc \in [Callers -> {"none", "check", "send"}]
      /\ route \in [Callers -> Routes \cup {NoRoute}]
      /\ expiries \in [Marks -> Nat]
  BY TypeStep DEF TypeOK, LivesUsedOnce
<1>1. ASSUME NEW c \in Callers, NEW k \in Keys, Begin(c, k)
      PROVE  Senders(m)' \subseteq Senders(m)
  BY <1>1, <1>t, Constants DEF Begin, Goto, Senders
<1>2. ASSUME NEW p \in Publishers, Crash(p)
      PROVE  Senders(m)' \subseteq Senders(m)
  BY <1>2, <1>t DEF Crash, Senders
<1>3. ASSUME NEW n \in Marks, Expire(n)
      PROVE  /\ messages' = messages /\ Senders(m)' = Senders(m)
             /\ Lives(m) <= Lives(m)'
  BY <1>3, <1>t DEF Expire, Senders, Lives
<1>4. ASSUME NEW p \in Publishers,
             Close(p) \/ \E x \in Prefixes \cup {Off} : SetDeduplicationConfig(p, x)
      PROVE  UNCHANGED <<pc, route, messages, expiries, marks>>
  BY <1>4 DEF Close, SetDeduplicationConfig, redis
<1>5. UNCHANGED <<pc, route>> => Senders(m)' = Senders(m)
  BY DEF Senders
<1>6. UNCHANGED <<marks, expiries>> => Lives(m) <= Lives(m)'
  BY <1>t DEF Lives
<1>7. \/ \E c \in Callers : CallStep(c)
      \/ /\ Senders(m)' \subseteq Senders(m)
         /\ messages'[m] = messages[m] /\ Lives(m) <= Lives(m)'
  BY <1>1, <1>2, <1>3, <1>4, <1>5, <1>6 DEF Next, vars, redis, Begin, Crash
<1> QED
  BY <1>7, <1>t, LivesCalls, NobodyMore

(* Duplicate checking (deduplication.go:103) is free of races: however     *)
(* many calls overlap in however many processes, and whatever fails, a     *)
(* mark lets one message through until it expires.                         *)
THEOREM OnceOnly == Spec => []OneMessagePerMark
<1>1. TypeOK /\ LivesUsedOnce => OneMessagePerMark
  <2> SUFFICES ASSUME TypeOK, LivesUsedOnce, NEW m \in Marks
               PROVE  messages[m] <= 1 + expiries[m]
    BY DEF OneMessagePerMark
  <2>1. /\ messages[m] \in Nat /\ expiries[m] \in Nat
        /\ messages[m] + Cardinality(Senders(m)) <= Lives(m)
    BY Constants DEF TypeOK, LivesUsedOnce
  <2> QED
    BY <2>1, SendersFinite DEF Lives
<1> QED
  BY <1>1, PublishingTyped, LivesInit, LivesStep, PTL DEF Spec

-----------------------------------------------------------------------------
(* Blocked marks.  A mark gets blocked when its sender is gone or when the *)
(* reply of its SETNX is lost: one call for a failed command, the calls of *)
(* one publisher for a crash.                                              *)

G == Cardinality(Goroutines)

(* The numbers BlockedNeedsFaults speaks of.                               *)
LEMMA BlockedFinite ==
  ASSUME TypeOK
  PROVE  /\ IsFiniteSet(Marks) /\ G \in Nat /\ faults \in Nat
         /\ IsFiniteSet(Blocked) /\ Cardinality(Blocked) \in Nat
<1>1. IsFiniteSet(Marks)
  BY PublishingAssumption, FS_Product DEF Marks
<1>2. Blocked \subseteq Marks
  BY DEF Blocked, TypeOK
<1>3. G \in Nat
  BY PublishingAssumption, FS_CardinalityType DEF G
<1> QED
  BY <1>1, <1>2, <1>3, FS_Subset, FS_CardinalityType, Constants DEF TypeOK

(* A fault pays for as many marks as a publisher has goroutines.           *)
LEMMA FaultPays ==
  ASSUME TypeOK, TypeOK', BlockedNeedsFaults, faults' = faults + 1,
         NEW S, IsFiniteSet(S), Cardinality(S) <= G,
         Blocked' \subseteq Blocked \cup S
  PROVE  BlockedNeedsFaults'
<1>1. /\ IsFiniteSet(Blocked \cup S)
      /\ Cardinality(Blocked \cup S) <= Cardinality(Blocked) + Cardinality(S)
  <2>1. /\ IsFiniteSet(Blocked \cap S)
        /\ Cardinality(Blocked \cup S)
             = Cardinality(Blocked) + Cardinality(S) - Cardinality(Blocked \cap S)
    BY BlockedFinite, FS_Union, FS_Subset
  <2>2. Cardinality(Blocked \cap S) \in Nat /\ Cardinality(S) \in Nat
    BY <2>1, FS_CardinalityType
  <2> QED
    BY <2>1, <2>2, BlockedFinite, FS_Union
<1>2. Cardinality(Blocked') <= Cardinality(Blocked \cup S)
  BY <1>1, FS_Subset
<1>3. /\ Cardinality(S) \in Nat /\ Cardinality(Blocked \cup S) \in Nat
      /\ Cardinality(Blocked') \in Nat
  <2>1. IsFiniteSet(Blocked')
    BY <1>1, FS_Subset
  <2> QED
    BY <1>1, <2>1, FS_CardinalityType
<1>4. (faults + 1) * G = faults * G + G /\ faults * G \in Nat
  BY BlockedFinite
<1>5. Cardinality(Blocked) <= faults * G
  BY DEF BlockedNeedsFaults, G
<1>6. Cardinality(Blocked') <= (faults + 1) * G
  BY <1>1, <1>2, <1>3, <1>4, <1>5, BlockedFinite
<1> QED
  BY <1>6 DEF BlockedNeedsFaults, G

(* Without a fault no mark gets blocked.                                   *)
LEMMA NothingToPay ==
  ASSUME TypeOK, BlockedNeedsFaults, faults' = faults, Blocked' \subseteq Blocked
  PROVE  BlockedNeedsFaults'
<1>1. Cardinality(Blocked') <= Cardinality(Blocked) /\ Cardinality(Blocked') \in Nat
  BY BlockedFinite, FS_Subset, FS_CardinalityType
<1>2. faults * G \in Nat /\ Cardinality(Blocked) <= faults * G
  BY BlockedFinite DEF BlockedNeedsFaults, G
<1>3. Cardinality(Blocked') <= faults * G
  BY <1>1, <1>2, BlockedFinite
<1> QED
  BY <1>3 DEF BlockedNeedsFaults, G

(* The steps of a publishing call keep BlockedNeedsFaults.                 *)
LEMMA BlockedCalls ==
  ASSUME TypeOK, TypeOK', BlockedNeedsFaults, NEW c \in Callers, CallStep(c)
  PROVE  BlockedNeedsFaults'
<1>t. /\ pc \in [Callers -> {"none", "check", "send"}]
      /\ route \in [Callers -> Routes \cup {NoRoute}]
  BY DEF TypeOK
<1>1. CASE MarkIsNew(c)
  <2>1. /\ silent' = silent \cup {route[c]} /\ Goto(c, "send", route[c])
        /\ UNCHANGED faults /\ pc[c] = "check"
    BY <1>1 DEF MarkIsNew
  <2>2. Blocked' \subseteq Blocked
    BY <2>1, <1>t DEF Blocked, Sending, Goto
  <2> QED
    BY <2>1, <2>2, NothingToPay
<1>2. CASE MarkExists(c)
  <2>1. Return(c) /\ UNCHANGED <<silent, faults>> /\ pc[c] = "check"
    BY <1>2 DEF MarkExists
  <2>2. Blocked' \subseteq Blocked
    BY <2>1, <1>t DEF Blocked, Sending, Return, Goto
  <2> QED
    BY <2>1, <2>2, NothingToPay
<1>3. CASE Send(c) \/ SendReplyLost(c)
  <2>1. /\ Return(c) /\ pc[c] = "send"
        /\ silent' = silent \ {route[c]}
    BY <1>3 DEF Send, SendReplyLost
  <2>2. Blocked' \subseteq Blocked
    BY <2>1, <1>t DEF Blocked, Sending, Return, Goto
  <2>3. CASE Send(c)
    BY <2>2, <2>3, NothingToPay DEF Send
  <2>4. CASE SendReplyLost(c)
    <3>1. IsFiniteSet({}) /\ Cardinality({}) <= G
      BY FS_EmptySet, BlockedFinite
    <3> QED
      BY <2>2, <2>4, <3>1, FaultPays DEF SendReplyLost, Fault
  <2> QED
    BY <1>3, <2>3, <2>4
<1>4. CASE MarkReplyLost(c) \/ CheckFails(c) \/ SendFails(c)
  <2>1. /\ Return(c) /\ faults' = faults + 1
        /\ silent' \subseteq silent \cup {route[c]}
    BY <1>4 DEF MarkReplyLost, CheckFails, SendFails, Fault
  <2>2. Blocked' \subseteq Blocked \cup {route[c]}
    BY <2>1, <1>t DEF Blocked, Sending, Return, Goto
  <2>3. IsFiniteSet({route[c]}) /\ Cardinality({route[c]}) <= G
    <3>1. Goroutines # {}
      BY DEF Callers
    <3>2. G # 0
      BY <3>1, PublishingAssumption, FS_EmptySet DEF G
    <3>3. IsFiniteSet({route[c]}) /\ Cardinality({route[c]}) = 1
      BY FS_Singleton
    <3>4. G \in Nat
      BY BlockedFinite
    <3> QED
      BY <3>2, <3>3, <3>4
  <2> QED
    BY <2>1, <2>2, <2>3, FaultPays
<1> QED
  BY <1>1, <1>2, <1>3, <1>4 DEF CallStep

(* Every step keeps BlockedNeedsFaults.                                    *)
LEMMA BlockedStep ==
  ASSUME TypeOK, BlockedNeedsFaults, [Next]_vars
  PROVE  BlockedNeedsFaults'
<1>t. /\ TypeOK'
      /\ pc \in [Callers -> {"none", "check", "send"}]
      /\ route \in [Callers -> Routes \cup {NoRoute}]
  BY TypeStep DEF TypeOK
<1>1. ASSUME NEW c \in Callers, NEW k \in Keys, Begin(c, k)
      PROVE  BlockedNeedsFaults'
  <2>1. Blocked' \subseteq Blocked /\ faults' = faults
    BY <1>1, <1>t DEF Begin, Goto, Blocked, Sending
  <2> QED
    BY <2>1, NothingToPay
<1>2. ASSUME NEW p \in Publishers, Crash(p) PROVE BlockedNeedsFaults'
  <2> DEFINE S == {route[<<p, g>>] : g \in Goroutines}
  <2>1. IsFiniteSet(S) /\ Cardinality(S) <= G
    <3> DEFINE f == [g \in Goroutines |-> route[<<p, g>>]]
    <3>1. f \in Surjection(Goroutines, S)
      BY DEF Surjection
    <3> QED
      BY <3>1, PublishingAssumption, FS_Surjection DEF G
  <2>2. \A c \in Callers : c[1] = p => route[c] \in S
    BY DEF Callers
  <2>3. /\ UNCHANGED silent /\ faults' = faults + 1
        /\ \A c \in Callers : c[1] # p => pc'[c] = pc[c] /\ route'[c] = route[c]
    BY <1>2 DEF Crash, Fault
  <2> HIDE DEF S
  <2>4. Blocked' \subseteq Blocked \cup S
    BY <2>2, <2>3 DEF Blocked, Sending
  <2> QED
    BY <1>t, <2>1, <2>3, <2>4, FaultPays
<1>3. ASSUME NEW m \in Marks, Expire(m) PROVE BlockedNeedsFaults'
  <2>1. Blocked' \subseteq Blocked /\ faults' = faults
    BY <1>3 DEF Expire, Blocked, Sending
  <2> QED
    BY <2>1, NothingToPay
<1>4. CASE UNCHANGED <<silent, pc, route, faults>>
  <2>1. Blocked' = Blocked
    BY <1>4 DEF Blocked, Sending
  <2> QED
    BY <1>4, <2>1, NothingToPay
<1>5. ASSUME NEW p \in Publishers,
             Close(p) \/ \E x \in Prefixes \cup {Off} : SetDeduplicationConfig(p, x)
      PROVE  UNCHANGED <<silent, pc, route, faults>>
  BY <1>5 DEF Close, SetDeduplicationConfig
<1> QED
  BY <1>1, <1>2, <1>3, <1>4, <1>5, <1>t, BlockedCalls DEF Next, vars

(* SETNX and the message are two commands (publisher.go:86): however calls *)
(* overlap and however marks expire, a mark that rejects everything though *)
(* nothing was sent under it stands for a failed command of its own, or is *)
(* one of those a crashed publisher had its goroutines send for.           *)
THEOREM BlockedOnlyByFaults == Spec => []BlockedNeedsFaults
<1>1. Init => BlockedNeedsFaults
  <2> SUFFICES ASSUME Init PROVE BlockedNeedsFaults
    OBVIOUS
  <2>1. TypeOK /\ Blocked = {} /\ faults = 0
    BY TypeInit DEF Init, Blocked
  <2>2. Cardinality(Blocked) = 0 /\ faults * G = 0
    BY <2>1, FS_EmptySet, BlockedFinite
  <2> QED
    BY <2>2 DEF BlockedNeedsFaults, G
<1> QED
  BY <1>1, PublishingTyped, BlockedStep, PTL DEF Spec

-----------------------------------------------------------------------------
(* Without faults a call that was rejected has an original: sent, or about *)
(* to be.                                                                  *)
Originals == faults = 0 => \A m \in rejected : messages[m] > 0 \/ Sending(m)

(* A mark that is not silent had a message.                                *)
Spoken == \A m \in marks \ silent : messages[m] > 0

(* That is always so.                                                      *)
LEMMA SpokenCorrect == Spec => []Spoken
<1>1. Init => Spoken
  BY DEF Init, Spoken
<1>2. ASSUME TypeOK, Spoken, [Next]_vars PROVE Spoken'
  <2> USE DEF Spoken
  <2>t. /\ marks \subseteq Routes /\ messages \in [Routes -> Nat]
        /\ \A r \in Routes : messages[r] \in Nat
    BY <1>2, Constants DEF TypeOK
  <2>1. ASSUME NEW c \in Callers, CallStep(c) PROVE Spoken'
    <3>1. CASE MarkIsNew(c) \/ MarkReplyLost(c)
      BY <1>2, <3>1 DEF MarkIsNew, MarkReplyLost
    <3>2. CASE Send(c) \/ SendReplyLost(c)
      <4>1. /\ marks' = marks /\ silent' = silent \ {route[c]}
            /\ messages' = [messages EXCEPT ![route[c]] = @ + 1]
        BY <3>2 DEF Send, SendReplyLost
      <4>2. ASSUME NEW m \in marks' \ silent' PROVE messages'[m] > 0
        <5>1. CASE m = route[c]
          BY <2>t, <4>1, <5>1
        <5>2. CASE m # route[c]
          BY <1>2, <2>t, <4>1, <5>2
        <5> QED
          BY <5>1, <5>2
      <4> QED
        BY <4>2
    <3>3. CASE MarkExists(c) \/ CheckFails(c) \/ SendFails(c)
      BY <1>2, <3>3 DEF MarkExists, CheckFails, SendFails, redis
    <3> QED
      BY <2>1, <3>1, <3>2, <3>3 DEF CallStep
  <2>2. ASSUME NEW m \in Marks, Expire(m) PROVE Spoken'
    BY <1>2, <2>2 DEF Expire
  <2>3. CASE UNCHANGED <<redis, silent>>
    BY <1>2, <2>3 DEF redis
  <2>4. ASSUME \/ \E c \in Callers, k \in Keys : Begin(c, k)
               \/ \E p \in Publishers :
                    \/ \E x \in Prefixes \cup {Off} : SetDeduplicationConfig(p, x)
                    \/ Close(p) \/ Crash(p)
        PROVE  UNCHANGED <<redis, silent>>
    BY <2>4 DEF Begin, SetDeduplicationConfig, Close, Crash
  <2> QED
    BY <1>2, <2>1, <2>2, <2>3, <2>4 DEF Next, vars
<1> QED
  BY <1>1, <1>2, PublishingTyped, PTL DEF Spec

(* The steps of a publishing call keep that.                               *)
LEMMA OriginalsCalls ==
  ASSUME TypeOK, TypeOK', BlockedNeedsFaults, Spoken, Originals,
         NEW c \in Callers, CallStep(c)
  PROVE  Originals'
<1> SUFFICES ASSUME faults' = 0, NEW m \in rejected'
             PROVE  messages'[m] > 0 \/ Sending(m)'
  BY DEF Originals
<1>t. /\ pc \in [Callers -> {"none", "check", "send"}]
      /\ route \in [Callers -> Routes \cup {NoRoute}]
      /\ messages \in [Routes -> Nat] /\ messages[m] \in Nat /\ faults \in Nat
      /\ m \in Marks /\ m \in Routes
  BY Constants DEF TypeOK
<1>0. faults = 0 /\ (MarkIsNew(c) \/ MarkExists(c) \/ Send(c))
  BY <1>t DEF CallStep, MarkIsNew, MarkExists, Send, MarkReplyLost, SendReplyLost,
              CheckFails, SendFails, Fault
<1>1. m \in rejected => messages[m] > 0 \/ Sending(m)
  BY <1>0 DEF Originals
<1>2. CASE MarkIsNew(c)
  <2>1. rejected' = rejected /\ messages' = messages /\ pc[c] = "check"
    BY <1>2 DEF MarkIsNew
  <2>2. Sending(m) => Sending(m)'
    BY <1>2, <1>t DEF MarkIsNew, Goto, Sending
  <2> QED
    BY <1>1, <2>1, <2>2
<1>3. CASE MarkExists(c)
  <2>1. /\ rejected' = rejected \cup {route[c]} /\ messages' = messages
        /\ pc[c] = "check" /\ route[c] \in marks
    BY <1>3 DEF MarkExists, redis
  <2>2. Sending(m) => Sending(m)'
    BY <1>3, <1>t, <2>1 DEF MarkExists, Return, Goto, Sending
  <2>3. Blocked = {}
    <3>1. Cardinality(Blocked) <= 0 * G
      BY <1>0 DEF BlockedNeedsFaults, G
    <3> QED
      BY <3>1, BlockedFinite, FS_EmptySet
  <2>4. messages[m] > 0 \/ Sending(m)
    BY <1>1, <1>t, <2>1, <2>3 DEF Blocked, Spoken
  <2> QED
    BY <2>1, <2>2, <2>4
<1>4. CASE Send(c)
  <2>1. /\ rejected' = rejected /\ pc[c] = "send" /\ route[c] \in Routes
        /\ messages' = [messages EXCEPT ![route[c]] = @ + 1]
    BY <1>4 DEF Send, TypeOK
  <2>2. messages'[m] >= messages[m]
    BY <1>t, <2>1
  <2>3. CASE route[c] = m
    BY <1>t, <2>1, <2>3
  <2>4. CASE route[c] # m
    <3>1. Sending(m) => Sending(m)'
      BY <1>4, <1>t, <2>4 DEF Send, Return, Goto, Sending
    <3> QED
      BY <1>1, <1>t, <2>1, <2>2, <3>1
  <2> QED
    BY <2>3, <2>4
<1> QED
  BY <1>0, <1>2, <1>3, <1>4

(* Every step keeps it.                                                    *)
LEMMA OriginalsStep ==
  ASSUME TypeOK, BlockedNeedsFaults, Spoken, Originals, [Next]_vars
  PROVE  Originals'
<1>t. TypeOK' /\ pc \in [Callers -> {"none", "check", "send"}]
  BY TypeStep DEF TypeOK
<1>1. ASSUME NEW c \in Callers, NEW k \in Keys, Begin(c, k) PROVE Originals'
  <2>1. \A m \in rejected : Sending(m) => Sending(m)'
    BY <1>1, <1>t DEF Begin, Goto, Sending
  <2> QED
    BY <1>1, <2>1 DEF Begin, Originals, redis
<1>2. ASSUME NEW p \in Publishers, Crash(p) PROVE Originals'
  <2>1. faults' # 0
    BY <1>2, Constants DEF Crash, Fault, TypeOK
  <2> QED
    BY <2>1 DEF Originals
<1>3. CASE UNCHANGED <<messages, pc, route, rejected, faults>>
  BY <1>3 DEF Originals, Sending
<1>4. ASSUME \/ \E m \in Marks : Expire(m)
             \/ \E p \in Publishers :
                  Close(p) \/ \E x \in Prefixes \cup {Off} : SetDeduplicationConfig(p, x)
      PROVE  UNCHANGED <<messages, pc, route, rejected, faults>>
  BY <1>4 DEF Expire, Close, SetDeduplicationConfig, redis
<1> QED
  BY <1>1, <1>2, <1>3, <1>4, <1>t, OriginalsCalls DEF Next, vars, redis

(* publisher.go:97 tells a rejected call that it is a duplicate.  Without  *)
(* a fault the message it repeats was sent, or its call is about to send   *)
(* it, also after the mark expired.                                        *)
THEOREM RejectedHasOriginalUnlessFaults == Spec => []Originals
<1>1. Init => Originals
  BY DEF Init, Originals
<1> QED
  BY <1>1, OriginalsStep, SpokenCorrect, PublishingTyped, BlockedOnlyByFaults, PTL
  DEF Spec

-----------------------------------------------------------------------------
(* The contract.  A caller that does not enter "send" for a mark or leave  *)
(* it leaves the mark's permits alone.                                     *)
Permits == [m \in Marks |-> Cardinality(Senders(m))]

Sent == [m \in Marks |-> messages[m]]

(* The permits before and after a step.                                    *)
LEMMA PermitsTyped ==
  /\ Permits \in [Marks -> Nat] /\ Permits' \in [Marks -> Nat]
  /\ \A m \in Marks : /\ Permits[m] = Cardinality(Senders(m))
                      /\ Permits'[m] = Cardinality(Senders(m)')
BY SendersFinite DEF Permits

(* No permit changes hands.                                                *)
LEMMA PermitsStay ==
  ASSUME \A m \in Marks : Senders(m)' = Senders(m)
  PROVE  Permits' = Permits
BY DEF Permits

(* A step that moves one caller from elsewhere to elsewhere.               *)
LEMMA ElsewhereStays ==
  ASSUME TypeOK, NEW c \in Callers, NEW where, NEW r, Goto(c, where, r),
         pc[c] # "send" \/ route[c] \notin Marks,
         where # "send" \/ r \notin Marks
  PROVE  Permits' = Permits
<1>1. \A m \in Marks : Senders(m)' = Senders(m)
  BY DEF Goto, Senders, TypeOK
<1> QED
  BY <1>1, PermitsStay

(* Permits that are taken away.                                            *)
LEMMA PermitsFall ==
  ASSUME \A m \in Marks : Senders(m)' \subseteq Senders(m)
  PROVE  \A m \in Marks : Permits'[m] <= Permits[m]
<1> SUFFICES ASSUME NEW m \in Marks PROVE Cardinality(Senders(m)') <= Cardinality(Senders(m))
  BY PermitsTyped
<1> QED
  BY SendersFinite, FS_Subset

(* SETNX grants one permit.                                                *)
LEMMA NewIsGrant ==
  ASSUME TypeOK, NEW c \in Callers, MarkIsNew(c)
  PROVE  \E m \in Marks : Contract!Grant(m)
<1>1. PICK m \in Marks : m = route[c]
  BY DEF MarkIsNew, TypeOK
<1>2. /\ Senders(m)' = Senders(m) \cup {c} /\ c \notin Senders(m)
      /\ \A n \in Marks : n # m => Senders(n)' = Senders(n)
  BY <1>1 DEF MarkIsNew, Goto, Senders, TypeOK
<1>3. Permits'[m] = Permits[m] + 1
  BY <1>2, PermitsTyped, SendersFinite, FS_AddElement
<1>4. \A n \in Marks : n # m => Permits'[n] = Permits[n]
  BY <1>2, PermitsTyped
<1>5. Permits' = [Permits EXCEPT ![m] = @ + 1]
  BY <1>3, <1>4, PermitsTyped
<1>6. /\ m \notin marks /\ marks' = marks \cup {m}
      /\ UNCHANGED <<expiries, Sent, rejected, faults>>
  BY <1>1 DEF MarkIsNew, Sent
<1> QED
  BY <1>5, <1>6 DEF Contract!Grant, Permits, Sent

(* XADD or ZADD under a mark spends one.                                   *)
LEMMA SendSpends ==
  ASSUME TypeOK, NEW c \in Callers, Send(c) \/ SendReplyLost(c), route[c] \in Marks
  PROVE  \E m \in Marks : Contract!Send(m)
<1>1. PICK m \in Marks : m = route[c]
  OBVIOUS
<1>2. /\ Senders(m)' = Senders(m) \ {c} /\ c \in Senders(m)
      /\ \A n \in Marks : n # m => Senders(n)' = Senders(n)
  BY <1>1 DEF Send, SendReplyLost, Return, Goto, Senders, TypeOK
<1>3. Permits'[m] = Permits[m] - 1 /\ Permits[m] > 0
  <2>1. Cardinality(Senders(m)') = Cardinality(Senders(m)) - 1
    BY <1>2, SendersFinite, FS_RemoveElement
  <2> QED
    BY <2>1, PermitsTyped, SendersFinite
<1>4. \A n \in Marks : n # m => Permits'[n] = Permits[n]
  BY <1>2, PermitsTyped
<1>5. Permits' = [Permits EXCEPT ![m] = @ - 1]
  BY <1>3, <1>4, PermitsTyped
<1>6. Sent' = [Sent EXCEPT ![m] = @ + 1]
  <2>1. messages' = [messages EXCEPT ![m] = @ + 1] /\ m \in Routes
    BY <1>1, Constants DEF Send, SendReplyLost
  <2>2. \A n \in Marks : messages'[n] = IF n = m THEN messages[m] + 1 ELSE messages[n]
    BY <2>1, Constants DEF TypeOK
  <2> QED
    BY <2>2 DEF Sent
<1>7. /\ UNCHANGED <<marks, expiries, rejected>>
      /\ faults' \in {faults, faults + 1}
  BY DEF Send, SendReplyLost, Fault
<1> QED
  BY <1>3, <1>5, <1>6, <1>7 DEF Contract!Send, Permits, Sent

(* A failed command or a crash takes permits and nothing else.             *)
LEMMA FaultForfeits ==
  ASSUME \A m \in Marks : Senders(m)' \subseteq Senders(m), faults' = faults + 1,
         UNCHANGED <<marks, expiries, rejected>>, Sent' = Sent
  PROVE  Contract!Forfeit
<1>1. /\ Permits' \in [Marks -> Nat]
      /\ \A m \in Marks : Permits'[m] <= Permits[m]
  BY PermitsTyped, PermitsFall
<1> QED
  BY <1>1 DEF Contract!Forfeit, Permits, Sent

(* The steps of a publishing call are steps of the contract.               *)
LEMMA CallsKeepContract ==
  ASSUME TypeOK, NEW c \in Callers, CallStep(c)
  PROVE  [Contract!MNext]_(Contract!mvars)
<1>1. CASE MarkIsNew(c)
  BY <1>1, NewIsGrant DEF Contract!MNext
<1>2. CASE MarkReplyLost(c)
  <2>1. PICK m \in Marks : m = route[c]
    BY <1>2 DEF MarkReplyLost, TypeOK
  <2>2. Permits' = Permits
    BY <1>2, Constants, ElsewhereStays DEF MarkReplyLost, Return
  <2>3. /\ marks' = marks \cup {m} /\ faults' = faults + 1
        /\ UNCHANGED <<expiries, Sent, rejected>>
    BY <1>2, <2>1 DEF MarkReplyLost, Fault, Sent
  <2>4. Contract!Waste(m)
    BY <2>2, <2>3 DEF Contract!Waste, Permits, Sent
  <2> QED
    BY <2>4 DEF Contract!MNext
<1>3. CASE MarkExists(c)
  <2>1. PICK m \in Marks : m = route[c]
    BY <1>3 DEF MarkExists, TypeOK
  <2>2. Permits' = Permits
    BY <1>3, ElsewhereStays DEF MarkExists, Return
  <2>3. /\ m \in marks /\ rejected' = rejected \cup {m}
        /\ UNCHANGED <<marks, expiries, Sent, faults>>
    BY <1>3, <2>1 DEF MarkExists, redis, Sent
  <2>4. Contract!Reject(m)
    BY <2>2, <2>3 DEF Contract!Reject, Permits, Sent
  <2> QED
    BY <2>4 DEF Contract!MNext
<1>4. CASE (Send(c) \/ SendReplyLost(c)) /\ route[c] \in Marks
  BY <1>4, SendSpends DEF Contract!MNext
<1>5. CASE (Send(c) \/ SendReplyLost(c)) /\ route[c] \notin Marks
  <2>1. Permits' = Permits
    BY <1>5, ElsewhereStays DEF Send, SendReplyLost, Return
  <2>2. \A m \in Marks : messages'[m] = messages[m]
    BY <1>5, Constants DEF Send, SendReplyLost, TypeOK
  <2>3. Sent' = Sent /\ UNCHANGED <<marks, expiries, rejected>>
    BY <1>5, <2>2 DEF Send, SendReplyLost, Sent
  <2>4. CASE Send(c)
    BY <2>1, <2>3, <2>4 DEF Send, Contract!mvars, Permits, Sent
  <2>5. CASE SendReplyLost(c)
    <3>1. /\ Permits' \in [Marks -> Nat] /\ faults' = faults + 1
          /\ \A m \in Marks : Permits'[m] <= Permits[m]
      BY <2>1, <2>5, PermitsTyped DEF SendReplyLost, Fault
    <3>2. Contract!Forfeit
      BY <2>3, <3>1 DEF Contract!Forfeit, Permits, Sent
    <3> QED
      BY <3>2 DEF Contract!MNext
  <2> QED
    BY <1>5, <2>4, <2>5
<1>6. CASE CheckFails(c) \/ SendFails(c)
  <2>1. \A m \in Marks : Senders(m)' \subseteq Senders(m)
    BY <1>6 DEF CheckFails, SendFails, Return, Goto, Senders, TypeOK
  <2>2. faults' = faults + 1 /\ UNCHANGED <<marks, expiries, rejected>> /\ Sent' = Sent
    BY <1>6 DEF CheckFails, SendFails, Fault, redis, Sent
  <2> QED
    BY <2>1, <2>2, FaultForfeits DEF Contract!MNext
<1> QED
  BY <1>1, <1>2, <1>3, <1>4, <1>5, <1>6 DEF CallStep

(* Every step is a step of the contract or changes nothing it speaks of.   *)
LEMMA StepKeepsContract ==
  ASSUME TypeOK, [Next]_vars
  PROVE  [Contract!MNext]_(Contract!mvars)
<1>1. ASSUME NEW c \in Callers, NEW k \in Keys, Begin(c, k)
      PROVE  UNCHANGED Contract!mvars
  <2>1. PICK r : r = <<dedup[c[1]], k>>
    OBVIOUS
  <2>2. /\ pc[c] = "none"
        /\ Goto(c, "check", r) \/ (Goto(c, "send", r) /\ r \notin Marks)
    BY <1>1, <2>1, Constants DEF Begin
  <2>3. Permits' = Permits
    BY <2>2, ElsewhereStays
  <2> QED
    BY <1>1, <2>3 DEF Begin, redis, Contract!mvars, Permits
<1>2. ASSUME NEW p \in Publishers, Crash(p) PROVE Contract!Forfeit
  <2>1. \A m \in Marks : Senders(m)' \subseteq Senders(m)
    BY <1>2 DEF Crash, Senders, TypeOK
  <2>2. faults' = faults + 1 /\ UNCHANGED <<marks, expiries, rejected>> /\ Sent' = Sent
    BY <1>2 DEF Crash, Fault, redis, Sent
  <2> QED
    BY <2>1, <2>2, FaultForfeits
<1>3. ASSUME NEW m \in Marks, Expire(m) PROVE Contract!Expire(m)
  <2>1. Permits' = Permits
    BY <1>3 DEF Expire, Permits, Senders
  <2> QED
    BY <1>3, <2>1 DEF Expire, Contract!Expire, Permits
<1>4. CASE UNCHANGED <<redis, pc, route, rejected, faults>>
  <2>1. Permits' = Permits
    BY <1>4 DEF Permits, Senders
  <2> QED
    BY <1>4, <2>1 DEF redis, Contract!mvars, Permits
<1>5. ASSUME NEW p \in Publishers,
             Close(p) \/ \E x \in Prefixes \cup {Off} : SetDeduplicationConfig(p, x)
      PROVE  UNCHANGED <<redis, pc, route, rejected, faults>>
  BY <1>5 DEF Close, SetDeduplicationConfig, redis
<1> QED
  BY <1>1, <1>2, <1>3, <1>4, <1>5, CallsKeepContract DEF Next, vars, Contract!MNext

(* The deduplicated calls (publisher.go:86, deduplication.go:103) keep the *)
(* contract of marks: a mark has one holder until it expires, whose permit *)
(* becomes one message or is lost to a fault, and no locks, goroutines,    *)
(* processes or changes of configuration show through.                     *)
THEOREM MarkContractKept == Spec => KeepsMarkContract
<1>1. Init => Contract!MInit
  <2> SUFFICES ASSUME Init PROVE Contract!MInit
    OBVIOUS
  <2>1. \A m \in Marks : Cardinality(Senders(m)) = 0
    <3> SUFFICES ASSUME NEW m \in Marks PROVE Cardinality(Senders(m)) = 0
      OBVIOUS
    <3>1. Senders(m) = {}
      BY DEF Init, Senders
    <3> QED
      BY <3>1, FS_EmptySet
  <2>2. \A m \in Marks : messages[m] = 0
    BY Constants DEF Init
  <2> QED
    BY <2>1, <2>2 DEF Init, Contract!MInit
<1> QED
  BY <1>1, StepKeepsContract, PublishingTyped, PTL
  DEF Spec, KeepsMarkContract, Contract!MSpec

=============================================================================

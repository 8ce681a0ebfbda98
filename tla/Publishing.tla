------------------------------ MODULE Publishing ------------------------------
(***************************************************************************)
(* The deduplicated calls of RedisPublisher (publisher.go): a publish with *)
(* an idempotency key or a content hash, at once (XADD) or delayed (ZADD), *)
(* from several goroutines of several processes, over the marks that       *)
(* MessageDeduplicator keeps in Redis (deduplication.go).                  *)
(*                                                                         *)
(* A call holds the read lock of its publisher from its first check to its *)
(* return, so that SetDeduplicationConfig and Close, which take the write  *)
(* lock, happen between calls.  Within a call the mark (SETNX) and the     *)
(* message are two commands, and either may fail unexecuted or executed.   *)
(*                                                                         *)
(* Definitions marked "Mutant" are no part of the specification: each is   *)
(* the next definition with a plausible mistake in it.                     *)
(***************************************************************************)
EXTENDS Integers, FiniteSets

CONSTANTS
  Publishers,   \* RedisPublisher objects
  Goroutines,   \* goroutines that call each of them
  Keys,         \* idempotency keys and content hashes
  Prefixes,     \* values of DeduplicationConfig.KeyPrefix
  Default,      \* the one a new publisher has, "dedup"
  Off,          \* no deduplicator: Enabled was FALSE
  MaxCalls,     \* bound: calls that are begun
  MaxExpiries,  \* bound: times the TTL of one mark runs out
  MaxChanges,   \* bound: SetDeduplicationConfig calls
  MaxFaults     \* bound: failed commands and crashes

ASSUME PublishingAssumption ==
  /\ IsFiniteSet(Publishers) /\ IsFiniteSet(Goroutines)
  /\ IsFiniteSet(Keys) /\ IsFiniteSet(Prefixes)
  /\ Default \in Prefixes /\ Off \notin Prefixes
  /\ {MaxCalls, MaxExpiries, MaxChanges, MaxFaults} \subseteq Nat

Callers == Publishers \X Goroutines
Marks   == Prefixes \X Keys         \* getDeduplicationKey
Routes  == (Prefixes \cup {Off}) \X Keys
NoRoute == <<Off, Off>>

VARIABLES
  dedup,     \* the prefix of a publisher's deduplicator, or Off
  closed,    \* closed publishers
  marks,     \* the marks that exist in Redis
  messages,  \* messages sent for a key, and under which prefix
  expiries,  \* how often a mark ran out
  pc,        \* where a call is
  route,     \* the prefix and the key of a call
  rejected,  \* marks for which some call was rejected as a duplicate
  silent,    \* history: marks under which nothing was sent since they were set
  calls, changes, faults  \* used up so far

config == <<dedup, closed, changes>>
redis  == <<marks, messages, expiries>>
vars   == <<config, redis, pc, route, rejected, silent, calls, faults>>

TypeOK ==
  /\ dedup \in [Publishers -> Prefixes \cup {Off}]
  /\ closed \subseteq Publishers
  /\ marks \subseteq Marks
  /\ messages \in [Routes -> Nat]
  /\ expiries \in [Marks -> Nat]
  /\ pc \in [Callers -> {"none", "check", "send"}]
  /\ route \in [Callers -> Routes \cup {NoRoute}]
  /\ \A c \in Callers : /\ pc[c] = "check" => route[c] \in Marks
                        /\ pc[c] = "send" => route[c] \in Routes
  /\ rejected \subseteq Marks
  /\ silent \subseteq marks
  /\ calls \in 0..MaxCalls /\ changes \in 0..MaxChanges /\ faults \in 0..MaxFaults

Init ==
  /\ dedup = [p \in Publishers |-> Default]
  /\ closed = {}
  /\ marks = {}
  /\ messages = [r \in Routes |-> 0]
  /\ expiries = [m \in Marks |-> 0]
  /\ pc = [c \in Callers |-> "none"]
  /\ route = [c \in Callers |-> NoRoute]
  /\ rejected = {}
  /\ silent = {}
  /\ calls = 0 /\ changes = 0 /\ faults = 0

Fault == faults < MaxFaults /\ faults' = faults + 1

(* Some call holds the read lock of p. *)
InCall(p) == \E c \in Callers : c[1] = p /\ pc[c] # "none"

Goto(c, where, r) ==
  /\ pc' = [pc EXCEPT ![c] = where]
  /\ route' = [route EXCEPT ![c] = r]

Return(c) == Goto(c, "none", NoRoute)

-----------------------------------------------------------------------------
(* A call, of any of the six deduplicated methods. *)

(* Mutant: the deduplicator is used without the test for nil.             *)
BeginUnchecked(c, k) ==
  /\ calls < MaxCalls
  /\ pc[c] = "none" /\ c[1] \notin closed
  /\ Goto(c, "check", <<dedup[c[1]], k>>)
  /\ calls' = calls + 1
  /\ UNCHANGED <<config, redis, rejected, silent, faults>>

Begin(c, k) ==
  /\ calls < MaxCalls
  /\ pc[c] = "none" /\ c[1] \notin closed
  /\ Goto(c, IF dedup[c[1]] = Off THEN "send" ELSE "check", <<dedup[c[1]], k>>)
  /\ calls' = calls + 1
  /\ UNCHANGED <<config, redis, rejected, silent, faults>>

(* Mutant: the mark is looked up but not set.                             *)
CheckOnly(c) ==
  /\ pc[c] = "check"
  /\ route[c] \notin marks
  /\ Goto(c, "send", route[c])
  /\ UNCHANGED <<config, redis, rejected, silent, calls, faults>>

(* Mutant: the answer of SETNX is returned without its negation.          *)
MarkInverted(c) ==
  /\ pc[c] = "check"
  /\ route[c] \notin marks
  /\ marks' = marks \cup {route[c]}
  /\ silent' = silent \cup {route[c]}
  /\ Return(c)
  /\ UNCHANGED <<config, messages, expiries, rejected, calls, faults>>

(* CheckAndMark: SETNX set the mark. *)
MarkIsNew(c) ==
  /\ pc[c] = "check"
  /\ route[c] \notin marks
  /\ marks' = marks \cup {route[c]}
  /\ silent' = silent \cup {route[c]}
  /\ Goto(c, "send", route[c])
  /\ UNCHANGED <<config, messages, expiries, rejected, calls, faults>>

(* SETNX was executed, but the call sees an error and returns it.          *)
MarkReplyLost(c) ==
  /\ pc[c] = "check"
  /\ Fault
  /\ marks' = marks \cup {route[c]}
  /\ silent' = silent \cup ({route[c]} \ marks)
  /\ Return(c)
  /\ UNCHANGED <<config, messages, expiries, rejected, calls>>

(* The call returns "duplicate message detected". *)
MarkExists(c) ==
  /\ pc[c] = "check"
  /\ route[c] \in marks
  /\ rejected' = rejected \cup {route[c]}
  /\ Return(c)
  /\ UNCHANGED <<config, redis, silent, calls, faults>>

(* XADD, or ZADD of a delayed task. *)
Send(c) ==
  /\ pc[c] = "send"
  /\ messages' = [messages EXCEPT ![route[c]] = @ + 1]
  /\ silent' = silent \ {route[c]}
  /\ Return(c)
  /\ UNCHANGED <<config, marks, expiries, rejected, calls, faults>>

SendReplyLost(c) ==
  /\ pc[c] = "send"
  /\ Fault
  /\ messages' = [messages EXCEPT ![route[c]] = @ + 1]
  /\ silent' = silent \ {route[c]}
  /\ Return(c)
  /\ UNCHANGED <<config, marks, expiries, rejected, calls>>

(* SETNX was not executed. *)
CheckFails(c) ==
  /\ pc[c] = "check"
  /\ Fault
  /\ Return(c)
  /\ UNCHANGED <<config, redis, rejected, silent, calls>>

(* Mutant: the call takes its mark back before it returns the error.      *)
SendFailsUnmarks(c) ==
  /\ pc[c] = "send"
  /\ Fault
  /\ marks' = marks \ {route[c]}
  /\ silent' = silent \ {route[c]}
  /\ Return(c)
  /\ UNCHANGED <<config, messages, expiries, rejected, calls>>

(* XADD or ZADD was not executed: the call returns the error and leaves    *)
(* the mark where it is.                                                   *)
SendFails(c) ==
  /\ pc[c] = "send"
  /\ Fault
  /\ Return(c)
  /\ UNCHANGED <<config, redis, rejected, silent, calls>>

-----------------------------------------------------------------------------
(* Configuration, closing, and the environment. *)

(* Mutant: the write lock is not taken.                                   *)
SetUnlocked(p, prefix) ==
  /\ changes < MaxChanges
  /\ dedup' = [dedup EXCEPT ![p] = prefix]
  /\ changes' = changes + 1
  /\ UNCHANGED <<closed, redis, pc, route, rejected, silent, calls, faults>>

SetDeduplicationConfig(p, prefix) ==
  /\ changes < MaxChanges
  /\ ~InCall(p)
  /\ dedup' = [dedup EXCEPT ![p] = prefix]
  /\ changes' = changes + 1
  /\ UNCHANGED <<closed, redis, pc, route, rejected, silent, calls, faults>>

(* Mutant: Close does not wait for the calls in progress.                 *)
CloseAtOnce(p) ==
  /\ p \notin closed
  /\ closed' = closed \cup {p}
  /\ UNCHANGED <<dedup, changes, redis, pc, route, rejected, silent, calls, faults>>

Close(p) ==
  /\ p \notin closed
  /\ ~InCall(p)
  /\ closed' = closed \cup {p}
  /\ UNCHANGED <<dedup, changes, redis, pc, route, rejected, silent, calls, faults>>

(* The TTL of a mark runs out. *)
Expire(m) ==
  /\ m \in marks
  /\ expiries[m] < MaxExpiries
  /\ marks' = marks \ {m}
  /\ silent' = silent \ {m}
  /\ expiries' = [expiries EXCEPT ![m] = @ + 1]
  /\ UNCHANGED <<config, messages, pc, route, rejected, calls, faults>>

(* The process of a publisher dies, with all its calls; another takes its *)
(* place.                                                                  *)
Crash(p) ==
  /\ Fault
  /\ dedup' = [dedup EXCEPT ![p] = Default]
  /\ closed' = closed \ {p}
  /\ pc' = [c \in Callers |-> IF c[1] = p THEN "none" ELSE pc[c]]
  /\ route' = [c \in Callers |-> IF c[1] = p THEN NoRoute ELSE route[c]]
  /\ UNCHANGED <<changes, redis, rejected, silent, calls>>

CallStep(c) ==
  \/ MarkIsNew(c)
  \/ MarkReplyLost(c)
  \/ MarkExists(c)
  \/ Send(c)
  \/ SendReplyLost(c)
  \/ CheckFails(c)
  \/ SendFails(c)

Next ==
  \/ \E c \in Callers : CallStep(c) \/ \E k \in Keys : Begin(c, k)
  \/ \E p \in Publishers :
       \/ \E prefix \in Prefixes \cup {Off} : SetDeduplicationConfig(p, prefix)
       \/ Close(p)
       \/ Crash(p)
  \/ \E m \in Marks : Expire(m)

Spec == Init /\ [][Next]_vars

(* A call that was begun comes to its end.                                *)
FairSpec == Spec /\ \A c \in Callers : WF_vars(CallStep(c))

-----------------------------------------------------------------------------
(* Properties. *)

(* README.md:332: duplicate checking is free of races.  Whoever calls,     *)
(* however the calls overlap, are retried and lose replies, one life of a  *)
(* mark lets one message through.                                          *)
OneMessagePerMark == \A m \in Marks : messages[m] <= 1 + expiries[m]

Sending(m) == \E c \in Callers : pc[c] = "send" /\ route[c] = m

(* Marks that reject every call although nothing was sent since they were *)
(* set, and nobody is about to send: also marks that sent in an earlier   *)
(* life.                                                                  *)
Blocked == {m \in silent : ~Sending(m)}

(* A key is blocked without a message only by a fault of its own: two     *)
(* concurrent calls never reject one another.  A crash of a publisher     *)
(* leaves at most one such mark for each of its goroutines.               *)
BlockedNeedsFaults ==
  Cardinality(Blocked) <= faults * Cardinality(Goroutines)

(* Close waits for the calls in progress: afterwards no call of the       *)
(* publisher sends a command.                                             *)
ClosedIsQuiet == \A p \in closed : ~InCall(p)

(* A call in progress does not see its configuration change: it sends     *)
(* under the prefix it checked.                                           *)
ConfigurationFixed ==
  \A c \in Callers : pc[c] # "none" => route[c][1] = dedup[c[1]]

(* The publishers keep the contract of marks: the calls between their      *)
(* SETNX and their XADD hold the permits, whatever their locks and the     *)
(* changes of configuration do.                                            *)
Senders(m) == {c \in Callers : pc[c] = "send" /\ route[c] = m}

Contract == INSTANCE MarkContract WITH
  held    <- marks,
  expired <- expiries,
  permits <- [m \in Marks |-> Cardinality(Senders(m))],
  sent    <- [m \in Marks |-> messages[m]]

KeepsMarkContract == Contract!MSpec

-----------------------------------------------------------------------------
(* What the documentation says and the code does not do. *)

(* publisher.go:97 answers a rejected call "duplicate message detected",  *)
(* and deduplication.go:114 says of a SETNX that sets nothing "message was *)
(* duplicate".  The mark is set before the message is sent and is not     *)
(* taken back when sending fails: of a mark whose call got as far as       *)
(* sending, every later call is a duplicate of a message that was never    *)
(* sent.                                                                   *)
RejectedHasOriginal ==
  \A m \in Marks : <>Sending(m) => ((m \in rejected) ~> (messages[m] > 0))

=============================================================================

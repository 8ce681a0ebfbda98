----------------------------- MODULE MarkContract -----------------------------
(***************************************************************************)
(* What deduplication promises to whoever publishes, with no calls, locks, *)
(* configuration or goroutines: a mark that is not held is granted to one  *)
(* call, which gets one permit to send; the permit becomes a message or is *)
(* forfeited by a fault, and until the mark expires everyone else is       *)
(* rejected.  Nothing but time takes a mark back.                          *)
(***************************************************************************)
EXTENDS Integers

CONSTANT Marks

VARIABLES
  held,      \* marks that reject every call
  expired,   \* how often a mark ran out
  permits,   \* calls that may send one message for a mark
  sent,      \* messages sent for a mark
  rejected,  \* marks for which some call was rejected
  faults     \* faults so far

mvars == <<held, expired, permits, sent, rejected, faults>>

MInit ==
  /\ held = {} /\ rejected = {}
  /\ expired = [m \in Marks |-> 0]
  /\ permits = [m \in Marks |-> 0]
  /\ sent = [m \in Marks |-> 0]
  /\ faults = 0

Grant(m) ==
  /\ m \notin held
  /\ held' = held \cup {m}
  /\ permits' = [permits EXCEPT ![m] = @ + 1]
  /\ UNCHANGED <<expired, sent, rejected, faults>>

(* A fault holds a mark for nobody.                                        *)
Waste(m) ==
  /\ held' = held \cup {m}
  /\ faults' = faults + 1
  /\ UNCHANGED <<expired, permits, sent, rejected>>

Send(m) ==
  /\ permits[m] > 0
  /\ permits' = [permits EXCEPT ![m] = @ - 1]
  /\ sent' = [sent EXCEPT ![m] = @ + 1]
  /\ faults' \in {faults, faults + 1}
  /\ UNCHANGED <<held, expired, rejected>>

(* A fault takes permits away, those of a whole process if it crashes.     *)
Forfeit ==
  /\ permits' \in [Marks -> Nat]
  /\ \A m \in Marks : permits'[m] <= permits[m]
  /\ faults' = faults + 1
  /\ UNCHANGED <<held, expired, sent, rejected>>

Reject(m) ==
  /\ m \in held
  /\ rejected' = rejected \cup {m}
  /\ UNCHANGED <<held, expired, permits, sent, faults>>

Expire(m) ==
  /\ m \in held
  /\ held' = held \ {m}
  /\ expired' = [expired EXCEPT ![m] = @ + 1]
  /\ UNCHANGED <<permits, sent, rejected, faults>>

MNext ==
  \/ Forfeit
  \/ \E m \in Marks : Grant(m) \/ Waste(m) \/ Send(m) \/ Reject(m) \/ Expire(m)

MSpec == MInit /\ [][MNext]_mvars
=============================================================================

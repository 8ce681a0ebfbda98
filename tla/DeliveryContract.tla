-------------------------- MODULE DeliveryContract --------------------------
(***************************************************************************)
(* What the consumer side promises to whoever publishes a message and to  *)
(* whoever writes a handler, with no stream, group, batch or snapshot: a   *)
(* message may be handled several times but at most MaxAttempts times, and *)
(* it is settled, never to be handed out again, only after a handler call  *)
(* succeeded on it or after it was copied to the dead-letter stream.       *)
(***************************************************************************)
EXTENDS Integers

CONSTANTS Messages, MaxAttempts

VARIABLES
  published,   \* messages in the stream
  attempts,    \* handler calls per message
  handled,     \* messages some call succeeded on
  dead,        \* dead-letter copies per message
  settled      \* acknowledged messages

cvars == <<published, attempts, handled, dead, settled>>

CInit ==
  /\ published = {}
  /\ attempts = [m \in Messages |-> 0]
  /\ handled = {}
  /\ dead = [m \in Messages |-> 0]
  /\ settled = {}

Publish(m) ==
  /\ m \notin published
  /\ published' = published \cup {m}
  /\ UNCHANGED <<attempts, handled, dead, settled>>

Attempt(m) ==
  /\ m \in published
  /\ attempts[m] < MaxAttempts
  /\ attempts' = [attempts EXCEPT ![m] = @ + 1]
  /\ UNCHANGED <<published, handled, dead, settled>>

Succeed(m) ==
  /\ attempts[m] > 0
  /\ handled' = handled \cup {m}
  /\ UNCHANGED <<published, attempts, dead, settled>>

Bury(m) ==
  /\ m \in published
  /\ dead' = [dead EXCEPT ![m] = @ + 1]
  /\ UNCHANGED <<published, attempts, handled, settled>>

Settle(m) ==
  /\ m \in published
  /\ m \in handled \/ dead[m] > 0
  /\ settled' = settled \cup {m}
  /\ UNCHANGED <<published, attempts, handled, dead>>

CNext ==
  \E m \in Messages :
    Publish(m) \/ Attempt(m) \/ Succeed(m) \/ Bury(m) \/ Settle(m)

CSpec == CInit /\ [][CNext]_cvars
=============================================================================

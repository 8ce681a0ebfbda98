----------------------------- MODULE DeadLetters -----------------------------
(***************************************************************************)
(* The consumer group of ConsumerGroup together with the other end of its  *)
(* dead-letter stream: callers of ReprocessDeadLetterMessage (recovery.go) *)
(* move letters back into the stream, while recovery adds new ones.        *)
(*                                                                         *)
(* A call WATCHes the dead-letter stream, looks its letter up with XRANGE  *)
(* and sends MULTI (XADD to the original stream, XDEL of the letter) EXEC. *)
(* Redis refuses the EXEC when the watched stream changed in between, for  *)
(* whatever reason.  The batch form is one such call after another.  The   *)
(* reply of an EXEC may be lost: the caller sees an error, and may call    *)
(* again for the same letter, as it always may.                            *)
(*                                                                         *)
(* Every step of the group is a step of ConsumerGroup, and reprocessing    *)
(* looks to the group like a Publish.  Whether the handler can decode the  *)
(* new message is again up to Malformed: one reprocesses after a repair.   *)
(***************************************************************************)
EXTENDS ConsumerGroup

CONSTANTS
  Reprocessors,  \* goroutines, in any process, that reprocess letters
  MaxPublished   \* bound: messages published, not reprocessed

VARIABLES
  letters,   \* the letters in the dead-letter stream
  origin,    \* the letter a message was made from: the field
             \* reprocessed_from_dead_letter
  target,    \* the letter a call has found and is about to move
  touched    \* the calls whose watched stream was changed since WATCH

dlVars  == <<letters, origin, target, touched>>
allVars == <<vars, dlVars>>

(* The k-th copy of message m is the letter <<m, k>>.                      *)
NoLetter == <<None, 0>>
Watching == {r \in Reprocessors : target[r] # NoLetter}
Written  == UNION {{m} \X (1..dead[m]) : m \in Messages}

Published == {m \in 1..added : origin[m] = NoLetter}

DLTypeOK ==
  /\ letters \subseteq Written
  /\ origin \in [Messages -> Written \cup {NoLetter}]
  /\ \A m \in Messages : added < m => origin[m] = NoLetter
  /\ target \in [Reprocessors -> Written \cup {NoLetter}]
  /\ touched \subseteq Watching

DLInit ==
  /\ Init
  /\ letters = {}
  /\ origin = [m \in Messages |-> NoLetter]
  /\ target = [r \in Reprocessors |-> NoLetter]
  /\ touched = {}

-----------------------------------------------------------------------------
(* A step of the group: a copy that moveToDeadLetter added is a letter,    *)
(* and touches the stream every call watches.                              *)
GroupStep ==
  /\ Next
  /\ added' > added => Cardinality(Published) < MaxPublished
  /\ letters' = letters \cup (Written' \ Written)
  /\ touched' = IF dead' = dead THEN touched ELSE Watching
  /\ UNCHANGED <<origin, target>>

(* WATCH and XRANGE.  They are one step because a change between the two   *)
(* does what a change after them does: EXEC will be refused.  A call for a *)
(* letter that is gone ends here with an error and changes nothing.        *)
Find(r, l) ==
  /\ r \notin Watching
  /\ l \in letters
  /\ target' = [target EXCEPT ![r] = l]
  /\ UNCHANGED <<vars, letters, origin, touched>>

CallEnds(r) ==
  /\ r \in Watching
  /\ target' = [target EXCEPT ![r] = NoLetter]

(* XADD of the message and XDEL of the letter, which touches the stream    *)
(* the other calls watch.                                                  *)
Move(r) ==
  /\ Publish
  /\ origin' = [origin EXCEPT ![added + 1] = target[r]]
  /\ letters' = letters \ {target[r]}
  /\ touched' = Watching \ {r}

(* Mutant: the stream is not watched.                                      *)
ExecUnwatched(r) == CallEnds(r) /\ Move(r)

(* Mutant: XDEL first, and no transaction with the XADD, which fails.      *)
ExecDeletesOnly(r) ==
  /\ CallEnds(r)
  /\ letters' = letters \ {target[r]}
  /\ touched' = Watching \ {r}
  /\ UNCHANGED <<vars, origin>>

(* EXEC is carried out when nothing touched the stream.                    *)
Exec(r) ==
  /\ r \notin touched
  /\ CallEnds(r)
  /\ Move(r)

(* Mutant: the connection goes back to its pool without UNWATCH.           *)
FailStillWatching(r) ==
  /\ CallEnds(r)
  /\ UNCHANGED <<vars, letters, origin, touched>>

(* EXEC is refused, also because of a letter that came from another stream *)
(* (they share one dead-letter stream), or a command is not executed, or   *)
(* the process dies: with the connection the watch is gone.                *)
Fail(r) ==
  /\ CallEnds(r)
  /\ touched' = touched \ {r}
  /\ UNCHANGED <<vars, letters, origin>>

ReprocessDeadLetterMessage(r) ==
  (\E l \in letters : Find(r, l)) \/ Exec(r) \/ Fail(r)

(* A goroutine makes one call after the other, whatever they return, as    *)
(* ReprocessMultipleDeadLetterMessages does.                               *)
DLNext ==
  \/ GroupStep
  \/ \E r \in Reprocessors : ReprocessDeadLetterMessage(r)

DLSpec == DLInit /\ [][DLNext]_allVars

(* Nobody is forced to reprocess anything.                                 *)
DLFairSpec == DLSpec /\ Fairness

-----------------------------------------------------------------------------
(* Properties.  What the group keeps it keeps here as well: see            *)
(* StillAGroup in DeadLettersProofs.                                       *)

(* However many callers reprocess one letter at the same time or again     *)
(* after an error, at most one message is made from it.                    *)
OncePerLetter ==
  \A m, n \in Messages :
    (origin[m] = origin[n] /\ origin[m] # NoLetter) => m = n

(* Nothing falls between the two streams: a message that was acknowledged  *)
(* and on which no handler call succeeded still is in the dead-letter      *)
(* stream, or goes on as another message of the stream.                    *)
LineageKept ==
  \A m \in Settled \ handled :
    \/ \E l \in letters : l[1] = m
    \/ \E n \in 1..added : origin[n][1] = m

=============================================================================

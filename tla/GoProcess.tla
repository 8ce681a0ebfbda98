---- MODULE GoProcess ----
(* What the objects of one Go process have in common: a panic of any       *)
(* goroutine ends the process for all of them, and the goroutines of the   *)
(* application call their methods.                                         *)
EXTENDS Integers

VARIABLE panicked   \* TRUE once a goroutine has panicked: nothing runs again

CONSTANT MaxStarts  \* bound: effective Start calls of one object
ASSUME ProcessAssumption == MaxStarts \in Nat

(* The n-th Start of an object has the n-th context and spawns the n-th    *)
(* generation of its goroutines.                                           *)
Generations == 1..MaxStarts

CONSTANT Callers    \* goroutines of the application that call methods
====

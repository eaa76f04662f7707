----------------------------- MODULE ListTypes ------------------------------
(* What the two lists of lab05 store, and their null pointer. *)
EXTENDS Integers

CONSTANTS Value,  \* the integers that are stored
          Nil     \* the null pointer

ASSUME ValueAssumption == Value \subseteq Int /\ Nil \notin Int
=============================================================================

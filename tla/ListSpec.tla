------------------------------ MODULE ListSpec ------------------------------
(***************************************************************************)
(* What lists.h promises of any list: a sequence of values that grows at a *)
(* chosen position or at the end, can be sorted or emptied, and is read by *)
(* an iterator that visits it in order.                                    *)
(***************************************************************************)
EXTENDS Integers, Sequences, FiniteSets, SequencesExt

CONSTANTS Value

VARIABLES contents,  \* the sequence
          toRead     \* what the iterator has not yet read

vars == <<contents, toRead>>

Increasing(s) == \A i, j \in DOMAIN s : i < j => s[i] <= s[j]

SameElements(s, t) ==
  \A v \in Value : Cardinality({i \in DOMAIN s : s[i] = v})
                     = Cardinality({i \in DOMAIN t : t[i] = v})

Init == contents = <<>> /\ toRead = <<>>

Insert(index, v) ==
  /\ contents' = InsertAt(contents, index + 1, v)
  /\ toRead' = <<>>

Sort == /\ Increasing(contents')
        /\ SameElements(contents, contents')
        /\ toRead' = <<>>

Clear == contents' = <<>> /\ toRead' = <<>>

Iterate == toRead' = contents /\ UNCHANGED contents

Advance == toRead # <<>> /\ toRead' = Tail(toRead) /\ UNCHANGED contents

Next ==
  \/ \E v \in Value, index \in 0..Len(contents) : Insert(index, v)
  \/ Sort \/ Clear \/ Iterate \/ Advance

Spec == Init /\ [][Next]_vars
=============================================================================

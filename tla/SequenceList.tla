---------------------------- MODULE SequenceList ----------------------------
(***************************************************************************)
(* What list.h promises: an indexed sequence of pointers, indices from 0.  *)
(* An index out of bounds is answered with a null pointer.                 *)
(***************************************************************************)
EXTENDS Integers, Sequences

CONSTANTS Values, Indices, NULL

VARIABLES
    seq,    \* the values, in order
    result  \* what the last operation returned

vars == <<seq, result>>

InBounds(i) == i < Len(seq)

AddValue(v) == seq' = Append(seq, v) /\ UNCHANGED result

\* A value that is there already is not added again.
SetAddValue(v) ==
    IF \E k \in DOMAIN seq : seq[k] = v THEN UNCHANGED vars ELSE AddValue(v)

RemoveValue(i) ==
    IF InBounds(i)
    THEN seq' = SubSeq(seq, 1, i) \o SubSeq(seq, i + 2, Len(seq)) /\ result' = seq[i + 1]
    ELSE result' = NULL /\ UNCHANGED seq

GetValue(i) ==
    /\ result' = IF InBounds(i) THEN seq[i + 1] ELSE NULL
    /\ UNCHANGED seq

SetValue(i, v) ==
    IF InBounds(i)
    THEN result' = seq[i + 1] /\ seq' = [seq EXCEPT ![i + 1] = v]
    ELSE result' = NULL /\ UNCHANGED seq

\* Which of several equal values is found is left open.
FindIndex(v) ==
    /\ IF \E k \in DOMAIN seq : seq[k] = v
       THEN \E k \in DOMAIN seq : seq[k] = v /\ result' = <<k - 1>>
       ELSE result' = <<-1>>
    /\ UNCHANGED seq

Clear == seq' = <<>> /\ UNCHANGED result

Init == seq = <<>> /\ result = NULL

Next ==
    \/ \E v \in Values : AddValue(v) \/ SetAddValue(v) \/ FindIndex(v)
    \/ \E i \in Indices : RemoveValue(i) \/ GetValue(i) \/ \E v \in Values : SetValue(i, v)
    \/ Clear

Spec == Init /\ [][Next]_vars

=============================================================================

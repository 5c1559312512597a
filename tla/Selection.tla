----------------------------- MODULE Selection -----------------------------
(***************************************************************************)
(* What the loops of Tuniac that delete while they walk a list leave of    *)
(* it: the elements at some of its indexes, in their order.  SelectSeq     *)
(* says the same, but nothing can be proved of it.                         *)
(***************************************************************************)
EXTENDS Integers, Sequences, SequencesExt

\* The elements of s at the indexes in I.
Selected(s, I) == FlattenSeq([i \in DOMAIN s |-> IF i \in I THEN <<s[i]>> ELSE <<>>])

\* The elements of s that pass the test.
Kept(s, Test(_)) == Selected(s, {i \in DOMAIN s : Test(s[i])})
============================================================================

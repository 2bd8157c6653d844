-------------------------- MODULE MC_RttiPointers --------------------------
(* Slots and blocks for model checking RttiPointers.                       *)
EXTENDS RttiPointers, TLC

CONSTANTS s1, s2, h1, h2, h3, w1, w2, b1, b2

\* Handles of one kind are interchangeable, and so are blocks.
Interchangeable ==
  Permutations({s1, s2}) \cup Permutations({h1, h2, h3}) \cup Permutations({w1, w2})
    \cup Permutations({b1, b2})
=============================================================================

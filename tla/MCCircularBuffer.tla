-------------------------- MODULE MCCircularBuffer --------------------------
(* The instances of CircularBuffer for TLC: a ring of two pages, and one of *)
(* three, whose capacity is no power of two.                                *)
EXTENDS CircularBufferProofs

(* buffer_pos is the remainder for a power of two and for nothing else. *)
ASSUME OnlyPowersOfTwoMask ==
  \A c \in 1 .. IndexRange :
    (\E k \in 0 .. IndexBits : c = 2 ^ k) <=> \A p \in Index : BitAnd(p, c - 1) = p % c
=============================================================================

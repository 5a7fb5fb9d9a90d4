------------------------------- MODULE SizeT -------------------------------
(***************************************************************************)
(* The unsigned machine integers of the free-running indices (size_t),     *)
(* which wrap around.                                                      *)
(***************************************************************************)
EXTENDS Integers

CONSTANT IndexBits  \* width of size_t

ASSUME IndexBitsAssumption == IndexBits \in Nat

(* What exponentiation is: the provers know only sums and products. *)
ASSUME PowersOfTwo ==
  /\ 2 ^ 0 = 1
  /\ \A i \in 0 .. IndexBits : 2 ^ i \in Nat \ {0} /\ 2 ^ (i + 1) = 2 * 2 ^ i

IndexRange == 2 ^ IndexBits

Index == 0 .. IndexRange - 1

(* Every operand is an index or a size, so one correction brings a sum or  *)
(* a difference back into range.                                           *)
Wrap(n) == IF n >= IndexRange THEN n - IndexRange ELSE n

Distance(from, to) == IF from <= to THEN to - from ELSE to - from + IndexRange
=============================================================================

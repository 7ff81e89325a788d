---------------------------- MODULE Subsequences ----------------------------
(***************************************************************************)
(* Walking positions in order: what a filter over an iterator, or a scan   *)
(* for a separator, visits first, second and so on.  Stated without        *)
(* recursion, so that it can be reasoned about.                            *)
(***************************************************************************)
EXTENDS Naturals, Sequences, FiniteSets

\* The n-th of some positions, from the left.
Nth(at, n) == CHOOSE i \in at : Cardinality({j \in at : j <= i}) = n

\* What is at those positions, in its order.
Picked(s, at) == [n \in 1 .. Cardinality(at) |-> s[Nth(at, n)]]

=============================================================================

-------------------------------- MODULE Sums --------------------------------
(***************************************************************************)
(* The sums of probabilities that the code takes entry by entry.           *)
(***************************************************************************)
EXTENDS Integers, Sequences

\* The sum of the first n entries of a sequence of numbers.
SumTo(p, n) ==
  LET sum[k \in 0..Len(p)] == IF k = 0 THEN 0 ELSE sum[k - 1] + p[k]
  IN  sum[n]

SumOf(p) == SumTo(p, Len(p))
=============================================================================

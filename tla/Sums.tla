-------------------------------- MODULE Sums --------------------------------
(***************************************************************************)
(* The sum of the values of a function.                                    *)
(***************************************************************************)
EXTENDS Naturals, FiniteSets

\* That many pairs of an argument and a number from 1 on.
SumOf(f) == Cardinality(UNION {{t} \X (1 .. f[t]) : t \in DOMAIN f})
=============================================================================

------------------------------- MODULE Totals -------------------------------
(* Sums, as the number of the units summed: x has the units <<x, 1>> to     *)
(* <<x, f[x]>>, none if f[x] is negative.                                   *)
EXTENDS Integers, FiniteSets

Units(f) == UNION {{x} \X (1 .. f[x]) : x \in DOMAIN f}
Total(f) == Cardinality(Units(f))
=============================================================================

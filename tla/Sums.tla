--------------------------------- MODULE Sums ---------------------------------
\* The sum of the amounts f[x] over a set, as the number of the units that they are
\* made of.  A fold would do as well, but the laws of a sum then need an induction.
EXTENDS Integers, FiniteSets

UnitsOf(f, S) == UNION {{x} \X (1..f[x]) : x \in S}
SumOf(f, S) == Cardinality(UnitsOf(f, S))
===============================================================================

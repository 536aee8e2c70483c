------------------------------- MODULE Totals -------------------------------
(***************************************************************************)
(* The sum of the values of a function, which are natural numbers.  It is  *)
(* a cardinality, that of a set with f[x] elements for each x, so that     *)
(* what is known of finite sets can be used to reason about sums.          *)
(***************************************************************************)
EXTENDS Integers, FiniteSets

Units(f) == UNION {{x} \X (1 .. f[x]) : x \in DOMAIN f}

Total(f) == Cardinality(Units(f))
=============================================================================

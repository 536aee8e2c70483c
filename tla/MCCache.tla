------------------------------ MODULE MCCache -------------------------------
(* Instances of the cache for TLC.                                         *)
EXTENDS Cache, TLC

SymKeys == Permutations(Key)
SymVisitors == Permutations(Visitor)
SymBoth == SymKeys \cup SymVisitors
=============================================================================

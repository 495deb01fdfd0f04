----------------------------- MODULE MCExpected -----------------------------
(***************************************************************************)
(* Every pair of types in which at most two operations may throw, or all.  *)
(***************************************************************************)
EXTENDS Expected, FiniteSets, Naturals, TLC

MCTraits ==
  {t \in [void : BOOLEAN, throwing : SUBSET Operations] :
     /\ Cardinality(t.throwing) <= 2 \/ t.throwing = Operations
     /\ t.void => \A operation \in t.throwing : operation[2] = "E"}

Symmetry == Permutations(Objects) \cup Permutations(Values)
=============================================================================

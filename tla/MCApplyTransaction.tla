-------------------------- MODULE MCApplyTransaction --------------------------
(* ApplyTransaction for TLC: ids that the specification treats alike are    *)
(* interchangeable.                                                         *)
EXTENDS ApplyTransaction, TLC

Symmetry ==
  Permutations(InternshipIds) \cup Permutations(Semesters)
    \cup Permutations(Coordinators) \cup Permutations(Opportunities)

=============================================================================

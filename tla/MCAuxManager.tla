---------------------------- MODULE MCAuxManager ----------------------------
(* Instances of AuxManager for TLC. *)
EXTENDS AuxManager, TLC

CONSTANTS n1, n2, a1, a2, s1, s2, s3, t1, t2

Symmetry == Permutations({n1, n2}) \cup Permutations({a1, a2})
              \cup Permutations({s1, s2, s3})
=============================================================================

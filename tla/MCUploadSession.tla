-------------------------- MODULE MCUploadSession --------------------------
(* Instances of UploadSession for TLC. *)
EXTENDS UploadSession, TLC

CONSTANTS t1, t2, u1, u2

Symmetry == Permutations({t1, t2}) \cup Permutations({u1, u2})
=============================================================================

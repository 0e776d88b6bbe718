----------------------------- MODULE MCDataset -----------------------------
(* Instances of Dataset for TLC. *)
EXTENDS Dataset, TLC

CONSTANTS t1, t2

OneSpace  == [t \in Tasks |-> "zss"]
TwoSpaces == [t \in Tasks |-> t]

Sequential == [d \in Datasets |-> {"PS"}]
MixedKinds == [d \in Datasets |-> IF d = "A" THEN {"PS", "PO", "VSAM"} ELSE {"none", "PS", "PO"}]

Symmetry == Permutations({t1, t2})
=============================================================================

----------------------------- MODULE MCAuxHost -----------------------------
(* Instances of AuxHost for TLC. *)
EXTENDS AuxHost, TLC

CONSTANTS c1, c2, f1

\* The guest was started with or without ZIS_AUX_FLAG_COMM_PC_OFF, by a
\* manager of this or of an older version.
AllAreas == {{"COMM_PC_ON"}, {}, {"COMM_PC_ON", "OLD_VERSION"}}
NewAreas == {{"COMM_PC_ON"}, {}}

NoBuffer    == {{}}
BothBuffers == {{"payload", "response"}}

CallerSymmetry == Permutations({c1, c2})
==============================================================================

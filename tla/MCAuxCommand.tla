---------------------------- MODULE MCAuxCommand ----------------------------
(* An instance of AuxCommand for TLC. *)
EXTENDS AuxCommand

CONSTANTS w1, w2
=============================================================================

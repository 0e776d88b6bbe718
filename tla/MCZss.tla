-------------------------------- MODULE MCZss --------------------------------
(* An instance of Zss for TLC. *)
EXTENDS Zss

CONSTANTS t1, t2

\* Storage and JWT are configured in turn: they have only the gateway in common.
Config(mode, caching, mediation) ==
  [mode |-> mode, caching |-> caching, mediation |-> mediation, gatewaySet |-> TRUE]
AllConfigs == {Config("https", TRUE, FALSE), Config("https", FALSE, TRUE),
               Config("http", TRUE, TRUE), Config("tunnel", TRUE, TRUE)}

TwoKeys == <<"k1", "k2">>

AllTokens == {[alg |-> "RS256", key |-> k, sigLen |-> 1] : k \in {"k1", "k2", "forged"}}
               \cup {[alg |-> "none", key |-> "forged", sigLen |-> l] : l \in {0, 1}}
               \cup {[alg |-> "other", key |-> "k1", sigLen |-> 1]}
==============================================================================

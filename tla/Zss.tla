--------------------------------- MODULE Zss ---------------------------------
(***************************************************************************)
(* The ZSS main program (zss.c), the task that fetches the public key of   *)
(* the gateway and the check of JSON web tokens with it (jwk.c), and the   *)
(* storage of plug-ins (ApimlStorage).  main() reads its configuration,    *)
(* makes the HTTP server, sets up storage and JWT as far as they are       *)
(* configured, and serves requests in subtasks until it ends; a restart    *)
(* finds what the caching service kept and requests still under way.       *)
(***************************************************************************)
EXTENDS ApimlStorage, Sequences

CONSTANTS
  Configs,      \* configurations: [mode, caching, mediation, gatewaySet]
  GatewayKeys,  \* sequence of the signing keys that the gateway uses in turn
  Tokens,       \* tokens that come with requests: [alg, key, sigLen]
  MaxAttempts,  \* maxAttempts of jwkTaskMain (1000 in the code)
  MaxStarts     \* bound: starts of ZSS

ASSUME ZssAssumption ==
  /\ MaxAttempts \in Nat \ {0} /\ MaxStarts \in Nat \ {0} /\ Len(GatewayKeys) > 0
  /\ \A c \in Configs : c.mode \in {"tunnel", "https", "http"}
  \* Nobody signs with what is no key.
  /\ \A token \in Tokens : token.key \notin {"none", "garbage", "torn"}

VARIABLES
  main,           \* where main() is
  config,         \* the configuration that it runs with
  zssStatus,      \* its exit status
  starts,         \* number of starts
  remoteStorage,  \* the plug-in has a storage
  jwkContext,     \* the JwkContext that the HTTP server was given
  isPublicKeyInitialized, publicKey,   \* its fields
  jwk,            \* the background task jwkTaskMain
  keyNo,          \* the gateway uses GatewayKeys[keyNo]
  check           \* a subtask that checks a token

mainVars == <<main, config, zssStatus, starts, remoteStorage>>
ctxVars  == <<jwkContext, isPublicKeyInitialized, publicKey>>
jwkVars  == <<ctxVars, jwk>>
tokenVars == <<jwkVars, keyNo, check>>
callVars == <<gateway, cache, wire, task, requests>>
vars == <<mainVars, tokenVars, callVars>>

NoJwk   == [step |-> "none", attempts |-> 0, key |-> "none"]
NoToken == [alg |-> "none", key |-> "none", sigLen |-> 0]
NoCheck == [step |-> "idle", token |-> NoToken, ready |-> FALSE, rc |-> "none"]

Init ==
  /\ StorageInit /\ main = "start" /\ config \in Configs /\ zssStatus = "OK" /\ starts = 1
  /\ remoteStorage = FALSE /\ jwkContext = "none" /\ isPublicKeyInitialized = FALSE
  /\ publicKey = "none" /\ jwk = NoJwk /\ keyNo = 1 /\ check = NoCheck

-----------------------------------------------------------------------------
(***************************************************************************)
(* main().                                                                 *)
(***************************************************************************)
Goes(to) == main' = to /\ UNCHANGED <<config, starts, remoteStorage, tokenVars, callVars>>
Fails == Goes("ended") /\ zssStatus' = "ERROR"

\* Arguments, schemas, configuration, directories.
loadConfiguration == main = "start" /\ Goes("configured") /\ UNCHANGED zssStatus
loadFails == main = "start" /\ Fails

tlsEnv == config.mode = "https"

\* The pipes of the tunnel case, the TLS settings, the address.
parseIntPairFails == main = "configured" /\ config.mode = "tunnel" /\ Fails
tlsInitFails      == main = "configured" /\ tlsEnv /\ Fails
validateAddress   == main = "configured" /\ config.mode # "tunnel" /\ Fails

makeServer == main = "configured" /\ Goes("server") /\ UNCHANGED zssStatus

\* No server, for instance because the port is in use: the exit status stays
\* OK.  In the tunnel case the missing server is used and main() abends.
noServer ==
  /\ main = "configured" /\ Goes("ended")
  /\ zssStatus' = IF config.mode = "tunnel" THEN "abend" ELSE zssStatus

isCachingServiceEnabled  == config.caching
isMediationLayerEnabled  == config.mediation
readGatewaySettings      == config.gatewaySet
readApimlStorageSettings == isCachingServiceEnabled /\ readGatewaySettings /\ tlsEnv
readJwkSettings          == isMediationLayerEnabled /\ readGatewaySettings /\ tlsEnv

\* Its location and its definition are found, or the plug-in is left out.
readPluginDefinition == BOOLEAN

\* A plug-in gets its storage, unless there is none or its making fails.
readWebPluginDefinitions ==
  /\ main = "server" /\ main' = "plugins"
  /\ \E found \in readPluginDefinition : remoteStorage' \in {FALSE, found /\ readApimlStorageSettings}
  /\ UNCHANGED <<config, zssStatus, starts, tokenVars, callVars>>

-----------------------------------------------------------------------------
(***************************************************************************)
(* configureJwt, after which main() installs the services and serves.      *)
(***************************************************************************)
Serves == main' = "serving" /\ UNCHANGED <<config, zssStatus, starts, remoteStorage, keyNo,
                                          check, callVars>>

\* No settings, or no context that the HTTP server would know of.
jwtNotConfigured == main = "plugins" /\ Serves /\ UNCHANGED jwkVars

\* The fields of the new context are whatever its storage held before.
newContext(state) ==
  /\ main = "plugins" /\ readJwkSettings /\ jwkContext' = state
  /\ isPublicKeyInitialized' \in BOOLEAN /\ publicKey' = "garbage" /\ Serves

configureJwt == newContext("live") /\ jwk' = [NoJwk EXCEPT !.step = "request"]

\* The result of startRLETask is not looked at.
jwkTaskNotStarted == newContext("live") /\ UNCHANGED jwk

\* makeRLETask fails: the context is freed, and the HTTP server keeps it.
jwkTaskNotMade == newContext("freed") /\ UNCHANGED jwk

-----------------------------------------------------------------------------
(***************************************************************************)
(* jwkTaskMain.                                                            *)
(***************************************************************************)
JwkGoes(j) == jwk' = j /\ UNCHANGED <<mainVars, keyNo, check, callVars>>

\* doRequest and getPublicKey: a key was received and is usable.
getJwk ==
  /\ jwk.step = "request" /\ gateway = "up"
  /\ JwkGoes([jwk EXCEPT !.step = "received", !.key = GatewayKeys[keyNo]])
  /\ UNCHANGED ctxVars

\* The structure is copied, then the flag is set.
copyKey ==
  /\ \/ jwk.step = "received" /\ JwkGoes([jwk EXCEPT !.step = "copying"]) /\ publicKey' = "torn"
     \/ jwk.step = "copying" /\ JwkGoes([jwk EXCEPT !.step = "copied"]) /\ publicKey' = jwk.key
  /\ UNCHANGED <<jwkContext, isPublicKeyInitialized>>

keyReady_BeforeCopy ==
  /\ jwk.step = "received" /\ JwkGoes([jwk EXCEPT !.step = "ready"])
  /\ isPublicKeyInitialized' = TRUE /\ UNCHANGED <<jwkContext, publicKey>>
keyReady ==
  /\ jwk.step = "copied" /\ JwkGoes([jwk EXCEPT !.step = "ready"])
  /\ isPublicKeyInitialized' = TRUE /\ UNCHANGED <<jwkContext, publicKey>>

\* Any failure on the way to the gateway, a status other than 200, a body that
\* is not JSON: the task sleeps and tries again.
retryLater ==
  /\ jwk.step = "request"
  /\ JwkGoes([jwk EXCEPT !.step = "sleeping", !.attempts = @ + 1]) /\ UNCHANGED ctxVars

wakeUp ==
  /\ jwk.step = "sleeping"
  /\ JwkGoes([jwk EXCEPT !.step = IF jwk.attempts < MaxAttempts THEN "request" ELSE "failed"])
  /\ UNCHANGED ctxVars

\* HTTP_CONTEXT_ERROR at any time, UNRECOGNIZED_FMT_ERROR and PUBLIC_KEY_ERROR
\* for what the gateway sent: no further attempt.
givesUp ==
  jwk.step = "request" /\ JwkGoes([jwk EXCEPT !.step = "failed"]) /\ UNCHANGED ctxVars

JwkTask == getJwk \/ copyKey \/ keyReady \/ retryLater \/ wakeUp \/ givesUp

\* The gateway changes its signing key (external).  ZSS is not told.  The key
\* matters only to a ZSS that fetches it.
gatewayRotates ==
  /\ readJwkSettings /\ keyNo < Len(GatewayKeys) /\ keyNo' = keyNo + 1
  /\ UNCHANGED <<mainVars, jwkVars, check, callVars>>

-----------------------------------------------------------------------------
(***************************************************************************)
(* checkJwtSignature, in a subtask that authenticates a request.           *)
(***************************************************************************)
CheckGoes(c) == check' = c /\ UNCHANGED <<mainVars, jwkVars, keyNo, callVars>>

\* The flag and the algorithm are looked at, then the key is used.
checkJwtSignature(token) ==
  LET goesTo(step, rc) ==
        [step |-> step, token |-> token, ready |-> jwk.step = "ready", rc |-> rc]
      done(rc) == goesTo("done", rc) IN
  /\ check.step \in {"idle", "done"} /\ main = "serving" /\ jwkContext = "live"
  /\ CheckGoes(
       IF ~isPublicKeyInitialized THEN done("NOT_CONFIGURED")
       ELSE IF token.alg = "none" THEN done(IF token.sigLen = 0 THEN "INSECURE" ELSE "INVALID_SIGLEN")
       ELSE goesTo("verify", "none"))

\* gsk_verify_data_signature, with x509_alg_unknown for all but RS256.
verifies(token) == token.alg = "RS256" /\ token.key = publicKey

verifySignature ==
  /\ check.step = "verify"
  /\ CheckGoes([check EXCEPT !.step = "done",
                             !.rc = IF verifies(check.token) THEN "OK" ELSE "SIG_MISMATCH"])

\* The HTTP server calls checkJwtSignature with a context that was freed.
checkFreedContext(token) ==
  /\ check.step \in {"idle", "done"} /\ main = "serving" /\ jwkContext = "freed"
  /\ \E rc \in {"NOT_CONFIGURED", "INSECURE", "INVALID_SIGLEN", "SIG_MISMATCH", "abend"} :
       CheckGoes([step |-> "done", token |-> token, ready |-> FALSE, rc |-> rc])

-----------------------------------------------------------------------------
\* A request for a data service of the plug-in.
Request(t) ==
  /\ main = "serving" /\ remoteStorage
  /\ \E k \in Keys : \/ \E v \in Values : callStorage(t, "set", k, v)
                     \/ callStorage(t, "get", k, Absent) \/ callStorage(t, "remove", k, Absent)

\* mainHttpLoop returns, or the process is cancelled, with all its tasks.
zssEnds ==
  /\ main = "serving" /\ main' = "ended" /\ remoteStorage' = FALSE
  /\ task' = [t \in Tasks |-> Idle] /\ jwk' = NoJwk /\ check' = NoCheck
  /\ jwkContext' = "none" /\ isPublicKeyInitialized' = FALSE /\ publicKey' = "none"
  /\ UNCHANGED <<config, zssStatus, starts, keyNo, gateway, cache, wire, requests>>

restart ==
  /\ main = "ended" /\ starts < MaxStarts /\ starts' = starts + 1
  /\ main' = "start" /\ zssStatus' = "OK"
  /\ UNCHANGED <<config, remoteStorage, tokenVars, callVars>>

Startup ==
  \/ loadConfiguration \/ loadFails \/ parseIntPairFails \/ tlsInitFails \/ validateAddress
  \/ makeServer \/ noServer
  \/ readWebPluginDefinitions
  \/ jwtNotConfigured \/ configureJwt \/ jwkTaskNotStarted \/ jwkTaskNotMade

Checks == \/ \E token \in Tokens : checkJwtSignature(token) \/ checkFreedContext(token)
          \/ verifySignature

Subtask(t) == StorageStep(t) /\ UNCHANGED <<mainVars, tokenVars>>

Next ==
  \/ Startup \/ zssEnds \/ restart \/ JwkTask \/ gatewayRotates \/ Checks
  \/ \E t \in Tasks : Request(t) /\ UNCHANGED <<mainVars, tokenVars>>
  \/ \E t \in Tasks : Subtask(t)
  \/ Service /\ UNCHANGED <<mainVars, tokenVars>>

(***************************************************************************)
(* Fairness: the subtasks and the JWK task are dispatched; a receive ends  *)
(* by its time-out if by nothing else, and a sleep ends.  Nothing is       *)
(* assumed of the gateway, of new requests and of the end of ZSS.          *)
(***************************************************************************)
Fairness == WF_vars(JwkTask) /\ \A t \in Tasks : WF_vars(Subtask(t))

Spec == Init /\ [][Next]_vars /\ Fairness

-----------------------------------------------------------------------------
\* The storage of a plug-in is a KVStore: a set, get or remove that reports
\* success acted exactly once during the call, KEY_NOT_FOUND is never said of a
\* set, nor of a key that was there all the time, and only calls that ended
\* with an error or with ZSS act late.
StorageIsKVStore == Store!Spec

\* The answer about a token is that of the key that the task fetched, whole,
\* once the task has announced it; and whatever storage the context was made
\* of, a token is accepted only if it is signed with a key of the gateway.
VerdictMatchesKey ==
  check.step = "done" =>
    /\ check.rc = "OK" => /\ check.token.alg = "RS256"
                          /\ \E i \in 1..keyNo : check.token.key = GatewayKeys[i]
    /\ check.ready /\ check.token.alg # "none" =>
         (check.rc = "OK" <=> check.token.alg = "RS256" /\ check.token.key = jwk.key)

\* Nothing waits for the gateway for ever, although the gateway, the service
\* and the network may never answer: every storage call of a request ends, and
\* the task that fetches the key gets it or gives up.
WaitsEnd ==
  /\ \A t \in Tasks : (task[t].step # "idle") ~> (task[t].step = "idle")
  /\ (jwk.step # "none") ~> (jwk.step \in {"none", "ready", "failed"})
==============================================================================

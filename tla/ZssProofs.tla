------------------------------ MODULE ZssProofs ------------------------------
(***************************************************************************)
(* Safety of ZSS for any number of subtasks, keys, values, tokens, signing *)
(* keys and restarts: whose tokens are accepted, and that the storage of a *)
(* plug-in is a KVStore.                                                   *)
(***************************************************************************)
EXTENDS Zss, TLAPS

-----------------------------------------------------------------------------
(***************************************************************************)
(* The public key of the gateway and the checks with it.                   *)
(***************************************************************************)
Fetchable == {GatewayKeys[i] : i \in 1..keyNo}
NoKeys == {"none", "garbage", "torn"}

JwkRecords == [step : {"none", "request", "received", "copying", "copied", "ready", "sleeping",
                       "failed"},
               attempts : Nat, key : Fetchable \cup {"none"}]
Verdicts == {"none", "NOT_CONFIGURED", "INSECURE", "INVALID_SIGLEN", "SIG_MISMATCH", "OK", "abend"}
CheckRecords == [step : {"idle", "verify", "done"}, token : Tokens \cup {NoToken},
                 ready : BOOLEAN, rc : Verdicts]

TokenTypeOK ==
  /\ keyNo \in Nat \ {0}
  /\ publicKey \in Fetchable \cup NoKeys
  /\ isPublicKeyInitialized \in BOOLEAN
  /\ jwk \in JwkRecords
  /\ check \in CheckRecords

\* The task of jwkTaskMain runs, and tokens are checked, only while ZSS
\* serves; a key in the task came from the gateway, and once the task has
\* copied it the context has it whole.
KeyOK ==
  /\ main # "serving" => jwk.step = "none" /\ check.step = "idle"
  /\ jwk.step \in {"received", "copying", "copied", "ready"} => jwk.key \in Fetchable
  /\ jwk.step \in {"copied", "ready"} => publicKey = jwk.key
  /\ jwk.step = "ready" => isPublicKeyInitialized

\* A check that began after the task had announced the key still finds that
\* key, and its answer is that of the key.
CheckOK ==
  /\ check.step # "idle" => check.token \in Tokens
  /\ check.step # "idle" /\ check.ready => jwk.step = "ready"
  /\ check.step = "verify" => check.token.alg # "none"
  /\ check.step = "done" => VerdictMatchesKey

TokenInv == TokenTypeOK /\ KeyOK /\ CheckOK

\* The keys that the gateway has used stay so.
LEMMA FetchableGrows == gatewayRotates /\ keyNo \in Nat \ {0} => Fetchable \subseteq Fetchable'
BY DEF gatewayRotates, Fetchable

\* The invariant holds initially,
LEMMA TokenInit == Init => TokenInv
<1> SUFFICES ASSUME Init PROVE TokenInv
  OBVIOUS
<1>1. jwk.step = "none" /\ jwk.attempts = 0 /\ jwk.key = "none" /\ jwk \in JwkRecords
  BY DEF Init, NoJwk, JwkRecords
<1>2. check.step = "idle" /\ check \in CheckRecords
  BY DEF Init, NoCheck, CheckRecords, Verdicts
<1>3. keyNo = 1 /\ publicKey = "none" /\ isPublicKeyInitialized = FALSE
  BY DEF Init
<1>5. TokenTypeOK
  <2>1. keyNo \in Nat \ {0} /\ publicKey \in Fetchable \cup NoKeys
    BY <1>3 DEF NoKeys
  <2>2. isPublicKeyInitialized \in BOOLEAN
    BY <1>3
  <2> QED
    BY <1>1, <1>2, <2>1, <2>2 DEF TokenTypeOK
<1>4. KeyOK /\ CheckOK
  BY <1>1, <1>2 DEF Init, KeyOK, CheckOK
<1> QED
  BY <1>4, <1>5 DEF TokenInv

\* The task that fetches the key.
LEMMA TokenJwkTask == TokenInv /\ JwkTask => TokenInv'
<1> SUFFICES ASSUME TokenInv, JwkTask PROVE TokenInv'
  OBVIOUS
<1> USE DEF TokenInv, TokenTypeOK, NoKeys
<1>1. UNCHANGED <<main, keyNo, check>> /\ jwk.step # "none" /\ jwk.step # "ready" /\ main = "serving"
  BY DEF JwkTask, JwkGoes, getJwk, copyKey, keyReady, retryLater, wakeUp, givesUp, mainVars, KeyOK
<1>2. Fetchable' = Fetchable /\ JwkRecords' = JwkRecords
  BY <1>1 DEF Fetchable, JwkRecords
<1>3. check.step # "idle" => ~check.ready
  BY <1>1 DEF CheckOK
<1>4. GatewayKeys[keyNo] \in Fetchable
  BY DEF Fetchable
<1>5. CASE getJwk \/ retryLater \/ wakeUp \/ givesUp
  <2>1. UNCHANGED <<publicKey, isPublicKeyInitialized>>
    BY <1>5 DEF getJwk, retryLater, wakeUp, givesUp, ctxVars
  <2>2. jwk' \in JwkRecords
    <3>1. CASE getJwk
      BY <1>2, <1>4, <3>1 DEF getJwk, JwkGoes, JwkRecords
    <3>2. CASE retryLater
      <4>1. [jwk EXCEPT !.step = "sleeping"] \in JwkRecords /\ jwk.attempts + 1 \in Nat
        BY DEF JwkRecords
      <4>2. \A r \in JwkRecords, n \in Nat : [r EXCEPT !.attempts = n] \in JwkRecords
        BY DEF JwkRecords
      <4>3. jwk' = [[jwk EXCEPT !.step = "sleeping"] EXCEPT !.attempts = jwk.attempts + 1]
        BY <3>2 DEF retryLater, JwkGoes, JwkRecords
      <4> QED
        BY <4>1, <4>2, <4>3
    <3>3. CASE wakeUp
      BY <1>2, <3>3 DEF wakeUp, JwkGoes, JwkRecords
    <3>4. CASE givesUp
      BY <1>2, <3>4 DEF givesUp, JwkGoes, JwkRecords
    <3> QED
      BY <1>5, <3>1, <3>2, <3>3, <3>4
  <2>3. \/ jwk'.step = "received" /\ jwk'.key \in Fetchable
        \/ jwk'.step \in {"request", "sleeping", "failed"}
    BY <1>4, <1>5 DEF getJwk, retryLater, wakeUp, givesUp, JwkGoes, JwkRecords
  <2>4. KeyOK'
    BY <1>1, <1>2, <2>1, <2>2, <2>3 DEF KeyOK
  <2>5. CheckOK'
    BY <1>1, <1>3 DEF CheckOK, VerdictMatchesKey
  <2> QED
    BY <1>1, <1>2, <2>1, <2>2, <2>3, <2>4, <2>5
<1>6. CASE copyKey \/ keyReady
  <2>1. jwk.key \in Fetchable /\ jwk'.key = jwk.key
    BY <1>6 DEF copyKey, keyReady, JwkGoes, KeyOK, JwkRecords
  <2>2. \/ jwk'.step = "copying" /\ publicKey' = "torn" /\ UNCHANGED isPublicKeyInitialized
        \/ jwk'.step = "copied" /\ publicKey' = jwk.key /\ UNCHANGED isPublicKeyInitialized
        \/ jwk'.step = "ready" /\ publicKey' = jwk.key /\ isPublicKeyInitialized' = TRUE
    BY <1>6 DEF copyKey, keyReady, JwkGoes, KeyOK, JwkRecords
  <2>3. jwk' \in JwkRecords
    BY <1>2, <1>6 DEF copyKey, keyReady, JwkGoes, JwkRecords
  <2>4. KeyOK'
    BY <1>1, <1>2, <2>1, <2>2, <2>3 DEF KeyOK
  <2>5. CheckOK'
    BY <1>1, <1>3 DEF CheckOK, VerdictMatchesKey
  <2> QED
    BY <1>1, <1>2, <2>1, <2>2, <2>3, <2>4, <2>5
<1> QED
  BY <1>5, <1>6 DEF JwkTask

\* The gateway changes its key.
LEMMA TokenRotate == TokenInv /\ gatewayRotates => TokenInv'
<1> SUFFICES ASSUME TokenInv, gatewayRotates PROVE TokenInv'
  OBVIOUS
<1> USE DEF TokenInv, TokenTypeOK
<1>1. /\ UNCHANGED <<main, publicKey, isPublicKeyInitialized, jwk, check>>
      /\ keyNo' = keyNo + 1
  BY DEF gatewayRotates, mainVars, jwkVars, ctxVars
<1>2. Fetchable \subseteq Fetchable'
  BY FetchableGrows
<1>3. jwk \in JwkRecords'
  BY <1>2 DEF JwkRecords
<1>4. \A i \in 1..keyNo : i \in 1..keyNo'
  BY <1>1
<1> QED
  BY <1>1, <1>2, <1>3, <1>4 DEF KeyOK, CheckOK, CheckRecords, VerdictMatchesKey

\* The checks of tokens.
LEMMA TokenChecks == TokenInv /\ Checks => TokenInv'
<1> SUFFICES ASSUME TokenInv, Checks PROVE TokenInv'
  OBVIOUS
<1> USE DEF TokenInv, TokenTypeOK
<1>1. UNCHANGED <<main, publicKey, isPublicKeyInitialized, jwk, keyNo>> /\ main = "serving"
  BY DEF Checks, checkJwtSignature, checkFreedContext, verifySignature, CheckGoes, mainVars,
         jwkVars, ctxVars, KeyOK
<1>2. Fetchable' = Fetchable /\ JwkRecords' = JwkRecords /\ KeyOK'
  BY <1>1, Checks DEF Fetchable, JwkRecords, KeyOK
<1>3. ASSUME NEW token \in Tokens, checkJwtSignature(token) PROVE TokenInv'
  <2>1. /\ check'.token = token /\ check'.ready = (jwk.step = "ready")
        /\ \/ /\ check'.step = "done" /\ check'.rc \in {"NOT_CONFIGURED", "INSECURE", "INVALID_SIGLEN"}
              /\ ~isPublicKeyInitialized \/ token.alg = "none"
           \/ check'.step = "verify" /\ check'.rc = "none" /\ token.alg # "none"
    BY <1>3 DEF checkJwtSignature, CheckGoes
  <2>2. check' \in CheckRecords
    BY <1>3 DEF checkJwtSignature, CheckGoes, CheckRecords, Verdicts
  <2> QED
    BY <1>1, <1>2, <2>1, <2>2 DEF CheckOK, VerdictMatchesKey, KeyOK
<1>4. ASSUME NEW token \in Tokens, checkFreedContext(token) PROVE TokenInv'
  <2>1. /\ check' \in CheckRecords /\ check'.step = "done" /\ ~check'.ready
        /\ check'.rc # "OK" /\ check'.token = token
    BY <1>4 DEF checkFreedContext, CheckGoes, CheckRecords, Verdicts
  <2> QED
    BY <1>1, <1>2, <2>1 DEF CheckOK, VerdictMatchesKey
<1>5. CASE verifySignature
  <2>1. /\ check.step = "verify" /\ check'.step = "done" /\ check'.token = check.token
        /\ check'.ready = check.ready
        /\ check'.rc = IF verifies(check.token) THEN "OK" ELSE "SIG_MISMATCH"
    BY <1>5 DEF verifySignature, CheckGoes, CheckRecords
  <2>2. check' \in CheckRecords
    BY <1>5 DEF verifySignature, CheckGoes, CheckRecords, Verdicts
  <2>3. verifies(check.token) => publicKey \in Fetchable
    BY <2>1, ZssAssumption DEF CheckOK, verifies, NoKeys
  <2>4. VerdictMatchesKey'
    BY <1>1, <2>1, <2>3 DEF VerdictMatchesKey, CheckOK, KeyOK, verifies, Fetchable
  <2> QED
    BY <1>1, <1>2, <2>1, <2>2, <2>4 DEF CheckOK
<1> QED
  BY <1>3, <1>4, <1>5 DEF Checks

\* The start of ZSS, its end and its restart.
LEMMA TokenMain == TokenInv /\ (Startup \/ zssEnds \/ restart) => TokenInv'
<1> SUFFICES ASSUME TokenInv, Startup \/ zssEnds \/ restart PROVE TokenInv'
  OBVIOUS
<1> USE DEF TokenInv, TokenTypeOK
<1>1. UNCHANGED keyNo
  BY DEF Startup, zssEnds, restart, loadConfiguration, loadFails, parseIntPairFails, tlsInitFails,
         validateAddress, makeServer, noServer, readWebPluginDefinitions, jwtNotConfigured,
         configureJwt, jwkTaskNotStarted, jwkTaskNotMade, newContext, Serves, Goes, Fails, tokenVars
<1>2. Fetchable' = Fetchable /\ JwkRecords' = JwkRecords
  BY <1>1 DEF Fetchable, JwkRecords
<1>3. CASE UNCHANGED tokenVars /\ main # "serving"
  BY <1>2, <1>3 DEF tokenVars, jwkVars, ctxVars, KeyOK, CheckOK, VerdictMatchesKey
<1>4. CASE configureJwt \/ jwkTaskNotStarted \/ jwkTaskNotMade
  <2>1. /\ main = "plugins" /\ main' = "serving" /\ UNCHANGED check
        /\ publicKey' = "garbage" /\ isPublicKeyInitialized' \in BOOLEAN
    BY <1>4 DEF configureJwt, jwkTaskNotStarted, jwkTaskNotMade, newContext, Serves
  <2>2. jwk' \in JwkRecords /\ jwk'.step \in {"none", "request"}
    <3>1. NoJwk \in JwkRecords
      BY DEF NoJwk, JwkRecords
    <3>2. [NoJwk EXCEPT !.step = "request"] \in JwkRecords
      BY <3>1 DEF JwkRecords
    <3>3. [NoJwk EXCEPT !.step = "request"].step = "request"
      BY <3>1 DEF JwkRecords
    <3> QED
      BY <1>4, <2>1, <3>2, <3>3 DEF configureJwt, jwkTaskNotStarted, jwkTaskNotMade, KeyOK
  <2> QED
    BY <1>1, <1>2, <2>1, <2>2 DEF KeyOK, CheckOK, NoKeys
<1>5. CASE zssEnds
  <2>1. jwk' = NoJwk /\ check' = NoCheck /\ publicKey' = "none" /\ isPublicKeyInitialized' = FALSE
        /\ main' = "ended"
    BY <1>5 DEF zssEnds
  <2>2. jwk'.step = "none" /\ jwk' \in JwkRecords
    BY <2>1 DEF NoJwk, JwkRecords
  <2>3. check'.step = "idle" /\ check' \in CheckRecords
    BY <2>1 DEF NoCheck, CheckRecords, Verdicts
  <2> QED
    BY <1>1, <1>2, <2>1, <2>2, <2>3 DEF KeyOK, CheckOK, NoKeys
<1>6. CASE Startup \/ restart
  <2>1. CASE jwtNotConfigured
    <3>1. main = "plugins" /\ main' = "serving" /\ UNCHANGED <<jwkVars, check>>
      BY <2>1 DEF jwtNotConfigured, Serves
    <3> QED
      BY <1>1, <1>2, <3>1 DEF jwkVars, ctxVars, KeyOK, CheckOK
  <2>2. CASE ~jwtNotConfigured /\ ~configureJwt /\ ~jwkTaskNotStarted /\ ~jwkTaskNotMade
    BY <1>3, <1>6, <2>2 DEF Startup, restart, loadConfiguration, loadFails, parseIntPairFails,
       tlsInitFails, validateAddress, makeServer, noServer, readWebPluginDefinitions, Goes, Fails
  <2> QED
    BY <1>4, <2>1, <2>2
<1> QED
  BY <1>5, <1>6

\* Nothing else touches them.
LEMMA TokenStep == TokenInv /\ [Next]_vars => TokenInv'
<1> SUFFICES ASSUME TokenInv, [Next]_vars PROVE TokenInv'
  OBVIOUS
<1>1. CASE UNCHANGED <<mainVars, tokenVars>>
  <2>1. Fetchable' = Fetchable /\ JwkRecords' = JwkRecords
    BY <1>1 DEF tokenVars, Fetchable, JwkRecords
  <2> QED
    BY <1>1, <2>1 DEF mainVars, tokenVars, jwkVars, ctxVars, TokenInv, TokenTypeOK, KeyOK, CheckOK,
                      VerdictMatchesKey
<1> QED
  BY <1>1, TokenJwkTask, TokenRotate, TokenChecks, TokenMain DEF Next, Subtask, vars

\* and always.
LEMMA TokenInvariant == Spec => []TokenInv
BY TokenInit, TokenStep, PTL DEF Spec

\* Whatever the storage of the JwkContext held and whenever the key arrives,
\* a token is accepted only if the gateway signed it, and once the key is
\* announced the answer is that of the key.
THEOREM VerdictsMatchKey == Spec => []VerdictMatchesKey
<1>1. TokenInv => VerdictMatchesKey
  BY DEF TokenInv, CheckOK, VerdictMatchesKey
<1> QED
  BY TokenInvariant, <1>1, PTL

-----------------------------------------------------------------------------
(***************************************************************************)
(* The storage of a plug-in: types, and the requests under way.            *)
(***************************************************************************)
Stored == Values \cup {Absent}
Methods == {"PUT", "POST", "GET", "DELETE"}
Statuses == {"none", "OK", "KEY_NOT_FOUND"} \cup StorageErrors
Active == {"request", "sent", "answered"}

RequestRecords == [n : Nat, method : Methods, k : Keys, v : Stored]
TaskRecords == [op : StorageOps \cup {"none"}, step : Active \cup {"idle", "returned"}, n : Nat,
                k : Keys \cup {Absent}, v : Stored, method : Methods \cup {"none"}, code : Nat,
                body : Stored, status : Statuses, got : Stored]

StorageTypeOK ==
  /\ cache \in [Keys -> Stored] /\ requests \in Nat
  /\ wire \subseteq RequestRecords
  /\ task \in [Tasks -> TaskRecords]

\* The methods of the requests of an operation.
MethodsOf(op) ==
  CASE op = "set" -> {"PUT", "POST"} [] op = "get" -> {"GET"} [] op = "remove" -> {"DELETE"}

\* A call under way has a number of its own and the method of its operation; a
\* response that is no success or not of a get has no body.
CallOK(tk) ==
  /\ tk.op # "none" <=> tk.step \in Active
  /\ tk.step \in Active =>
       tk.n \in 1..requests /\ tk.k \in Keys /\ tk.method \in MethodsOf(tk.op)
  /\ tk.step \in {"request", "sent"} \/ tk.op # "get" => tk.body = Absent
  /\ tk.step = "idle" => tk = Idle
CallsOK ==
  /\ \A t \in Tasks : CallOK(task[t])
  /\ \A t, u \in Tasks :
       task[t].step \in Active /\ task[u].step \in Active /\ task[t].n = task[u].n => t = u

\* Each call has at most one request on the wire, and while the call is under
\* way only the one that it waits for.
WireOK ==
  /\ \A r \in wire : r.n \in 1..requests
  /\ \A q, r \in wire : q.n = r.n => q = r
  /\ \A r \in wire, t \in Tasks :
       task[t].step \in Active /\ task[t].n = r.n => task[t].step = "sent" /\ r = requestOf(t)

StorageInv == StorageTypeOK /\ CallsOK /\ WireOK

\* The records that the tasks of the storage get.
LEMMA RequestTypes ==
  /\ \A step \in {"idle", "returned"}, status \in Statuses, got \in Stored :
       NoRequest(step, status, got) \in TaskRecords
  /\ Idle \in TaskRecords /\ Idle.step = "idle" /\ Idle.op = "none" /\ Idle.body = Absent
<1>1. ASSUME NEW step \in {"idle", "returned"}, NEW status \in Statuses, NEW got \in Stored
      PROVE  NoRequest(step, status, got) \in TaskRecords
  BY DEF NoRequest, TaskRecords, Stored
<1>2. Idle.step = "idle" /\ Idle.op = "none" /\ Idle.body = Absent
  BY DEF NoRequest, Idle
<1>3. Idle \in TaskRecords
  BY <1>1 DEF Idle, Stored, Statuses
<1> QED
  BY <1>1, <1>2, <1>3

\* The request that a call puts on the wire.
LEMMA RequestType ==
  ASSUME StorageTypeOK, CallsOK, NEW t \in Tasks, task[t].step \in Active
  PROVE  /\ requestOf(t) \in RequestRecords
         /\ requestOf(t).n = task[t].n /\ requestOf(t).k = task[t].k
         /\ requestOf(t).v = task[t].v /\ requestOf(t).method = task[t].method
<1>1. task[t].op \in StorageOps
  BY DEF StorageTypeOK, TaskRecords, CallsOK, CallOK
<1>2. task[t].method \in Methods
  BY <1>1 DEF CallsOK, CallOK, MethodsOf, StorageOps, Methods
<1> QED
  BY <1>2 DEF requestOf, StorageTypeOK, RequestRecords, TaskRecords, CallsOK, CallOK

\* The storage at the start.
LEMMA StorageInvInit == Init => StorageInv
<1> SUFFICES ASSUME Init PROVE StorageInv
  OBVIOUS
<1>1. /\ cache \in [Keys -> Stored] /\ wire = {} /\ requests = 0
      /\ task = [t \in Tasks |-> Idle]
  BY DEF Init, StorageInit, Stored
<1> QED
  BY <1>1, RequestTypes DEF StorageInv, StorageTypeOK, CallsOK, CallOK, WireOK, Active

\* A call begins.
LEMMA StorageBegin ==
  ASSUME StorageInv, NEW t \in Tasks, NEW op \in StorageOps, NEW k \in Keys, NEW v \in Stored,
         callStorage(t, op, k, v)
  PROVE  StorageInv'
<1> USE DEF StorageInv, StorageTypeOK
<1>1. /\ UNCHANGED <<cache, wire>> /\ requests' = requests + 1 /\ task[t].step = "idle"
      /\ \A u \in Tasks \ {t} : task'[u] = task[u]
      /\ task'[t].op = op /\ task'[t].step = "request" /\ task'[t].n = requests + 1
      /\ task'[t].k = k /\ task'[t].v = v /\ task'[t].method = firstMethod(op)
      /\ task'[t].body = Absent
  BY DEF callStorage
<1>2. firstMethod(op) \in MethodsOf(op)
  BY DEF StorageOps, firstMethod, MethodsOf
<1>3. firstMethod(op) \in Methods
  BY DEF StorageOps, firstMethod, Methods
<1>4. task'[t] \in TaskRecords
  <2>1. requests + 1 \in Nat /\ "request" \in Active \cup {"idle", "returned"}
    BY DEF Active
  <2>2. task'[t] = [op |-> op, step |-> "request", n |-> requests + 1, k |-> k, v |-> v,
                    method |-> firstMethod(op), code |-> 0, body |-> Absent, status |-> "none",
                    got |-> Absent]
    BY DEF callStorage
  <2> QED
    BY <1>3, <2>1, <2>2 DEF TaskRecords, Stored, Statuses
<1>5. StorageTypeOK'
  BY <1>1, <1>4 DEF callStorage
<1>6. CallsOK'
  <2>1. \A u \in Tasks \ {t} : task[u].step \in Active => task[u].n < requests + 1 /\ task[u].n \in 1..requests'
    BY <1>1 DEF CallsOK, CallOK
  <2>2. \A u \in Tasks \ {t} : CallOK(task[u])'
    BY <1>1, <2>1 DEF CallsOK, CallOK
  <2>3. CallOK(task[t])'
    BY <1>1, <1>2 DEF CallOK, Active, StorageOps
  <2> QED
    BY <1>1, <2>1, <2>2, <2>3 DEF CallsOK
<1>7. WireOK'
  <2>1. \A r \in wire : r.n < requests + 1 /\ r.n \in 1..requests'
    BY <1>1 DEF WireOK
  <2> QED
    BY <1>1, <2>1 DEF WireOK, requestOf, Active
<1> QED
  BY <1>5, <1>6, <1>7

\* A call ends, perhaps with its request on the wire.
LEMMA StorageEnd ==
  ASSUME StorageInv, NEW t \in Tasks, task[t].step \in Active, NEW status \in Statuses,
         NEW got \in Stored, ends(t, status, got), UNCHANGED <<cache, requests>>,
         wire' = wire \/ (task[t].step = "request" /\ wire' = wire \cup {requestOf(t)})
  PROVE  StorageInv'
<1> USE DEF StorageInv, StorageTypeOK
<1>1. /\ task'[t].op = "none" /\ task'[t].step = "returned" /\ task'[t].body = Absent
      /\ \A u \in Tasks \ {t} : task'[u] = task[u]
  BY DEF ends, NoRequest
<1>2. StorageTypeOK'
  BY RequestTypes, RequestType DEF ends
<1>3. CallsOK'
  <2>1. \A u \in Tasks \ {t} : CallOK(task[u])'
    BY <1>1 DEF CallsOK, CallOK
  <2>2. CallOK(task[t])'
    BY <1>1 DEF CallOK, Active
  <2> QED
    BY <1>1, <2>1, <2>2 DEF CallsOK, Active
<1>4. WireOK'
  BY <1>1, RequestType DEF WireOK, CallsOK, CallOK, requestOf, Active
<1> QED
  BY <1>2, <1>3, <1>4

\* How a call of a task ends: what its status says of its effect.
CallEnds(t) ==
  \E status \in Statuses \ {"none"}, got \in Stored :
    /\ task[t].step \in Active /\ ends(t, status, got)
    /\ status = "OK" => effectOf(task[t]) = "done" /\ got = task[t].body
    /\ status = "KEY_NOT_FOUND" => effectOf(task[t]) = "notFound"
    /\ status # "OK" => got = Absent
    /\ task[t].step # "answered" => status \in StorageErrors
    /\ wire' = wire \/ (task[t].step = "request" /\ wire' = wire \cup {requestOf(t)})

\* A change of a key that is not there goes on as a create.
ChangeToCreate(t) ==
  /\ task[t].step = "answered" /\ task[t].method = "PUT" /\ task[t].code = 404
  /\ task' = [task EXCEPT ![t].step = "request", ![t].method = "POST", ![t].code = 0]
  /\ UNCHANGED wire

\* What transformHttpStatus makes of a status code tells whether the call acted.
LEMMA StatusTellsEffect ==
  ASSUME NEW tk, tk.step = "answered"
  PROVE  /\ transformHttpStatus(tk.code) \in {"OK", "KEY_NOT_FOUND", "INVALID_CLIENT_CERT", "HTTP_ERROR"}
         /\ transformHttpStatus(tk.code) = "OK" => effectOf(tk) = "done"
         /\ transformHttpStatus(tk.code) = "KEY_NOT_FOUND" => tk.code = 404
         /\ transformHttpStatus(tk.code) = "KEY_NOT_FOUND" /\ tk.method # "PUT" => effectOf(tk) = "notFound"
BY DEF transformHttpStatus, effectOf

\* A received response ends the call, or makes a change a create.
LEMMA ReceiveEnds ==
  ASSUME StorageInv, NEW t \in Tasks, receive(t)
  PROVE  CallEnds(t) \/ ChangeToCreate(t)
<1> DEFINE status == transformHttpStatus(task[t].code)
<1>1. task[t].step = "answered" /\ UNCHANGED wire
  BY DEF receive
<1>2. task[t].body \in Stored
  BY DEF StorageInv, StorageTypeOK, TaskRecords
<1>3. CASE task[t].method = "PUT" /\ status = "KEY_NOT_FOUND"
  BY <1>1, <1>3, StatusTellsEffect DEF receive, ChangeToCreate
<1>4. CASE task[t].op = "get" /\ status = "OK" /\ getValue(t)
  <2>1. CASE ends(t, "OK", task[t].body)
    BY <1>1, <1>2, <1>4, <2>1, StatusTellsEffect DEF CallEnds, Active, Statuses
  <2>2. ASSUME NEW e \in {"INVALID_KV_RESPONSE", "ALLOC_ERROR"}, ends(t, e, Absent)
        PROVE  CallEnds(t)
    BY <1>1, <2>2 DEF CallEnds, Active, Statuses, StorageErrors, Stored
  <2> QED
    BY <1>4, <2>1, <2>2 DEF getValue
<1>5. CASE /\ ~(task[t].method = "PUT" /\ status = "KEY_NOT_FOUND")
           /\ ~(task[t].op = "get" /\ status = "OK")
           /\ ends(t, status, Absent)
  <2>1. status = "OK" => task[t].body = Absent
    BY <1>1, <1>5 DEF StorageInv, CallsOK, CallOK
  <2>2. status \in Statuses \ {"none"}
    BY <1>1, StatusTellsEffect DEF Statuses, StorageErrors
  <2> QED
    BY <1>1, <1>5, <2>1, <2>2, StatusTellsEffect DEF CallEnds, Active, Stored
<1> QED
  BY <1>3, <1>4, <1>5 DEF receive

\* The steps of a subtask.
LEMMA SubtaskSteps ==
  ASSUME StorageInv, NEW t \in Tasks, StorageStep(t)
  PROVE  /\ UNCHANGED <<cache, requests>>
         /\ CallEnds(t) \/ ChangeToCreate(t) \/ send(t) \/ requestAnswered(t)
<1>1. UNCHANGED <<cache, requests>>
  BY DEF StorageStep, bodyFails, sendFails, send, receiveFails, responseUnusable, receive,
         requestAnswered
<1> USE DEF CallEnds, Active, Statuses, StorageErrors, Stored
<1>2. CASE bodyFails(t)
  BY <1>2 DEF bodyFails
<1>3. CASE sendFails(t)
  BY <1>3 DEF sendFails
<1>4. CASE receiveFails(t)
  BY <1>4 DEF receiveFails
<1>5. CASE responseUnusable(t)
  BY <1>5 DEF responseUnusable
<1> QED
  BY <1>1, <1>2, <1>3, <1>4, <1>5, ReceiveEnds DEF StorageStep

\* Each step of a subtask keeps the requests under way in order,
LEMMA StorageSubtask ==
  ASSUME StorageInv, NEW t \in Tasks, StorageStep(t)
  PROVE  StorageInv'
<1> USE DEF StorageInv, StorageTypeOK
<1>1. UNCHANGED <<cache, requests>>
  BY SubtaskSteps
<1>2. CASE CallEnds(t)
  BY <1>1, <1>2, StorageEnd DEF CallEnds
<1>3. CASE ChangeToCreate(t)
  <2>1. /\ task'[t].op = task[t].op /\ task'[t].step = "request" /\ task'[t].n = task[t].n
        /\ task'[t].k = task[t].k /\ task'[t].v = task[t].v /\ task'[t].method = "POST"
        /\ task'[t].body = task[t].body
        /\ task[t].step = "answered" /\ task[t].method = "PUT" /\ UNCHANGED wire
        /\ \A u \in Tasks \ {t} : task'[u] = task[u]
    BY <1>3 DEF ChangeToCreate, TaskRecords
  <2>2. task'[t] \in TaskRecords
    BY <1>3 DEF ChangeToCreate, TaskRecords, Active, Methods
  <2>3. task[t].op = "set"
    BY <2>1 DEF CallsOK, CallOK, MethodsOf, Active, TaskRecords, StorageOps
  <2>4. CallOK(task[t])'
    BY <1>1, <2>1, <2>3 DEF CallsOK, CallOK, MethodsOf, Active
  <2>5. \A u \in Tasks \ {t} : CallOK(task[u])'
    BY <1>1, <2>1 DEF CallsOK, CallOK
  <2>6. CallsOK'
    BY <2>1, <2>4, <2>5 DEF CallsOK, Active
  <2>7. WireOK'
    BY <1>1, <2>1 DEF WireOK, Active, requestOf
  <2> QED
    BY <1>1, <1>3, <2>2, <2>6, <2>7 DEF ChangeToCreate
<1>4. CASE send(t)
  <2>1. /\ task'[t].op = task[t].op /\ task'[t].step = "sent" /\ task'[t].n = task[t].n
        /\ task'[t].k = task[t].k /\ task'[t].v = task[t].v /\ task'[t].method = task[t].method
        /\ task'[t].body = task[t].body /\ task[t].step = "request"
        /\ wire' = wire \cup {requestOf(t)}
        /\ \A u \in Tasks \ {t} : task'[u] = task[u]
    BY <1>4 DEF send, TaskRecords
  <2>2. task'[t] \in TaskRecords
    BY <1>4 DEF send, TaskRecords, Active
  <2>3. CallOK(task[t])'
    BY <1>1, <2>1 DEF CallsOK, CallOK, Active
  <2>4. \A u \in Tasks \ {t} : CallOK(task[u])'
    BY <1>1, <2>1 DEF CallsOK, CallOK
  <2>5. CallsOK'
    BY <2>1, <2>3, <2>4 DEF CallsOK, Active
  <2>6. WireOK'
    <3>1. requestOf(t).n = task[t].n /\ task[t].n \in 1..requests
      BY <2>1, RequestType DEF CallsOK, CallOK, Active
    <3>2. \A r \in wire : r.n # task[t].n
      BY <2>1 DEF WireOK, Active
    <3>3. requestOf(t)' = requestOf(t) /\ \A u \in Tasks \ {t} : requestOf(u)' = requestOf(u)
      BY <2>1 DEF requestOf
    <3>4. \A u \in Tasks \ {t} : task[u].step \in Active => task[u].n # task[t].n
      BY <2>1 DEF CallsOK, Active
    <3> QED
      BY <1>1, <2>1, <3>1, <3>2, <3>3, <3>4 DEF WireOK, Active
  <2> QED
    BY <1>1, <1>4, <2>1, <2>2, <2>5, <2>6, RequestType DEF send, Active
<1>5. CASE requestAnswered(t)
  <2>1. /\ task'[t] = Idle /\ UNCHANGED wire /\ \A u \in Tasks \ {t} : task'[u] = task[u]
    BY <1>5 DEF requestAnswered
  <2>2. CallOK(task[t])'
    BY <2>1, RequestTypes DEF CallOK, Active
  <2>3. \A u \in Tasks \ {t} : CallOK(task[u])'
    BY <1>1, <2>1 DEF CallsOK, CallOK
  <2>4. CallsOK'
    BY <2>1, <2>2, <2>3, RequestTypes DEF CallsOK, Active
  <2>5. WireOK'
    BY <1>1, <2>1, RequestTypes DEF WireOK, Active, requestOf
  <2> QED
    BY <1>1, <1>5, <2>4, <2>5, RequestTypes DEF requestAnswered
<1> QED
  BY <1>2, <1>3, <1>4, <1>5, SubtaskSteps

\* What a response may say, and what it does to the map.
LEMMA OutcomeTypes ==
  ASSUME StorageTypeOK, NEW r \in RequestRecords, NEW o \in Outcomes(r)
  PROVE  /\ o.code \in Nat /\ o.body \in Stored /\ o.cache \in [Keys -> Stored]
         /\ r.method # "GET" => o.body = Absent
<1>1. r.method \in {"PUT", "POST", "GET", "DELETE"} /\ r.k \in Keys /\ r.v \in Stored
  BY DEF RequestRecords, Methods
<1>2. \/ o \in {refused(403), refused(500)}
      \/ r.method = "PUT" /\ o = changed(r)
      \/ r.method = "POST" /\ o = created(r)
      \/ r.method = "GET" /\ o = fetched(r)
      \/ r.method = "DELETE" /\ o = deleted(r)
  <2>1. CASE r.method = "PUT"
    BY <2>1 DEF Outcomes
  <2>2. CASE r.method = "POST"
    BY <2>2 DEF Outcomes
  <2>3. CASE r.method = "GET"
    BY <2>3 DEF Outcomes
  <2>4. CASE r.method = "DELETE"
    BY <2>4 DEF Outcomes
  <2> QED
    BY <1>1, <2>1, <2>2, <2>3, <2>4
<1> QED
  BY <1>1, <1>2 DEF refused, changed, created, fetched, deleted, StorageTypeOK, Stored

\* of the service and the network,
LEMMA StorageService ==
  ASSUME StorageInv, Service
  PROVE  StorageInv'
<1> USE DEF StorageInv, StorageTypeOK
<1>1. ASSUME NEW r \in wire, serve(r) PROVE StorageInv'
  <2>1. PICK o \in Outcomes(r) :
          /\ cache' = o.cache
          /\ task' = [t \in Tasks |-> IF waitsFor(t, r)
                                      THEN [task[t] EXCEPT !.step = "answered", !.code = o.code,
                                                           !.body = o.body]
                                      ELSE task[t]]
    BY <1>1 DEF serve
  <2>2. /\ o.code \in Nat /\ o.body \in Stored /\ o.cache \in [Keys -> Stored]
        /\ r.method # "GET" => o.body = Absent
    BY OutcomeTypes
  <2>3. UNCHANGED requests /\ wire' = wire \ {r}
    BY <1>1 DEF serve
  <2>4. \A t \in Tasks : ~waitsFor(t, r) => task'[t] = task[t]
    BY <2>1
  <2>5. \A t \in Tasks : waitsFor(t, r) =>
          /\ task'[t].op = task[t].op /\ task'[t].step = "answered" /\ task'[t].n = task[t].n
          /\ task'[t].k = task[t].k /\ task'[t].v = task[t].v /\ task'[t].method = task[t].method
          /\ task'[t].body = o.body /\ task'[t] \in TaskRecords
          /\ task[t].step = "sent" /\ task[t].n = r.n /\ r = requestOf(t)
    <3> SUFFICES ASSUME NEW t \in Tasks, waitsFor(t, r)
                 PROVE  /\ task'[t].op = task[t].op /\ task'[t].step = "answered"
                        /\ task'[t].n = task[t].n
                        /\ task'[t].k = task[t].k /\ task'[t].v = task[t].v
                        /\ task'[t].method = task[t].method
                        /\ task'[t].body = o.body /\ task'[t] \in TaskRecords
                        /\ task[t].step = "sent" /\ task[t].n = r.n /\ r = requestOf(t)
      OBVIOUS
    <3>1. task[t].step = "sent" /\ task[t].n = r.n /\ r = requestOf(t)
      BY DEF waitsFor, WireOK, Active
    <3>2. task'[t] = [task[t] EXCEPT !.step = "answered", !.code = o.code, !.body = o.body]
      BY <2>1
    <3>3. task[t] \in TaskRecords
      OBVIOUS
    <3>4. PICK tk \in TaskRecords : tk = [task[t] EXCEPT !.step = "answered", !.code = o.code]
      BY <2>2, <3>3 DEF TaskRecords, Active
    <3>5. /\ tk.op = task[t].op /\ tk.step = "answered" /\ tk.n = task[t].n /\ tk.k = task[t].k
          /\ tk.v = task[t].v /\ tk.method = task[t].method
      BY <3>3, <3>4 DEF TaskRecords
    <3>6. task'[t] = [tk EXCEPT !.body = o.body]
      BY <3>2, <3>4
    <3> HIDE DEF StorageInv, StorageTypeOK
    <3>7. task'[t] \in TaskRecords
      BY <2>2, <3>6 DEF TaskRecords
    <3>8. /\ task'[t].op = tk.op /\ task'[t].step = tk.step /\ task'[t].n = tk.n /\ task'[t].k = tk.k
          /\ task'[t].v = tk.v /\ task'[t].method = tk.method /\ task'[t].body = o.body
      BY <3>6 DEF TaskRecords
    <3> QED
      BY <3>1, <3>5, <3>7, <3>8
  <2>6. CallsOK'
    <3>1. ASSUME NEW t \in Tasks PROVE CallOK(task[t])'
      <4>1. CASE ~waitsFor(t, r)
        BY <2>3, <2>4, <4>1 DEF CallsOK, CallOK
      <4>2. CASE waitsFor(t, r)
        <5>1. r.method = task[t].method
          BY <2>5, <4>2 DEF requestOf
        <5>2. task[t].op # "get" => r.method # "GET"
          BY <2>5, <4>2, <5>1 DEF CallsOK, CallOK, MethodsOf, Active, StorageOps, TaskRecords
        <5> QED
          BY <2>2, <2>3, <2>5, <4>2, <5>2 DEF CallsOK, CallOK, Active
      <4> QED
        BY <4>1, <4>2
    <3> QED
      BY <2>4, <2>5, <3>1 DEF CallsOK, Active
  <2>7. WireOK'
    <3>1. \A t \in Tasks : requestOf(t)' = requestOf(t)
      BY <2>4, <2>5 DEF requestOf
    <3>2. \A q \in wire' : q \in wire /\ q.n # r.n
      BY <2>3 DEF WireOK
    <3> QED
      BY <2>3, <2>4, <2>5, <3>1, <3>2 DEF WireOK, Active
  <2>8. task' \in [Tasks -> TaskRecords]
    BY <2>1, <2>4, <2>5
  <2> QED
    BY <2>1, <2>2, <2>3, <2>6, <2>7, <2>8
<1>2. ASSUME NEW r \in wire, loseRequest(r) PROVE StorageInv'
  BY <1>2 DEF loseRequest, CallsOK, CallOK, WireOK, requestOf
<1>3. CASE gatewayChanges
  BY <1>3 DEF gatewayChanges, CallsOK, CallOK, WireOK, requestOf
<1> QED
  BY <1>1, <1>2, <1>3 DEF Service

\* Everything else leaves the storage alone,
LEMMA OthersLeaveStorage ==
  Startup \/ restart \/ JwkTask \/ gatewayRotates \/ Checks => UNCHANGED callVars
BY DEF Startup, restart, loadConfiguration, loadFails, parseIntPairFails, tlsInitFails,
       validateAddress, makeServer, noServer, readWebPluginDefinitions, jwtNotConfigured,
       configureJwt, jwkTaskNotStarted, jwkTaskNotMade, newContext, Serves, Goes, Fails,
       JwkTask, JwkGoes, getJwk, copyKey, keyReady, retryLater, wakeUp, givesUp, gatewayRotates,
       Checks, checkJwtSignature, checkFreedContext, verifySignature, CheckGoes

\* so that each step of ZSS keeps its requests in order.
LEMMA StorageInvStep == StorageInv /\ [Next]_vars => StorageInv'
<1> SUFFICES ASSUME StorageInv, [Next]_vars PROVE StorageInv'
  OBVIOUS
<1>1. CASE UNCHANGED <<cache, wire, task, requests>>
  BY <1>1 DEF StorageInv, StorageTypeOK, CallsOK, CallOK, WireOK, requestOf
<1>2. ASSUME NEW t \in Tasks, Request(t) PROVE StorageInv'
  BY <1>2, StorageBegin DEF Request, StorageOps, Stored
<1>3. CASE zssEnds
  <2>1. task' = [t \in Tasks |-> Idle] /\ UNCHANGED <<cache, wire, requests>>
    BY <1>3 DEF zssEnds
  <2> QED
    BY <2>1, RequestTypes DEF StorageInv, StorageTypeOK, CallsOK, CallOK, WireOK, Active
<1>4. Startup \/ restart \/ JwkTask \/ gatewayRotates \/ Checks => UNCHANGED callVars
  BY OthersLeaveStorage
<1> QED
  BY <1>1, <1>2, <1>3, <1>4, StorageSubtask, StorageService DEF Next, Subtask, vars, callVars

\* The requests of the storage calls are always in order.
LEMMA StorageInvariant == Spec => []StorageInv
BY StorageInvInit, StorageInvStep, PTL DEF Spec

-----------------------------------------------------------------------------
(***************************************************************************)
(* The refinement: each step of ZSS is a step of the KVStore, or none.     *)
(***************************************************************************)
Calls == [t \in Tasks |-> callOf(task[t])]
Image(r) == [n |-> r.n, op |-> opOf(r.method), k |-> r.k, v |-> r.v]
Doubtful == {q \in wire : q.method # "GET" /\ \A t \in Tasks : ~waitsFor(t, q)}

\* The mapped variables in terms of the requests,
LEMMA DoubtIs == inDoubt = {Image(r) : r \in Doubtful}
BY DEF inDoubt, Doubtful, Image

\* after a step as well,
LEMMA DoubtNext == inDoubt' = {Image(r) : r \in Doubtful'}
BY DEF inDoubt, Doubtful, Image, opOf, waitsFor

\* and of the calls.
LEMMA CallsIs ==
  ASSUME NEW t \in Tasks, NEW c, callOf(task'[t]) = c,
         \A u \in Tasks \ {t} : task'[u] = task[u]
  PROVE  Calls' = [Calls EXCEPT ![t] = c]
BY DEF Calls

\* A task without a request has no call.
LEMMA CallOfNone ==
  ASSUME NEW step, NEW status, NEW got
  PROVE  callOf(NoRequest(step, status, got)) = Store!Ended(status, got)
BY DEF callOf, NoRequest, StorageOps, Store!Ended, Absent, Store!Absent

\* The call of a task with a request.
LEMMA CallOfSome ==
  ASSUME NEW tk, tk.op \in StorageOps
  PROVE  callOf(tk) = [op |-> tk.op, k |-> tk.k, v |-> tk.v, n |-> tk.n, effect |-> effectOf(tk),
                       got |-> tk.body, status |-> "none"]
BY DEF callOf

\* What a request in doubt looks like is what its call in doubt does.
LEMMA ImageIs ==
  ASSUME StorageInv, NEW t \in Tasks, task[t].step \in Active
  PROVE  /\ task[t].op \in StorageOps
         /\ Image(requestOf(t)) = Store!InDoubt(callOf(task[t])) \/ task[t].op = "get"
         /\ requestOf(t).method = "GET" <=> task[t].op = "get"
<1>1. task[t].op \in StorageOps
  BY DEF StorageInv, StorageTypeOK, CallsOK, CallOK, TaskRecords
<1>2. task[t].method \in MethodsOf(task[t].op)
  BY DEF StorageInv, CallsOK, CallOK
<1>3. requestOf(t).method = "GET" <=> task[t].op = "get"
  BY <1>1, <1>2 DEF requestOf, MethodsOf, StorageOps
<1>4. task[t].op # "get" => opOf(task[t].method) = task[t].op
  BY <1>1, <1>2 DEF opOf, MethodsOf, StorageOps
<1>5. task[t].op # "get" => Image(requestOf(t)) = Store!InDoubt(callOf(task[t]))
  BY <1>1, <1>4, CallOfSome DEF Image, requestOf, Store!InDoubt
<1> QED
  BY <1>1, <1>3, <1>5

\* The initial states.
LEMMA RefineInit == Init => Store!Init
BY DEF Init, StorageInit, Store!Init, Store!NoCall, Store!Ended, Idle, NoRequest, Absent,
       Store!Absent, callOf, inDoubt, StorageOps

\* A request begins a call.
LEMMA RefineBegin ==
  ASSUME StorageInv, NEW t \in Tasks, NEW op \in StorageOps, NEW k \in Keys, NEW v \in Stored,
         callStorage(t, op, k, v)
  PROVE  Store!Begin(t, op, k, v)
<1>1. /\ task[t].step = "idle" /\ UNCHANGED <<cache, wire>> /\ requests' = requests + 1
      /\ \A u \in Tasks \ {t} : task'[u] = task[u]
      /\ task'[t] = [op |-> op, step |-> "request", n |-> requests + 1, k |-> k, v |-> v,
                     method |-> firstMethod(op), code |-> 0, body |-> Absent, status |-> "none",
                     got |-> Absent]
  BY DEF callStorage, StorageInv, StorageTypeOK
<1>2. callOf(task'[t]) = [op |-> op, k |-> k, v |-> v, n |-> requests + 1, effect |-> "no",
                          got |-> Absent, status |-> "none"]
  <2>1. task'[t].op = op /\ task'[t].step = "request"
    BY <1>1
  <2>2. effectOf(task'[t]) = "no"
    BY <2>1 DEF effectOf
  <2> QED
    BY <1>1, <2>1, <2>2, CallOfSome
<1>3. Calls[t].op = "none"
  BY <1>1, CallOfNone DEF StorageInv, CallsOK, CallOK, Idle, Calls, Store!Ended
<1>4. Doubtful' = Doubtful
  BY <1>1 DEF Doubtful, waitsFor
<1>5. inDoubt' = inDoubt
  BY <1>4, DoubtIs, DoubtNext
<1> QED
  BY <1>1, <1>2, <1>3, <1>5, CallsIs DEF Store!Begin, Calls, Absent, Store!Absent

\* A call ends: its request is in doubt if it was, or was to be, on the wire.
LEMMA RefineEnd ==
  ASSUME StorageInv, NEW t \in Tasks, CallEnds(t), UNCHANGED <<cache, requests>>
  PROVE  \E status \in Statuses \ {"none"} : Store!End(t, status)
<1>1. PICK status \in Statuses \ {"none"}, got \in Stored :
        /\ task[t].step \in Active /\ ends(t, status, got)
        /\ status = "OK" => effectOf(task[t]) = "done" /\ got = task[t].body
        /\ status = "KEY_NOT_FOUND" => effectOf(task[t]) = "notFound"
        /\ status # "OK" => got = Absent
        /\ task[t].step # "answered" => status \in StorageErrors
        /\ wire' = wire \/ (task[t].step = "request" /\ wire' = wire \cup {requestOf(t)})
  BY DEF CallEnds
<1>0. PICK r : r = requestOf(t)
  OBVIOUS
<1>2. /\ task'[t] = NoRequest("returned", status, got) /\ t \in Tasks
      /\ \A u \in Tasks \ {t} : task'[u] = task[u]
  BY <1>1 DEF ends, StorageInv, StorageTypeOK
<1>3. task'[t].step = "returned" /\ task'[t].op = "none"
  BY <1>2 DEF NoRequest
<1>4. task[t].op \in StorageOps /\ callOf(task[t]).op # "none"
      /\ callOf(task[t]).effect = effectOf(task[t]) /\ callOf(task[t]).got = task[t].body
      /\ callOf(task[t]).op = task[t].op
  BY <1>1, ImageIs, CallOfSome DEF StorageOps
<1>5. Calls' = [Calls EXCEPT ![t] = Store!Ended(status, IF status = "OK" THEN callOf(task[t]).got
                                                                     ELSE Absent)]
  BY <1>1, <1>2, <1>4, CallsIs, CallOfNone
<1>6. \/ Doubtful' = Doubtful
      \/ /\ Doubtful' = Doubtful \cup {r} /\ r.method # "GET"
         /\ task[t].step # "answered"
  <2>1. ASSUME NEW q \in wire \cup {r}, q # r
        PROVE  q \in wire /\ ~waitsFor(t, q) /\ ~waitsFor(t, q)'
    BY <1>0, <1>1, <1>3, <2>1 DEF StorageInv, WireOK, waitsFor, Active
  <2>2. \A u \in Tasks \ {t}, q \in wire \cup {r} : waitsFor(u, q)' <=> waitsFor(u, q)
    BY <1>2 DEF waitsFor
  <2>3. r.n = task[t].n
    BY <1>0 DEF requestOf
  <2>4. \A u \in Tasks \ {t} : ~waitsFor(u, r)
    BY <1>0, <1>1, <2>3 DEF StorageInv, CallsOK, waitsFor, Active
  <2>5. ~waitsFor(t, r)' /\ (waitsFor(t, r) <=> task[t].step = "sent")
    BY <1>3, <2>3 DEF waitsFor
  <2>6. r \in wire => task[t].step = "sent"
    BY <1>0, <1>1, <2>3 DEF StorageInv, WireOK, Active
  <2> HIDE DEF CallEnds
  <2>7. CASE r \notin wire'
    <3>1. wire' = wire
      BY <1>0, <1>1, <2>7
    <3>2. \A q \in wire : q \in wire /\ \A u \in Tasks : waitsFor(u, q)' <=> waitsFor(u, q)
      BY <2>1, <2>2, <2>7, <3>1
    <3> QED
      BY <3>1, <3>2 DEF Doubtful
  <2>8. CASE r \in wire' /\ r.method = "GET"
    <3>1. ASSUME NEW q \in wire \cup {r} 
          PROVE  (q \in Doubtful') <=> (q \in Doubtful)
      <4>1. CASE q = r
        BY <2>8, <4>1 DEF Doubtful
      <4>2. CASE q # r
        BY <1>0, <1>1, <2>1, <2>2, <4>2 DEF Doubtful
      <4> QED
        BY <4>1, <4>2
    <3> QED
      BY <1>0, <1>1, <3>1 DEF Doubtful
  <2>9. CASE r \in wire' /\ r.method # "GET"
    <3>1. task[t].step # "answered"
      BY <1>0, <1>1, <2>6, <2>9
    <3>2. r \in Doubtful'
      BY <2>2, <2>4, <2>5, <2>9 DEF Doubtful
    <3>3. \A q \in (wire \cup {r}) \ {r} : (q \in Doubtful') <=> (q \in Doubtful)
      BY <1>0, <1>1, <2>1, <2>2 DEF Doubtful
    <3>4. Doubtful' \subseteq wire \cup {r} /\ Doubtful \subseteq wire
      BY <1>0, <1>1 DEF Doubtful
    <3>5. Doubtful' = Doubtful \cup {r}
      BY <3>2, <3>3, <3>4
    <3> QED
      BY <2>9, <3>1, <3>5
  <2> QED
    BY <2>7, <2>8, <2>9
<1>7. \/ inDoubt' = inDoubt
      \/ /\ status \in StorageErrors /\ Store!MayAct(callOf(task[t]))
         /\ inDoubt' = inDoubt \cup {Store!InDoubt(callOf(task[t]))}
  <2>1. CASE Doubtful' = Doubtful
    BY <2>1, DoubtIs, DoubtNext
  <2>2. CASE /\ Doubtful' = Doubtful \cup {r} /\ r.method # "GET"
             /\ task[t].step # "answered"
    <3>1. inDoubt' = inDoubt \cup {Image(r)}
      BY <2>2, DoubtIs, DoubtNext
    <3>2. task[t].op # "get" /\ Image(r) = Store!InDoubt(callOf(task[t]))
      BY <1>0, <1>1, <2>2, ImageIs
    <3>3. effectOf(task[t]) = "no"
      BY <2>2 DEF effectOf
    <3>4. Store!MayAct(callOf(task[t]))
      BY <1>4, <3>2, <3>3 DEF Store!MayAct, StorageOps
    <3> QED
      BY <1>1, <2>2, <3>1, <3>2, <3>4
  <2> QED
    BY <1>6, <2>1, <2>2
<1>8. Calls[t] = callOf(task[t])
  BY DEF Calls
<1> QED
  BY <1>1, <1>4, <1>5, <1>7, <1>8 DEF Store!End, Calls, Absent, Store!Absent

\* Steps of a task that its user cannot see: a request is sent, a change of a
\* key that is not there goes on as a create.
LEMMA RefineHidden ==
  ASSUME StorageInv, NEW t \in Tasks, send(t) \/ ChangeToCreate(t), UNCHANGED <<cache, requests>>
  PROVE  UNCHANGED Store!vars
<1>1. task[t].step \in Active /\ task[t].op \in StorageOps
  BY ImageIs DEF send, ChangeToCreate, Active
<1>2. /\ task'[t].op = task[t].op /\ task'[t].n = task[t].n
      /\ task'[t].k = task[t].k /\ task'[t].v = task[t].v
      /\ task'[t].body = task[t].body
      /\ \A u \in Tasks \ {t} : task'[u] = task[u]
  BY DEF send, ChangeToCreate, StorageInv, StorageTypeOK, TaskRecords
<1>3. effectOf(task[t]) = "no" /\ effectOf(task'[t]) = "no"
  <2>1. CASE send(t)
    <3>1. task[t].step = "request" /\ task'[t].step = "sent"
      BY <2>1 DEF send, StorageInv, StorageTypeOK, TaskRecords
    <3> QED
      BY <3>1 DEF effectOf
  <2>2. CASE ChangeToCreate(t)
    <3>1. task[t].code = 404 /\ task[t].method = "PUT" /\ task'[t].step = "request"
      BY <2>2 DEF ChangeToCreate, StorageInv, StorageTypeOK, TaskRecords
    <3> QED
      BY <3>1 DEF effectOf
  <2> QED
    BY <2>1, <2>2
<1>4. callOf(task'[t]) = callOf(task[t])
  BY <1>1, <1>2, <1>3, CallOfSome
<1>5. Calls' = Calls
  BY <1>2, <1>4 DEF Calls
<1>6. Doubtful' = Doubtful
  <2>1. CASE send(t)
    <3>1. /\ task[t].step = "request" /\ task'[t].step = "sent"
          /\ wire' = wire \cup {requestOf(t)}
      BY <2>1 DEF send, StorageInv, StorageTypeOK, TaskRecords
    <3>0. PICK r : r = requestOf(t)
      OBVIOUS
    <3>2. r.n = task[t].n
      BY <3>0 DEF requestOf
    <3>3. r \notin wire /\ \A q \in wire : ~waitsFor(t, q) /\ ~waitsFor(t, q)'
      BY <1>2, <3>0, <3>1, <3>2 DEF StorageInv, WireOK, waitsFor, Active
    <3>4. waitsFor(t, r)'
      BY <1>2, <3>1, <3>2 DEF waitsFor
    <3>5. \A u \in Tasks, q \in wire : waitsFor(u, q)' <=> waitsFor(u, q)
      BY <1>2, <3>3 DEF waitsFor
    <3> QED
      BY <3>0, <3>1, <3>3, <3>4, <3>5 DEF Doubtful
  <2>2. CASE ChangeToCreate(t)
    <3>1. task[t].step = "answered" /\ task'[t].step = "request" /\ wire' = wire
      BY <2>2 DEF ChangeToCreate, StorageInv, StorageTypeOK, TaskRecords
    <3>2. \A u \in Tasks, q \in wire : waitsFor(u, q)' <=> waitsFor(u, q)
      BY <1>2, <3>1 DEF waitsFor
    <3> QED
      BY <3>1, <3>2 DEF Doubtful
  <2> QED
    BY <2>1, <2>2
<1> QED
  BY <1>5, <1>6, DoubtIs, DoubtNext DEF Store!vars, Calls

\* The answer to the user of a data service.
LEMMA RefineForget ==
  ASSUME StorageInv, NEW t \in Tasks, requestAnswered(t)
  PROVE  Store!Forget(t)
<1>1. /\ task[t].step = "returned" /\ task'[t] = Idle /\ UNCHANGED <<cache, wire, requests>>
      /\ \A u \in Tasks \ {t} : task'[u] = task[u]
  BY DEF requestAnswered, StorageInv, StorageTypeOK
<1>2. task[t].op = "none" /\ Calls[t].op = "none"
  BY <1>1 DEF StorageInv, CallsOK, CallOK, Active, Calls, callOf, StorageOps
<1>3. Calls' = [Calls EXCEPT ![t] = Store!NoCall]
  BY <1>1, CallsIs, CallOfNone DEF Idle, Store!NoCall, Absent, Store!Absent
<1>4. \A u \in Tasks, q \in wire : waitsFor(u, q)' <=> waitsFor(u, q)
  BY <1>1, RequestTypes DEF waitsFor
<1>5. inDoubt' = inDoubt
  BY <1>1, <1>4, DoubtIs, DoubtNext DEF Doubtful
<1> QED
  BY <1>1, <1>2, <1>3, <1>5 DEF Store!Forget, Calls

\* Two fields of the call of a task change.
CallRecords == [op : StorageOps \cup {"none"}, k : Keys \cup {Absent}, v : Stored, n : Nat,
                effect : {"no", "done", "notFound"}, got : Stored, status : Statuses]

\* Recording the effect of a call changes nothing else.
LEMMA CallUpdate ==
  ASSUME NEW c \in CallRecords, NEW e, NEW g
  PROVE  [c EXCEPT !.effect = e, !.got = g] =
         [op |-> c.op, k |-> c.k, v |-> c.v, n |-> c.n, effect |-> e, got |-> g, status |-> c.status]
<1>1. PICK d : d = [c EXCEPT !.effect = e]
  OBVIOUS
<1>2. d = [op |-> c.op, k |-> c.k, v |-> c.v, n |-> c.n, effect |-> e, got |-> c.got, status |-> c.status]
  BY <1>1 DEF CallRecords
<1>3. [d EXCEPT !.got = g] = [op |-> c.op, k |-> c.k, v |-> c.v, n |-> c.n, effect |-> e, got |-> g,
                              status |-> c.status]
  BY <1>2
<1> QED
  BY <1>1, <1>3

\* The calls that the invariant maps to are calls of the store.
LEMMA CallTypes == StorageInv => Calls \in [Tasks -> CallRecords]
<1> SUFFICES ASSUME StorageInv, NEW t \in Tasks PROVE callOf(task[t]) \in CallRecords
  BY DEF Calls
<1>1. task[t] \in TaskRecords
  BY DEF StorageInv, StorageTypeOK
<1>2. effectOf(task[t]) \in {"no", "done", "notFound"}
  BY DEF effectOf
<1>3. CASE task[t].op \in StorageOps
  BY <1>1, <1>2, <1>3, CallOfSome DEF TaskRecords, CallRecords, Statuses
<1>4. CASE task[t].op \notin StorageOps
  BY <1>1, <1>4 DEF callOf, TaskRecords, CallRecords, Stored
<1> QED
  BY <1>3, <1>4

\* What the service did, by the status code that it answers: it acted, found
\* nothing to act on, or left the map as it was.
Tells(r, o) ==
  \/ o.code \notin {200, 201, 204, 404} /\ o.cache = cache /\ o.body = Absent
  \/ o.code = 404 /\ r.method = "PUT" /\ o.cache = cache /\ o.body = Absent
  \/ /\ o.code \in {201, 204} /\ r.method \in {"PUT", "POST"} /\ o.body = Absent
     /\ o.cache = [cache EXCEPT ![r.k] = r.v]
  \/ /\ o.code = (IF cache[r.k] = Absent THEN 404 ELSE 200) /\ r.method = "GET"
     /\ o.cache = cache /\ o.body = cache[r.k]
  \/ /\ o.code = (IF cache[r.k] = Absent THEN 404 ELSE 204) /\ r.method = "DELETE"
     /\ o.cache = [cache EXCEPT ![r.k] = Absent] /\ o.body = Absent

\* What the answer of the cache tells of the effect.
LEMMA OutcomeTells ==
  ASSUME StorageTypeOK, NEW r \in RequestRecords, NEW o \in Outcomes(r)
  PROVE  Tells(r, o)
<1> USE DEF Tells
<1>1. r.method \in {"PUT", "POST", "GET", "DELETE"}
  BY DEF RequestRecords, Methods
<1>2. CASE o \in {refused(403), refused(500)}
  BY <1>2 DEF refused
<1>3. CASE r.method = "PUT" /\ o = changed(r)
  BY <1>3 DEF changed
<1>4. CASE r.method = "POST" /\ o = created(r)
  BY <1>4 DEF created
<1>5. CASE r.method = "GET" /\ o = fetched(r)
  BY <1>5 DEF fetched
<1>6. CASE r.method = "DELETE" /\ o = deleted(r)
  BY <1>6 DEF deleted
<1>7. \/ o \in {refused(403), refused(500)}
      \/ r.method = "PUT" /\ o = changed(r)
      \/ r.method = "POST" /\ o = created(r)
      \/ r.method = "GET" /\ o = fetched(r)
      \/ r.method = "DELETE" /\ o = deleted(r)
  <2>1. CASE r.method = "PUT"
    BY <2>1 DEF Outcomes
  <2>2. CASE r.method = "POST"
    BY <2>2 DEF Outcomes
  <2>3. CASE r.method = "GET"
    BY <2>3 DEF Outcomes
  <2>4. CASE r.method = "DELETE"
    BY <2>4 DEF Outcomes
  <2> QED
    BY <1>1, <2>1, <2>2, <2>3, <2>4
<1> QED
  BY <1>2, <1>3, <1>4, <1>5, <1>6, <1>7

\* The service answers a request that a task waits for: the call acts, or
\* the map and the call stay as they are.
LEMMA RefineServeWaited ==
  ASSUME StorageInv, NEW r \in wire, NEW t \in Tasks, waitsFor(t, r), NEW o \in Outcomes(r),
         task' = [task EXCEPT ![t] = [task[t] EXCEPT !.step = "answered", !.code = o.code,
                                                     !.body = o.body]],
         cache' = o.cache, UNCHANGED requests, inDoubt' = inDoubt
  PROVE  Store!Act(t) \/ UNCHANGED Store!vars
<1>1. /\ task[t].step = "sent" /\ task[t].n = r.n /\ r = requestOf(t) /\ r \in RequestRecords
      /\ task[t].body = Absent /\ task[t].op \in StorageOps /\ task[t].step \in Active
  BY ImageIs DEF waitsFor, StorageInv, StorageTypeOK, WireOK, CallsOK, CallOK, Active
<1>2. r.method = task[t].method /\ r.k = task[t].k /\ r.v = task[t].v
      /\ r.method \in MethodsOf(task[t].op)
  BY <1>1 DEF requestOf, StorageInv, CallsOK, CallOK
<1>3. /\ task'[t].op = task[t].op /\ task'[t].step = "answered" /\ task'[t].n = task[t].n
      /\ task'[t].k = task[t].k /\ task'[t].v = task[t].v /\ task'[t].method = task[t].method
      /\ task'[t].body = o.body /\ task'[t].code = o.code
      /\ \A u \in Tasks \ {t} : task'[u] = task[u]
  BY DEF StorageInv, StorageTypeOK, TaskRecords
<1> DEFINE c == Calls[t]
<1>4. /\ c.op = task[t].op /\ c.k = task[t].k /\ c.v = task[t].v /\ c.n = task[t].n
      /\ c.effect = effectOf(task[t]) /\ c.got = Absent /\ c.status = "none"
  BY <1>1, CallOfSome DEF Calls
<1>5. effectOf(task[t]) = "no"
  BY <1>1 DEF effectOf
<1>6. Calls' = [Calls EXCEPT ![t] = [op |-> c.op, k |-> c.k, v |-> c.v, n |-> c.n,
                                     effect |-> effectOf(task'[t]), got |-> o.body,
                                     status |-> c.status]]
  <2>1. callOf(task'[t]) = [op |-> c.op, k |-> c.k, v |-> c.v, n |-> c.n,
                            effect |-> effectOf(task'[t]), got |-> o.body, status |-> c.status]
    <3> HIDE DEF c
    <3>1. task'[t].op \in StorageOps
      BY <1>1, <1>3
    <3>2. callOf(task'[t]) =
            [op |-> task'[t].op, k |-> task'[t].k, v |-> task'[t].v, n |-> task'[t].n,
             effect |-> effectOf(task'[t]), got |-> task'[t].body, status |-> "none"]
      BY <3>1, CallOfSome
    <3> QED
      BY <1>3, <1>4, <3>2
  <2>2. \A u \in Tasks \ {t} : task'[u] = task[u]
    BY <1>3
  <2> HIDE DEF c
  <2>3. PICK d : d = [op |-> c.op, k |-> c.k, v |-> c.v, n |-> c.n,
                      effect |-> effectOf(task'[t]), got |-> o.body, status |-> c.status]
    OBVIOUS
  <2>4. Calls' = [Calls EXCEPT ![t] = d]
    BY <2>1, <2>2, <2>3, CallsIs
  <2> QED
    BY <2>3, <2>4
<1>7. Calls' = [Calls EXCEPT ![t] = [c EXCEPT !.effect = effectOf(task'[t]), !.got = o.body]]
  <2>1. c \in CallRecords
    BY CallTypes
  <2> HIDE DEF c
  <2> QED
    BY <1>6, <2>1, CallUpdate
<1>8. ASSUME effectOf(task'[t]) = "no", o.cache = cache, o.body = Absent
      PROVE  UNCHANGED Store!vars
  <2>1. [op |-> c.op, k |-> c.k, v |-> c.v, n |-> c.n, effect |-> "no", got |-> Absent,
         status |-> c.status] = c
    BY <1>4, <1>5, <1>1, CallOfSome DEF Calls
  <2>2. Calls' = Calls
    BY <1>6, <1>8, <2>1 DEF Calls
  <2> QED
    BY <1>8, <2>2 DEF Store!vars, Calls
<1>9. ASSUME effectOf(task'[t]) = (IF c.op # "set" /\ cache[c.k] = Absent THEN "notFound" ELSE "done"),
             o.body = (IF c.op = "get" THEN cache[c.k] ELSE Absent),
             o.cache = Store!After(c)
      PROVE  Store!Act(t)
  <2>1. c.op # "none" /\ c.effect = "no"
    BY <1>1, <1>4, <1>5 DEF StorageOps
  <2> QED
    BY <1>7, <1>9, <2>1 DEF Store!Act, Calls, Absent, Store!Absent
<1>10. /\ task[t].op = "set" <=> r.method \in {"PUT", "POST"}
       /\ task[t].op = "get" <=> r.method = "GET"
       /\ task[t].op = "remove" <=> r.method = "DELETE"
  BY <1>1, <1>2 DEF MethodsOf, StorageOps
<1>11. /\ c.op = "set" => Store!After(c) = [cache EXCEPT ![c.k] = c.v]
       /\ c.op = "get" => Store!After(c) = cache
       /\ c.op = "remove" => Store!After(c) = [cache EXCEPT ![c.k] = Absent]
  BY DEF Store!After, Absent, Store!Absent
<1> HIDE DEF c
<1>12. CASE \/ o.code \notin {200, 201, 204, 404} /\ o.cache = cache /\ o.body = Absent
            \/ o.code = 404 /\ r.method = "PUT" /\ o.cache = cache /\ o.body = Absent
  <2>1. effectOf(task'[t]) = "no"
    BY <1>2, <1>3, <1>12 DEF effectOf
  <2> QED
    BY <1>8, <1>12, <2>1
<1>13. CASE /\ o.code \in {201, 204} /\ r.method \in {"PUT", "POST"} /\ o.body = Absent
            /\ o.cache = [cache EXCEPT ![r.k] = r.v]
  <2>1. effectOf(task'[t]) = "done"
    BY <1>3, <1>13 DEF effectOf
  <2> QED
    BY <1>2, <1>4, <1>9, <1>10, <1>11, <1>13, <2>1
<1>14. CASE /\ o.code = (IF cache[r.k] = Absent THEN 404 ELSE 200) /\ r.method = "GET"
            /\ o.cache = cache /\ o.body = cache[r.k]
  <2>1. effectOf(task'[t]) = IF cache[r.k] = Absent THEN "notFound" ELSE "done"
    BY <1>2, <1>3, <1>14 DEF effectOf
  <2> QED
    BY <1>2, <1>4, <1>9, <1>10, <1>11, <1>14, <2>1
<1>15. CASE /\ o.code = (IF cache[r.k] = Absent THEN 404 ELSE 204) /\ r.method = "DELETE"
            /\ o.cache = [cache EXCEPT ![r.k] = Absent] /\ o.body = Absent
  <2>1. effectOf(task'[t]) = IF cache[r.k] = Absent THEN "notFound" ELSE "done"
    BY <1>2, <1>3, <1>15 DEF effectOf
  <2> QED
    BY <1>2, <1>4, <1>9, <1>10, <1>11, <1>15, <2>1
<1>16. StorageTypeOK /\ r \in RequestRecords
  BY <1>1 DEF StorageInv
<1>17. Tells(r, o)
  BY <1>16, OutcomeTells
<1> QED
  BY <1>12, <1>13, <1>14, <1>15, <1>17 DEF Tells

\* A request leaves the wire: it is in doubt no more, if it was.
LEMMA WireLoses ==
  ASSUME StorageInv, NEW r \in wire, wire' = wire \ {r},
         \A t \in Tasks, q \in wire \ {r} : waitsFor(t, q)' <=> waitsFor(t, q)
  PROVE  /\ r \notin Doubtful => inDoubt' = inDoubt
         /\ r \in Doubtful => Image(r) \in inDoubt /\ inDoubt' = inDoubt \ {Image(r)}
<1>1. Doubtful' = Doubtful \ {r}
  BY DEF Doubtful
<1>2. CASE r \notin Doubtful
  BY <1>1, <1>2, DoubtIs, DoubtNext
<1>3. CASE r \in Doubtful
  <2>1. \A q \in Doubtful : Image(q) = Image(r) => q = r
    <3>1. \A q \in wire : Image(q).n = q.n
      BY DEF Image
    <3> QED
      BY <3>1 DEF StorageInv, WireOK, Doubtful
  <2>2. Image(r) \in inDoubt
    BY <1>3, DoubtIs
  <2>3. inDoubt' = {Image(q) : q \in Doubtful \ {r}}
    BY <1>1, DoubtNext
  <2>4. inDoubt' = inDoubt \ {Image(r)}
    BY <2>1, <2>3, DoubtIs
  <2> QED
    BY <1>3, <2>2, <2>4
<1> QED
  BY <1>2, <1>3

\* The service or the network disposes of a request that nobody waits for: a
\* call in doubt acts late, or never.
LEMMA RefineLate ==
  ASSUME StorageInv, NEW r \in wire, \A t \in Tasks : ~waitsFor(t, r), wire' = wire \ {r},
         UNCHANGED <<task, requests>>,
         cache' = cache \/ (\E o \in Outcomes(r) : cache' = o.cache)
  PROVE  (\E c \in inDoubt : Store!ActLate(c)) \/ UNCHANGED Store!vars
<1>1. Calls' = Calls
  BY DEF Calls
<1>2. \A t \in Tasks, q \in wire \ {r} : waitsFor(t, q)' <=> waitsFor(t, q)
  BY DEF waitsFor
<1>3. r \in RequestRecords /\ r.method \in Methods
  BY DEF StorageInv, StorageTypeOK, RequestRecords
<1>4. \/ cache' = cache
      \/ cache' = [cache EXCEPT ![r.k] = r.v] /\ r.method \in {"PUT", "POST"}
      \/ cache' = [cache EXCEPT ![r.k] = Absent] /\ r.method = "DELETE"
  <2>1. \A o \in Outcomes(r) : Tells(r, o)
    BY <1>3, OutcomeTells DEF StorageInv
  <2>2. ASSUME NEW o \in Outcomes(r), cache' = o.cache
        PROVE  \/ cache' = cache
               \/ cache' = [cache EXCEPT ![r.k] = r.v] /\ r.method \in {"PUT", "POST"}
               \/ cache' = [cache EXCEPT ![r.k] = Absent] /\ r.method = "DELETE"
    <3>1. Tells(r, o)
      BY <2>1
    <3> QED
      BY <2>2, <3>1 DEF Tells
  <2> QED
    BY <2>2
<1>5. CASE r.method = "GET"
  <2>1. r \notin Doubtful
    BY <1>5 DEF Doubtful
  <2> QED
    BY <1>1, <1>2, <1>4, <1>5, <2>1, WireLoses DEF Store!vars, Calls
<1>6. CASE r.method # "GET"
  <2>1. r \in Doubtful
    BY <1>6 DEF Doubtful
  <2>2. Image(r) \in inDoubt /\ inDoubt' = inDoubt \ {Image(r)}
    BY <1>2, <2>1, WireLoses
  <2>3. Image(r).k = r.k /\ Image(r).v = r.v /\ Image(r).op = opOf(r.method)
    BY DEF Image
  <2>4. /\ r.method \in {"PUT", "POST"} => Image(r).op = "set"
        /\ r.method = "DELETE" => Image(r).op = "remove"
    BY <2>3 DEF opOf
  <2>5. /\ r.method \in {"PUT", "POST"} => Store!After(Image(r)) = [cache EXCEPT ![r.k] = r.v]
        /\ r.method = "DELETE" => Store!After(Image(r)) = [cache EXCEPT ![r.k] = Absent]
    BY <2>3, <2>4 DEF Store!After, Absent, Store!Absent
  <2>6. cache' \in {cache, Store!After(Image(r))}
    BY <1>4, <2>5
  <2> QED
    BY <1>1, <2>2, <2>6 DEF Store!ActLate, Calls
<1> QED
  BY <1>5, <1>6

\* The steps of the service and of the network.
LEMMA RefineService ==
  ASSUME StorageInv, Service
  PROVE  \/ \E t \in Tasks : Store!Act(t)
         \/ \E c \in inDoubt : Store!ActLate(c)
         \/ UNCHANGED Store!vars
<1>1. CASE gatewayChanges
  <2>1. UNCHANGED <<cache, wire, task, requests>>
    BY <1>1 DEF gatewayChanges
  <2> QED
    BY <2>1 DEF Store!vars, inDoubt, waitsFor
<1>2. ASSUME NEW r \in wire, loseRequest(r)
      PROVE  (\E c \in inDoubt : Store!ActLate(c)) \/ UNCHANGED Store!vars
  <2>1. wire' = wire \ {r} /\ UNCHANGED <<cache, task, requests>>
    BY <1>2 DEF loseRequest
  <2>2. CASE \A t \in Tasks : ~waitsFor(t, r)
    BY <2>1, <2>2, RefineLate
  <2>3. CASE \E t \in Tasks : waitsFor(t, r)
    <3>1. \A t \in Tasks, q \in wire \ {r} : waitsFor(t, q)' <=> waitsFor(t, q)
      BY <2>1 DEF waitsFor
    <3>2. inDoubt' = inDoubt
      BY <2>1, <2>3, <3>1, WireLoses DEF Doubtful
    <3> QED
      BY <2>1, <3>2 DEF Store!vars
  <2> QED
    BY <2>2, <2>3
<1>3. ASSUME NEW r \in wire, serve(r)
      PROVE  \/ \E t \in Tasks : Store!Act(t)
             \/ \E c \in inDoubt : Store!ActLate(c)
             \/ UNCHANGED Store!vars
  <2>1. wire' = wire \ {r} /\ UNCHANGED requests
    BY <1>3 DEF serve
  <2>2. PICK o \in Outcomes(r) :
          /\ cache' = o.cache
          /\ task' = [t \in Tasks |-> IF waitsFor(t, r)
                                      THEN [task[t] EXCEPT !.step = "answered", !.code = o.code,
                                                           !.body = o.body]
                                      ELSE task[t]]
    BY <1>3 DEF serve
  <2>3. task \in [Tasks -> TaskRecords]
    BY DEF StorageInv, StorageTypeOK
  <2>4. CASE \A t \in Tasks : ~waitsFor(t, r)
    <3>1. task' = task
      BY <2>2, <2>3, <2>4
    <3> QED
      BY <2>1, <2>2, <2>4, <3>1, RefineLate
  <2>5. ASSUME NEW t \in Tasks, waitsFor(t, r) PROVE Store!Act(t) \/ UNCHANGED Store!vars
    <3>1. \A u \in Tasks \ {t} : ~waitsFor(u, r)
      BY <2>5 DEF StorageInv, CallsOK, waitsFor, Active
    <3>2. task' = [task EXCEPT ![t] = [task[t] EXCEPT !.step = "answered", !.code = o.code,
                                                      !.body = o.body]]
      BY <2>2, <2>3, <2>5, <3>1
    <3>3. task'[t].step = "answered" /\ \A u \in Tasks \ {t} : task'[u] = task[u]
      BY <2>3, <3>2 DEF TaskRecords
    <3>4. \A u \in Tasks, q \in wire \ {r} : waitsFor(u, q)' <=> waitsFor(u, q)
      BY <2>5, <3>3 DEF waitsFor, StorageInv, WireOK
    <3>5. inDoubt' = inDoubt
      BY <2>1, <2>5, <3>4, WireLoses DEF Doubtful
    <3> QED
      BY <2>1, <2>2, <2>5, <3>2, <3>5, RefineServeWaited
  <2> QED
    BY <2>4, <2>5
<1> QED
  BY <1>1, <1>2, <1>3 DEF Service

\* The end of ZSS leaves in doubt the calls whose requests are on the wire.
LEMMA RefineCrash ==
  ASSUME StorageInv, zssEnds
  PROVE  Store!Crash
<1> DEFINE left == {Image(q) : q \in Doubtful' \ Doubtful}
<1>1. task' = [t \in Tasks |-> Idle] /\ UNCHANGED <<cache, wire, requests>>
  BY DEF zssEnds
<1>2. \A t \in Tasks : task'[t] = Idle
  BY <1>1
<1>3. \A t \in Tasks : callOf(task'[t]) = Store!NoCall
  BY <1>2, CallOfNone DEF Idle, Store!NoCall, Absent, Store!Absent
<1>4. \A t \in Tasks, q \in wire : ~waitsFor(t, q)'
  BY <1>2, RequestTypes DEF waitsFor
<1>5. Doubtful \subseteq Doubtful'
  BY <1>1, <1>4 DEF Doubtful
<1>6. inDoubt' = inDoubt \cup left
  BY <1>5, DoubtIs, DoubtNext
<1>7. ASSUME NEW q \in Doubtful' \ Doubtful
      PROVE  \E t \in Tasks : Store!MayAct(Calls[t]) /\ Image(q) = Store!InDoubt(Calls[t])
  <2>1. q \in wire /\ q.method # "GET"
    BY <1>1, <1>7 DEF Doubtful
  <2>2. PICK t \in Tasks : waitsFor(t, q)
    BY <1>7, <2>1 DEF Doubtful
  <2>3. task[t].step = "sent" /\ task[t].step \in Active /\ q = requestOf(t)
    BY <2>1, <2>2 DEF waitsFor, StorageInv, WireOK, Active
  <2>4. task[t].op \in StorageOps \ {"get"} /\ Image(q) = Store!InDoubt(callOf(task[t]))
    BY <2>1, <2>3, ImageIs
  <2>5. effectOf(task[t]) = "no"
    BY <2>3 DEF effectOf
  <2>6. callOf(task[t]).op = task[t].op /\ callOf(task[t]).effect = "no"
    BY <2>4, <2>5, CallOfSome
  <2>7. Store!MayAct(callOf(task[t]))
    BY <2>4, <2>6 DEF Store!MayAct, StorageOps
  <2> QED
    BY <2>4, <2>7 DEF Calls
<1>8. left \in SUBSET {Store!InDoubt(Calls[t]) : t \in {u \in Tasks : Store!MayAct(Calls[u])}}
  BY <1>7
<1> HIDE DEF left
<1> QED
  BY <1>1, <1>3, <1>6, <1>8 DEF Store!Crash, Calls

\* Each step of ZSS is a step of the KVStore or leaves it as it is.
LEMMA RefineStep == StorageInv /\ [Next]_vars => [Store!Next]_(Store!vars)
<1> SUFFICES ASSUME StorageInv, [Next]_vars PROVE Store!Next \/ UNCHANGED Store!vars
  OBVIOUS
<1>1. CASE UNCHANGED <<cache, wire, task, requests>>
  BY <1>1 DEF Store!vars, inDoubt, waitsFor
<1>2. ASSUME NEW t \in Tasks, Request(t) PROVE Store!Next
  <2>1. PICK op \in StorageOps, k \in Keys, v \in Stored : callStorage(t, op, k, v)
    BY <1>2 DEF Request, StorageOps, Stored
  <2>2. Store!Begin(t, op, k, v)
    BY <2>1, RefineBegin
  <2> QED
    BY <2>1, <2>2 DEF Store!Next, Store!Ops, StorageOps, Stored, Absent, Store!Absent
<1>3. ASSUME NEW t \in Tasks, StorageStep(t) PROVE Store!Next \/ UNCHANGED Store!vars
  <2>1. UNCHANGED <<cache, requests>>
        /\ (CallEnds(t) \/ ChangeToCreate(t) \/ send(t) \/ requestAnswered(t))
    BY <1>3, SubtaskSteps
  <2>2. CASE CallEnds(t)
    BY <2>1, <2>2, RefineEnd DEF Store!Next, Statuses
  <2>3. CASE requestAnswered(t)
    BY <2>3, RefineForget DEF Store!Next
  <2> QED
    BY <2>1, <2>2, <2>3, RefineHidden
<1>4. CASE Service
  BY <1>4, RefineService DEF Store!Next
<1>5. CASE zssEnds
  BY <1>5, RefineCrash DEF Store!Next
<1>6. Startup \/ restart \/ JwkTask \/ gatewayRotates \/ Checks => UNCHANGED callVars
  BY OthersLeaveStorage
<1> QED
  BY <1>1, <1>2, <1>3, <1>4, <1>5, <1>6 DEF Next, Subtask, vars, callVars

\* The storage of a plug-in is a KVStore, however its requests are lost,
\* delayed past their time-outs and past the end of ZSS, and overtaken.
THEOREM StorageRefinesKVStore == Spec => StorageIsKVStore
BY RefineInit, RefineStep, StorageInvariant, PTL DEF Spec, StorageIsKVStore, Store!Spec
=============================================================================

---------------------------- MODULE ApimlStorage ----------------------------
(***************************************************************************)
(* The storage of a ZSS plug-in in the caching service of the API          *)
(* Mediation Layer (storageApiml.c).  Tasks of ZSS call set, get and       *)
(* remove; each is one HTTP request through the gateway, and a set of a    *)
(* key that is not there is two.  A request waits for its response for a   *)
(* limited time; one that is given up may reach the service later.         *)
(***************************************************************************)
EXTENDS Naturals

CONSTANTS
  Tasks,       \* subtasks of ZSS
  Keys, Values,
  MaxRequests  \* bound: requests that the tasks get

Absent == "absent"

VARIABLES
  gateway,     \* whether the gateway, and the caching service, is up
  cache,       \* the map that the caching service keeps
  wire,        \* requests on their way to the service
  task,        \* what each task is doing
  requests     \* number of requests made

storageVars == <<cache, wire>>

\* method, k, v: the HTTP request; code and body: its response; status and got:
\* how the last call ended.
NoRequest(step, status, got) ==
  [op |-> "none", step |-> step, n |-> 0, k |-> Absent, v |-> Absent, method |-> "none",
   code |-> 0, body |-> Absent, status |-> status, got |-> got]
Idle == NoRequest("idle", "none", Absent)

StorageInit ==
  /\ gateway = "down" /\ cache \in [Keys -> Values \cup {Absent}] /\ wire = {}
  /\ task = [t \in Tasks |-> Idle] /\ requests = 0

\* The request of a task, and whether the task still waits for its response.
requestOf(t) == [n |-> task[t].n, method |-> task[t].method, k |-> task[t].k, v |-> task[t].v]
waitsFor(t, r) == task[t].step = "sent" /\ task[t].n = r.n

-----------------------------------------------------------------------------
(***************************************************************************)
(* The caching service and the gateway (external): the four methods, as    *)
(* createOrChange, get and remove use them.  A response other than 404 may *)
(* be an error of the service, which then did nothing.                     *)
(***************************************************************************)
changed(r) ==
  [code |-> IF cache[r.k] = Absent THEN 404 ELSE 204, body |-> Absent,
   cache |-> IF cache[r.k] = Absent THEN cache ELSE [cache EXCEPT ![r.k] = r.v]]
created(r) ==
  [code |-> IF cache[r.k] = Absent THEN 201 ELSE 409, body |-> Absent,
   cache |-> IF cache[r.k] = Absent THEN [cache EXCEPT ![r.k] = r.v] ELSE cache]
fetched(r) ==
  [code |-> IF cache[r.k] = Absent THEN 404 ELSE 200, body |-> cache[r.k], cache |-> cache]
deleted(r) ==
  [code |-> IF cache[r.k] = Absent THEN 404 ELSE 204, body |-> Absent,
   cache |-> [cache EXCEPT ![r.k] = Absent]]
refused(code) == [code |-> code, body |-> Absent, cache |-> cache]

Outcomes(r) ==
  {refused(403), refused(500)} \cup
  {CASE r.method = "PUT" -> changed(r) [] r.method = "POST" -> created(r)
     [] r.method = "GET" -> fetched(r) [] r.method = "DELETE" -> deleted(r)}

\* The response reaches the task that waits, if any does.
serve(r) ==
  /\ gateway = "up" /\ r \in wire /\ wire' = wire \ {r}
  /\ \E o \in Outcomes(r) :
       /\ cache' = o.cache
       /\ task' = [t \in Tasks |-> IF waitsFor(t, r)
                                   THEN [task[t] EXCEPT !.step = "answered", !.code = o.code,
                                                        !.body = o.body]
                                   ELSE task[t]]
  /\ UNCHANGED <<gateway, requests>>

loseRequest(r) ==
  /\ r \in wire /\ wire' = wire \ {r} /\ UNCHANGED <<gateway, cache, task, requests>>

gatewayChanges ==
  /\ gateway' = IF gateway = "up" THEN "down" ELSE "up"
  /\ UNCHANGED <<cache, wire, task, requests>>

-----------------------------------------------------------------------------
(***************************************************************************)
(* apimlStorageSetString, apimlStorageGetString and apimlStorageRemove.    *)
(***************************************************************************)
firstMethod(op) == CASE op = "set" -> "PUT" [] op = "get" -> "GET" [] op = "remove" -> "DELETE"

callStorage(t, op, k, v) ==
  /\ task[t].step = "idle" /\ requests < MaxRequests /\ requests' = requests + 1
  /\ task' = [task EXCEPT ![t] =
       [op |-> op, step |-> "request", n |-> requests + 1, k |-> k, v |-> v,
        method |-> firstMethod(op), code |-> 0, body |-> Absent, status |-> "none",
        got |-> Absent]]
  /\ UNCHANGED <<gateway, cache, wire>>

\* What the call returns to the data service that made it.
ends(t, status, got) == task' = [task EXCEPT ![t] = NoRequest("returned", status, got)]

\* The data service answers its request (external), and the subtask is free.
requestAnswered(t) ==
  /\ task[t].step = "returned" /\ task' = [task EXCEPT ![t] = Idle]
  /\ UNCHANGED <<gateway, cache, wire, requests>>

\* apimlCreateCachingServiceRequestBody: no storage for the body.  The printer
\* that has to grow its buffer may fail for no reason, because
\* printerGrowBuffer returns no value.
bodyFails(t) ==
  /\ task[t].step = "request" /\ task[t].op = "set" /\ ends(t, "ALLOC_ERROR", Absent)
  /\ UNCHANGED <<gateway, cache, wire, requests>>

\* apimlDoRequest up to the send.  When the send fails the service may have
\* got the request.
sendFails(t) ==
  /\ task[t].step = "request" /\ ends(t, "HTTP_ERROR", Absent)
  /\ wire' \in {wire} \cup (IF gateway = "up" THEN {wire \cup {requestOf(t)}} ELSE {})
  /\ UNCHANGED <<gateway, cache, requests>>

send(t) ==
  /\ task[t].step = "request" /\ gateway = "up"
  /\ wire' = wire \cup {requestOf(t)} /\ task' = [task EXCEPT ![t].step = "sent"]
  /\ UNCHANGED <<gateway, cache, requests>>

\* receiveResponse: the connection breaks, or recvTimeoutSeconds is over, with
\* or without a response of the service on its way.  The time-out is that of one
\* receive, and the receive is repeated while a part of the response came.  The
\* parts change nothing that others see; that they are finitely many is an
\* assumption, and the loop is one step.
receiveFails_NoTimeout(t) ==
  /\ task[t].step = "answered" /\ ends(t, "RESPONSE_ERROR", Absent)
  /\ UNCHANGED <<gateway, cache, wire, requests>>
receiveFails(t) ==
  /\ task[t].step \in {"sent", "answered"} /\ ends(t, "RESPONSE_ERROR", Absent)
  /\ UNCHANGED <<gateway, cache, wire, requests>>

\* A response of any status that cannot be copied or, for a get, parsed; and
\* the ApimlResponse that cannot be allocated, which the callers use unchecked.
responseUnusable(t) ==
  /\ task[t].step = "answered"
  /\ \E status \in {"ALLOC_ERROR", "abend"} \cup
                   (IF task[t].method = "GET" THEN {"JSON_RESPONSE_ERROR"} ELSE {}) :
       ends(t, status, Absent)
  /\ UNCHANGED <<gateway, cache, wire, requests>>

transformHttpStatus_Conflict(code) ==
  CASE code = 404 -> "KEY_NOT_FOUND" [] code = 403 -> "INVALID_CLIENT_CERT"
    [] code \in {200, 201, 204, 409} -> "OK" [] OTHER -> "HTTP_ERROR"
transformHttpStatus(code) ==
  CASE code = 404 -> "KEY_NOT_FOUND" [] code = 403 -> "INVALID_CLIENT_CERT"
    [] code \in {200, 201, 204} -> "OK" [] OTHER -> "HTTP_ERROR"

\* getValue: no value in the response, or no storage for a copy of it.
getValue(t) ==
  \/ ends(t, "OK", task[t].body)
  \/ \E status \in {"INVALID_KV_RESPONSE", "ALLOC_ERROR"} : ends(t, status, Absent)

\* A set is a change and, if the key is not there, a create.
receive(t) ==
  LET status == transformHttpStatus(task[t].code) IN
  /\ task[t].step = "answered"
  /\ IF task[t].method = "PUT" /\ status = "KEY_NOT_FOUND"
     THEN task' = [task EXCEPT ![t].step = "request", ![t].method = "POST", ![t].code = 0]
     ELSE IF task[t].op = "get" /\ status = "OK" THEN getValue(t)
     ELSE ends(t, status, Absent)
  /\ UNCHANGED <<gateway, cache, wire, requests>>

StorageStep(t) ==
  \/ bodyFails(t) \/ sendFails(t) \/ send(t) \/ receiveFails(t) \/ responseUnusable(t) \/ receive(t)
  \/ requestAnswered(t)

Service == gatewayChanges \/ \E r \in wire : serve(r) \/ loseRequest(r)

-----------------------------------------------------------------------------
(***************************************************************************)
(* The refinement mapping to KVStore.                                      *)
(***************************************************************************)
StorageErrors == {"HTTP_ERROR", "RESPONSE_ERROR", "JSON_RESPONSE_ERROR", "ALLOC_ERROR",
                  "INVALID_KV_RESPONSE", "INVALID_CLIENT_CERT", "abend"}

StorageOps == {"set", "get", "remove"}

\* A call has acted when the service did what it asked for.
effectOf(tk) ==
  CASE tk.step = "answered" /\ tk.code \in {200, 201, 204}          -> "done"
    [] tk.step = "answered" /\ tk.code = 404 /\ tk.method # "PUT"   -> "notFound"
    [] OTHER                                                        -> "no"

callOf(tk) ==
  IF tk.op \in StorageOps
  THEN [op |-> tk.op, k |-> tk.k, v |-> tk.v, n |-> tk.n, effect |-> effectOf(tk),
        got |-> tk.body, status |-> "none"]
  ELSE [op |-> "none", k |-> Absent, v |-> Absent, n |-> 0, effect |-> "no",
        got |-> tk.got, status |-> tk.status]

opOf(method) == IF method = "DELETE" THEN "remove" ELSE "set"

inDoubt ==
  {[n |-> r.n, op |-> opOf(r.method), k |-> r.k, v |-> r.v] :
     r \in {q \in wire : q.method # "GET" /\ \A t \in Tasks : ~waitsFor(t, q)}}

Store == INSTANCE KVStore
  WITH store <- cache, call <- [t \in Tasks |-> callOf(task[t])], doubt <- inDoubt,
       number <- requests, Errors <- StorageErrors
=============================================================================

------------------------------- MODULE KVStore -------------------------------
(***************************************************************************)
(* What ZSS promises the users of a Storage (set, get, remove): a map from *)
(* keys to values on which a call acts at one moment between its begin and *)
(* its end, or not at all.  A call that succeeds has acted, exactly once.  *)
(* After an error, or the end of ZSS, the effect of a call is in doubt: it *)
(* may have acted, may still act once, at any later time, or never.        *)
(***************************************************************************)
EXTENDS Naturals

CONSTANTS
  Tasks,    \* tasks that call the storage
  Keys,
  Values,
  Errors    \* statuses that tell nothing of the effect

Absent == "absent"
Ops    == {"set", "get", "remove"}

VARIABLES
  store,    \* the map
  call,     \* the call of each task
  doubt,    \* calls that are over and may still act
  number    \* calls begun

vars == <<store, call, doubt, number>>

\* effect says whether the call has acted and, if so, whether the key was
\* there; got is the value that a get found; status is that of the last call.
Ended(status, got) == [op |-> "none", k |-> Absent, v |-> Absent, n |-> 0,
                       effect |-> "no", got |-> got, status |-> status]
NoCall == Ended("none", Absent)

Init ==
  /\ store \in [Keys -> Values \cup {Absent}] /\ doubt = {} /\ number = 0
  /\ call = [t \in Tasks |-> NoCall]

Begin(t, op, k, v) ==
  /\ call[t].op = "none" /\ number' = number + 1
  /\ call' = [call EXCEPT ![t] = [op |-> op, k |-> k, v |-> v, n |-> number + 1,
                                  effect |-> "no", got |-> Absent, status |-> "none"]]
  /\ UNCHANGED <<store, doubt>>

After(c) ==
  CASE c.op = "set"    -> [store EXCEPT ![c.k] = c.v]
    [] c.op = "remove" -> [store EXCEPT ![c.k] = Absent]
    [] c.op = "get"    -> store

Act(t) ==
  LET c == call[t] IN
  /\ c.op # "none" /\ c.effect = "no" /\ store' = After(c)
  /\ call' = [call EXCEPT ![t] =
       [c EXCEPT !.effect = IF c.op # "set" /\ store[c.k] = Absent THEN "notFound" ELSE "done",
                 !.got    = IF c.op = "get" THEN store[c.k] ELSE Absent]]
  /\ UNCHANGED <<doubt, number>>

InDoubt(c) == [n |-> c.n, op |-> c.op, k |-> c.k, v |-> c.v]

\* A call whose effect nobody can exclude when it ends.
MayAct(c) == c.op \in {"set", "remove"} /\ c.effect = "no"

End(t, status) ==
  LET c == call[t] IN
  /\ c.op # "none"
  /\ status = "OK" => c.effect = "done"
  /\ status = "KEY_NOT_FOUND" => c.effect = "notFound"
  /\ doubt' = doubt \/ (status \in Errors /\ MayAct(c) /\ doubt' = doubt \cup {InDoubt(c)})
  /\ call' = [call EXCEPT ![t] = Ended(status, IF status = "OK" THEN c.got ELSE Absent)]
  /\ UNCHANGED <<store, number>>

\* The user has seen the status.
Forget(t) ==
  /\ call[t].op = "none" /\ call' = [call EXCEPT ![t] = NoCall] /\ UNCHANGED <<store, doubt, number>>

\* ZSS ends, with all its calls.
Crash ==
  /\ \E left \in SUBSET {InDoubt(call[t]) : t \in {u \in Tasks : MayAct(call[u])}} :
       doubt' = doubt \cup left
  /\ call' = [t \in Tasks |-> NoCall] /\ UNCHANGED <<store, number>>

ActLate(c) ==
  /\ c \in doubt /\ doubt' = doubt \ {c} /\ store' \in {store, After(c)}
  /\ UNCHANGED <<call, number>>

Next ==
  \/ \E t \in Tasks : \/ \E op \in Ops, k \in Keys, v \in Values \cup {Absent} : Begin(t, op, k, v)
                      \/ Act(t) \/ Forget(t)
                      \/ \E status \in {"OK", "KEY_NOT_FOUND"} \cup Errors : End(t, status)
  \/ Crash
  \/ \E c \in doubt : ActLate(c)

Spec == Init /\ [][Next]_vars
==============================================================================

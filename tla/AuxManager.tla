----------------------------- MODULE AuxManager -----------------------------
(***************************************************************************)
(* The AUX manager of ZIS (zis-aux/src/aux-manager.c): starting, finding,  *)
(* signalling, awaiting and stopping guest address spaces.                 *)
(*                                                                         *)
(* A guest and the manager share a communication area, a cell of commPool. *)
(* zisauxMgrStartGuest2 creates the address space first and completes the  *)
(* area afterwards, so a guest runs beside it; the exit of the address     *)
(* space (auxTermExit) posts termECB in the area, whatever happened to the *)
(* area.  The host is reduced to what it does to the area; AuxHost has the *)
(* rest.                                                                   *)
(***************************************************************************)
EXTENDS Naturals

CONSTANTS
  Nicknames,   \* guest nicknames
  Areas,       \* cells of commPool
  Spaces,      \* address spaces that ASCRE creates (bound: the guests started)
  Tasks,       \* ZIS tasks that use the manager
  Stoppers     \* those that call zisauxMgrStopGuest

None == "none"

ASSUME AuxManagerAssumption ==
  /\ Stoppers \subseteq Tasks
  /\ None \notin Nicknames \cup Areas \cup Spaces \cup Tasks

VARIABLES
  freeAreas,       \* free cells of commPool
  area,            \* the communication areas
  nicknameToComm,  \* mgr->nicknameToComm
  ascbToComm,      \* mgr->ascbToComm
  space,           \* the guest address spaces
  start,           \* where the manager task is in zisauxMgrStartGuest2
  task             \* where the other tasks are in StopGuest and WaitForTerm

mapVars == <<nicknameToComm, ascbToComm>>
vars == <<freeAreas, area, mapVars, space, start, task>>

ZeroArea == [flag |-> {}, pcNumber |-> FALSE, termECB |-> FALSE, stoken |-> None]
NoStart  == [step |-> "idle", n |-> None, s |-> None, a |-> None, off |-> FALSE, seen |-> {}]
IdleTask == [op |-> "idle", n |-> None, a |-> None]

\* A space knows its area from its start parameter.  nick and off are what it
\* was started for, early whether it read the area before the manager finished
\* it, seen the flags that it read.
Guest(state, a, n, off) == [state |-> state, comm |-> a, nick |-> n, off |-> off,
                            early |-> FALSE, seen |-> {}, term |-> FALSE]
Unused == Guest("unused", None, None, FALSE)

Live(s) == space[s].state \in {"starting", "configured", "ready", "closing", "terminating"}

Init ==
  /\ freeAreas = Areas /\ area = [a \in Areas |-> ZeroArea]
  /\ nicknameToComm = [n \in Nicknames |-> None]
  /\ ascbToComm = [s \in Spaces |-> None]
  /\ space = [s \in Spaces |-> Unused]
  /\ start = NoStart /\ task = [t \in Tasks |-> IdleTask]

-----------------------------------------------------------------------------
(***************************************************************************)
(* zisauxMgrStartGuest2, on the manager's TCB only.  A start that fails    *)
(* gives the area back before anybody saw it.                              *)
(***************************************************************************)
createGuest_NotCleared(n, off) ==
  /\ start.step = "idle"
  /\ \E a \in freeAreas, s \in Spaces :
       /\ space[s].state = "unused"
       /\ freeAreas' = freeAreas \ {a} /\ UNCHANGED area
       /\ space' = [space EXCEPT ![s] = Guest("starting", a, n, off)]
       /\ start' = [step |-> "created", n |-> n, s |-> s, a |-> a, off |-> off, seen |-> {}]
  /\ UNCHANGED <<mapVars, task>>
createGuest(n, off) ==
  /\ start.step = "idle"
  /\ \E a \in freeAreas, s \in Spaces :
       /\ space[s].state = "unused"
       /\ freeAreas' = freeAreas \ {a}
       /\ area' = [area EXCEPT ![a] = ZeroArea]     \* allocCommArea
       /\ space' = [space EXCEPT ![s] = Guest("starting", a, n, off)]
       /\ start' = [step |-> "created", n |-> n, s |-> s, a |-> a, off |-> off, seen |-> {}]
  /\ UNCHANGED <<mapVars, task>>

\* lhtPut replaces what the nickname or the ASCB stood for.
listGuest_OneKey ==
  /\ start.step = "created" /\ start' = [start EXCEPT !.step = "listed"]
  /\ nicknameToComm' = [n \in Nicknames |-> start.a]
  /\ ascbToComm' = [ascbToComm EXCEPT ![start.s] = start.a]
  /\ UNCHANGED <<freeAreas, area, space, task>>
listGuest ==
  /\ start.step = "created" /\ start' = [start EXCEPT !.step = "listed"]
  /\ nicknameToComm' = [nicknameToComm EXCEPT ![start.n] = start.a]
  /\ ascbToComm' = [ascbToComm EXCEPT ![start.s] = start.a]
  /\ UNCHANGED <<freeAreas, area, space, task>>

\* commArea->stoken, ascb and parentASID.
stampGuest ==
  LET a == start.a IN
  /\ start.step = "listed"
  /\ start' = [start EXCEPT !.step = "stamped", !.seen = area[a].flag]
  /\ area' = [area EXCEPT ![a].stoken = start.s]
  /\ UNCHANGED <<freeAreas, mapVars, space, task>>

\* Manager and host update commArea->flag without serialisation: an update
\* may be built on flags that the other one has changed since.
setCommAreaFlags ==
  LET a == start.a IN
  /\ start.step = "stamped" /\ start' = NoStart
  /\ \E old \in {start.seen, area[a].flag} :
       area' = [area EXCEPT ![a].flag =
                  IF start.off THEN old \ {"COMM_PC_ON"} ELSE old \cup {"COMM_PC_ON"}]
  /\ UNCHANGED <<freeAreas, mapVars, space, task>>

-----------------------------------------------------------------------------
(***************************************************************************)
(* What the host does to the area (aux-host.c).                            *)
(***************************************************************************)
beingStarted(s) == start.s = s

\* isCommunicationPCEnabled, then establishCommunicationPC.
hostConfigure(s) ==
  LET a == space[s].comm IN
  /\ space[s].state = "starting"
  /\ space' = [space EXCEPT ![s].state = "configured", ![s].seen = area[a].flag,
                            ![s].early = beingStarted(s)]
  /\ area' = [area EXCEPT ![a].pcNumber = "COMM_PC_ON" \in area[a].flag]
  /\ UNCHANGED <<freeAreas, mapVars, start, task>>

hostReady(s) ==
  LET a == space[s].comm IN
  /\ space[s].state = "configured" /\ space' = [space EXCEPT ![s].state = "ready", ![s].seen = {}]
  /\ \E old \in {space[s].seen, area[a].flag} :
       area' = [area EXCEPT ![a].flag = old \cup {"READY"}]
  /\ UNCHANGED <<freeAreas, mapVars, start, task>>

\* setReadyFlag, and setTermFlag when the host ends in order.
hostClose(s) ==
  LET a == space[s].comm IN
  /\ space[s].state = "ready" /\ space[s].term
  /\ space' = [space EXCEPT ![s].state = "closing"]
  /\ area' = [area EXCEPT ![a].flag = (@ \ {"READY"}) \cup {"TERMINATED"}]
  /\ UNCHANGED <<freeAreas, mapVars, start, task>>

\* auxutilPost(termECB) wakes the task that waits for the ECB.
Waiting(a) == {t \in Tasks : task[t].op \in {"stopWait", "waitForTerm"} /\ task[t].a = a}
afterWait(op, tk) == IF op = "stopWait" THEN [tk EXCEPT !.op = "forget"] ELSE IdleTask

\* The address space ends, in order or not, and the system calls auxTermExit
\* with the address of the area.
auxTermExit_NotPosted(s) ==
  /\ Live(s)
  /\ space' = [space EXCEPT ![s] = Guest("ended", None, None, FALSE)]
  /\ UNCHANGED <<area, task, freeAreas, mapVars, start>>
auxTermExit(s) ==
  LET a == space[s].comm IN
  /\ Live(s)
  /\ space' = [space EXCEPT ![s] = Guest("ended", None, None, FALSE)]
  /\ area' = [area EXCEPT ![a].termECB = TRUE]
  /\ task' = [t \in Tasks |-> IF t \in Waiting(a) THEN afterWait(task[t].op, task[t])
                              ELSE task[t]]
  /\ UNCHANGED <<freeAreas, mapVars, start>>

-----------------------------------------------------------------------------
(***************************************************************************)
(* zisauxMgrSendTermSignal, as far as the manager goes: the guest whose    *)
(* ASCB or PC is in the area gets the request.                             *)
(***************************************************************************)
sendTermSignal(t, n) ==
  LET a == nicknameToComm[n] IN
  /\ task[t].op = "idle" /\ a # None
  /\ "TERMINATED" \notin area[a].flag /\ "READY" \in area[a].flag
  /\ area[a].stoken # None /\ Live(area[a].stoken)
  /\ space' = [space EXCEPT ![area[a].stoken].term = TRUE]
  /\ UNCHANGED <<freeAreas, area, mapVars, start, task>>

\* auxutilWait: a second task that waits for the same ECB abends (S301).
auxutilWait_Returns(t, op) == task' = [task EXCEPT ![t] = afterWait(op, task[t])]
auxutilWait(t, op) ==
  LET a == task[t].a IN
  task' = IF area[a].termECB THEN [task EXCEPT ![t] = afterWait(op, task[t])]
          ELSE IF Waiting(a) # {} THEN [task EXCEPT ![t] = IdleTask]
          ELSE [task EXCEPT ![t].op = op]

waitForTerm(t, n) ==
  /\ task[t].op = "idle" /\ nicknameToComm[n] # None
  /\ task' = [task EXCEPT ![t] = [op |-> "found", n |-> n, a |-> nicknameToComm[n]]]
  /\ UNCHANGED <<freeAreas, area, mapVars, space, start>>

beginWaitForTerm(t) ==
  /\ task[t].op = "found" /\ auxutilWait(t, "waitForTerm")
  /\ UNCHANGED <<freeAreas, area, mapVars, space, start>>

-----------------------------------------------------------------------------
(***************************************************************************)
(* zisauxMgrStopGuest: find, terminate, wait, forget.                      *)
(***************************************************************************)
stopGuest(t, n) ==
  /\ t \in Stoppers /\ task[t].op = "idle" /\ nicknameToComm[n] # None
  /\ task' = [task EXCEPT ![t] = [op |-> "stopFound", n |-> n, a |-> nicknameToComm[n]]]
  /\ UNCHANGED <<freeAreas, area, mapVars, space, start>>

\* addressSpaceTerminate fails when there is no such space (any more): then
\* the area and the map entries stay.
terminateGuest(t) ==
  LET s == area[task[t].a].stoken IN
  /\ task[t].op = "stopFound"
  /\ IF s # None /\ Live(s) /\ space[s].state # "terminating"
     THEN /\ space' = [space EXCEPT ![s].state = "terminating"]
          /\ task' = [task EXCEPT ![t].op = "stopping"]
     ELSE task' = [task EXCEPT ![t] = IdleTask] /\ UNCHANGED space
  /\ UNCHANGED <<freeAreas, area, mapVars, start>>

awaitGuest(t) ==
  /\ task[t].op = "stopping" /\ auxutilWait(t, "stopWait")
  /\ UNCHANGED <<freeAreas, area, mapVars, space, start>>

forgetGuest(t) ==
  LET a == task[t].a IN
  /\ task[t].op = "forget"
  /\ nicknameToComm' = [nicknameToComm EXCEPT ![task[t].n] = None]
  /\ ascbToComm' = IF area[a].stoken = None THEN ascbToComm
                   ELSE [ascbToComm EXCEPT ![area[a].stoken] = None]
  /\ freeAreas' = freeAreas \cup {a}
  /\ task' = [task EXCEPT ![t] = IdleTask]
  /\ UNCHANGED <<area, space, start>>

-----------------------------------------------------------------------------
Manager == \/ \E n \in Nicknames, off \in BOOLEAN : createGuest(n, off)
           \/ listGuest \/ stampGuest \/ setCommAreaFlags

Host(s) == \/ hostConfigure(s) \/ hostReady(s) \/ hostClose(s) \/ auxTermExit(s)

Task(t) == \/ \E n \in Nicknames : \/ sendTermSignal(t, n) \/ waitForTerm(t, n)
                                   \/ stopGuest(t, n)
           \/ beginWaitForTerm(t)
           \/ terminateGuest(t) \/ awaitGuest(t) \/ forgetGuest(t)

Next == Manager \/ (\E s \in Spaces : Host(s)) \/ (\E t \in Tasks : Task(t))

Spec == Init /\ [][Next]_vars

-----------------------------------------------------------------------------
\* At most one task stops guests.
OneStopper == \A t, u \in Stoppers : t = u

\* The area of a guest that runs is not in the pool, and no two guests that
\* run share one: zisauxMgrStopGuest frees an area only after the address
\* space that writes to it is gone.  Nor does a nickname lead to an area that
\* is back in the pool, if one task does all the stopping.
LiveAreaKept ==
  /\ \A s \in Spaces : Live(s) => space[s].comm \in Areas \ freeAreas
  /\ \A r, s \in Spaces : Live(r) /\ Live(s) /\ space[r].comm = space[s].comm => r = s
  /\ OneStopper =>
       \A n \in Nicknames : nicknameToComm[n] # None => nicknameToComm[n] \notin freeAreas

\* If one task does all the stopping, a stop terminates no guest but one that was
\* started under the nickname that it was called with.
StopsNamedGuest ==
  [][OneStopper =>
       \A s \in Spaces : space[s].state # "terminating" /\ space'[s].state = "terminating"
         => \E t \in Stoppers : task[t].op = "stopFound" /\ task[t].n = space[s].nick]_vars

\* What the flags of a guest's area say of it, whatever the order in which the
\* manager and the host read and write them.  A guest that is starting finds
\* nothing of an earlier guest of the area; COMM_PC_ON is never set for one that
\* was started without the PC, and never lost by one that has it.  READY can be
\* lost, and COMM_PC_ON be set for a guest that has no PC, but only if the guest
\* read the area before the manager had completed it (early).
AreaFitsGuest ==
  \A s \in Spaces : Live(s) =>
    LET g == space[s]  a == area[g.comm] IN
    /\ g.state \in {"starting", "configured"} => a.flag \subseteq {"COMM_PC_ON"}
    /\ g.off => "COMM_PC_ON" \notin a.flag
    /\ a.pcNumber => "COMM_PC_ON" \in a.flag
    /\ g.state = "ready" /\ ~g.early =>
         "READY" \in a.flag /\ ("COMM_PC_ON" \in a.flag => a.pcNumber)

\* zisauxMgrStopGuest waits without a timeout for an ECB that only the exit of
\* the address space posts.  It never waits in vain, however many tasks stop
\* guests: the ECB is posted already, or the guest whose exit knows this very
\* area is being terminated and has not ended yet.
StopAwaitsEnding ==
  \A t \in Stoppers : task[t].op \in {"stopping", "stopWait"} =>
    LET a == task[t].a IN
    \/ area[a].termECB
    \/ \E s \in Spaces : space[s].state = "terminating" /\ space[s].comm = a
=============================================================================

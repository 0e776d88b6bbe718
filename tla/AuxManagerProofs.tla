------------------------- MODULE AuxManagerProofs -------------------------
(***************************************************************************)
(* Safety of the AUX manager for any number of nicknames, areas, guests    *)
(* and tasks.                                                              *)
(***************************************************************************)
EXTENDS AuxManager, TLAPS

Flags == {"COMM_PC_ON", "READY", "TERMINATED"}
LiveStates == {"starting", "configured", "ready", "closing", "terminating"}
StopPlaces == {"stopping", "stopWait", "forget"}

AreaRecords == [flag : SUBSET Flags, pcNumber : BOOLEAN, termECB : BOOLEAN,
                stoken : Spaces \cup {None}]
SpaceRecords == [state : LiveStates \cup {"unused", "ended"}, comm : Areas \cup {None},
                 nick : Nicknames \cup {None}, off : BOOLEAN, early : BOOLEAN,
                 seen : SUBSET Flags, term : BOOLEAN]
StartRecords == [step : {"idle", "created", "listed", "stamped"}, n : Nicknames \cup {None},
                 s : Spaces \cup {None}, a : Areas \cup {None}, off : BOOLEAN,
                 seen : SUBSET Flags]
TaskRecords == [op : {"idle", "found", "waitForTerm", "stopFound"} \cup StopPlaces,
                n : Nicknames \cup {None}, a : Areas \cup {None}]

TypeOK ==
  /\ freeAreas \subseteq Areas
  /\ area \in [Areas -> AreaRecords]
  /\ nicknameToComm \in [Nicknames -> Areas \cup {None}]
  /\ ascbToComm \in [Spaces -> Areas \cup {None}]
  /\ space \in [Spaces -> SpaceRecords]
  /\ start \in StartRecords
  /\ task \in [Tasks -> TaskRecords]

\* What a place in the code says of the variables there.
PlacesOK ==
  /\ start.step = "idle" <=> start.s = None
  /\ start.step # "idle" => /\ start.n \in Nicknames /\ start.s \in Spaces /\ start.a \in Areas
                            /\ space[start.s].state # "unused"
  /\ \A t \in Tasks : task[t].op # "idle" => task[t].n \in Nicknames /\ task[t].a \in Areas
  /\ \A s \in Spaces : Live(s) => space[s].comm \in Areas

\* A guest that runs has an area of its own, that is in use and whose termECB
\* nobody has posted.
OwnArea ==
  /\ \A s \in Spaces : Live(s) => space[s].comm \notin freeAreas /\ ~area[space[s].comm].termECB
  /\ \A r, s \in Spaces : Live(r) /\ Live(s) /\ space[r].comm = space[s].comm => r = s

\* The stoken of an area leads to the guest of that area, or to one that ended.
StokenOK ==
  \A a \in Areas : area[a].stoken # None =>
    LET s == area[a].stoken IN space[s].state # "unused" /\ (Live(s) => space[s].comm = a)

\* The area being completed is that of the guest being started; before it has
\* the stoken it cannot be stopped.
StartOK ==
  /\ start.step # "idle" =>
       \A s \in Spaces : Live(s) => (s = start.s <=> space[s].comm = start.a)
  /\ start.step \in {"created", "listed"} =>
       /\ start.a \notin freeAreas /\ area[start.a].stoken = None
       /\ \A t \in Tasks : task[t].op \in StopPlaces => task[t].a # start.a

\* A stop that has terminated a guest keeps the area to itself until it
\* frees it, which it does when the guest is gone.
StopOK ==
  \A t \in Tasks : task[t].op \in StopPlaces =>
    LET a == task[t].a IN
    /\ a \notin freeAreas
    /\ \A s \in Spaces : Live(s) /\ space[s].comm = a => space[s].state = "terminating"
    /\ \A u \in Tasks : task[u].op \in StopPlaces /\ task[u].a = a => u = t
    /\ \/ area[a].termECB
       \/ /\ task[t].op # "forget"
          /\ \E s \in Spaces : space[s].state = "terminating" /\ space[s].comm = a

AreaInv == TypeOK /\ PlacesOK /\ OwnArea /\ StokenOK /\ StartOK /\ StopOK

\* What a guest finds in an area completed before it looked stays in it.
FlagsOK ==
  \A s \in Spaces : space[s].state \in {"configured", "ready"} /\ ~space[s].early =>
    LET a == space[s].comm IN
    /\ start.s # s
    /\ "COMM_PC_ON" \in area[a].flag <=> area[a].pcNumber
    /\ space[s].state = "configured" => space[s].seen = area[a].flag
    /\ space[s].state = "ready" => "READY" \in area[a].flag

\* What holds of the flags of a guest's area however the manager and the host
\* interleave: also of the flags that each of them has read and not yet
\* written back.
Fits(s) ==
  LET g == space[s]  a == area[space[s].comm] IN
  /\ g.state \in {"starting", "configured"} => a.flag \subseteq {"COMM_PC_ON"}
  /\ g.off => "COMM_PC_ON" \notin a.flag
  /\ a.pcNumber => "COMM_PC_ON" \in a.flag
  /\ g.state = "configured" => /\ g.seen \subseteq {"COMM_PC_ON"}
                               /\ g.off => "COMM_PC_ON" \notin g.seen
                               /\ a.pcNumber => "COMM_PC_ON" \in g.seen
  /\ start.s = s =>
       /\ start.off = g.off
       /\ start.step = "stamped" /\ g.state \in {"starting", "configured"}
            => start.seen \subseteq {"COMM_PC_ON"}
RaceOK == \A s \in Spaces : Live(s) => Fits(s)

\* With one stopping task: a nickname leads to an area in use, no other
\* nickname does, and its guest was started under that nickname.
NamesOK ==
  /\ \A n \in Nicknames : nicknameToComm[n] # None =>
       LET a == nicknameToComm[n] IN
       /\ a \notin freeAreas
       /\ start.step = "created" => a # start.a
       /\ \A s \in Spaces : Live(s) /\ space[s].comm = a => space[s].nick = n
  /\ \A m, n \in Nicknames :
       nicknameToComm[m] # None /\ nicknameToComm[m] = nicknameToComm[n] => m = n
  /\ start.step # "idle" /\ Live(start.s) => space[start.s].nick = start.n
\* ... and so does the stop that looked it up.
StopNameOK ==
  \A t \in Stoppers : task[t].op \in StopPlaces \cup {"stopFound"} =>
    LET a == task[t].a IN
    /\ a \notin freeAreas
    /\ start.step = "created" => a # start.a
    /\ \A s \in Spaces : Live(s) /\ space[s].comm = a => space[s].nick = task[t].n
    /\ \A n \in Nicknames : nicknameToComm[n] = a => n = task[t].n
StoppersOnly == \A t \in Tasks : task[t].op \in StopPlaces \cup {"stopFound"} => t \in Stoppers

NameInv == OneStopper => NamesOK /\ StopNameOK
-----------------------------------------------------------------------------
\* What an update of a field yields.
LEMMA AreaUpdate ==
  ASSUME NEW r \in AreaRecords
  PROVE  /\ \A f \in SUBSET Flags : [r EXCEPT !.flag = f] \in AreaRecords
         /\ \A b \in BOOLEAN : [r EXCEPT !.pcNumber = b] \in AreaRecords
         /\ \A b \in BOOLEAN : [r EXCEPT !.termECB = b] \in AreaRecords
         /\ \A s \in Spaces \cup {None} : [r EXCEPT !.stoken = s] \in AreaRecords
BY DEF AreaRecords

\* The same of the record of a guest
LEMMA SpaceUpdate ==
  ASSUME NEW r \in SpaceRecords
  PROVE  /\ \A st \in LiveStates : [r EXCEPT !.state = st] \in SpaceRecords
         /\ \A f \in SUBSET Flags : [r EXCEPT !.seen = f] \in SpaceRecords
         /\ \A b \in BOOLEAN : [r EXCEPT !.early = b] \in SpaceRecords
         /\ \A b \in BOOLEAN : [r EXCEPT !.term = b] \in SpaceRecords
BY DEF SpaceRecords

\* and of that of a task.
LEMMA TaskUpdate ==
  ASSUME NEW r \in TaskRecords, NEW op \in {"waitForTerm"} \cup StopPlaces
  PROVE  /\ [r EXCEPT !.op = op] \in TaskRecords
         /\ [r EXCEPT !.op = op].op = op
         /\ [r EXCEPT !.op = op].n = r.n
         /\ [r EXCEPT !.op = op].a = r.a
BY DEF TaskRecords

\* The records that the actions write are well typed.
LEMMA RecordTypes ==
  /\ ZeroArea \in AreaRecords
  /\ Unused \in SpaceRecords /\ Guest("ended", None, None, FALSE) \in SpaceRecords
  /\ \A a \in Areas, n \in Nicknames, off \in BOOLEAN : Guest("starting", a, n, off) \in SpaceRecords
  /\ NoStart \in StartRecords
  /\ IdleTask \in TaskRecords
BY DEF ZeroArea, Unused, Guest, NoStart, IdleTask, AreaRecords, SpaceRecords, StartRecords,
       TaskRecords, LiveStates

\* Where a wait leaves a task.
LEMMA WaitType ==
  ASSUME TypeOK, NEW t \in Tasks, NEW op \in {"waitForTerm", "stopWait"}
  PROVE  /\ [task[t] EXCEPT !.op = op] \in TaskRecords
         /\ afterWait(op, task[t]) \in TaskRecords
         /\ op = "waitForTerm" => afterWait(op, task[t]) = IdleTask
         /\ op = "stopWait" => afterWait(op, task[t]) = [task[t] EXCEPT !.op = "forget"]
BY RecordTypes, TaskUpdate DEF TypeOK, afterWait, StopPlaces

\* The initial states are well typed.
LEMMA TypeInit == Init => TypeOK /\ PlacesOK
<1> SUFFICES ASSUME Init PROVE TypeOK /\ PlacesOK
  OBVIOUS
<1>1. TypeOK
  BY RecordTypes DEF Init, TypeOK
<1>2. PlacesOK
  BY DEF Init, PlacesOK, NoStart, IdleTask, Unused, Guest, Live
<1> QED
  BY <1>1, <1>2

\* Type correctness is kept by the manager's own steps,
LEMMA ManagerType ==
  ASSUME TypeOK, PlacesOK, Manager
  PROVE  TypeOK' /\ PlacesOK'
<1> USE AuxManagerAssumption, RecordTypes DEF TypeOK, mapVars
<1>1. ASSUME NEW n \in Nicknames, NEW off \in BOOLEAN, createGuest(n, off)
      PROVE  TypeOK' /\ PlacesOK'
  <2>1. PICK a \in freeAreas, s \in Spaces :
          /\ space[s].state = "unused" /\ freeAreas' = freeAreas \ {a}
          /\ area' = [area EXCEPT ![a] = ZeroArea]
          /\ space' = [space EXCEPT ![s] = Guest("starting", a, n, off)]
          /\ start' = [step |-> "created", n |-> n, s |-> s, a |-> a, off |-> off, seen |-> {}]
          /\ UNCHANGED <<mapVars, task>>
    BY <1>1 DEF createGuest
  <2>2. start' \in StartRecords
    BY <2>1 DEF StartRecords
  <2>3. PlacesOK'
    BY <2>1 DEF PlacesOK, Live, Guest, TaskRecords
  <2> QED
    BY <2>1, <2>2, <2>3
<1>2. CASE listGuest
  BY <1>2 DEF listGuest, PlacesOK, StartRecords, Live
<1>3. CASE stampGuest
  <2>1. start.a \in Areas /\ start.s \in Spaces /\ start.step = "listed"
    BY <1>3 DEF stampGuest, PlacesOK
  <2>2. area[start.a].flag \in SUBSET Flags
    BY <2>1 DEF AreaRecords
  <2>3. start' \in StartRecords /\ PlacesOK'
    BY <1>3, <2>1, <2>2 DEF stampGuest, PlacesOK, StartRecords, Live
  <2> QED
    BY <1>3, <2>1, <2>3, AreaUpdate DEF stampGuest
<1>4. CASE setCommAreaFlags
  <2>1. start.a \in Areas /\ area[start.a] \in AreaRecords
    BY <1>4 DEF setCommAreaFlags, PlacesOK
  <2>2. start.seen \in SUBSET Flags /\ area[start.a].flag \in SUBSET Flags
    BY <2>1 DEF AreaRecords, StartRecords
  <2>3. PICK f \in SUBSET Flags : area' = [area EXCEPT ![start.a] = [area[start.a] EXCEPT !.flag = f]]
    <3>1. PICK old \in {start.seen, area[start.a].flag} :
            area' = [area EXCEPT ![start.a].flag =
                  IF start.off THEN old \ {"COMM_PC_ON"} ELSE old \cup {"COMM_PC_ON"}]
      BY <1>4 DEF setCommAreaFlags
    <3>2. (IF start.off THEN old \ {"COMM_PC_ON"} ELSE old \cup {"COMM_PC_ON"}) \in SUBSET Flags
      BY <2>2 DEF Flags
    <3> QED
      BY <3>1, <3>2, <2>1
  <2>4. PlacesOK'
    BY <1>4 DEF setCommAreaFlags, PlacesOK, NoStart, Live
  <2> QED
    BY <1>4, <2>1, <2>3, <2>4, AreaUpdate DEF setCommAreaFlags
<1> QED
  BY <1>1, <1>2, <1>3, <1>4 DEF Manager

\* by what the host of a guest does to its area,
LEMMA HostType ==
  ASSUME TypeOK, PlacesOK, NEW s \in Spaces, Host(s)
  PROVE  TypeOK' /\ PlacesOK'
<1> USE AuxManagerAssumption, RecordTypes DEF TypeOK, mapVars
<1> DEFINE a == space[s].comm
<1>1. /\ a \in Areas /\ area[a] \in AreaRecords /\ space[s] \in SpaceRecords
      /\ area[a].flag \in SUBSET Flags /\ space[s].seen \in SUBSET Flags
  BY DEF Host, hostConfigure, hostReady, hostClose, auxTermExit, Live, PlacesOK,
         AreaRecords, SpaceRecords
<1>2. CASE hostConfigure(s)
  <2>1. beingStarted(s) \in BOOLEAN /\ ("COMM_PC_ON" \in area[a].flag) \in BOOLEAN
    BY DEF beingStarted
  <2>2. space' \in [Spaces -> SpaceRecords]
    BY <1>1, <1>2, <2>1, SpaceUpdate DEF hostConfigure, LiveStates
  <2>3. area' \in [Areas -> AreaRecords]
    <3>1. PICK b \in BOOLEAN : area' = [area EXCEPT ![a] = [area[a] EXCEPT !.pcNumber = b]]
      BY <1>1, <1>2, <2>1 DEF hostConfigure
    <3> QED
      BY <1>1, <3>1, AreaUpdate
  <2>4. PlacesOK'
    BY <1>2 DEF hostConfigure, PlacesOK, Live, SpaceRecords
  <2> QED
    BY <1>2, <2>2, <2>3, <2>4 DEF hostConfigure
<1>3. CASE hostReady(s)
  <2>1. space' \in [Spaces -> SpaceRecords]
    BY <1>1, <1>3, SpaceUpdate DEF hostReady, LiveStates
  <2>2. PICK f \in SUBSET Flags : area' = [area EXCEPT ![a] = [area[a] EXCEPT !.flag = f]]
    <3>1. PICK old \in {space[s].seen, area[a].flag} :
            area' = [area EXCEPT ![a].flag = old \cup {"READY"}]
      BY <1>3 DEF hostReady
    <3>2. old \cup {"READY"} \in SUBSET Flags
      BY <1>1 DEF Flags
    <3> QED
      BY <1>1, <3>1, <3>2
  <2>3. PlacesOK'
    BY <1>3 DEF hostReady, PlacesOK, Live, SpaceRecords
  <2> QED
    BY <1>1, <1>3, <2>1, <2>2, <2>3, AreaUpdate DEF hostReady
<1>4. CASE hostClose(s)
  <2>1. space' \in [Spaces -> SpaceRecords]
    BY <1>1, <1>4, SpaceUpdate DEF hostClose, LiveStates
  <2>2. (area[a].flag \ {"READY"}) \cup {"TERMINATED"} \in SUBSET Flags
    BY <1>1 DEF Flags
  <2>3. area' = [area EXCEPT ![a] =
                   [area[a] EXCEPT !.flag = (area[a].flag \ {"READY"}) \cup {"TERMINATED"}]]
    BY <1>1, <1>4 DEF hostClose
  <2>4. PlacesOK'
    BY <1>4 DEF hostClose, PlacesOK, Live, SpaceRecords
  <2>5. area' \in [Areas -> AreaRecords]
    BY <1>1, <2>2, <2>3, AreaUpdate
  <2> QED
    BY <1>4, <2>1, <2>4, <2>5 DEF hostClose
<1>5. CASE auxTermExit(s)
  <2>1. area' \in [Areas -> AreaRecords]
    BY <1>1, <1>5, AreaUpdate DEF auxTermExit
  <2>2. \A t \in Waiting(a) : /\ t \in Tasks /\ task[t].op \in {"waitForTerm", "stopWait"}
    BY DEF Waiting
  <2>3. task' \in [Tasks -> TaskRecords]
    BY <1>5, <2>2, WaitType DEF auxTermExit
  <2>4. \A t \in Tasks : task'[t].op # "idle" => task'[t].n \in Nicknames /\ task'[t].a \in Areas
    <3> SUFFICES ASSUME NEW t \in Tasks, task'[t].op # "idle"
                 PROVE  task'[t].n \in Nicknames /\ task'[t].a \in Areas
      OBVIOUS
    <3>1. CASE t \in Waiting(a)
      <4>1. task'[t] = afterWait(task[t].op, task[t])
        BY <1>5, <3>1 DEF auxTermExit
      <4>2. task[t].op = "stopWait" /\ task'[t] = [task[t] EXCEPT !.op = "forget"]
        BY <2>2, <3>1, <4>1 DEF IdleTask, afterWait
      <4>3. task'[t].n = task[t].n /\ task'[t].a = task[t].a
        BY <4>2, TaskUpdate DEF StopPlaces
      <4> QED
        BY <4>2, <4>3 DEF PlacesOK
    <3>2. CASE t \notin Waiting(a)
      BY <1>5, <3>2 DEF auxTermExit, PlacesOK
    <3> QED
      BY <3>1, <3>2
  <2>5. PlacesOK'
    BY <1>5, <2>4 DEF auxTermExit, PlacesOK, Live, Guest
  <2> QED
    BY <1>5, <2>1, <2>3, <2>5 DEF auxTermExit
<1> QED
  BY <1>2, <1>3, <1>4, <1>5 DEF Host

\* and by the tasks that use the manager.
LEMMA TaskType ==
  ASSUME TypeOK, PlacesOK, NEW t \in Tasks, Task(t)
  PROVE  TypeOK' /\ PlacesOK'
<1> USE AuxManagerAssumption, RecordTypes DEF TypeOK, mapVars
<1>1. ASSUME NEW n \in Nicknames, sendTermSignal(t, n)
      PROVE  TypeOK' /\ PlacesOK'
  <2> DEFINE s == area[nicknameToComm[n]].stoken
  <2>1. s \in Spaces
    BY <1>1 DEF sendTermSignal, AreaRecords
  <2>2. PlacesOK'
    BY <1>1, <2>1 DEF sendTermSignal, PlacesOK, Live, SpaceRecords
  <2>3. space' = [space EXCEPT ![s] = [space[s] EXCEPT !.term = TRUE]]
    BY <1>1, <2>1 DEF sendTermSignal
  <2>4. space' \in [Spaces -> SpaceRecords]
    BY <2>1, <2>3, SpaceUpdate, TRUE \in BOOLEAN
  <2> QED
    BY <1>1, <2>2, <2>4 DEF sendTermSignal
<1>2. ASSUME NEW n \in Nicknames, waitForTerm(t, n) \/ stopGuest(t, n)
      PROVE  TypeOK' /\ PlacesOK'
  <2>1. PICK op \in {"found", "stopFound"}, a \in Areas :
          task' = [task EXCEPT ![t] = [op |-> op, n |-> n, a |-> a]]
    BY <1>2 DEF waitForTerm, stopGuest
  <2>2. UNCHANGED <<freeAreas, area, nicknameToComm, ascbToComm, space, start>>
    BY <1>2 DEF waitForTerm, stopGuest
  <2>3. task' \in [Tasks -> TaskRecords]
    BY <2>1 DEF TaskRecords
  <2>4. PlacesOK'
    BY <2>1, <2>2 DEF PlacesOK, Live
  <2> QED
    BY <2>2, <2>3, <2>4
<1>3. ASSUME NEW op \in {"waitForTerm", "stopWait"}, task[t].op # "idle", auxutilWait(t, op),
             UNCHANGED <<freeAreas, area, mapVars, space, start>>
      PROVE  TypeOK' /\ PlacesOK'
  <2>1. task' \in [Tasks -> TaskRecords]
    BY <1>3, WaitType DEF auxutilWait
  <2>2. task'[t].op # "idle" => task'[t].n = task[t].n /\ task'[t].a = task[t].a
    <3>1. \/ task'[t] = IdleTask
          \/ \E p \in {"forget", op} : task'[t] = [task[t] EXCEPT !.op = p]
      BY <1>3, WaitType DEF auxutilWait
    <3>2. ASSUME NEW p \in {"forget", op}, task'[t] = [task[t] EXCEPT !.op = p]
          PROVE  task'[t].n = task[t].n /\ task'[t].a = task[t].a
      BY <3>2, TaskUpdate DEF StopPlaces
    <3> QED
      BY <3>1, <3>2 DEF IdleTask
  <2>3. \A u \in Tasks \ {t} : task'[u] = task[u]
    BY <1>3 DEF auxutilWait
  <2> QED
    BY <1>3, <2>1, <2>2, <2>3 DEF PlacesOK, Live
<1>4. CASE terminateGuest(t)
  <2> DEFINE s == area[task[t].a].stoken
  <2>1. CASE s # None /\ Live(s) /\ space[s].state # "terminating"
    <3>1. s \in Spaces
      BY <1>4, <2>1 DEF terminateGuest, PlacesOK, AreaRecords
    <3>2. /\ space' = [space EXCEPT ![s] = [space[s] EXCEPT !.state = "terminating"]]
          /\ task' = [task EXCEPT ![t] = [task[t] EXCEPT !.op = "stopping"]]
          /\ UNCHANGED <<freeAreas, area, nicknameToComm, ascbToComm, start>>
      BY <1>4, <2>1, <3>1 DEF terminateGuest
    <3>3. space' \in [Spaces -> SpaceRecords] /\ task' \in [Tasks -> TaskRecords]
      BY <3>1, <3>2, SpaceUpdate, TaskUpdate DEF LiveStates, StopPlaces
    <3>4. task'[t].n = task[t].n /\ task'[t].a = task[t].a /\ task[t].op # "idle"
      BY <1>4, <3>2, TaskUpdate DEF StopPlaces, terminateGuest
    <3>5. space'[s].comm = space[s].comm /\ space'[s].state = "terminating" /\ Live(s)
      BY <2>1, <3>1, <3>2 DEF SpaceRecords
    <3>6. PlacesOK'
      BY <3>1, <3>2, <3>4, <3>5 DEF PlacesOK, Live
    <3> QED
      BY <3>2, <3>3, <3>6
  <2>2. CASE ~(s # None /\ Live(s) /\ space[s].state # "terminating")
    <3>1. task' = [task EXCEPT ![t] = IdleTask] /\ UNCHANGED <<freeAreas, area, mapVars, space, start>>
      BY <1>4, <2>2 DEF terminateGuest
    <3> QED
      BY <3>1 DEF PlacesOK, Live, IdleTask, TaskRecords, mapVars
  <2> QED
    BY <2>1, <2>2
<1>5. CASE forgetGuest(t)
  <2>1. task[t].a \in Areas
    BY <1>5 DEF forgetGuest, PlacesOK
  <2> QED
    BY <1>5, <2>1 DEF forgetGuest, PlacesOK, Live, IdleTask, AreaRecords
<1>6. CASE beginWaitForTerm(t) \/ awaitGuest(t)
  BY <1>3, <1>6 DEF beginWaitForTerm, awaitGuest
<1> QED
  BY <1>1, <1>2, <1>4, <1>5, <1>6 DEF Task

\* Every step keeps the types.
LEMMA TypeStep ==
  ASSUME TypeOK, PlacesOK, [Next]_vars
  PROVE  TypeOK' /\ PlacesOK'
<1>1. CASE UNCHANGED vars
  BY <1>1 DEF vars, mapVars, TypeOK, PlacesOK, Live
<1> QED
  BY <1>1, ManagerType, HostType, TaskType DEF Next

\* The variables of the AUX manager have their types, and each place in the
\* code the operands it uses.
THEOREM TypesKept == Spec => [](TypeOK /\ PlacesOK)
BY TypeInit, TypeStep, PTL DEF Spec

-----------------------------------------------------------------------------
\* The areas at the start.
LEMMA AreaInit ==
  Init => OwnArea /\ StokenOK /\ StartOK /\ StopOK /\ FlagsOK /\ NameInv /\ StoppersOnly
<1> SUFFICES ASSUME Init
             PROVE  OwnArea /\ StokenOK /\ StartOK /\ StopOK /\ FlagsOK /\ NameInv /\ StoppersOnly
  OBVIOUS
<1>1. /\ \A s \in Spaces : space[s].state = "unused"
      /\ \A a \in Areas : area[a].stoken = None
      /\ \A t \in Tasks : task[t].op = "idle"
      /\ \A n \in Nicknames : nicknameToComm[n] = None
      /\ start.step = "idle"
  BY DEF Init, Unused, Guest, ZeroArea, NoStart, IdleTask
<1> QED
  BY <1>1, AuxManagerAssumption
  DEF OwnArea, StokenOK, StartOK, StopOK, FlagsOK, NameInv, NamesOK, StopNameOK,
      StoppersOnly, Live, StopPlaces

\* zisauxMgrStartGuest2 creates a guest: the area is nobody's until then.
LEMMA AreaCreate ==
  ASSUME AreaInv, FlagsOK, NEW n \in Nicknames, NEW off \in BOOLEAN, createGuest(n, off)
  PROVE  OwnArea' /\ StokenOK' /\ StartOK' /\ StopOK' /\ FlagsOK'
<1>1. PICK a \in freeAreas, s \in Spaces :
          /\ space[s].state = "unused" /\ freeAreas' = freeAreas \ {a}
          /\ area' = [area EXCEPT ![a] = ZeroArea]
          /\ space' = [space EXCEPT ![s] = Guest("starting", a, n, off)]
          /\ start' = [step |-> "created", n |-> n, s |-> s, a |-> a, off |-> off, seen |-> {}]
          /\ UNCHANGED <<mapVars, task>>
    BY DEF createGuest
<1>2. a \in Areas
    BY DEF AreaInv, TypeOK
<1> USE AuxManagerAssumption DEF AreaInv, TypeOK
<1>3. OwnArea'
  BY <1>1, <1>2 DEF OwnArea, PlacesOK, Live, ZeroArea, Guest
<1>4. StokenOK'
  BY <1>1, <1>2 DEF StokenOK, Live, ZeroArea, Guest, OwnArea, AreaRecords
<1>5. StartOK'
  BY <1>1, <1>2 DEF StartOK, Live, ZeroArea, Guest, OwnArea, StopOK
<1>6. StopOK'
  BY <1>1, <1>2 DEF StopOK, Live, ZeroArea, Guest, OwnArea, PlacesOK, StopPlaces
<1>7. FlagsOK'
  BY <1>1, <1>2 DEF FlagsOK, Live, ZeroArea, Guest, OwnArea, PlacesOK
<1> QED
  BY <1>3, <1>4, <1>5, <1>6, <1>7

\* It completes the area, beside the guest and whoever finds the area.
LEMMA AreaComplete ==
  ASSUME AreaInv, FlagsOK, listGuest \/ stampGuest \/ setCommAreaFlags
  PROVE  OwnArea' /\ StokenOK' /\ StartOK' /\ StopOK' /\ FlagsOK'
<1> USE AuxManagerAssumption DEF AreaInv, TypeOK, listGuest, stampGuest, setCommAreaFlags
<1>1. /\ start.step # "idle" /\ start.a \in Areas /\ start.s \in Spaces
      /\ UNCHANGED <<freeAreas, space, task>>
  BY DEF PlacesOK
<1>2. \A a \in Areas : area'[a].termECB = area[a].termECB /\ area'[a].pcNumber = area[a].pcNumber
  BY <1>1 DEF AreaRecords
<1>3. OwnArea'
  BY <1>1, <1>2 DEF OwnArea, PlacesOK, Live
<1>4. StokenOK'
  BY <1>1, <1>2 DEF StokenOK, Live, OwnArea, AreaRecords, StartOK, PlacesOK
<1>8. \/ start' = NoStart
      \/ /\ start'.s = start.s /\ start'.a = start.a
         /\ \/ start.step = "created" /\ start'.step = "listed" /\ UNCHANGED area
            \/ start.step = "listed" /\ start'.step = "stamped"
  <2>1. CASE listGuest
    BY <2>1 DEF StartRecords
  <2>2. CASE stampGuest
    BY <2>2 DEF StartRecords
  <2>3. CASE setCommAreaFlags
    BY <2>3
  <2> QED
    BY <2>1, <2>2, <2>3
<1>5. StartOK'
  BY <1>1, <1>2, <1>8 DEF StartOK, Live, NoStart
<1>6. StopOK'
  BY <1>1, <1>2 DEF StopOK, Live, PlacesOK, StopPlaces
<1>7. FlagsOK'
  <2> SUFFICES ASSUME NEW s \in Spaces, space'[s].state \in {"configured", "ready"},
                      ~space'[s].early
               PROVE  LET a == space'[s].comm IN
                      /\ start'.s # s
                      /\ "COMM_PC_ON" \in area'[a].flag <=> area'[a].pcNumber
                      /\ space'[s].state = "configured" => space'[s].seen = area'[a].flag
                      /\ space'[s].state = "ready" => "READY" \in area'[a].flag
    BY DEF FlagsOK
  <2>1. start.s # s /\ Live(s)
    BY <1>1 DEF FlagsOK, Live
  <2>2. start'.s # s
    BY <1>8, <2>1, <1>1 DEF NoStart
  <2>3. space[s].comm # start.a /\ space[s].comm \in Areas
    BY <1>1, <2>1 DEF StartOK, PlacesOK
  <2>4. area'[space[s].comm] = area[space[s].comm]
    BY <2>3
  <2> QED
    BY <2>2, <2>4, <1>1 DEF FlagsOK
<1> QED
  BY <1>3, <1>4, <1>5, <1>6, <1>7

\* A guest looks at its area, and becomes ready or closes.
LEMMA AreaHost ==
  ASSUME AreaInv, FlagsOK, NEW s \in Spaces, hostConfigure(s) \/ hostReady(s) \/ hostClose(s)
  PROVE  OwnArea' /\ StokenOK' /\ StartOK' /\ StopOK' /\ FlagsOK'
<1> USE DEF AreaInv, TypeOK
<1> DEFINE c == space[s].comm
<1>1. /\ c \in Areas /\ Live(s) /\ UNCHANGED <<freeAreas, start, task>>
      /\ \A r \in Spaces : space'[r].comm = space[r].comm
      /\ space'[s].state \in {"configured", "ready", "closing"}
      /\ space[s].state \in {"starting", "configured", "ready"}
      /\ \A r \in Spaces \ {s} : space'[r] = space[r]
  <2>1. CASE hostConfigure(s)
    BY <2>1 DEF PlacesOK, Live, hostConfigure, SpaceRecords
  <2>2. CASE hostReady(s)
    BY <2>2 DEF PlacesOK, Live, hostReady, SpaceRecords
  <2>3. CASE hostClose(s)
    BY <2>3 DEF PlacesOK, Live, hostClose, SpaceRecords
  <2> QED
    BY <2>1, <2>2, <2>3
<1>2. /\ \A r \in Spaces : Live(r)' <=> Live(r)
      /\ \A r \in Spaces : space'[r].state = "terminating" <=> space[r].state = "terminating"
      /\ \A r \in Spaces : space'[r].state = "unused" <=> space[r].state = "unused"
  BY <1>1 DEF Live
<1>3. /\ \A a \in Areas : area'[a].termECB = area[a].termECB /\ area'[a].stoken = area[a].stoken
      /\ \A a \in Areas \ {c} : area'[a] = area[a]
  BY <1>1 DEF hostConfigure, hostReady, hostClose, AreaRecords
<1>4. OwnArea'
  BY <1>1, <1>2, <1>3 DEF OwnArea, PlacesOK
<1>5. StokenOK'
  BY <1>1, <1>2, <1>3 DEF StokenOK, AreaRecords
<1>6. StartOK'
  BY <1>1, <1>2, <1>3 DEF StartOK, PlacesOK
<1>7. StopOK'
  BY <1>1, <1>2, <1>3 DEF StopOK, PlacesOK, StopPlaces
<1>8. FlagsOK'
  <2> SUFFICES ASSUME NEW r \in Spaces, space'[r].state \in {"configured", "ready"},
                      ~space'[r].early
               PROVE  LET a == space'[r].comm IN
                      /\ start'.s # r
                      /\ "COMM_PC_ON" \in area'[a].flag <=> area'[a].pcNumber
                      /\ space'[r].state = "configured" => space'[r].seen = area'[a].flag
                      /\ space'[r].state = "ready" => "READY" \in area'[a].flag
    BY DEF FlagsOK
  <2>1. CASE r # s
    <3>1. space[r].comm \in Areas \ {c} /\ space'[r] = space[r]
      BY <1>1, <2>1 DEF OwnArea, PlacesOK, Live
    <3> QED
      BY <1>1, <1>3, <3>1 DEF FlagsOK
  <2>2. CASE r = s /\ hostConfigure(s)
    <3>1. area'[c].flag = area[c].flag /\ area'[c].pcNumber = ("COMM_PC_ON" \in area[c].flag)
      BY <1>1, <2>2 DEF hostConfigure, AreaRecords
    <3>2. /\ space'[s].comm = c /\ space'[s].state = "configured"
          /\ space'[s].seen = area[c].flag /\ space'[s].early = beingStarted(s)
      BY <2>2 DEF hostConfigure, SpaceRecords
    <3> QED
      BY <1>1, <2>2, <3>1, <3>2 DEF beingStarted
  <2>3. CASE r = s /\ hostReady(s)
    <3>1. ~space[s].early /\ space[s].state = "configured" /\ space[s].seen = area[c].flag
      BY <2>3 DEF hostReady, SpaceRecords, FlagsOK
    <3>2. area' = [area EXCEPT ![c].flag = area[c].flag \cup {"READY"}]
      BY <2>3, <3>1 DEF hostReady
    <3>3. area'[c].flag = area[c].flag \cup {"READY"} /\ area'[c].pcNumber = area[c].pcNumber
      BY <1>1, <3>2 DEF AreaRecords
    <3>4. space'[s].state = "ready" /\ space'[s].comm = c
      BY <2>3 DEF hostReady, SpaceRecords
    <3> QED
      BY <1>1, <2>3, <3>1, <3>3, <3>4 DEF FlagsOK
  <2>4. CASE r = s /\ hostClose(s)
    BY <2>4 DEF hostClose, SpaceRecords
  <2> QED
    BY <2>1, <2>2, <2>3, <2>4
<1> QED
  BY <1>4, <1>5, <1>6, <1>7, <1>8

\* A guest ends: a task that waits for it goes on.
LEMMA AreaExit ==
  ASSUME AreaInv, FlagsOK, NEW s \in Spaces, auxTermExit(s)
  PROVE  OwnArea' /\ StokenOK' /\ StartOK' /\ StopOK' /\ FlagsOK'
<1> USE DEF AreaInv, TypeOK
<1> DEFINE c == space[s].comm
<1>1. /\ c \in Areas /\ Live(s) /\ UNCHANGED <<freeAreas, start>>
      /\ area' = [area EXCEPT ![c].termECB = TRUE]
  BY DEF PlacesOK, auxTermExit
<1>2. /\ ~Live(s)' /\ space'[s].state = "ended"
      /\ \A r \in Spaces \ {s} : space'[r] = space[r] /\ (Live(r)' <=> Live(r))
  BY DEF Live, Guest, auxTermExit
<1>3. /\ \A a \in Areas : area'[a].stoken = area[a].stoken /\ area'[a].flag = area[a].flag
                          /\ area'[a].pcNumber = area[a].pcNumber
      /\ \A a \in Areas \ {c} : area'[a] = area[a]
      /\ area'[c].termECB
  BY <1>1 DEF AreaRecords
<1>4. \A t \in Tasks :
        \/ task'[t] = task[t]
        \/ task[t].op = "waitForTerm" /\ task'[t] = IdleTask
        \/ /\ task[t].op = "stopWait" /\ task[t].a = c
           /\ task'[t].op = "forget" /\ task'[t].a = c
  <2> SUFFICES ASSUME NEW t \in Tasks, t \in Waiting(c)
               PROVE  \/ task[t].op = "waitForTerm" /\ task'[t] = IdleTask
                      \/ /\ task[t].op = "stopWait" /\ task[t].a = c
                         /\ task'[t].op = "forget" /\ task'[t].a = c
    BY DEF auxTermExit
  <2>1. task'[t] = afterWait(task[t].op, task[t])
    BY DEF auxTermExit
  <2>2. task[t].op \in {"waitForTerm", "stopWait"} /\ task[t].a = c
    BY DEF Waiting
  <2> QED
    BY <2>1, <2>2, TaskUpdate DEF afterWait, StopPlaces
<1>5. OwnArea'
  BY <1>1, <1>2, <1>3 DEF OwnArea, PlacesOK
<1>6. StokenOK'
  BY <1>2, <1>3 DEF StokenOK, AreaRecords
<1>7. StartOK'
  BY <1>1, <1>2, <1>3, <1>4 DEF StartOK, PlacesOK, StopPlaces, IdleTask
<1>8. StopOK'
  <2> SUFFICES ASSUME NEW t \in Tasks, task'[t].op \in StopPlaces
               PROVE  LET a == task'[t].a IN
    /\ a \notin freeAreas'
    /\ \A r \in Spaces : Live(r)' /\ space'[r].comm = a => space'[r].state = "terminating"
    /\ \A u \in Tasks : task'[u].op \in StopPlaces /\ task'[u].a = a => u = t
    /\ \/ area'[a].termECB
       \/ /\ task'[t].op # "forget"
          /\ \E r \in Spaces : space'[r].state = "terminating" /\ space'[r].comm = a
    BY DEF StopOK
  <2>1. task[t].op \in StopPlaces /\ task'[t].a = task[t].a /\ task[t].a \in Areas
    BY <1>4 DEF StopPlaces, IdleTask, PlacesOK
  <2>2. \A u \in Tasks : task'[u].op \in StopPlaces => task[u].op \in StopPlaces /\ task'[u].a = task[u].a
    BY <1>4 DEF StopPlaces, IdleTask
  <2>3. task'[t].op = "forget" => task[t].op = "forget" \/ task[t].a = c
    BY <1>4 DEF IdleTask
  <2>4. task[t].a = c => area'[task[t].a].termECB
    BY <1>3
  <2>5. task[t].a # c => area'[task[t].a] = area[task[t].a]
    BY <1>3, <2>1
  <2> QED
    BY <1>1, <1>2, <2>1, <2>2, <2>3, <2>4, <2>5 DEF StopOK
<1>9. FlagsOK'
  BY <1>1, <1>2, <1>3 DEF FlagsOK, PlacesOK, Live
<1> QED
  BY <1>5, <1>6, <1>7, <1>8, <1>9

\* What changes no area and no guest but for its term request, and no stop.
LEMMA AreaLookup ==
  ASSUME AreaInv, FlagsOK, NEW t \in Tasks, NEW n \in Nicknames,
         sendTermSignal(t, n) \/ waitForTerm(t, n) \/ stopGuest(t, n)
  PROVE  OwnArea' /\ StokenOK' /\ StartOK' /\ StopOK' /\ FlagsOK'
<1> USE DEF AreaInv, TypeOK, mapVars
<1>1. /\ UNCHANGED <<freeAreas, area, start>>
      /\ \A r \in Spaces : /\ space'[r].comm = space[r].comm /\ space'[r].state = space[r].state
                           /\ space'[r].early = space[r].early /\ space'[r].seen = space[r].seen
  BY DEF sendTermSignal, waitForTerm, stopGuest, SpaceRecords
<1>2. \A r \in Spaces : Live(r)' <=> Live(r)
  BY <1>1 DEF Live
<1>3. \A u \in Tasks : task'[u].op \in StopPlaces => task'[u] = task[u]
  BY DEF sendTermSignal, waitForTerm, stopGuest, StopPlaces
<1>4. OwnArea'
  BY <1>1, <1>2 DEF OwnArea
<1>5. StokenOK'
  BY <1>1, <1>2 DEF StokenOK, AreaRecords
<1>6. StartOK'
  BY <1>1, <1>2, <1>3 DEF StartOK, PlacesOK
<1>7. StopOK'
  BY <1>1, <1>2, <1>3 DEF StopOK
<1>8. FlagsOK'
  BY <1>1, <1>2 DEF FlagsOK
<1> QED
  BY <1>4, <1>5, <1>6, <1>7, <1>8


\* A task begins to wait.
LEMMA AreaWait ==
  ASSUME AreaInv, FlagsOK, NEW t \in Tasks, beginWaitForTerm(t) \/ awaitGuest(t)
  PROVE  OwnArea' /\ StokenOK' /\ StartOK' /\ StopOK' /\ FlagsOK'
<1> USE DEF AreaInv, TypeOK, mapVars
<1>1. UNCHANGED <<freeAreas, area, start, space>>
  BY DEF beginWaitForTerm, awaitGuest
<1>2. OwnArea' /\ StokenOK' /\ FlagsOK'
  BY <1>1 DEF OwnArea, StokenOK, FlagsOK, Live
<1>3. \A u \in Tasks \ {t} : task'[u] = task[u]
  BY DEF beginWaitForTerm, awaitGuest, auxutilWait
<1>4. \/ task'[t].op \notin StopPlaces
      \/ /\ task[t].op = "stopping" /\ task'[t].a = task[t].a
         /\ \/ task'[t].op = "stopWait"
            \/ task'[t].op = "forget" /\ area[task[t].a].termECB
  <2>1. CASE beginWaitForTerm(t)
    <3>1. task'[t] = IdleTask \/ task'[t] = [task[t] EXCEPT !.op = "waitForTerm"]
      BY <2>1, WaitType DEF beginWaitForTerm, auxutilWait
    <3>2. \A op \in {"waitForTerm"} \cup StopPlaces :
            task'[t] = [task[t] EXCEPT !.op = op] => task'[t].op = op /\ task'[t].a = task[t].a
      BY TaskUpdate
    <3> QED
      BY <3>1, <3>2 DEF IdleTask, StopPlaces
  <2>2. CASE awaitGuest(t)
    <3>1. task[t].op = "stopping" /\ task[t] \in TaskRecords
      BY <2>2 DEF awaitGuest
    <3>2. CASE task'[t] = IdleTask
      BY <3>2 DEF IdleTask, StopPlaces
    <3>3. CASE task'[t] = [task[t] EXCEPT !.op = "stopWait"]
      <4>1. task'[t].op = "stopWait" /\ task'[t].a = task[t].a
        BY <3>1, <3>3 DEF TaskRecords
      <4> QED
        BY <3>1, <4>1
    <3>4. CASE task'[t] = [task[t] EXCEPT !.op = "forget"] /\ area[task[t].a].termECB
      BY <3>1, <3>4, TaskUpdate DEF StopPlaces
    <3> QED
      BY <2>2, <3>2, <3>3, <3>4, WaitType DEF awaitGuest, auxutilWait
  <2> QED
    BY <2>1, <2>2
<1>5. \A u \in Tasks : task'[u].op \in StopPlaces => task[u].op \in StopPlaces /\ task'[u].a = task[u].a
  BY <1>3, <1>4 DEF StopPlaces
<1>6. StartOK'
  BY <1>1, <1>5 DEF StartOK, Live
<1>7. StopOK'
  BY <1>1, <1>3, <1>4, <1>5 DEF StopOK, Live, StopPlaces
<1> QED
  BY <1>2, <1>6, <1>7

\* addressSpaceTerminate.
LEMMA AreaTerminate ==
  ASSUME AreaInv, FlagsOK, NEW t \in Tasks, terminateGuest(t)
  PROVE  OwnArea' /\ StokenOK' /\ StartOK' /\ StopOK' /\ FlagsOK'
<1> USE DEF AreaInv, TypeOK, mapVars
<1> DEFINE a == task[t].a
           s == area[a].stoken
<1>1. /\ UNCHANGED <<freeAreas, area, start>> /\ a \in Areas
      /\ \A u \in Tasks \ {t} : task'[u] = task[u]
  BY DEF terminateGuest, PlacesOK
<1>2. CASE ~(s # None /\ Live(s) /\ space[s].state # "terminating")
  <2>1. UNCHANGED space /\ task'[t] = IdleTask
    BY <1>2 DEF terminateGuest
  <2>2. OwnArea' /\ StokenOK' /\ FlagsOK'
    BY <1>1, <2>1 DEF OwnArea, StokenOK, FlagsOK, Live
  <2>3. \A u \in Tasks : task'[u].op \in StopPlaces => task'[u] = task[u]
    BY <1>1, <2>1 DEF StopPlaces, IdleTask
  <2> QED
    BY <1>1, <2>1, <2>2, <2>3 DEF StartOK, StopOK, Live
<1>3. CASE s # None /\ Live(s) /\ space[s].state # "terminating"
  <2>1. s \in Spaces /\ space[s].comm = a
    BY <1>1, <1>3 DEF StokenOK, AreaRecords
  <2>2. /\ space'[s].state = "terminating"
        /\ \A r \in Spaces : space'[r].comm = space[r].comm /\ space'[r].early = space[r].early
        /\ \A r \in Spaces \ {s} : space'[r] = space[r]
    BY <1>3, <2>1 DEF terminateGuest, SpaceRecords
  <2>3. task'[t].op = "stopping" /\ task'[t].a = a
    <3>1. task'[t] = [task[t] EXCEPT !.op = "stopping"] /\ task[t] \in TaskRecords
      BY <1>3 DEF terminateGuest
    <3> QED
      BY <3>1, TaskUpdate DEF StopPlaces
  <2>4. \A r \in Spaces : Live(r)' <=> Live(r)
    BY <1>3, <2>2 DEF Live
  <2>5. OwnArea'
    BY <1>1, <2>2, <2>4 DEF OwnArea
  <2>6. StokenOK'
    BY <1>1, <1>3, <2>2, <2>4 DEF StokenOK, AreaRecords
  <2>7. StartOK'
    BY <1>1, <1>3, <2>1, <2>2, <2>3, <2>4 DEF StartOK, PlacesOK
  <2>8. \A u \in Tasks \ {t} : task[u].op \in StopPlaces => task[u].a # a
    BY <1>3, <2>1 DEF StopOK
  <2>9. StopOK'
    BY <1>1, <1>3, <2>1, <2>2, <2>3, <2>4, <2>8 DEF StopOK, OwnArea
  <2>10. FlagsOK'
    BY <1>1, <2>2 DEF FlagsOK
  <2> QED
    BY <2>5, <2>6, <2>7, <2>9, <2>10
<1> QED
  BY <1>2, <1>3

\* A stop gives the area back.
LEMMA AreaForget ==
  ASSUME AreaInv, FlagsOK, NEW t \in Tasks, forgetGuest(t)
  PROVE  OwnArea' /\ StokenOK' /\ StartOK' /\ StopOK' /\ FlagsOK'
<1> USE DEF AreaInv, TypeOK, mapVars
<1> DEFINE a == task[t].a
<1>1. /\ UNCHANGED <<area, start, space>> /\ freeAreas' = freeAreas \cup {a} /\ a \in Areas
      /\ task[t].op = "forget" /\ task'[t].op = "idle" /\ \A u \in Tasks \ {t} : task'[u] = task[u]
  BY DEF forgetGuest, PlacesOK, IdleTask
<1>2. area[a].termECB
  BY <1>1 DEF StopOK, StopPlaces
<1>3. \A r \in Spaces : Live(r) => space[r].comm # a
  BY <1>2 DEF OwnArea
<1>4. OwnArea' /\ StokenOK' /\ FlagsOK'
  BY <1>1, <1>3 DEF OwnArea, StokenOK, FlagsOK, Live
<1>5. \A u \in Tasks : task'[u].op \in StopPlaces => u # t /\ task[u].op \in StopPlaces /\ task'[u] = task[u]
  BY <1>1 DEF StopPlaces
<1>6. \A u \in Tasks \ {t} : task[u].op \in StopPlaces => task[u].a # a
  BY <1>1 DEF StopOK, StopPlaces
<1>7. StartOK'
  BY <1>1, <1>5 DEF StartOK, Live, StopPlaces
<1>8. StopOK'
  BY <1>1, <1>5, <1>6 DEF StopOK, Live
<1> QED
  BY <1>4, <1>7, <1>8

-----------------------------------------------------------------------------
(***************************************************************************)
(* The flags under the race of manager and host.                           *)
(***************************************************************************)
\* A guest of which nothing changed that Fits speaks of.
LEMMA FitsKept ==
  ASSUME NEW s \in Spaces, Fits(s),
         space'[s].comm = space[s].comm, space'[s].off = space[s].off,
         space'[s].state = space[s].state \/ space'[s].state = "terminating",
         space'[s].seen = space[s].seen,
         area'[space[s].comm].flag = area[space[s].comm].flag,
         area'[space[s].comm].pcNumber = area[space[s].comm].pcNumber,
         start' = start \/ start'.s # s
  PROVE  Fits(s)'
BY DEF Fits

\* The manager's steps: another guest has another area, and what the manager
\* writes back to this one is built on flags of this guest.
LEMMA RaceManager ==
  ASSUME AreaInv, RaceOK, Manager
  PROVE  RaceOK'
<1> USE AuxManagerAssumption DEF AreaInv, TypeOK
<1>1. ASSUME NEW n \in Nicknames, NEW off \in BOOLEAN, createGuest(n, off)
      PROVE  RaceOK'
  <2>1. PICK a \in freeAreas, s \in Spaces :
          /\ space[s].state = "unused" /\ freeAreas' = freeAreas \ {a}
          /\ area' = [area EXCEPT ![a] = ZeroArea]
          /\ space' = [space EXCEPT ![s] = Guest("starting", a, n, off)]
          /\ start' = [step |-> "created", n |-> n, s |-> s, a |-> a, off |-> off, seen |-> {}]
    BY <1>1 DEF createGuest
  <2>2. ASSUME NEW r \in Spaces, Live(r)' PROVE Fits(r)'
    <3>1. CASE r = s
      BY <2>1, <3>1 DEF Fits, Guest, ZeroArea
    <3>2. CASE r # s
      <4>1. space'[r] = space[r] /\ Live(r)
        BY <2>1, <2>2, <3>2 DEF Live
      <4>2. space[r].comm \in Areas /\ space[r].comm # a
        BY <4>1, <2>1 DEF OwnArea, PlacesOK
      <4>3. area'[space[r].comm] = area[space[r].comm] /\ start'.s # r
        BY <2>1, <3>2, <4>2
      <4> QED
        BY <4>1, <4>3, FitsKept DEF RaceOK
    <3> QED BY <3>1, <3>2
  <2> QED BY <2>2 DEF RaceOK
<1>2. ASSUME listGuest \/ stampGuest \/ setCommAreaFlags
      PROVE  RaceOK'
  <2>1. /\ start.step # "idle" /\ start.a \in Areas /\ start.s \in Spaces /\ UNCHANGED space
        /\ \A a \in Areas : area'[a].pcNumber = area[a].pcNumber
        /\ \A a \in Areas \ {start.a} : area'[a] = area[a]
    BY <1>2 DEF PlacesOK, listGuest, stampGuest, setCommAreaFlags, AreaRecords
  <2>2. start'.s = start.s \/ start' = NoStart
    BY <1>2 DEF listGuest, stampGuest, setCommAreaFlags, StartRecords
  <2>3. ASSUME NEW r \in Spaces, Live(r)' PROVE Fits(r)'
    <3>1. Live(r) /\ Fits(r) /\ space[r].comm \in Areas /\ (r = start.s <=> space[r].comm = start.a)
      BY <2>1, <2>3 DEF Live, RaceOK, PlacesOK, StartOK
    <3>2. CASE r # start.s
      <4>1. start'.s # r
        BY <2>2, <3>2 DEF NoStart
      <4>2. area'[space[r].comm] = area[space[r].comm]
        BY <2>1, <3>1, <3>2
      <4> QED BY <2>1, <3>1, <4>1, <4>2, FitsKept
    <3>3. CASE r = start.s /\ listGuest
      <4>1. UNCHANGED area /\ start'.s = start.s /\ start'.off = start.off /\ start'.step = "listed"
        BY <3>3 DEF listGuest, StartRecords
      <4> QED BY <2>1, <3>1, <3>3, <4>1 DEF Fits
    <3>4. CASE r = start.s /\ stampGuest
      <4>1. /\ start'.s = start.s /\ start'.off = start.off /\ start'.step = "stamped"
            /\ start'.seen = area[start.a].flag
        BY <3>4 DEF stampGuest, StartRecords
      <4>2. area'[start.a].flag = area[start.a].flag
        BY <2>1, <3>4 DEF stampGuest, AreaRecords
      <4> QED BY <2>1, <3>1, <3>4, <4>1, <4>2 DEF Fits
    <3>5. CASE r = start.s /\ setCommAreaFlags
      <4>1. PICK old \in {start.seen, area[start.a].flag} :
              area' = [area EXCEPT ![start.a].flag =
                         IF start.off THEN old \ {"COMM_PC_ON"} ELSE old \cup {"COMM_PC_ON"}]
        BY <3>5 DEF setCommAreaFlags
      <4>2. area'[start.a].flag = IF start.off THEN old \ {"COMM_PC_ON"} ELSE old \cup {"COMM_PC_ON"}
        BY <2>1, <4>1 DEF AreaRecords
      <4>3. start.step = "stamped" /\ start'.s # r
        BY <3>5 DEF setCommAreaFlags, NoStart
      <4>4. /\ start.off = space[r].off
            /\ space[r].state \in {"starting", "configured"} => old \subseteq {"COMM_PC_ON"}
        BY <3>1, <3>5, <4>3, <4>1 DEF Fits
      <4>5. /\ space[r].off => "COMM_PC_ON" \notin area[start.a].flag
            /\ area[start.a].pcNumber => "COMM_PC_ON" \in area[start.a].flag
        BY <3>1, <3>5 DEF Fits
      <4> QED BY <2>1, <3>1, <3>5, <4>2, <4>3, <4>4, <4>5 DEF Fits
    <3> QED BY <1>2, <3>2, <3>3, <3>4, <3>5
  <2> QED BY <2>3 DEF RaceOK
<1> QED BY <1>1, <1>2 DEF Manager

\* The host's steps.
LEMMA RaceHost ==
  ASSUME AreaInv, RaceOK, NEW s \in Spaces, Host(s)
  PROVE  RaceOK'
<1> USE DEF AreaInv, TypeOK
<1> DEFINE c == space[s].comm
<1>1. c \in Areas /\ Live(s) /\ Fits(s) /\ start' = start
  BY DEF Host, hostConfigure, hostReady, hostClose, auxTermExit, Live, PlacesOK, RaceOK
<1>2. /\ \A r \in Spaces \ {s} : space'[r] = space[r]
      /\ \A a \in Areas \ {c} : area'[a] = area[a]
  BY <1>1 DEF Host, hostConfigure, hostReady, hostClose, auxTermExit
<1>3. ASSUME NEW r \in Spaces, r # s, Live(r)' PROVE Fits(r)'
  <2>1. Live(r) /\ Fits(r) /\ space[r].comm \in Areas \ {c}
    BY <1>1, <1>2, <1>3 DEF Live, RaceOK, PlacesOK, OwnArea
  <2> QED BY <1>1, <1>2, <1>3, <2>1, FitsKept
<1>4. ASSUME Live(s)' PROVE Fits(s)'
  <2>1. CASE hostConfigure(s)
    <3>1. area'[c].flag = area[c].flag /\ area'[c].pcNumber = ("COMM_PC_ON" \in area[c].flag)
      BY <1>1, <2>1 DEF hostConfigure, AreaRecords
    <3>2. /\ space'[s].comm = c /\ space'[s].state = "configured" /\ space'[s].off = space[s].off
          /\ space'[s].seen = area[c].flag /\ space[s].state = "starting"
      BY <2>1 DEF hostConfigure, SpaceRecords
    <3> QED BY <1>1, <3>1, <3>2 DEF Fits
  <2>2. CASE hostReady(s)
    <3>1. PICK old \in {space[s].seen, area[c].flag} :
            area' = [area EXCEPT ![c].flag = old \cup {"READY"}]
      BY <2>2 DEF hostReady
    <3>2. area'[c].flag = old \cup {"READY"} /\ area'[c].pcNumber = area[c].pcNumber
      BY <1>1, <3>1 DEF AreaRecords
    <3>3. /\ space'[s].comm = c /\ space'[s].state = "ready" /\ space'[s].off = space[s].off
          /\ space[s].state = "configured"
      BY <2>2 DEF hostReady, SpaceRecords
    <3> QED BY <1>1, <3>1, <3>2, <3>3 DEF Fits
  <2>3. CASE hostClose(s)
    <3>1. /\ area'[c].flag = (area[c].flag \ {"READY"}) \cup {"TERMINATED"}
          /\ area'[c].pcNumber = area[c].pcNumber
      BY <1>1, <2>3 DEF hostClose, AreaRecords
    <3>2. space'[s].comm = c /\ space'[s].state = "closing" /\ space'[s].off = space[s].off
      BY <2>3 DEF hostClose, SpaceRecords
    <3> QED BY <1>1, <3>1, <3>2 DEF Fits
  <2>4. CASE auxTermExit(s)
    BY <1>4, <2>4 DEF auxTermExit, Live, Guest
  <2> QED BY <2>1, <2>2, <2>3, <2>4 DEF Host
<1> QED BY <1>3, <1>4 DEF RaceOK

\* The other tasks change no flag; they may terminate a guest.
LEMMA RaceTask ==
  ASSUME AreaInv, RaceOK, NEW t \in Tasks, Task(t)
  PROVE  RaceOK'
<1> USE DEF AreaInv, TypeOK
<1>1. area' = area /\ start' = start
  BY DEF Task, sendTermSignal, waitForTerm, stopGuest, beginWaitForTerm, terminateGuest, awaitGuest,
         forgetGuest
<1>2. \A r \in Spaces : /\ space'[r].comm = space[r].comm /\ space'[r].off = space[r].off
                        /\ space'[r].seen = space[r].seen
                        /\ \/ space'[r].state = space[r].state
                           \/ space'[r].state = "terminating" /\ Live(r)
  <2>1. CASE UNCHANGED space
    BY <2>1
  <2>2. ASSUME NEW n \in Nicknames, sendTermSignal(t, n)
        PROVE  \A r \in Spaces : /\ space'[r].comm = space[r].comm /\ space'[r].off = space[r].off
                                 /\ space'[r].seen = space[r].seen /\ space'[r].state = space[r].state
    BY <2>2 DEF sendTermSignal, SpaceRecords
  <2>3. CASE terminateGuest(t) /\ ~UNCHANGED space
    <3>1. PICK s : /\ s = area[task[t].a].stoken /\ Live(s)
                   /\ space' = [space EXCEPT ![s].state = "terminating"]
      BY <2>3 DEF terminateGuest
    <3> QED BY <3>1 DEF SpaceRecords
  <2> QED
    BY <2>1, <2>2, <2>3 DEF Task, waitForTerm, stopGuest, beginWaitForTerm, awaitGuest, forgetGuest
<1>3. ASSUME NEW r \in Spaces, Live(r)' PROVE Fits(r)'
  <2>1. Live(r)
    BY <1>2, <1>3 DEF Live
  <2> QED BY <1>1, <1>2, <2>1, FitsKept DEF RaceOK
<1> QED BY <1>3 DEF RaceOK

-----------------------------------------------------------------------------
\* A task in a stop is one of the stoppers.
LEMMA StoppersStep ==
  ASSUME TypeOK, PlacesOK, StoppersOnly, [Next]_vars
  PROVE  StoppersOnly'
<1> USE DEF StoppersOnly, StopPlaces, TypeOK
<1>1. CASE Manager \/ UNCHANGED vars
  BY <1>1 DEF Manager, createGuest, listGuest, stampGuest, setCommAreaFlags, vars
<1>2. ASSUME NEW s \in Spaces, Host(s) PROVE StoppersOnly'
  <2>1. CASE ~auxTermExit(s)
    BY <1>2, <2>1 DEF Host, hostConfigure, hostReady, hostClose
  <2>2. CASE auxTermExit(s)
    <3>1. ASSUME NEW t \in Waiting(space[s].comm), task'[t].op # "idle"
          PROVE  t \in Stoppers
      BY <2>2, <3>1 DEF auxTermExit, Waiting, afterWait, IdleTask
    <3> QED
      BY <2>2, <3>1 DEF auxTermExit
  <2> QED
    BY <2>1, <2>2
<1>3. ASSUME NEW t \in Tasks, Task(t) PROVE StoppersOnly'
  <2>1. \A u \in Tasks \ {t} : task'[u] = task[u]
    BY <1>3 DEF Task, sendTermSignal, waitForTerm, stopGuest, beginWaitForTerm, terminateGuest,
                awaitGuest, forgetGuest, auxutilWait
  <2>2. CASE task[t].op \in StopPlaces \cup {"stopFound"}
    BY <2>1, <2>2
  <2>3. CASE task[t].op \notin StopPlaces \cup {"stopFound"}
    <3>1. CASE beginWaitForTerm(t)
      <4>1. task'[t] = IdleTask \/ task'[t] = [task[t] EXCEPT !.op = "waitForTerm"]
        BY <3>1, WaitType DEF beginWaitForTerm, auxutilWait
      <4>2. task'[t].op \in {"idle", "waitForTerm"}
        BY <4>1 DEF IdleTask, TaskRecords
      <4> QED
        BY <2>1, <4>2
    <3>2. CASE \E n \in Nicknames : \/ sendTermSignal(t, n) \/ waitForTerm(t, n) \/ stopGuest(t, n)
      BY <3>2 DEF sendTermSignal, waitForTerm, stopGuest
    <3> QED
      BY <1>3, <2>3, <3>1, <3>2 DEF Task, terminateGuest, awaitGuest, forgetGuest
  <2> QED
    BY <2>2, <2>3
<1> QED
  BY <1>1, <1>2, <1>3 DEF Next

\* With one stopping task, starting a guest under a nickname.
LEMMA NameManager ==
  ASSUME AreaInv, OneStopper, StoppersOnly, NamesOK, StopNameOK, Manager
  PROVE  NamesOK' /\ StopNameOK'
<1> USE AuxManagerAssumption DEF AreaInv, TypeOK, mapVars
<1>1. ASSUME NEW n \in Nicknames, NEW off \in BOOLEAN, createGuest(n, off)
      PROVE  NamesOK' /\ StopNameOK'
  <2>1. PICK a \in freeAreas, s \in Spaces :
          /\ space[s].state = "unused" /\ freeAreas' = freeAreas \ {a}
          /\ space' = [space EXCEPT ![s] = Guest("starting", a, n, off)]
          /\ start' = [step |-> "created", n |-> n, s |-> s, a |-> a, off |-> off, seen |-> {}]
          /\ UNCHANGED <<mapVars, task>>
    BY <1>1 DEF createGuest
  <2>2. \A r \in Spaces \ {s} : Live(r)' <=> Live(r)
    BY <2>1 DEF Live
  <2>3. NamesOK'
    BY <2>1, <2>2 DEF NamesOK, Guest
  <2>4. StopNameOK'
    BY <2>1, <2>2 DEF StopNameOK, Guest
  <2> QED
    BY <2>3, <2>4
<1>2. CASE listGuest
  <2>1. /\ UNCHANGED <<freeAreas, space, task>>
        /\ start.n \in Nicknames /\ start.a \in Areas /\ start.a \notin freeAreas
        /\ nicknameToComm' = [nicknameToComm EXCEPT ![start.n] = start.a]
        /\ start.step = "created" /\ start'.step = "listed"
        /\ start'.a = start.a /\ start'.s = start.s /\ start'.n = start.n
    BY <1>2 DEF listGuest, PlacesOK, StartOK, StartRecords
  <2>2. NamesOK'
    BY <2>1 DEF NamesOK, Live, StartOK
  <2>3. StopNameOK'
    BY <2>1 DEF StopNameOK, Live
  <2> QED
    BY <2>2, <2>3
<1>3. CASE stampGuest \/ setCommAreaFlags
  <2>1. /\ UNCHANGED <<freeAreas, space, task, nicknameToComm>>
        /\ \/ start' = NoStart
           \/ /\ start'.step = "stamped" /\ start.step = "listed"
              /\ start'.a = start.a /\ start'.s = start.s /\ start'.n = start.n
    <3>1. CASE stampGuest
      BY <3>1 DEF stampGuest, StartRecords
    <3>2. CASE setCommAreaFlags
      BY <3>2 DEF setCommAreaFlags
    <3> QED
      BY <1>3, <3>1, <3>2
  <2> QED
    BY <2>1 DEF NamesOK, StopNameOK, NoStart, Live
<1> QED
  BY <1>1, <1>2, <1>3 DEF Manager

\* Guests keep their nickname and area until they end.
LEMMA NameHost ==
  ASSUME AreaInv, StoppersOnly, NamesOK, StopNameOK, NEW s \in Spaces, Host(s)
  PROVE  NamesOK' /\ StopNameOK'
<1> USE DEF AreaInv, TypeOK, mapVars
<1>1. UNCHANGED <<freeAreas, nicknameToComm, start>>
  BY DEF Host, hostConfigure, hostReady, hostClose, auxTermExit
<1>2. \A r \in Spaces : Live(r)' => /\ Live(r) /\ space'[r].comm = space[r].comm
                                   /\ space'[r].nick = space[r].nick
  BY DEF Host, hostConfigure, hostReady, hostClose, auxTermExit, Live, SpaceRecords, Guest
<1>3. NamesOK'
  BY <1>1, <1>2 DEF NamesOK, PlacesOK
<1>4. \A u \in Tasks : task'[u].op \in StopPlaces \cup {"stopFound"} =>
        /\ task[u].op \in StopPlaces \cup {"stopFound"}
        /\ task'[u].a = task[u].a /\ task'[u].n = task[u].n
  <2>1. CASE ~auxTermExit(s)
    BY <2>1 DEF Host, hostConfigure, hostReady, hostClose
  <2>2. CASE auxTermExit(s)
    <3>1. ASSUME NEW u \in Waiting(space[s].comm), task'[u].op # "idle"
          PROVE  /\ task[u].op = "stopWait"
                 /\ task'[u].a = task[u].a /\ task'[u].n = task[u].n
      <4>1. task[u].op = "stopWait" /\ task'[u] = [task[u] EXCEPT !.op = "forget"]
        BY <2>2, <3>1 DEF auxTermExit, Waiting, afterWait, IdleTask
      <4> QED
        BY <4>1, TaskUpdate DEF StopPlaces, Waiting
    <3> QED
      BY <2>2, <3>1 DEF auxTermExit, StopPlaces
  <2> QED
    BY <2>1, <2>2
<1>5. StopNameOK'
  BY <1>1, <1>2, <1>4, AuxManagerAssumption DEF StopNameOK
<1> QED
  BY <1>3, <1>5


\* The steps of the other tasks, and of the one that stops.
LEMMA NameTask ==
  ASSUME AreaInv, OneStopper, StoppersOnly, NamesOK, StopNameOK, NEW t \in Tasks, Task(t)
  PROVE  NamesOK' /\ StopNameOK'
<1> USE DEF AreaInv, TypeOK, mapVars
<1>1. /\ UNCHANGED start
      /\ \A r \in Spaces : /\ space'[r].comm = space[r].comm /\ space'[r].nick = space[r].nick
                           /\ Live(r)' <=> Live(r)
  <2>1. CASE \E n \in Nicknames : sendTermSignal(t, n)
    BY <2>1 DEF sendTermSignal, Live, SpaceRecords
  <2>2. CASE terminateGuest(t)
    BY <2>2 DEF terminateGuest, Live, SpaceRecords
  <2>3. CASE UNCHANGED <<space, start>>
    BY <2>3 DEF Live
  <2> QED
    BY <2>1, <2>2, <2>3 DEF Task, waitForTerm, stopGuest, beginWaitForTerm, awaitGuest, forgetGuest
<1>2. \A u \in Tasks \ {t} : task'[u] = task[u]
  BY DEF Task, sendTermSignal, waitForTerm, stopGuest, beginWaitForTerm, awaitGuest,
         terminateGuest, forgetGuest, auxutilWait
<1>3. CASE forgetGuest(t)
  <2>1. t \in Stoppers /\ task[t].op = "forget" /\ task'[t].op = "idle"
    BY <1>3 DEF forgetGuest, StoppersOnly, StopPlaces, IdleTask
  <2>2. \A n \in Nicknames : nicknameToComm'[n] # None =>
          nicknameToComm'[n] = nicknameToComm[n] /\ nicknameToComm[n] # task[t].a
    BY <1>3, <2>1 DEF forgetGuest, StopNameOK, StopPlaces, PlacesOK
  <2>3. freeAreas' = freeAreas \cup {task[t].a}
    BY <1>3 DEF forgetGuest
  <2>4. NamesOK'
    BY <1>1, <2>2, <2>3 DEF NamesOK, PlacesOK
  <2>5. \A u \in Stoppers : u = t
    BY <2>1 DEF OneStopper
  <2>6. StopNameOK'
    BY <2>1, <2>5 DEF StopNameOK, StopPlaces
  <2> QED
    BY <2>4, <2>6
<1>4. CASE ~forgetGuest(t)
  <2>1. UNCHANGED <<freeAreas, nicknameToComm>>
    BY <1>4 DEF Task, sendTermSignal, waitForTerm, stopGuest, beginWaitForTerm, awaitGuest,
                terminateGuest
  <2>2. NamesOK'
    BY <1>1, <2>1 DEF NamesOK, PlacesOK
  <2>3. CASE \E n \in Nicknames : stopGuest(t, n)
    <3>1. PICK n \in Nicknames : /\ nicknameToComm[n] # None
                                 /\ task'[t] = [op |-> "stopFound", n |-> n, a |-> nicknameToComm[n]]
      BY <2>3 DEF stopGuest
    <3>2. StopNameOK'
      BY <1>1, <1>2, <2>1, <3>1, AuxManagerAssumption DEF StopNameOK, NamesOK
    <3> QED
      BY <2>2, <3>2
  <2>4. CASE ~\E n \in Nicknames : stopGuest(t, n)
    <3>1. task'[t].op \in StopPlaces \cup {"stopFound"} =>
            /\ task[t].op \in StopPlaces \cup {"stopFound"}
            /\ task'[t].a = task[t].a /\ task'[t].n = task[t].n
      <4>1. CASE \E n \in Nicknames : sendTermSignal(t, n) \/ waitForTerm(t, n)
        BY <4>1 DEF sendTermSignal, waitForTerm, StopPlaces
      <4>2. CASE beginWaitForTerm(t)
        <5>1. task'[t] = IdleTask \/ task'[t] = [task[t] EXCEPT !.op = "waitForTerm"]
          BY <4>2, WaitType DEF beginWaitForTerm, auxutilWait
        <5> QED
          BY <5>1 DEF IdleTask, TaskRecords, StopPlaces
      <4>3. CASE awaitGuest(t)
        <5>1. /\ task[t].op = "stopping"
              /\ \/ task'[t] = IdleTask \/ task'[t] = [task[t] EXCEPT !.op = "stopWait"]
                 \/ task'[t] = [task[t] EXCEPT !.op = "forget"]
          BY <4>3, WaitType DEF awaitGuest, auxutilWait
        <5> QED
          BY <5>1 DEF IdleTask, TaskRecords, StopPlaces
      <4>4. CASE terminateGuest(t)
        <5>1. /\ task[t].op = "stopFound"
              /\ task'[t] = IdleTask \/ task'[t] = [task[t] EXCEPT !.op = "stopping"]
          BY <4>4 DEF terminateGuest
        <5> QED
          BY <5>1 DEF IdleTask, TaskRecords, StopPlaces
      <4> QED
        BY <1>4, <2>4, <4>1, <4>2, <4>3, <4>4 DEF Task
    <3>2. StopNameOK'
      BY <1>1, <1>2, <2>1, <3>1, AuxManagerAssumption DEF StopNameOK
    <3> QED
      BY <2>2, <3>2
  <2> QED
    BY <2>3, <2>4
<1> QED
  BY <1>3, <1>4

-----------------------------------------------------------------------------
(***************************************************************************)
(* The inductive invariant and what follows from it.                       *)
(***************************************************************************)
ManagerInv == AreaInv /\ FlagsOK /\ RaceOK /\ StoppersOnly /\ NameInv

\* It holds at the start,
LEMMA ManagerInit == Init => ManagerInv
<1>1. Init => RaceOK
  BY DEF Init, Unused, Guest, RaceOK, Live
<1> QED
  BY <1>1, TypeInit, AreaInit DEF ManagerInv, AreaInv

\* every step keeps it,
LEMMA ManagerStep == ManagerInv /\ [Next]_vars => ManagerInv'
<1> SUFFICES ASSUME ManagerInv, [Next]_vars PROVE ManagerInv'
  OBVIOUS
<1> USE DEF ManagerInv
<1>1. TypeOK' /\ PlacesOK' /\ StoppersOnly'
  BY TypeStep, StoppersStep DEF AreaInv
<1>2. OwnArea' /\ StokenOK' /\ StartOK' /\ StopOK' /\ FlagsOK'
  <2>1. CASE UNCHANGED vars
    BY <2>1 DEF vars, mapVars, AreaInv, OwnArea, StokenOK, StartOK, StopOK, FlagsOK, Live
  <2> QED
    BY <2>1, AreaCreate, AreaComplete, AreaHost, AreaExit, AreaLookup, AreaWait, AreaTerminate,
       AreaForget DEF Next, Manager, Host, Task
<1>3. NameInv'
  <2> SUFFICES ASSUME OneStopper PROVE NamesOK' /\ StopNameOK'
    BY DEF NameInv, OneStopper
  <2>1. CASE UNCHANGED vars
    BY <2>1 DEF vars, mapVars, NameInv, NamesOK, StopNameOK, Live
  <2> QED
    BY <2>1, NameManager, NameHost, NameTask DEF Next, NameInv
<1>4. RaceOK'
  <2>1. CASE UNCHANGED vars
    BY <2>1 DEF vars, RaceOK, Fits, Live
  <2> QED
    BY <2>1, RaceManager, RaceHost, RaceTask DEF Next
<1> QED
  BY <1>1, <1>2, <1>3, <1>4 DEF AreaInv

\* so it always holds.
LEMMA ManagerInvariant == Spec => []ManagerInv
BY ManagerInit, ManagerStep, PTL DEF Spec

\* No address space writes to an area that is back in the pool or given to
\* another guest, and with one stopping task no nickname leads to one.
THEOREM LiveAreasKept == Spec => []LiveAreaKept
<1>1. ManagerInv => LiveAreaKept
  BY DEF ManagerInv, AreaInv, NameInv, NamesOK, PlacesOK, OwnArea, LiveAreaKept
<1> QED
  BY ManagerInvariant, <1>1, PTL

\* The flags of a guest's area speak for that guest under every interleaving
\* of the unserialised updates of manager and host: nothing of an earlier
\* guest, no PC for one that was started without, no PC that gets lost.  READY
\* is lost, or COMM_PC_ON set without a PC, only for a guest that read the area
\* before it was complete.
THEOREM AreasFitGuests == Spec => []AreaFitsGuest
<1>1. ManagerInv => AreaFitsGuest
  BY DEF ManagerInv, FlagsOK, RaceOK, Fits, AreaFitsGuest
<1> QED
  BY ManagerInvariant, <1>1, PTL

\* The wait without a timeout in zisauxMgrStopGuest is for a guest that is
\* being terminated, or over.
THEOREM StopsAwaitEnding == Spec => []StopAwaitsEnding
<1>1. ManagerInv => StopAwaitsEnding
  BY AuxManagerAssumption DEF ManagerInv, AreaInv, StopOK, StopPlaces, StopAwaitsEnding
<1> QED
  BY ManagerInvariant, <1>1, PTL

\* With one stopping task a stop terminates the guest it was called for.
THEOREM StopsTheNamedGuest == Spec => StopsNamedGuest
<1>1. ManagerInv /\ [Next]_vars =>
        [OneStopper =>
           \A s \in Spaces : space[s].state # "terminating" /\ space'[s].state = "terminating"
             => \E t \in Stoppers : task[t].op = "stopFound" /\ task[t].n = space[s].nick]_vars
  <2> SUFFICES ASSUME ManagerInv, Next, OneStopper, NEW s \in Spaces,
                      space[s].state # "terminating", space'[s].state = "terminating"
               PROVE  \E t \in Stoppers : task[t].op = "stopFound" /\ task[t].n = space[s].nick
    OBVIOUS
  <2> USE DEF ManagerInv, AreaInv, TypeOK
  <2>1. PICK t \in Tasks : terminateGuest(t)
    <3>1. ~Manager
      BY DEF Manager, createGuest, listGuest, stampGuest, setCommAreaFlags, Guest
    <3>2. ASSUME NEW r \in Spaces PROVE ~Host(r)
      BY DEF Host, hostConfigure, hostReady, hostClose, auxTermExit, Guest, SpaceRecords
    <3>3. ASSUME NEW t \in Tasks, Task(t) PROVE terminateGuest(t)
      <4>1. ASSUME NEW n \in Nicknames PROVE ~sendTermSignal(t, n)
        BY DEF sendTermSignal, SpaceRecords
      <4>2. space # space'
        OBVIOUS
      <4> QED
        BY <3>3, <4>1, <4>2 DEF Task, waitForTerm, stopGuest, beginWaitForTerm, awaitGuest,
                                forgetGuest
    <3> QED
      BY <3>1, <3>2, <3>3 DEF Next
  <2>2. /\ task[t].op = "stopFound" /\ t \in Stoppers
        /\ s = area[task[t].a].stoken /\ Live(s)
    BY <2>1 DEF terminateGuest, StoppersOnly, SpaceRecords
  <2>3. space[s].comm = task[t].a
    BY <2>2, AuxManagerAssumption DEF StokenOK, PlacesOK
  <2>4. space[s].nick = task[t].n
    BY <2>2, <2>3 DEF NameInv, StopNameOK
  <2> QED
    BY <2>2, <2>4
<1> QED
  BY ManagerInvariant, <1>1, PTL DEF Spec, StopsNamedGuest
=============================================================================

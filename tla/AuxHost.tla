------------------------------- MODULE AuxHost -------------------------------
(***************************************************************************)
(* The AUX host address space (zis-aux/src/aux-host.c) and the manager     *)
(* calls that send it requests (zis-aux/src/aux-manager.c).                *)
(*                                                                         *)
(* ZIS tasks (Callers) enter the host through a space-switch PC.  A caller *)
(* takes a pause element from a fixed pool, copies its parameter list onto *)
(* the stack of the PC routine, queues a work element that points to that  *)
(* copy and pauses.  The main task of the host turns work elements into    *)
(* worker tasks; a worker runs the guest's handler on the caller's copy    *)
(* and releases the caller.  Termination, an abend of the main task and a  *)
(* cancel release the paused callers as well, at any moment.               *)
(***************************************************************************)
EXTENDS Naturals, Sequences

CONSTANTS
  Callers,      \* ZIS tasks that call the host
  Foreign,      \* the callers whose SASN is not the parent address space
  RequestCount, \* ZISAUX_MAX_REQUEST_COUNT, slots of context->requestPETs
  CommAreas,    \* contents of flag when the manager hands over the comm area
  Requests,     \* function codes that the callers use
  Payloads,     \* sets of shared buffers that work requests come with
  MaxRequests   \* bound: requests that the callers make

ASSUME AuxHostAssumption ==
  /\ Foreign \subseteq Callers
  /\ RequestCount \in Nat \ {0}
  /\ \A a \in CommAreas : a \subseteq {"COMM_PC_ON", "OLD_VERSION"}
  /\ Requests \subseteq {"WORK", "COMMAND", "TERM"}
  /\ Payloads \subseteq SUBSET {"payload", "response"}
  /\ MaxRequests \in Nat

VARIABLES
  flag,           \* masterCommArea->flag, shared with the manager; OLD_VERSION
                  \* stands for a version below ZISAUX_COMM_VERSION
  flags,          \* context->flags
  commECB,        \* masterCommArea->commECB has been posted
  commTask,       \* where commTaskMain is
  shutdown,       \* stcBaseShutdown has been called (or STOP accepted)
  main,           \* where run() is
  availablePETs,  \* context->availablePETs
  requestPETs,    \* context->requestPETs: the token stored in each slot
  pe,             \* the system's pause elements behind the slots
  workQueue,      \* work elements queued to the STC base
  workers,        \* worker tasks started for work elements
  pc,             \* where each caller is
  fn,             \* function code of its parameter list
  bufs,           \* its payload and response buffers in shared storage
  pet,            \* the slot it took
  reqNo,          \* number of its current or last request
  lastReq,        \* number of the last request of all
  auxRC,          \* auxRC of the parameter list copy on its stack
  relCode,        \* release code its pause returned
  reply,          \* return code of its last request
  access,         \* shared buffers the host has access to for its request
  lostPETs,       \* ghost: slots that an error path did not put back
  strayTouch,     \* ghost: requests for which a copy or a context already freed was used
  abended,        \* ghost: requests whose caller abended while its copy was in use
  earlyStop       \* ghost: STOP came before the guest was initialised

commVars == <<flag, commECB>>
hostVars == <<flags, commTask, shutdown, main, earlyStop>>
petVars  == <<availablePETs, requestPETs, pe, lostPETs>>
workVars == <<workQueue, workers, strayTouch, abended>>
reqVars  == <<pc, fn, bufs, pet, reqNo, lastReq, auxRC, relCode, reply, access>>
vars == <<commVars, hostVars, petVars, workVars, reqVars>>

PETs  == 1..RequestCount
NoPET == 0

Functions == {"WORK", "COMMAND", "TERM"}
Buffers   == {"payload", "response"}

\* The release codes ZISAUX_PE_* of aux-host.h.
ReleaseCodes == {"PE_OK", "SCHEDULE_ERROR", "TERM", "CANCEL",
                 "WORKER_ABEND", "ENV_ERROR", "HOST_ABEND"}

\* A caller is inside the PC routine in these places.  Its copy of the
\* parameter list, on the stack of the PC routine, exists in CopyPlaces.
PetPlaces  == {"holding", "queued", "paused", "resumed"}
CopyPlaces == {"queued", "paused", "resumed"}

Element(c) == [c |-> c, n |-> reqNo[c], p |-> pet[c], g |-> requestPETs[pet[c]]]
Elements   == {workQueue[i] : i \in DOMAIN workQueue} \cup {w.e : w \in workers}

\* The copy that a work element points to is still on its caller's stack.
CopyAlive(e) == reqNo[e.c] = e.n /\ pc[e.c] \in CopyPlaces

-----------------------------------------------------------------------------
(***************************************************************************)
(* Pause elements (zowe-common-c pause-element.h, external).  A token is   *)
(* good until the pause that it was used for returns; a pause returns a    *)
(* new token.  Releasing before the pause makes the pause return at once.  *)
(* Releasing twice, or with an old token, fails.                           *)
(***************************************************************************)
ReleaseWorks(p, g) == pe[p].gen = g /\ pe[p].state \in {"reset", "paused"}

Released(e, code) ==
  [e EXCEPT !.state = IF @ = "paused" THEN "released" ELSE "prereleased",
            !.code  = code]

peRelease(p, g, code) ==
  pe' = IF ReleaseWorks(p, g) THEN [pe EXCEPT ![p] = Released(@, code)] ELSE pe

\* A work element holds the token itself, not a reference to its slot.
completionPET_ByReference(e) == requestPETs[e.p]
completionPET(e) == e.g

CanWake(e) == ReleaseWorks(e.p, completionPET(e))
releaseCaller(e, code) == peRelease(e.p, completionPET(e), code)

\* Deallocation releases a paused task with the code given to peAlloc.
peDeallocAll ==
  pe' = [p \in PETs |->
           IF pe[p].state = "paused"
           THEN [pe[p] EXCEPT !.state = "released", !.code = "TERM"]
           ELSE IF pe[p].state = "released" THEN pe[p]
                ELSE [pe[p] EXCEPT !.state = "freed"]]

notifyAllPendingCallers(code) ==
  pe' = [p \in PETs |-> IF ReleaseWorks(p, requestPETs[p])
                        THEN Released(pe[p], code) ELSE pe[p]]

-----------------------------------------------------------------------------
Init ==
  /\ flag \in CommAreas
  /\ flags = {} /\ commECB = FALSE /\ commTask = "none"
  /\ shutdown = FALSE /\ main = "init" /\ earlyStop = FALSE
  /\ availablePETs = [i \in 1..RequestCount |-> i]
  /\ requestPETs = [p \in PETs |-> 0]
  /\ pe = [p \in PETs |-> [gen |-> 0, state |-> "reset", code |-> "PE_OK"]]
  /\ workQueue = <<>> /\ workers = {} /\ strayTouch = {} /\ abended = {} /\ lostPETs = {}
  /\ pc = [c \in Callers |-> "idle"]
  /\ fn = [c \in Callers |-> "WORK"]
  /\ bufs = [c \in Callers |-> {}] /\ access = [c \in Callers |-> {}]
  /\ pet = [c \in Callers |-> NoPET] /\ lastReq = 0
  /\ reqNo = [c \in Callers |-> 0]
  /\ auxRC = [c \in Callers |-> "OK"] /\ relCode = [c \in Callers |-> "PE_OK"]
  /\ reply = [c \in Callers |-> "none"]

-----------------------------------------------------------------------------
(***************************************************************************)
(* The manager's side: zisauxMgrSendWork, SendCommand and SendTermSignal.  *)
(* A foreign caller has the PC number and calls it directly.               *)
(***************************************************************************)
NewRequest(c) ==
  /\ pc[c] = "idle" /\ lastReq < MaxRequests
  /\ lastReq' = lastReq + 1 /\ reqNo' = [reqNo EXCEPT ![c] = lastReq + 1]
  /\ access' = [access EXCEPT ![c] = {}]
  /\ UNCHANGED <<pet, auxRC, relCode, flag, hostVars, petVars, workVars>>

Answer(c, rc) ==
  reply' = [reply EXCEPT ![c] = rc] /\ UNCHANGED <<pc, fn, bufs, commECB>>

CallPC(c, f, b) ==
  /\ pc' = [pc EXCEPT ![c] = "calling"]
  /\ fn' = [fn EXCEPT ![c] = f] /\ bufs' = [bufs EXCEPT ![c] = b]
  /\ reply' = [reply EXCEPT ![c] = "none"] /\ UNCHANGED commECB

\* POST with an ASCB: the ECB is posted while the address space is there.
xmemPost(c) ==
  IF main = "gone" THEN Answer(c, "XMEM_POST_FAILED")
  ELSE /\ commECB' = TRUE /\ UNCHANGED <<pc, fn, bufs>>
       /\ reply' = [reply EXCEPT ![c] = "OK"]

SendTermSignal(c) ==
  /\ c \notin Foreign /\ "TERM" \in Requests /\ NewRequest(c)
  /\ IF "TERMINATED" \in flag THEN Answer(c, "AUX_STOPPED")
     ELSE IF "READY" \notin flag THEN Answer(c, "AUX_NOT_READY")
     ELSE IF "COMM_PC_ON" \in flag THEN CallPC(c, "TERM", {})
     ELSE xmemPost(c)

SendRequest(c, f, b) ==
  /\ c \notin Foreign /\ f \in Requests /\ NewRequest(c)
  /\ IF "READY" \notin flag THEN Answer(c, "AUX_NOT_READY")
     ELSE IF "COMM_PC_ON" \notin flag THEN Answer(c, "COMM_PC_DISABLED")
     ELSE CallPC(c, f, b)

SendWork(c)    == \E b \in Payloads : SendRequest(c, "WORK", b)
SendCommand(c) == SendRequest(c, "COMMAND", {})

ForeignCall(c) ==
  c \in Foreign /\ "COMM_PC_ON" \in flag /\ main # "init" /\ NewRequest(c) /\ CallPC(c, "WORK", {})

-----------------------------------------------------------------------------
(***************************************************************************)
(* The caller's side of the PC routine: handleCommunicationPCSS,           *)
(* handleUnsafePCSS and scheduleCommRequestProcessing.                     *)
(***************************************************************************)
contextFreed == main \in {"destroyed", "gone"}

\* The locals of the PC routine end with it.
Leave(c, rc) ==
  /\ pc' = [pc EXCEPT ![c] = "idle"] /\ reply' = [reply EXCEPT ![c] = rc]
  /\ pet' = [pet EXCEPT ![c] = NoPET]
  /\ fn' = [fn EXCEPT ![c] = "WORK"] /\ bufs' = [bufs EXCEPT ![c] = {}]
  /\ auxRC' = [auxRC EXCEPT ![c] = "OK"] /\ relCode' = [relCode EXCEPT ![c] = "PE_OK"]
Stay(c, place) == pc' = [pc EXCEPT ![c] = place] /\ UNCHANGED <<reply, fn, bufs, auxRC>>

\* An error path that leaves with the slot taken off the queue.
LeaveWithPET(c, rc) == Leave(c, rc) /\ lostPETs' = lostPETs \cup {pet[c]}

\* The routine may read its context after the main task freed it, and find the
\* storage as it was.
UseContext(c) ==
  strayTouch' = IF contextFreed THEN strayTouch \cup {reqNo[c]} ELSE strayTouch

isCallerParentServer(c) == c \notin Foreign

takePET_Peek(c) == pet' = [pet EXCEPT ![c] = Head(availablePETs)] /\ UNCHANGED availablePETs
takePET(c) ==
  pet' = [pet EXCEPT ![c] = Head(availablePETs)] /\ availablePETs' = Tail(availablePETs)

\* The returns before the context is looked at, or with a service parameter list
\* that is not accepted.  PC_REFUSED stands for BAD_CALLER_KEY,
\* PC_ENV_NOT_ESTABLISHED, PC_RECOVERY_ENV_FAILED, PC_PARM_INVALID,
\* COMM_SRVC_PARM_INVALID and UNSUPPORTED_VERSION, and for an abend before a
\* slot was taken.
PCRefuse(c) ==
  /\ pc[c] = "calling" /\ main # "gone" /\ Leave(c, "PC_REFUSED")
  /\ UNCHANGED <<commVars, hostVars, petVars, workVars, reqNo, lastReq, access>>

\* Checks of handleUnsafePCSS, then qRemove(availablePETs).
PCEnter(c) ==
  /\ pc[c] = "calling" /\ ~contextFreed
  /\ IF ~isCallerParentServer(c)
     THEN Leave(c, "CALLER_NOT_RECOGNIZED") /\ UNCHANGED availablePETs
     ELSE IF availablePETs = <<>>
     THEN Leave(c, "REQUEST_LIMIT_REACHED") /\ UNCHANGED availablePETs
     ELSE takePET(c) /\ Stay(c, "holding") /\ UNCHANGED relCode
  /\ UNCHANGED <<commVars, hostVars, requestPETs, pe, lostPETs, workVars,
                 reqNo, lastReq, access>>

\* The eye catcher of a freed context may be gone.
PCEnterFreed(c) ==
  /\ pc[c] = "calling" /\ main = "destroyed" /\ UseContext(c)
  /\ \E rc \in {"COMM_AREA_INVALID", "PC_ABEND_DETECTED"} : Leave(c, rc)
  /\ UNCHANGED <<commVars, hostVars, petVars, workQueue, workers, abended,
                 reqNo, lastReq, access>>

isPETValid(p) == pe[p].gen = requestPETs[p] /\ pe[p].state \notin {"paused", "freed"}

\* copyServiceParmList: the payload is accessed before the response, and
\* access to the payload stays when access to the response fails.
copyFails(c) ==
  \E b \in bufs[c] :
    access' = [access EXCEPT ![c] = IF b = "response" THEN bufs[c] \ {b} ELSE {}]

copyWorks(c) == access' = [access EXCEPT ![c] = bufs[c]]

Schedule(c) ==
  /\ pc[c] = "holding" /\ main # "gone" /\ UseContext(c)
  /\ \/ /\ ~isPETValid(pet[c]) /\ LeaveWithPET(c, "BAD_PET")
        /\ UNCHANGED <<access, workQueue>>
     \/ /\ isPETValid(pet[c]) /\ copyFails(c) /\ LeaveWithPET(c, "SHR64_ERROR")
        /\ UNCHANGED workQueue
     \/ /\ isPETValid(pet[c]) /\ LeaveWithPET(c, "ALLOC_FAILED")
        /\ UNCHANGED <<access, workQueue>>
     \/ /\ isPETValid(pet[c]) /\ copyWorks(c) /\ Stay(c, "queued")
        /\ workQueue' = Append(workQueue, Element(c))
        /\ UNCHANGED <<lostPETs, pet, relCode>>
  /\ UNCHANGED <<commVars, hostVars, availablePETs, requestPETs, pe, workers,
                 abended, reqNo, lastReq>>

\* A pause that returns invalidates the token it was given.
AfterPause == IF main \in {"deallocated", "destroyed"} THEN "freed" ELSE "reset"
PauseReturns(c) ==
  /\ relCode' = [relCode EXCEPT ![c] = pe[pet[c]].code]
  /\ pe' = [pe EXCEPT ![pet[c]] = [gen |-> @.gen + 1, state |-> AfterPause, code |-> "PE_OK"]]
  /\ Stay(c, "resumed") /\ UNCHANGED <<lostPETs, pet>>

Pause(c) ==
  /\ pc[c] = "queued" /\ main # "gone"
  /\ \/ pe[pet[c]].state = "prereleased" /\ PauseReturns(c)
     \/ /\ pe[pet[c]].state = "reset" /\ Stay(c, "paused")
        /\ pe' = [pe EXCEPT ![pet[c]].state = "paused"]
        /\ UNCHANGED <<relCode, lostPETs, pet>>
     \/ /\ pe[pet[c]].state = "freed"   \* abend(ZISAUX_ABEND_CC_PAUSE_FAILED)
        /\ LeaveWithPET(c, "PC_ABEND_DETECTED") /\ UNCHANGED pe
  /\ UNCHANGED <<commVars, hostVars, availablePETs, requestPETs, workVars,
                 reqNo, lastReq, access>>

Resume(c) ==
  /\ pc[c] = "paused" /\ main # "gone"
  /\ pe[pet[c]].state = "released" /\ PauseReturns(c)
  /\ UNCHANGED <<commVars, hostVars, availablePETs, requestPETs, workVars,
                 reqNo, lastReq, access>>

\* The code has no branch for ZISAUX_PE_RC_CANCEL and ZISAUX_PE_RC_ENV_ERROR:
\* the status keeps its initial value.
statusOf_Unmapped(c) == IF relCode[c] = "PE_OK" THEN auxRC[c] ELSE relCode[c]
statusOf(c) ==
  CASE relCode[c] = "PE_OK"          -> auxRC[c]
    [] relCode[c] = "TERM"           -> "AUX_TERMINATION"
    [] relCode[c] = "WORKER_ABEND"   -> "REQUEST_TCB_ABEND"
    [] relCode[c] = "SCHEDULE_ERROR" -> "HANDLER_NOT_SCHEDULED"
    [] relCode[c] = "HOST_ABEND"     -> "HOST_ABENDED"
    [] OTHER                         -> "OK"

\* The new token is stored before the slot goes back to the queue.
putBackPET_Lost(c) == UNCHANGED <<requestPETs, availablePETs>>
putBackPET(c) ==
  /\ requestPETs' = [requestPETs EXCEPT ![pet[c]] = pe[pet[c]].gen]
  /\ availablePETs' = Append(availablePETs, pet[c])

\* cleanServiceParmListCopy removes the access to the buffers the copy names.
\* Removing may fail, which the reply tells only when it would be OK.
LeftAccess(c) == {left \in SUBSET access[c] : access[c] \ bufs[c] \subseteq left}

cleanCopy_OnlyIfHandled(c) ==
  /\ access' = IF relCode[c] = "PE_OK" THEN [access EXCEPT ![c] = {}] ELSE access
  /\ Leave(c, statusOf(c))
cleanCopy(c) ==
  \E left \in LeftAccess(c) :
    /\ access' = [access EXCEPT ![c] = left]
    /\ Leave(c, IF left \cap bufs[c] # {} /\ statusOf(c) = "OK" THEN "SHR64_ERROR"
                ELSE statusOf(c))

Return(c) ==
  /\ pc[c] = "resumed" /\ main # "gone" /\ UseContext(c)
  /\ putBackPET(c) /\ cleanCopy(c)
  /\ UNCHANGED <<commVars, hostVars, pe, lostPETs, workQueue, workers,
                 abended, reqNo, lastReq>>

\* The caller abends or is cancelled in the PC routine, also while it is
\* paused, and the recovery of handleCommunicationPCSS returns.  What the system
\* does to the pause element of a pause that it breaks is left open (external).
\* An abend behind qInsert has put the slot back.
BrokenPause(c) ==
  {pe} \cup IF pc[c] # "paused" THEN {}
           ELSE {[pe EXCEPT ![pet[c]] = [gen |-> @.gen + 1, state |-> AfterPause, code |-> "PE_OK"]]}

PCAbend(c) ==
  /\ pc[c] \in PetPlaces /\ main # "gone" /\ UseContext(c)
  /\ abended' = IF pc[c] \in CopyPlaces THEN abended \cup {reqNo[c]} ELSE abended
  /\ \/ /\ LeaveWithPET(c, "PC_ABEND_DETECTED")
        /\ pe' \in BrokenPause(c) /\ UNCHANGED <<requestPETs, availablePETs>>
     \/ /\ pc[c] = "resumed" /\ putBackPET(c) /\ Leave(c, "PC_ABEND_DETECTED")
        /\ UNCHANGED <<pe, lostPETs>>
  /\ UNCHANGED <<commVars, hostVars, workQueue, workers, reqNo, lastReq, access>>

\* The system ends the PC of a caller when the address space goes.
XMAbend(c) ==
  /\ pc[c] # "idle" /\ main = "gone" /\ Leave(c, "XM_ABEND")
  /\ lostPETs' = IF pc[c] \in PetPlaces THEN lostPETs \cup {pet[c]} ELSE lostPETs
  /\ UNCHANGED <<commVars, hostVars, availablePETs, requestPETs, pe, workVars,
                 reqNo, lastReq, access>>

-----------------------------------------------------------------------------
(***************************************************************************)
(* The main loop hands work elements to worker tasks; a worker handles the *)
(* request on the caller's copy, then releases the caller.                 *)
(***************************************************************************)
workElementHandler ==
  /\ main = "loop" /\ workQueue # <<>>
  /\ workQueue' = Tail(workQueue)
  /\ LET e == Head(workQueue) IN
     \/ workers' = workers \cup {[e |-> e, step |-> "running"]} /\ UNCHANGED pe
     \/ releaseCaller(e, "SCHEDULE_ERROR") /\ UNCHANGED workers
  /\ UNCHANGED <<commVars, hostVars, availablePETs, requestPETs, lostPETs,
                 strayTouch, abended, reqVars>>

HandlerRCs == {"OK", "USER_HANDLER_ERROR", "HANDLER_ERROR"}
ResultsOf(f) == CASE f = "TERM"    -> {"OK"}
                  [] f = "WORK"    -> HandlerRCs
                  [] f = "COMMAND" -> HandlerRCs \cup {"ALLOC_FAILED"}

isLegacyAPI == "OLD_VERSION" \in flag

terminateAUX ==
  IF isLegacyAPI
  THEN /\ flags' = flags \cup {"TERM_COMMAND_RECEIVED"} /\ shutdown' = TRUE
       /\ UNCHANGED commECB
  ELSE commECB' = TRUE /\ UNCHANGED <<flags, shutdown>>

\* handleCommRequest up to the release: the result goes into the copy.  A
\* copy that is gone, or a freed context, is used all the same.
WorkerHandle(w) ==
  /\ w \in workers /\ w.step = "running"
  /\ workers' = (workers \ {w}) \cup {[w EXCEPT !.step = "handled"]}
  /\ strayTouch' = IF ~CopyAlive(w.e) \/ contextFreed THEN strayTouch \cup {w.e.n} ELSE strayTouch
  /\ IF CopyAlive(w.e)
     THEN /\ \E rc \in ResultsOf(fn[w.e.c]) : auxRC' = [auxRC EXCEPT ![w.e.c] = rc]
          /\ IF fn[w.e.c] = "TERM" THEN terminateAUX
             ELSE UNCHANGED <<commECB, flags, shutdown>>
     ELSE UNCHANGED <<auxRC, commECB, flags, shutdown>>
  /\ UNCHANGED <<flag, commTask, main, earlyStop, petVars, workQueue, abended,
                 pc, fn, bufs, pet, reqNo, lastReq, relCode, reply, access>>

\* The release of handleCommRequest.  If it fails the copy is cleaned: the
\* access to its buffers is removed, or not, and the copy is zeroed.
WorkerRelease_BeforeHandling(w) ==
  /\ w \in workers /\ w.step = "running" /\ releaseCaller(w.e, "PE_OK")
  /\ UNCHANGED <<commVars, hostVars, availablePETs, requestPETs, lostPETs,
                 workVars, reqVars>>
WorkerRelease(w) ==
  /\ w \in workers /\ w.step = "handled" /\ workers' = workers \ {w}
  /\ releaseCaller(w.e, "PE_OK")
  /\ LET failed == ~CanWake(w.e)
         clean  == failed /\ CopyAlive(w.e) IN
     /\ strayTouch' = IF failed /\ ~CopyAlive(w.e) THEN strayTouch \cup {w.e.n} ELSE strayTouch
     /\ IF clean
        THEN /\ \E left \in LeftAccess(w.e.c) : access' = [access EXCEPT ![w.e.c] = left]
             /\ auxRC' = [auxRC EXCEPT ![w.e.c] = "OK"]
             /\ bufs' = [bufs EXCEPT ![w.e.c] = {}]
        ELSE UNCHANGED <<access, auxRC, bufs>>
  /\ UNCHANGED <<commVars, hostVars, availablePETs, requestPETs, lostPETs,
                 workQueue, abended, pc, fn, pet, reqNo, lastReq, relCode, reply>>

\* asyncRequestHanler: the worker abended, or has no recovery environment.
WorkerFail_NotReleased(w) ==
  /\ w \in workers /\ workers' = workers \ {w}
  /\ UNCHANGED <<commVars, hostVars, petVars, workQueue, strayTouch, abended, reqVars>>
WorkerFail(w) ==
  /\ w \in workers /\ workers' = workers \ {w}
  /\ \E code \in {"WORKER_ABEND"} \cup (IF w.step = "running" THEN {"ENV_ERROR"} ELSE {}) :
       releaseCaller(w.e, code)
  /\ UNCHANGED <<commVars, hostVars, availablePETs, requestPETs, lostPETs,
                 workQueue, strayTouch, abended, reqVars>>

-----------------------------------------------------------------------------
(***************************************************************************)
(* Termination requests: commTaskMain waits for the ECB, sets the flag and *)
(* stops the main loop; the operator's STOP sets the flag in               *)
(* handleModifyCommand and the console task of the STC base stops the loop.*)
(***************************************************************************)
commTaskSignal_ShutdownFirst ==
  /\ commTask = "waiting" /\ commECB
  /\ commECB' = FALSE /\ commTask' = "signalled" /\ shutdown' = TRUE
  /\ UNCHANGED <<flag, flags, main, earlyStop, petVars, workVars, reqVars>>
commTaskSignal ==
  /\ commTask = "waiting" /\ commECB
  /\ commECB' = FALSE /\ commTask' = "signalled"
  /\ flags' = flags \cup {"TERM_COMMAND_RECEIVED"}
  /\ UNCHANGED <<flag, shutdown, main, earlyStop, petVars, workVars, reqVars>>

commTaskShutdown_FlagOnly ==
  /\ commTask = "signalled" /\ commTask' = "ended"
  /\ UNCHANGED <<commVars, flags, shutdown, main, earlyStop, petVars, workVars, reqVars>>
commTaskShutdown ==
  /\ commTask = "signalled" /\ commTask' = "ended" /\ shutdown' = TRUE
  /\ UNCHANGED <<commVars, flags, main, earlyStop, petVars, workVars, reqVars>>

operatorStop ==
  /\ main \in {"init", "loop", "closing", "sleeping"} /\ ~shutdown
  /\ flags' = flags \cup {"TERM_COMMAND_RECEIVED"} /\ shutdown' = TRUE
  /\ earlyStop' = (main = "init")
  /\ UNCHANGED <<commVars, commTask, main, petVars, workVars, reqVars>>

-----------------------------------------------------------------------------
(***************************************************************************)
(* run().  "init" begins after loadMasterParm; the later places are loop,  *)
(* closing (callUserModuleTerm), sleeping, terminated, deallocated,        *)
(* destroyed; abended after the recovery exit; ended after the task        *)
(* resource manager; gone when the address space is.                       *)
(***************************************************************************)
MainGoes(from, to) == main = from /\ main' = to

\* The update of context->flags is not serialised with the console task: a
\* STOP that came before may be lost.
startHost ==
  /\ MainGoes("init", "loop") /\ flag' = flag \cup {"READY"}
  /\ \E seen \in {flags, {}} : flags' = seen \cup {"GUEST_INITIALIZED"}
  /\ commTask' = IF isLegacyAPI THEN "none" ELSE "waiting"
  /\ UNCHANGED <<commECB, shutdown, earlyStop, petVars, workVars, reqVars>>

startFails ==
  /\ MainGoes("init", "deallocated") /\ peDeallocAll
  /\ commTask' \in (IF isLegacyAPI THEN {"none"} ELSE {"none", "waiting"})
  /\ UNCHANGED <<commVars, flags, shutdown, earlyStop, availablePETs, requestPETs,
                 lostPETs, workVars, reqVars>>

exitMainLoop_Notify ==
  /\ shutdown /\ MainGoes("loop", "closing") /\ flag' = flag \ {"READY"}
  /\ notifyAllPendingCallers("TERM")
  /\ UNCHANGED <<commECB, flags, commTask, shutdown, earlyStop, availablePETs,
                 requestPETs, lostPETs, workVars, reqVars>>
exitMainLoop ==
  /\ shutdown /\ MainGoes("loop", "closing") /\ flag' = flag \ {"READY"}
  /\ UNCHANGED <<commECB, flags, commTask, shutdown, earlyStop, petVars, workVars, reqVars>>

guestTerminated ==
  /\ MainGoes("closing", "sleeping") /\ shutdown' = TRUE
  /\ UNCHANGED <<commVars, flags, commTask, earlyStop, petVars, workVars, reqVars>>

setTermFlag ==
  /\ MainGoes("sleeping", "terminated") /\ flag' = flag \cup {"TERMINATED"}
  /\ UNCHANGED <<commECB, flags, commTask, shutdown, earlyStop, petVars, workVars, reqVars>>

\* destroyContext, in two steps: the pause elements, then the storage.  A
\* failure of the guest's term function leads here without the flag.
deallocatePETs ==
  /\ MainGoes("terminated", "deallocated") \/ MainGoes("closing", "deallocated")
  /\ peDeallocAll
  /\ UNCHANGED <<commVars, flags, commTask, shutdown, earlyStop, availablePETs,
                 requestPETs, lostPETs, workVars, reqVars>>

freeContext ==
  /\ MainGoes("deallocated", "destroyed")
  /\ UNCHANGED <<commVars, flags, commTask, shutdown, earlyStop, petVars, workVars, reqVars>>

\* The recovery exit of run(): the READY flag stays on.
hostAbend ==
  /\ \E from \in {"init", "loop", "closing", "sleeping", "terminated"} : MainGoes(from, "abended")
  /\ notifyAllPendingCallers("HOST_ABEND")
  /\ UNCHANGED <<commVars, flags, commTask, shutdown, earlyStop, availablePETs,
                 requestPETs, lostPETs, workVars, reqVars>>

\* The task resource manager: the main task was cancelled, or ended after an
\* abend.  The system has ended the subtasks by then.
handleCancel ==
  /\ \E from \in {"init", "loop", "closing", "sleeping", "terminated", "abended"} :
       MainGoes(from, "ended")
  /\ flag' = (flag \ {"READY"}) \cup {"TERMINATED"}
  /\ notifyAllPendingCallers("CANCEL")
  /\ workers' = {} /\ commTask' = "ended"
  /\ UNCHANGED <<commECB, flags, shutdown, earlyStop, availablePETs, requestPETs,
                 lostPETs, workQueue, strayTouch, abended, reqVars>>

\* The address space ends with its main task, and its subtasks with it.
addressSpaceEnd ==
  /\ MainGoes("destroyed", "gone") \/ MainGoes("ended", "gone")
  /\ workers' = {} /\ workQueue' = <<>> /\ commTask' = "ended"
  /\ UNCHANGED <<commVars, flags, shutdown, earlyStop, petVars, strayTouch, abended, reqVars>>

-----------------------------------------------------------------------------
InPC(c) == \/ PCEnter(c) \/ PCEnterFreed(c) \/ Schedule(c) \/ Pause(c)
           \/ Resume(c) \/ Return(c) \/ XMAbend(c)

Caller(c) == \/ SendWork(c) \/ SendCommand(c) \/ SendTermSignal(c)
             \/ ForeignCall(c) \/ InPC(c) \/ PCRefuse(c) \/ PCAbend(c)

Worker(w) == WorkerHandle(w) \/ WorkerRelease(w) \/ WorkerFail(w)

Terminating == \/ exitMainLoop \/ guestTerminated \/ setTermFlag \/ deallocatePETs
               \/ freeContext \/ addressSpaceEnd

Next ==
  \/ \E c \in Callers : Caller(c)
  \/ workElementHandler
  \/ \E w \in workers : Worker(w)
  \/ commTaskSignal \/ commTaskShutdown \/ operatorStop
  \/ startHost \/ startFails \/ Terminating \/ hostAbend \/ handleCancel

Spec == Init /\ [][Next]_vars

(***************************************************************************)
(* Fairness.  A task in the PC routine, the main task, the communication   *)
(* task and every worker are dispatched, and guest handlers return (or     *)
(* abend).  Nothing is assumed of cancel, abends, STOP and new requests;   *)
(* a main task that abended does end.                                      *)
(***************************************************************************)
WorkerOf(c, n) == \E w \in workers : w.e.c = c /\ w.e.n = n /\ Worker(w)

Fairness ==
  /\ \A c \in Callers : WF_vars(InPC(c))
  /\ \A c \in Callers, n \in 1..MaxRequests : WF_vars(WorkerOf(c, n))
  /\ WF_vars(workElementHandler) /\ WF_vars(Terminating)
  /\ WF_vars(commTaskSignal \/ commTaskShutdown)
  /\ WF_vars(main = "abended" /\ handleCancel)

FairSpec == Spec /\ Fairness

-----------------------------------------------------------------------------
Places == {"idle", "calling", "holding", "queued", "paused", "resumed"}
MainPlaces == {"init", "loop", "closing", "sleeping", "terminated", "deallocated",
               "destroyed", "abended", "ended", "gone"}
Replies == {"none", "OK", "AUX_STOPPED", "AUX_NOT_READY", "COMM_PC_DISABLED",
            "XMEM_POST_FAILED", "CALLER_NOT_RECOGNIZED", "COMM_AREA_INVALID",
            "REQUEST_LIMIT_REACHED", "BAD_PET", "SHR64_ERROR", "ALLOC_FAILED",
            "AUX_TERMINATION", "REQUEST_TCB_ABEND", "HANDLER_NOT_SCHEDULED",
            "HOST_ABENDED", "USER_HANDLER_ERROR", "HANDLER_ERROR",
            "PC_ABEND_DETECTED", "PC_REFUSED", "XM_ABEND"}
PEs == [gen : Nat, state : {"reset", "paused", "prereleased", "released", "freed"},
        code : ReleaseCodes]
WorkElements == [c : Callers, n : Nat, p : PETs, g : Nat]

CommTypeOK ==
  flag \subseteq {"READY", "TERMINATED", "COMM_PC_ON", "OLD_VERSION"} /\ commECB \in BOOLEAN
HostTypeOK ==
  /\ flags \subseteq {"GUEST_INITIALIZED", "TERM_COMMAND_RECEIVED"}
  /\ commTask \in {"none", "waiting", "signalled", "ended"}
  /\ shutdown \in BOOLEAN /\ main \in MainPlaces /\ earlyStop \in BOOLEAN
PetTypeOK ==
  /\ availablePETs \in Seq(PETs) /\ lostPETs \subseteq PETs
  /\ requestPETs \in [PETs -> Nat] /\ pe \in [PETs -> PEs]
WorkTypeOK ==
  /\ workQueue \in Seq(WorkElements) /\ strayTouch \subseteq Nat /\ abended \subseteq Nat
  /\ workers \subseteq [e : WorkElements, step : {"running", "handled"}]
ReqTypeOK ==
  /\ pc \in [Callers -> Places] /\ fn \in [Callers -> Functions]
  /\ bufs \in [Callers -> SUBSET Buffers] /\ access \in [Callers -> SUBSET Buffers]
  /\ pet \in [Callers -> PETs \cup {NoPET}] /\ reqNo \in [Callers -> Nat] /\ lastReq \in Nat
  /\ auxRC \in [Callers -> Replies] /\ relCode \in [Callers -> ReleaseCodes]
  /\ reply \in [Callers -> Replies]

\* Type invariant.
TypeOK == CommTypeOK /\ HostTypeOK /\ PetTypeOK /\ WorkTypeOK /\ ReqTypeOK

-----------------------------------------------------------------------------
Holds(c) == pc[c] \in PetPlaces
Available == {availablePETs[i] : i \in DOMAIN availablePETs}

\* A pause element slot has one owner: it is in the queue at most once, no
\* two callers in scheduleCommRequestProcessing hold it, and a slot that is
\* held or was dropped by an error path is not in the queue.
PETExclusive ==
  /\ \A i, j \in DOMAIN availablePETs : availablePETs[i] = availablePETs[j] => i = j
  /\ \A c \in Callers : Holds(c) => pet[c] \in PETs \ (Available \cup lostPETs)
  /\ \A c, d \in Callers : Holds(c) /\ Holds(d) /\ pet[c] = pet[d] => c = d
  /\ lostPETs \cap Available = {}

\* Every slot of the pool is available, held by a caller, or was dropped by
\* an error return of scheduleCommRequestProcessing or by an abend.
PETConserved ==
  PETs = Available \cup lostPETs \cup {pet[c] : c \in {d \in Callers : Holds(d)}}

\* The token of a work element wakes nobody but the caller that queued it,
\* during the very request it was queued for: the worker of a request whose
\* caller is gone cannot release the next request that got the same slot.  (A
\* slot that was lost by an abend is used by nobody any more.)
TokenOwned ==
  \A e \in Elements : CanWake(e) =>
    \/ e.p \in lostPETs
    \/ /\ reqNo[e.c] = e.n /\ pet[e.c] = e.p
       /\ pc[e.c] \in {"queued", "paused"}

\* A caller whose pause returned ZISAUX_PE_OK, and that therefore takes its
\* status from auxRC of the copy, has no handler pending or running.
HandledBeforeOK ==
  \A c \in Callers : pc[c] = "resumed" /\ relCode[c] = "PE_OK" =>
    \A e \in Elements : ~(e.c = c /\ e.n = reqNo[c])

\* As long as the host neither abended nor was cancelled nor destroyed its
\* context, no worker and no PC routine uses a parameter list copy or a context
\* that is no longer there, except the copy of a caller that itself abended or
\* was cancelled in the PC routine: the worker of that request, and no other, may
\* read and write storage that its caller has left.
NoStrayTouch ==
  main \in {"init", "loop", "closing", "sleeping", "terminated"} => strayTouch \subseteq abended

\* isNormalTermination holds when the main loop ends: whoever stops the loop
\* has set TERM_COMMAND_RECEIVED before, unless a STOP during start-up was
\* lost in the unserialised update of context->flags.
NormalTermination ==
  main \in {"closing", "sleeping", "terminated"} /\ ~earlyStop
    => "TERM_COMMAND_RECEIVED" \in flags

\* A caller that is told OK left no access to its buffers in the host,
\* whoever released it and whoever cleaned the copy of its parameter list.
AccessReleased ==
  \A c \in Callers : pc[c] = "idle" /\ reply[c] = "OK" => access[c] = {}

\* Every call of the PC routine returns, whatever happens to the host.
EveryCallReturns == \A c \in Callers : (pc[c] # "idle") ~> (pc[c] = "idle")

\* A termination signal that was posted, or a main loop that was told to
\* stop, leads to the end of the address space.
TermHonoured == (commECB \/ (shutdown /\ main = "loop")) ~> (main = "gone")
=============================================================================

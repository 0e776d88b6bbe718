---------------------------- MODULE AuxHostProofs ----------------------------
(***************************************************************************)
(* Safety of the AUX host for any number of callers, pause elements and    *)
(* requests.                                                               *)
(***************************************************************************)
EXTENDS AuxHost, SequenceTheorems, TLAPS

\* A caller between qRemove and qInsert has a slot of the pool.
HeldIsSlot == \A c \in Callers : pc[c] \in PetPlaces => pet[c] \in PETs

TypeInv == TypeOK /\ HeldIsSlot

\* The steps of a caller in the PC routine, its abends included.
PCMove(c) == InPC(c) \/ PCRefuse(c) \/ PCAbend(c)

-----------------------------------------------------------------------------
(***************************************************************************)
(* Lemmas on the operators of the model.                                   *)
(***************************************************************************)

\* Releasing a pause element yields one that only differs in its state and
\* its release code.
LEMMA ReleaseType ==
  ASSUME NEW e \in PEs, NEW code \in ReleaseCodes
  PROVE  /\ Released(e, code) \in PEs
         /\ Released(e, code).gen = e.gen
         /\ Released(e, code).state = IF e.state = "paused" THEN "released" ELSE "prereleased"
         /\ Released(e, code).code = code
BY DEF PEs, Released

\* All the ways to release or deallocate pause elements.
LEMMA PEType ==
  ASSUME pe \in [PETs -> PEs], NEW code \in ReleaseCodes,
         \/ \E p \in PETs, g \in Nat : peRelease(p, g, code)
         \/ notifyAllPendingCallers(code)
         \/ peDeallocAll
  PROVE  pe' \in [PETs -> PEs]
<1>1. CASE \E p \in PETs, g \in Nat : peRelease(p, g, code)
  BY <1>1, ReleaseType DEF peRelease
<1>2. CASE notifyAllPendingCallers(code)
  BY <1>2, ReleaseType DEF notifyAllPendingCallers
<1>3. CASE peDeallocAll
  <2>1. ASSUME NEW p \in PETs
        PROVE  /\ [pe[p] EXCEPT !.state = "freed"] \in PEs
               /\ [pe[p] EXCEPT !.state = "released", !.code = "TERM"] \in PEs
    BY DEF PEs, ReleaseCodes
  <2> QED
    BY <1>3, <2>1 DEF peDeallocAll
<1> QED
  BY <1>1, <1>2, <1>3

\* A work element built by scheduleCommRequestProcessing is well formed.
LEMMA ElementType ==
  ASSUME TypeInv, NEW c \in Callers, pc[c] \in PetPlaces
  PROVE  Element(c) \in WorkElements
BY DEF TypeInv, TypeOK, PetTypeOK, ReqTypeOK, HeldIsSlot, Element, WorkElements

-----------------------------------------------------------------------------
(***************************************************************************)
(* Type correctness.                                                       *)
(***************************************************************************)

\* The initial states are well typed.
LEMMA TypeInit == Init => TypeInv
<1> SUFFICES ASSUME Init PROVE TypeInv
  OBVIOUS
<1> USE AuxHostAssumption DEF Init, PETs
<1>1. availablePETs \in Seq(PETs)
  BY IsASeq
<1>2. workQueue \in Seq(WorkElements)
  BY EmptySeq
<1>3. pe \in [PETs -> PEs]
  BY DEF PEs, ReleaseCodes
<1>4. HeldIsSlot
  BY DEF HeldIsSlot, PetPlaces
<1>5. CommTypeOK /\ HostTypeOK
  BY DEF CommTypeOK, HostTypeOK, MainPlaces
<1>6. ReqTypeOK
  BY DEF ReqTypeOK, Places, Functions, Replies, ReleaseCodes, Buffers, NoPET
<1> QED
  BY <1>1, <1>2, <1>3, <1>4, <1>5, <1>6 DEF TypeInv, TypeOK, PetTypeOK, WorkTypeOK

\* Each part of the type invariant depends on its variables only.
LEMMA TypeFrame ==
  ASSUME TypeInv
  PROVE  /\ UNCHANGED commVars => CommTypeOK'
         /\ UNCHANGED hostVars => HostTypeOK'
         /\ UNCHANGED petVars  => PetTypeOK'
         /\ UNCHANGED workVars => WorkTypeOK'
         /\ UNCHANGED reqVars  => ReqTypeOK' /\ HeldIsSlot'
BY DEF TypeInv, TypeOK, CommTypeOK, HostTypeOK, PetTypeOK, WorkTypeOK, ReqTypeOK,
       HeldIsSlot, commVars, hostVars, petVars, workVars, reqVars

\* Steps of a caller outside the PC routine.
LEMMA TypeSend ==
  ASSUME TypeInv, NEW c \in Callers,
         SendWork(c) \/ SendCommand(c) \/ SendTermSignal(c) \/ ForeignCall(c)
  PROVE  TypeInv'
<1>1. NewRequest(c)
  BY DEF SendWork, SendCommand, SendTermSignal, ForeignCall, SendRequest
<1>2. \/ \E rc \in Replies : Answer(c, rc)
      \/ \E f \in Functions, b \in SUBSET Buffers : CallPC(c, f, b)
      \/ xmemPost(c)
  BY AuxHostAssumption
  DEF SendWork, SendCommand, SendTermSignal, ForeignCall, SendRequest, Replies,
      Functions, Buffers
<1>3. HostTypeOK' /\ PetTypeOK' /\ WorkTypeOK'
  BY <1>1, TypeFrame DEF NewRequest
<1>4. CommTypeOK'
  BY <1>1, <1>2 DEF NewRequest, Answer, CallPC, xmemPost, TypeInv, TypeOK, CommTypeOK
<1>5. ReqTypeOK' /\ HeldIsSlot'
  <2> USE <1>1 DEF NewRequest, TypeInv, TypeOK, ReqTypeOK, HeldIsSlot
  <2>1. CASE \E rc \in Replies : Answer(c, rc)
    BY <2>1 DEF Answer
  <2>2. CASE \E f \in Functions, b \in SUBSET Buffers : CallPC(c, f, b)
    BY <2>2 DEF CallPC, Places, Replies, PetPlaces
  <2>3. CASE xmemPost(c)
    BY <2>3 DEF xmemPost, Answer, Replies
  <2> QED
    BY <1>2, <2>1, <2>2, <2>3
<1> QED
  BY <1>3, <1>4, <1>5 DEF TypeInv, TypeOK

\* What Leave and Stay do to the typed variables of a caller.
LEMMA LeaveType ==
  ASSUME TypeInv, NEW c \in Callers, NEW rc \in Replies, Leave(c, rc),
         UNCHANGED <<reqNo, lastReq>>, access' \in [Callers -> SUBSET Buffers]
  PROVE  ReqTypeOK' /\ HeldIsSlot'
BY DEF Leave, TypeInv, TypeOK, ReqTypeOK, HeldIsSlot, Places, PetPlaces, Functions,
       Replies, ReleaseCodes, NoPET

\* A step after which a caller stays in the PC routine keeps the request
\* variables typed, and its slot a slot of the pool.
LEMMA StayType ==
  ASSUME TypeInv, NEW c \in Callers, NEW place \in Places, Stay(c, place),
         UNCHANGED <<reqNo, lastReq>>, access' \in [Callers -> SUBSET Buffers],
         relCode' \in [Callers -> ReleaseCodes],
         \/ pet' = pet /\ pc[c] \in PetPlaces
         \/ pet[c]' \in PETs /\ pet' = [pet EXCEPT ![c] = pet[c]']
  PROVE  ReqTypeOK' /\ HeldIsSlot'
BY DEF Stay, TypeInv, TypeOK, ReqTypeOK, HeldIsSlot, Places, PetPlaces

\* A pause that returns, seen from its caller and from its pause element.
LEMMA PauseReturnsType ==
  ASSUME TypeInv, NEW c \in Callers, pc[c] \in PetPlaces, PauseReturns(c),
         UNCHANGED <<reqNo, lastReq, access, availablePETs, requestPETs>>
  PROVE  ReqTypeOK' /\ HeldIsSlot' /\ PetTypeOK'
<1>1. pet[c] \in PETs /\ pe[pet[c]] \in PEs
  BY DEF TypeInv, TypeOK, PetTypeOK, HeldIsSlot
<1>2. pe' \in [PETs -> PEs]
  BY <1>1 DEF PauseReturns, AfterPause, PEs, ReleaseCodes, TypeInv, TypeOK, PetTypeOK
<1>3. relCode' \in [Callers -> ReleaseCodes]
  BY <1>1 DEF PauseReturns, PEs, TypeInv, TypeOK, ReqTypeOK
<1>4. ReqTypeOK' /\ HeldIsSlot'
  BY <1>3, StayType DEF PauseReturns, Places, TypeInv, TypeOK, ReqTypeOK
<1> QED
  BY <1>2, <1>4 DEF PauseReturns, TypeInv, TypeOK, PetTypeOK

\* Steps of the PC routine.
LEMMA TypeInPC ==
  ASSUME TypeInv, NEW c \in Callers, PCMove(c)
  PROVE  TypeInv'
<1> USE DEF TypeInv, TypeOK
<1> DEFINE keep == CommTypeOK' /\ HostTypeOK'
<1>1. CASE PCEnter(c)
  <2>1. keep /\ WorkTypeOK'
    BY <1>1, TypeFrame DEF PCEnter
  <2>2. ASSUME takePET(c), availablePETs # <<>>
        PROVE  pet[c]' \in PETs /\ pet' = [pet EXCEPT ![c] = pet[c]'] /\ availablePETs' \in Seq(PETs)
    BY <2>2, HeadTailProperties DEF takePET, PetTypeOK, ReqTypeOK
  <2>3. PetTypeOK'
    BY <1>1, <2>2 DEF PCEnter, PetTypeOK
  <2>4. ReqTypeOK' /\ HeldIsSlot'
    <3>1. CASE Leave(c, "CALLER_NOT_RECOGNIZED") \/ Leave(c, "REQUEST_LIMIT_REACHED")
      BY <1>1, <3>1, LeaveType DEF PCEnter, Replies, ReqTypeOK
    <3>2. CASE takePET(c) /\ Stay(c, "holding") /\ relCode' = relCode /\ availablePETs # <<>>
      BY <1>1, <2>2, <3>2, StayType DEF PCEnter, Places, ReqTypeOK
    <3> QED
      BY <1>1, <3>1, <3>2 DEF PCEnter
  <2> QED
    BY <2>1, <2>3, <2>4
<1>2. CASE PCEnterFreed(c)
  <2>1. keep /\ PetTypeOK'
    BY <1>2, TypeFrame DEF PCEnterFreed
  <2>2. WorkTypeOK'
    BY <1>2 DEF PCEnterFreed, UseContext, WorkTypeOK, ReqTypeOK
  <2>3. ReqTypeOK' /\ HeldIsSlot'
    BY <1>2, LeaveType DEF PCEnterFreed, Replies, ReqTypeOK
  <2> QED
    BY <2>1, <2>2, <2>3
<1>3. CASE Schedule(c)
  <2>1. keep
    BY <1>3, TypeFrame DEF Schedule
  <2>2. pc[c] \in PetPlaces /\ pet[c] \in PETs
    BY <1>3 DEF Schedule, PetPlaces, HeldIsSlot
  <2>3. PetTypeOK'
    BY <1>3, <2>2 DEF Schedule, LeaveWithPET, PetTypeOK
  <2>4. WorkTypeOK'
    <3>1. workQueue' \in Seq(WorkElements)
      BY <1>3, <2>2, ElementType, AppendProperties DEF Schedule, WorkTypeOK
    <3> QED
      BY <1>3, <3>1 DEF Schedule, UseContext, WorkTypeOK, ReqTypeOK
  <2>5. access' \in [Callers -> SUBSET Buffers]
    BY <1>3 DEF Schedule, copyFails, copyWorks, ReqTypeOK
  <2>6. ReqTypeOK' /\ HeldIsSlot'
    <3>1. CASE \E rc \in {"BAD_PET", "SHR64_ERROR", "ALLOC_FAILED"} : Leave(c, rc)
      BY <1>3, <2>5, <3>1, LeaveType DEF Schedule, Replies
    <3>2. CASE Stay(c, "queued") /\ UNCHANGED <<pet, relCode>>
      BY <1>3, <2>2, <2>5, <3>2, StayType DEF Schedule, Places, ReqTypeOK
    <3> QED
      BY <1>3, <3>1, <3>2 DEF Schedule, LeaveWithPET
  <2> QED
    BY <2>1, <2>3, <2>4, <2>6
<1>4. CASE Pause(c)
  <2>1. keep /\ WorkTypeOK'
    BY <1>4, TypeFrame DEF Pause
  <2>2. pc[c] \in PetPlaces /\ pet[c] \in PETs
    BY <1>4 DEF Pause, PetPlaces, HeldIsSlot
  <2>3. CASE PauseReturns(c)
    BY <1>4, <2>1, <2>2, <2>3, PauseReturnsType DEF Pause
  <2>4. CASE Stay(c, "paused") /\ pe' = [pe EXCEPT ![pet[c]].state = "paused"]
             /\ UNCHANGED <<relCode, lostPETs, pet>>
    <3>1. PetTypeOK'
      BY <1>4, <2>2, <2>4 DEF Pause, PetTypeOK, PEs
    <3>2. ReqTypeOK' /\ HeldIsSlot'
      BY <1>4, <2>2, <2>4, StayType DEF Pause, Places, ReqTypeOK
    <3> QED
      BY <2>1, <3>1, <3>2
  <2>5. CASE LeaveWithPET(c, "PC_ABEND_DETECTED") /\ pe' = pe
    <3>1. PetTypeOK'
      BY <1>4, <2>2, <2>5 DEF Pause, LeaveWithPET, PetTypeOK
    <3>2. ReqTypeOK' /\ HeldIsSlot'
      BY <1>4, <2>5, LeaveType DEF Pause, LeaveWithPET, Replies, ReqTypeOK
    <3> QED
      BY <2>1, <3>1, <3>2
  <2> QED
    BY <1>4, <2>3, <2>4, <2>5 DEF Pause
<1>5. CASE Resume(c)
  <2>1. keep /\ WorkTypeOK'
    BY <1>5, TypeFrame DEF Resume
  <2> QED
    BY <1>5, <2>1, PauseReturnsType DEF Resume, PetPlaces
<1>6. CASE Return(c)
  <2>1. keep
    BY <1>6, TypeFrame DEF Return
  <2>2. pet[c] \in PETs /\ pe[pet[c]].gen \in Nat
    BY <1>6 DEF Return, PetPlaces, HeldIsSlot, PetTypeOK, PEs
  <2>3. PetTypeOK'
    BY <1>6, <2>2, AppendProperties DEF Return, putBackPET, PetTypeOK
  <2>4. WorkTypeOK'
    BY <1>6 DEF Return, UseContext, WorkTypeOK, ReqTypeOK
  <2>5. statusOf(c) \in Replies
    BY DEF statusOf, ReqTypeOK, ReleaseCodes, Replies
  <2>6. PICK left \in LeftAccess(c) :
          /\ access' = [access EXCEPT ![c] = left]
          /\ Leave(c, IF left \cap bufs[c] # {} /\ statusOf(c) = "OK" THEN "SHR64_ERROR"
                      ELSE statusOf(c))
    BY <1>6 DEF Return, cleanCopy
  <2>7. access' \in [Callers -> SUBSET Buffers]
    BY <2>6 DEF LeftAccess, ReqTypeOK
  <2>8. "SHR64_ERROR" \in Replies
    BY DEF Replies
  <2>9. ReqTypeOK' /\ HeldIsSlot'
    <3> DEFINE rc == IF left \cap bufs[c] # {} /\ statusOf(c) = "OK" THEN "SHR64_ERROR" ELSE statusOf(c)
    <3>1. rc \in Replies
      BY <2>5, <2>8
    <3>2. UNCHANGED <<reqNo, lastReq>> /\ Leave(c, rc)
      BY <1>6, <2>6 DEF Return
    <3> HIDE DEF rc
    <3> QED
      BY <2>7, <3>1, <3>2, LeaveType
  <2> QED
    BY <2>1, <2>3, <2>4, <2>9
<1>7. CASE PCAbend(c)
  <2>1. keep
    BY <1>7, TypeFrame DEF PCAbend
  <2>2. pet[c] \in PETs /\ pe[pet[c]].gen \in Nat
    BY <1>7 DEF PCAbend, HeldIsSlot, PetTypeOK, PEs
  <2>3. pe' \in [PETs -> PEs]
    <3>1. PICK q : q = [gen |-> pe[pet[c]].gen + 1, state |-> AfterPause, code |-> "PE_OK"]
      OBVIOUS
    <3>2. q \in PEs
      BY <2>2, <3>1 DEF AfterPause, PEs, ReleaseCodes
    <3>3. pe' = pe \/ pe' = [pe EXCEPT ![pet[c]] = q]
      BY <1>7, <3>1 DEF PCAbend, BrokenPause
    <3> QED
      BY <2>2, <3>2, <3>3 DEF PetTypeOK
  <2>4. PetTypeOK'
    <3>1. CASE putBackPET(c) /\ UNCHANGED lostPETs
      BY <2>2, <2>3, <3>1, AppendProperties DEF putBackPET, PetTypeOK
    <3>2. CASE lostPETs' = lostPETs \cup {pet[c]} /\ UNCHANGED <<requestPETs, availablePETs>>
      BY <2>2, <2>3, <3>2 DEF PetTypeOK
    <3> QED
      BY <1>7, <3>1, <3>2 DEF PCAbend, LeaveWithPET
  <2>5. WorkTypeOK'
    BY <1>7 DEF PCAbend, UseContext, WorkTypeOK, ReqTypeOK
  <2>6. ReqTypeOK' /\ HeldIsSlot'
    BY <1>7, LeaveType DEF PCAbend, LeaveWithPET, Replies, ReqTypeOK
  <2> QED
    BY <2>1, <2>4, <2>5, <2>6
<1>9. CASE PCRefuse(c)
  <2>1. keep /\ WorkTypeOK' /\ PetTypeOK'
    BY <1>9, TypeFrame DEF PCRefuse
  <2>2. ReqTypeOK' /\ HeldIsSlot'
    BY <1>9, LeaveType DEF PCRefuse, Replies, ReqTypeOK
  <2> QED
    BY <2>1, <2>2
<1>8. CASE XMAbend(c)
  <2>1. keep /\ WorkTypeOK'
    BY <1>8, TypeFrame DEF XMAbend
  <2>2. PetTypeOK'
    BY <1>8 DEF XMAbend, PetTypeOK, HeldIsSlot
  <2>3. ReqTypeOK' /\ HeldIsSlot'
    BY <1>8, LeaveType DEF XMAbend, Replies, ReqTypeOK
  <2> QED
    BY <2>1, <2>2, <2>3
<1> QED
  BY <1>1, <1>2, <1>3, <1>4, <1>5, <1>6, <1>7, <1>8, <1>9 DEF PCMove, InPC

\* Steps of the worker tasks and of the work element handler.
LEMMA TypeWorker ==
  ASSUME TypeInv, workElementHandler \/ \E w \in workers : Worker(w)
  PROVE  TypeInv'
<1> USE DEF TypeInv, TypeOK
<1>1. CASE workElementHandler
  <2> DEFINE e == Head(workQueue)
  <2>1. e \in WorkElements /\ Tail(workQueue) \in Seq(WorkElements)
    BY <1>1, HeadTailProperties DEF workElementHandler, WorkTypeOK
  <2>2. WorkTypeOK'
    BY <1>1, <2>1 DEF workElementHandler, WorkTypeOK
  <2>3. PetTypeOK'
    <3>1. e.p \in PETs /\ e.g \in Nat /\ completionPET(e) \in Nat
      BY <2>1 DEF WorkElements, completionPET
    <3>2. pe' \in [PETs -> PEs]
      BY <1>1, <3>1, PEType DEF workElementHandler, releaseCaller, ReleaseCodes, PetTypeOK
    <3> QED
      BY <1>1, <3>2 DEF workElementHandler, PetTypeOK
  <2> QED
    BY <1>1, <2>2, <2>3, TypeFrame DEF workElementHandler
<1>2. ASSUME NEW w \in workers, Worker(w) PROVE TypeInv'
  <2>1. /\ w.e \in WorkElements /\ w.e.c \in Callers /\ w.e.p \in PETs
        /\ w.e.g \in Nat /\ completionPET(w.e) \in Nat
    BY DEF WorkTypeOK, WorkElements, completionPET
  <2>2. CASE WorkerHandle(w)
    <3>1. WorkTypeOK'
      BY <2>1, <2>2 DEF WorkerHandle, WorkTypeOK, WorkElements
    <3>2. PetTypeOK'
      BY <2>2, TypeFrame DEF WorkerHandle
    <3>3. CommTypeOK' /\ HostTypeOK'
      BY <2>2 DEF WorkerHandle, terminateAUX, CommTypeOK, HostTypeOK
    <3>4. fn[w.e.c] \in Functions => ResultsOf(fn[w.e.c]) \subseteq Replies
      BY DEF ResultsOf, HandlerRCs, Functions, Replies
    <3>5. auxRC' \in [Callers -> Replies]
      BY <2>1, <2>2, <3>4 DEF WorkerHandle, ReqTypeOK
    <3>6. ReqTypeOK' /\ HeldIsSlot'
      BY <2>2, <3>5 DEF WorkerHandle, ReqTypeOK, HeldIsSlot
    <3> QED
      BY <3>1, <3>2, <3>3, <3>6
  <2>3. CASE WorkerRelease(w)
    <3>1. pe' \in [PETs -> PEs]
      BY <2>1, <2>3, PEType DEF WorkerRelease, releaseCaller, ReleaseCodes, PetTypeOK
    <3>2. PetTypeOK'
      BY <2>3, <3>1 DEF WorkerRelease, PetTypeOK
    <3>3. WorkTypeOK'
      BY <2>1, <2>3 DEF WorkerRelease, WorkTypeOK, WorkElements
    <3>4. ReqTypeOK' /\ HeldIsSlot'
      BY <2>1, <2>3 DEF WorkerRelease, LeftAccess, ReqTypeOK, HeldIsSlot, Replies
    <3> QED
      BY <2>3, <3>2, <3>3, <3>4, TypeFrame DEF WorkerRelease
  <2>4. CASE WorkerFail(w)
    <3>1. PICK code \in {"WORKER_ABEND", "ENV_ERROR"} : releaseCaller(w.e, code)
      BY <2>4 DEF WorkerFail
    <3>2. pe' \in [PETs -> PEs]
      BY <2>1, <3>1, PEType DEF releaseCaller, ReleaseCodes, PetTypeOK
    <3>3. PetTypeOK' /\ WorkTypeOK'
      BY <2>4, <3>2 DEF WorkerFail, PetTypeOK, WorkTypeOK
    <3> QED
      BY <2>4, <3>3, TypeFrame DEF WorkerFail
  <2> QED
    BY <1>2, <2>2, <2>3, <2>4 DEF Worker
<1> QED
  BY <1>1, <1>2

\* Steps of the communication task, the operator and the main task.
HostStep ==
  \/ commTaskSignal \/ commTaskShutdown \/ operatorStop
  \/ startHost \/ startFails \/ Terminating \/ hostAbend \/ handleCancel

\* What these steps leave alone, and what they may do to the work elements and
\* to the pause elements.
LEMMA HostFrame ==
  ASSUME HostStep
  PROVE  /\ UNCHANGED <<availablePETs, requestPETs, lostPETs, strayTouch, abended>> /\ UNCHANGED reqVars
         /\ workQueue' \in {workQueue, <<>>} /\ workers' \in {workers, {}}
         /\ \/ pe' = pe \/ peDeallocAll
            \/ \E code \in {"HOST_ABEND", "CANCEL"} : notifyAllPendingCallers(code)
         /\ main = "gone" => main' = "gone"
         /\ main # "gone" /\ main' = "gone" => workQueue' = <<>> /\ workers' = {}
BY DEF HostStep, Terminating, commTaskSignal, commTaskShutdown, operatorStop, startHost, startFails,
       exitMainLoop, guestTerminated, setTermFlag, deallocatePETs, freeContext, addressSpaceEnd,
       hostAbend, handleCancel, MainGoes, petVars, workVars

\* The steps of the host's main and communication tasks keep the types.
LEMMA TypeHost ==
  ASSUME TypeInv, HostStep
  PROVE  TypeInv'
<1> USE DEF TypeInv, TypeOK
<1>1. CommTypeOK'
  BY DEF HostStep, Terminating, commTaskSignal, commTaskShutdown, operatorStop, startHost,
         startFails, exitMainLoop, guestTerminated, setTermFlag, deallocatePETs, freeContext,
         addressSpaceEnd, hostAbend, handleCancel, CommTypeOK, commVars
<1>2. HostTypeOK'
  BY DEF HostStep, Terminating, commTaskSignal, commTaskShutdown, operatorStop, startHost,
         startFails, exitMainLoop, guestTerminated, setTermFlag, deallocatePETs, freeContext,
         addressSpaceEnd, hostAbend, handleCancel, MainGoes, HostTypeOK, MainPlaces
<1>3. PetTypeOK'
  <2>1. pe' \in [PETs -> PEs]
    BY HostFrame, PEType DEF PetTypeOK, ReleaseCodes
  <2> QED
    BY <2>1, HostFrame DEF PetTypeOK
<1>4. WorkTypeOK'
  BY HostFrame, EmptySeq DEF WorkTypeOK
<1>5. ReqTypeOK' /\ HeldIsSlot'
  BY HostFrame, TypeFrame
<1> QED
  BY <1>1, <1>2, <1>3, <1>4, <1>5

\* Every step is one of a caller, of a worker or of the host.
LEMMA NextCases ==
  ASSUME Next
  PROVE  \/ \E c \in Callers : \/ SendWork(c) \/ SendCommand(c) \/ SendTermSignal(c)
                               \/ ForeignCall(c)
         \/ \E c \in Callers : PCMove(c)
         \/ workElementHandler \/ \E w \in workers : Worker(w)
         \/ HostStep
BY DEF Next, Caller, PCMove, HostStep

\* What a step does to the callers: a new request, a step of the PC routine,
\* or nothing.
NewRequestStep(c) ==
  /\ pc[c] = "idle" /\ pc' \in {pc, [pc EXCEPT ![c] = "calling"]}
  /\ lastReq' = lastReq + 1 /\ reqNo' = [reqNo EXCEPT ![c] = lastReq + 1]
  /\ UNCHANGED <<pet, relCode, main, availablePETs, lostPETs, pe, workQueue, workers>>
PCStep(c) == PCMove(c) /\ UNCHANGED <<reqNo, lastReq, main>>
WorkStep  == workElementHandler \/ \E w \in workers : Worker(w)
NoCallerStep ==
  /\ (WorkStep /\ main' = main) \/ HostStep
  /\ UNCHANGED <<pc, pet, reqNo, lastReq, relCode, availablePETs, lostPETs>>

\* Every step is a new request, a step of a caller inside the PC routine, or
\* a step that is no caller's.
LEMMA RequestStep ==
  ASSUME Next
  PROVE  (\E c \in Callers : NewRequestStep(c) \/ PCStep(c)) \/ NoCallerStep
<1>1. ASSUME NEW c \in Callers,
             SendWork(c) \/ SendCommand(c) \/ SendTermSignal(c) \/ ForeignCall(c)
      PROVE  NewRequestStep(c)
  BY <1>1 DEF SendWork, SendCommand, SendTermSignal, ForeignCall, SendRequest, Answer,
              CallPC, xmemPost, NewRequest, NewRequestStep, petVars, workVars, hostVars
<1>2. ASSUME NEW c \in Callers, PCMove(c) PROVE PCStep(c)
  BY <1>2 DEF PCStep, PCMove, InPC, PCEnter, PCEnterFreed, Schedule, Pause, Resume, Return, cleanCopy, PCRefuse, PCAbend,
              XMAbend, hostVars
<1>3. CASE WorkStep
  BY <1>3 DEF WorkStep, NoCallerStep, workElementHandler, Worker, WorkerHandle, WorkerRelease,
              WorkerFail, reqVars, petVars, hostVars
<1>4. CASE HostStep
  BY <1>4, HostFrame DEF NoCallerStep, reqVars
<1> QED
  BY <1>1, <1>2, <1>3, <1>4, NextCases DEF WorkStep

\* An address space that is gone is gone for good.
LEMMA GoneForGood == Next /\ main = "gone" => main' = "gone"
BY RequestStep, HostFrame DEF NewRequestStep, PCStep, NoCallerStep

\* Every step preserves the types.
LEMMA TypeStep == TypeInv /\ [Next]_vars => TypeInv'
<1> SUFFICES ASSUME TypeInv, [Next]_vars PROVE TypeInv'
  OBVIOUS
<1>1. CASE UNCHANGED vars
  BY <1>1, TypeFrame DEF vars, TypeInv, TypeOK
<1>2. CASE Next
  BY <1>2, NextCases, TypeSend, TypeInPC, TypeWorker, TypeHost
<1> QED
  BY <1>1, <1>2

\* The type invariant of the AUX host holds for any number of callers, pause
\* elements and requests; in particular the slot that an error path of
\* scheduleCommRequestProcessing drops, and the slot in a work element, are
\* slots of the pool.
THEOREM TypeCorrect == Spec => []TypeOK
<1>1. Init => TypeInv
  BY TypeInit
<1>2. TypeInv /\ [Next]_vars => TypeInv'
  BY TypeStep
<1>3. TypeInv => TypeOK
  BY DEF TypeInv
<1> QED
  BY <1>1, <1>2, <1>3, PTL DEF Spec

-----------------------------------------------------------------------------
(***************************************************************************)
(* The pool of pause elements.                                             *)
(***************************************************************************)
SlotsOf(s) == {s[i] : i \in DOMAIN s}
Distinct(s) == \A i, j \in DOMAIN s : s[i] = s[j] => i = j

\* qRemove takes the first of distinct slots out of the queue.
LEMMA TakeSlot ==
  ASSUME NEW s \in Seq(PETs), s # <<>>, Distinct(s)
  PROVE  /\ Head(s) \in SlotsOf(s)
         /\ SlotsOf(Tail(s)) = SlotsOf(s) \ {Head(s)}
         /\ Distinct(Tail(s))
<1>1. /\ Len(s) \in Nat \ {0} /\ Len(Tail(s)) = Len(s) - 1 /\ Head(s) = s[1]
      /\ DOMAIN s = 1..Len(s) /\ DOMAIN Tail(s) = 1..(Len(s) - 1)
      /\ \A i \in 1..(Len(s) - 1) : Tail(s)[i] = s[i + 1]
  BY HeadTailProperties, LenProperties, EmptySeq
<1>2. Head(s) \in SlotsOf(s)
  BY <1>1 DEF SlotsOf
<1>3. ASSUME NEW x \in SlotsOf(Tail(s)) PROVE x \in SlotsOf(s) \ {Head(s)}
  <2>1. PICK i \in 1..(Len(s) - 1) : x = s[i + 1]
    BY <1>1, <1>3 DEF SlotsOf
  <2>2. i + 1 \in DOMAIN s /\ 1 \in DOMAIN s /\ i + 1 # 1
    BY <1>1, <2>1
  <2> QED
    BY <1>1, <2>1, <2>2 DEF SlotsOf, Distinct
<1>4. ASSUME NEW x \in SlotsOf(s) \ {Head(s)} PROVE x \in SlotsOf(Tail(s))
  <2>1. PICK i \in DOMAIN s : x = s[i]
    BY <1>4 DEF SlotsOf
  <2>2. i # 1
    BY <1>1, <1>4, <2>1
  <2>3. i - 1 \in 1..(Len(s) - 1) /\ Tail(s)[i - 1] = s[(i - 1) + 1] /\ (i - 1) + 1 = i
    BY <1>1, <2>1, <2>2
  <2> QED
    BY <1>1, <2>1, <2>3 DEF SlotsOf
<1>5. Distinct(Tail(s))
  <2> SUFFICES ASSUME NEW i \in 1..(Len(s) - 1), NEW j \in 1..(Len(s) - 1),
                      Tail(s)[i] = Tail(s)[j]
               PROVE  i = j
    BY <1>1 DEF Distinct
  <2>1. s[i + 1] = s[j + 1] /\ i + 1 \in DOMAIN s /\ j + 1 \in DOMAIN s
    BY <1>1
  <2>2. i + 1 = j + 1
    BY <2>1 DEF Distinct
  <2> QED
    BY <2>2
<1> QED
  BY <1>2, <1>3, <1>4, <1>5

\* qInsert adds a slot that was not in the queue.
LEMMA PutSlot ==
  ASSUME NEW s \in Seq(PETs), NEW p \in PETs, p \notin SlotsOf(s), Distinct(s)
  PROVE  SlotsOf(Append(s, p)) = SlotsOf(s) \cup {p} /\ Distinct(Append(s, p))
<1> DEFINE t == Append(s, p)
           n == Len(s) + 1
<1>1. /\ Len(s) \in Nat /\ DOMAIN s = 1..Len(s) /\ DOMAIN t = 1..n
      /\ \A i \in 1..Len(s) : t[i] = s[i]
      /\ t[n] = p
  BY AppendProperties, LenProperties
<1> HIDE DEF t
<1>2. SlotsOf(t) = SlotsOf(s) \cup {p}
  BY <1>1 DEF SlotsOf
<1>3. Distinct(t)
  <2> SUFFICES ASSUME NEW i \in DOMAIN t, NEW j \in DOMAIN t, t[i] = t[j]
               PROVE  i = j
    BY DEF Distinct
  <2>1. \A k \in DOMAIN t : k = n \/ k \in DOMAIN s
    BY <1>1
  <2>2. \A k \in DOMAIN s : t[k] # p
    BY <1>1 DEF SlotsOf
  <2> QED
    BY <1>1, <2>1, <2>2 DEF Distinct
<1> QED
  BY <1>2, <1>3 DEF t

PoolInv == TypeInv /\ PETExclusive /\ PETConserved

\* What a step does to the pool: nothing, take a slot, put it back, drop it.
\* The callers other than c keep what they hold.
OthersKeep(c) ==
  \A d \in Callers \ {c} : (Holds(d)' <=> Holds(d)) /\ pet'[d] = pet[d]
PoolKept ==
  /\ UNCHANGED <<availablePETs, lostPETs>>
  /\ \A d \in Callers : (Holds(d)' <=> Holds(d)) /\ (Holds(d) => pet'[d] = pet[d])
PoolTake(c) ==
  /\ availablePETs # <<>> /\ ~Holds(c) /\ Holds(c)' /\ OthersKeep(c)
  /\ pet'[c] = Head(availablePETs) /\ availablePETs' = Tail(availablePETs)
  /\ lostPETs' = lostPETs
PoolPut(c) ==
  /\ Holds(c) /\ ~Holds(c)' /\ OthersKeep(c)
  /\ availablePETs' = Append(availablePETs, pet[c]) /\ lostPETs' = lostPETs
PoolDrop(c) ==
  /\ Holds(c) /\ ~Holds(c)' /\ OthersKeep(c)
  /\ availablePETs' = availablePETs /\ lostPETs' = lostPETs \cup {pet[c]}

\* The pool invariants in terms of SlotsOf and Distinct.
LEMMA PoolDefs ==
  /\ PETExclusive <=>
       /\ Distinct(availablePETs)
       /\ \A c \in Callers : Holds(c) => pet[c] \in PETs \ (SlotsOf(availablePETs) \cup lostPETs)
       /\ \A c, d \in Callers : Holds(c) /\ Holds(d) /\ pet[c] = pet[d] => c = d
       /\ lostPETs \cap SlotsOf(availablePETs) = {}
  /\ PETConserved <=>
       \A p : p \in PETs <=> \/ p \in SlotsOf(availablePETs) \cup lostPETs
                             \/ \E c \in Callers : Holds(c) /\ pet[c] = p
BY DEF PETExclusive, PETConserved, Available, SlotsOf, Distinct

\* The same about the next state.
LEMMA PoolDefsPrime ==
  /\ PETExclusive' <=>
       /\ Distinct(availablePETs')
       /\ \A c \in Callers : Holds(c)' => pet'[c] \in PETs \ (SlotsOf(availablePETs') \cup lostPETs')
       /\ \A c, d \in Callers : Holds(c)' /\ Holds(d)' /\ pet'[c] = pet'[d] => c = d
       /\ lostPETs' \cap SlotsOf(availablePETs') = {}
  /\ PETConserved' <=>
       \A p : p \in PETs <=> \/ p \in SlotsOf(availablePETs') \cup lostPETs'
                             \/ \E c \in Callers : Holds(c)' /\ pet'[c] = p
BY DEF PETExclusive, PETConserved, Available, SlotsOf, Distinct

\* Each of the four kinds of step keeps the pool exclusive and complete.
LEMMA PoolEffect ==
  ASSUME PoolInv,
         PoolKept \/ \E c \in Callers : PoolTake(c) \/ PoolPut(c) \/ PoolDrop(c)
  PROVE  PETExclusive' /\ PETConserved'
<1> USE PoolDefs, PoolDefsPrime DEF PoolInv
<1>0. availablePETs \in Seq(PETs)
  BY DEF TypeInv, TypeOK, PetTypeOK
<1>1. CASE PoolKept
  BY <1>1 DEF PoolKept
<1>2. ASSUME NEW c \in Callers, PoolTake(c) PROVE PETExclusive' /\ PETConserved'
  <2>1. /\ Head(availablePETs) \in SlotsOf(availablePETs)
        /\ SlotsOf(availablePETs') = SlotsOf(availablePETs) \ {pet'[c]}
        /\ Distinct(availablePETs') /\ pet'[c] \in SlotsOf(availablePETs)
    BY <1>0, <1>2, TakeSlot DEF PoolTake
  <2> QED
    BY <1>2, <2>1 DEF PoolTake, OthersKeep
<1>3. ASSUME NEW c \in Callers, PoolPut(c) PROVE PETExclusive' /\ PETConserved'
  <2>1. SlotsOf(availablePETs') = SlotsOf(availablePETs) \cup {pet[c]} /\ Distinct(availablePETs')
    BY <1>0, <1>3, PutSlot DEF PoolPut
  <2> QED
    BY <1>3, <2>1 DEF PoolPut, OthersKeep
<1>4. ASSUME NEW c \in Callers, PoolDrop(c) PROVE PETExclusive' /\ PETConserved'
  BY <1>4 DEF PoolDrop, OthersKeep
<1> QED
  BY <1>1, <1>2, <1>3, <1>4

\* Every step has one of the four effects on the pool.
LEMMA PoolStepKinds ==
  ASSUME PoolInv, Next
  PROVE  PoolKept \/ \E c \in Callers : PoolTake(c) \/ PoolPut(c) \/ PoolDrop(c)
<1>0. /\ pc \in [Callers -> Places] /\ pet \in [Callers -> PETs \cup {NoPET}]
      /\ availablePETs \in Seq(PETs)
  BY DEF PoolInv, TypeInv, TypeOK, PetTypeOK, ReqTypeOK
<1> USE <1>0 DEF Holds, PetPlaces
<1>1. ASSUME NEW c \in Callers, NewRequestStep(c) PROVE PoolKept
  BY <1>1 DEF NewRequestStep, PoolKept
<1>2. ASSUME NEW c \in Callers, PCMove(c)
      PROVE  PoolKept \/ PoolTake(c) \/ PoolPut(c) \/ PoolDrop(c)
  <2>1. CASE PCEnter(c)
    BY <2>1 DEF PCEnter, Leave, Stay, takePET, PoolKept, PoolTake, OthersKeep
  <2>2. CASE PCEnterFreed(c)
    BY <2>2 DEF PCEnterFreed, Leave, PoolKept, petVars
  <2>3. CASE Schedule(c)
    BY <2>3 DEF Schedule, LeaveWithPET, Leave, Stay, PoolKept, PoolDrop, OthersKeep
  <2>4. CASE Pause(c)
    BY <2>4 DEF Pause, PauseReturns, LeaveWithPET, Leave, Stay, PoolKept, PoolDrop, OthersKeep
  <2>5. CASE Resume(c)
    BY <2>5 DEF Resume, PauseReturns, Stay, PoolKept
  <2>6. CASE Return(c)
    BY <2>6 DEF Return, cleanCopy, putBackPET, Leave, PoolPut, OthersKeep
  <2>7. CASE PCAbend(c)
    BY <2>7 DEF PCAbend, LeaveWithPET, putBackPET, Leave, PoolDrop, PoolPut, OthersKeep
  <2>9. CASE PCRefuse(c)
    BY <2>9 DEF PCRefuse, Leave, PoolKept, petVars
  <2>8. CASE XMAbend(c)
    BY <2>8 DEF XMAbend, Leave, PoolKept, PoolDrop, OthersKeep
  <2> QED
    BY <1>2, <2>1, <2>2, <2>3, <2>4, <2>5, <2>6, <2>7, <2>8, <2>9 DEF PCMove, InPC
<1>3. CASE NoCallerStep
  BY <1>3 DEF NoCallerStep, PoolKept
<1> QED
  BY <1>1, <1>2, <1>3, RequestStep DEF PCStep

\* A slot that was dropped stays so.
LEMMA LostForGood ==
  ASSUME PoolInv, Next
  PROVE  lostPETs \subseteq lostPETs'
BY PoolStepKinds DEF PoolKept, PoolTake, PoolPut, PoolDrop

\* The pool starts with every slot available once (makeContext).
LEMMA PoolInit == Init => PoolInv
<1> SUFFICES ASSUME Init PROVE PoolInv
  OBVIOUS
<1>1. TypeInv
  BY TypeInit
<1>2. DOMAIN availablePETs = PETs /\ (\A p \in PETs : availablePETs[p] = p)
      /\ lostPETs = {} /\ \A c \in Callers : ~Holds(c)
  BY DEF Init, PETs, Holds, PetPlaces
<1> QED
  BY <1>1, <1>2 DEF PoolInv, PETExclusive, PETConserved, Available

\* Every step keeps PoolInv.
LEMMA PoolStep == PoolInv /\ [Next]_vars => PoolInv'
<1> SUFFICES ASSUME PoolInv, [Next]_vars PROVE PoolInv'
  OBVIOUS
<1>1. TypeInv'
  BY TypeStep DEF PoolInv
<1>2. CASE UNCHANGED vars
  BY <1>1, <1>2 DEF vars, petVars, reqVars, PoolInv, PETExclusive, PETConserved, Available, Holds
<1>3. CASE Next
  BY <1>1, <1>3, PoolStepKinds, PoolEffect DEF PoolInv
<1> QED
  BY <1>2, <1>3

\* No two callers ever hold one slot of context->requestPETs, and a slot that
\* is held or was dropped is not in availablePETs, whatever the number of
\* callers and slots and whatever abends, cancels and error returns happen.
THEOREM PoolExclusive == Spec => []PETExclusive
<1>1. PoolInv => PETExclusive
  BY DEF PoolInv
<1> QED
  BY PoolInit, PoolStep, <1>1, PTL DEF Spec

\* A slot leaves the pool only to a caller that holds it or through an error
\* path of scheduleCommRequestProcessing.
THEOREM PoolConserved == Spec => []PETConserved
<1>1. PoolInv => PETConserved
  BY DEF PoolInv
<1> QED
  BY PoolInit, PoolStep, <1>1, PTL DEF Spec

-----------------------------------------------------------------------------
(***************************************************************************)
(* The tokens in work elements.                                            *)
(***************************************************************************)

\* The caller that queued the element is still in the request it queued it
\* for and has not returned from its pause.
Current(e) == reqNo[e.c] = e.n /\ pet[e.c] = e.p /\ pc[e.c] \in {"queued", "paused"}

\* No token is from the future; a token that is up to date belongs to a
\* current request or to a slot that an abend has lost; an address space that is gone leaves no elements behind
\* (its callers leave without a new token).
TokenNotAhead == \A e \in Elements : e.g <= pe[e.p].gen
TokenCurrent ==
  \A e \in Elements : e.g = pe[e.p].gen /\ pe[e.p].state # "freed" => Current(e) \/ e.p \in lostPETs
GoneIsEmpty == main = "gone" => workQueue = <<>> /\ workers = {}

TokenInv == PoolInv /\ TokenNotAhead /\ TokenCurrent /\ GoneIsEmpty
\* Work elements are well formed.
LEMMA ElementsType ==
  ASSUME TypeInv
  PROVE  \A e \in Elements : /\ e \in WorkElements /\ e.c \in Callers /\ e.n \in Nat
                             /\ e.p \in PETs /\ e.g \in Nat
<1>1. \A i \in DOMAIN workQueue : workQueue[i] \in WorkElements
  BY LenProperties, ElementOfSeq DEF TypeInv, TypeOK, WorkTypeOK
<1>2. \A w \in workers : w.e \in WorkElements
  BY DEF TypeInv, TypeOK, WorkTypeOK
<1> QED
  BY <1>1, <1>2 DEF Elements, WorkElements

\* Elements come into being in scheduleCommRequestProcessing only.
LEMMA ElementsStep ==
  ASSUME TypeInv, Next
  PROVE  \/ Elements' \subseteq Elements
         \/ \E c \in Callers : /\ Schedule(c) /\ isPETValid(pet[c]) /\ Stay(c, "queued")
                               /\ pet' = pet
                               /\ Elements' \subseteq Elements \cup {Element(c)}
<1>1. CASE UNCHANGED <<workQueue, workers>>
  BY <1>1 DEF Elements
<1>2. ASSUME NEW c \in Callers, PCMove(c)
      PROVE  UNCHANGED <<workQueue, workers>>
             \/ (Schedule(c) /\ isPETValid(pet[c]) /\ Stay(c, "queued") /\ pet' = pet
                   /\ workQueue' = Append(workQueue, Element(c)) /\ workers' = workers)
  BY <1>2 DEF PCMove, InPC, PCEnter, PCEnterFreed, Schedule, Pause, Resume, Return, cleanCopy, PCRefuse, PCAbend,
              XMAbend, workVars
<1>3. ASSUME NEW c \in Callers, Schedule(c), workQueue' = Append(workQueue, Element(c)),
             workers' = workers
      PROVE  Elements' \subseteq Elements \cup {Element(c)}
  <2>1. Element(c) \in WorkElements /\ workQueue \in Seq(WorkElements)
    BY <1>3, ElementType DEF Schedule, PetPlaces, TypeInv, TypeOK, WorkTypeOK
  <2>2. \A i \in DOMAIN workQueue' : workQueue'[i] = Element(c) \/
            (i \in DOMAIN workQueue /\ workQueue'[i] = workQueue[i])
    BY <1>3, <2>1, AppendProperties, LenProperties
  <2> QED
    BY <1>3, <2>2 DEF Elements
<1>4. CASE workElementHandler
  <2>1. workQueue \in Seq(WorkElements) /\ workQueue # <<>>
    BY <1>4 DEF workElementHandler, TypeInv, TypeOK, WorkTypeOK
  <2>2. /\ \A i \in DOMAIN Tail(workQueue) : \E j \in DOMAIN workQueue :
             Tail(workQueue)[i] = workQueue[j]
        /\ \E j \in DOMAIN workQueue : Head(workQueue) = workQueue[j]
    BY <2>1, HeadTailProperties, LenProperties, EmptySeq
  <2> QED
    BY <1>4, <2>2 DEF workElementHandler, Elements
<1>5. ASSUME NEW w \in workers, Worker(w) PROVE Elements' \subseteq Elements
  <2>1. workQueue' = workQueue /\ \A v \in workers' : v \in workers \/ v.e = w.e
    BY <1>5 DEF Worker, WorkerHandle, WorkerRelease, WorkerFail, TypeInv, TypeOK, WorkTypeOK
  <2> QED
    BY <2>1 DEF Elements
<1>6. ASSUME HostStep PROVE Elements' \subseteq Elements
  BY <1>6, HostFrame DEF Elements
<1> QED
  BY <1>1, <1>2, <1>3, <1>4, <1>5, <1>6, RequestStep
  DEF NewRequestStep, PCStep, NoCallerStep, WorkStep

\* Only a pause that returns renews a token; a freed pause element stays so.
SameTokens ==
  \A p \in PETs : pe'[p].gen = pe[p].gen /\ (pe[p].state = "freed" => pe'[p].state = "freed")

\* Releases and deallocations of pause elements renew no token.
LEMMA ReleaseTokens ==
  ASSUME TypeInv, NEW code \in ReleaseCodes,
         \/ \E p \in PETs, g \in Nat : peRelease(p, g, code)
         \/ notifyAllPendingCallers(code)
         \/ peDeallocAll
         \/ pe' = pe
  PROVE  SameTokens
<1>0. pe \in [PETs -> PEs]
  BY DEF TypeInv, TypeOK, PetTypeOK
<1>1. ASSUME NEW p \in PETs, NEW g \in Nat, peRelease(p, g, code) PROVE SameTokens
  BY <1>0, <1>1, ReleaseType DEF peRelease, ReleaseWorks, SameTokens
<1>2. CASE notifyAllPendingCallers(code)
  BY <1>0, <1>2, ReleaseType DEF notifyAllPendingCallers, ReleaseWorks, SameTokens
<1>3. CASE peDeallocAll
  <2>1. ASSUME NEW p \in PETs
        PROVE  /\ [pe[p] EXCEPT !.state = "freed"].gen = pe[p].gen
               /\ [pe[p] EXCEPT !.state = "freed"].state = "freed"
               /\ [pe[p] EXCEPT !.state = "released", !.code = "TERM"].gen = pe[p].gen
    BY <1>0 DEF PEs
  <2> QED
    BY <1>3, <2>1 DEF peDeallocAll, SameTokens
<1> QED
  BY <1>1, <1>2, <1>3 DEF SameTokens

\* The abend of a caller that is paused may renew the token of its slot.
AbendStep(c) ==
  /\ PCAbend(c) /\ pc[c] = "paused"
  /\ pe' = [pe EXCEPT ![pet[c]] = [gen |-> @.gen + 1, state |-> AfterPause, code |-> "PE_OK"]]

\* What an abend in the PC routine does to its caller: it leaves, with its
\* slot dropped unless its pause had returned.
LEMMA AbendLeaves ==
  ASSUME TypeInv, NEW c \in Callers, PCAbend(c)
  PROVE  /\ pc'[c] = "idle" /\ pc[c] \in PetPlaces /\ main # "gone"
         /\ pc[c] = "resumed" \/ pet[c] \in lostPETs'
         /\ pe' = pe \/ AbendStep(c)
         /\ UNCHANGED <<workQueue, workers, reqNo, lastReq, access>> /\ UNCHANGED hostVars
         /\ pc[c] \in CopyPlaces => reqNo[c] \in abended'
BY DEF PCAbend, BrokenPause, AbendStep, LeaveWithPET, Leave, TypeInv, TypeOK, ReqTypeOK

\* A step renews no token, or it is a pause that returns, or is broken.
LEMMA TokensStep ==
  ASSUME TypeInv, Next
  PROVE  \/ SameTokens
         \/ \E c \in Callers : (Pause(c) \/ Resume(c)) /\ PauseReturns(c)
         \/ \E c \in Callers : AbendStep(c)
<1>0. pe \in [PETs -> PEs] /\ SameTokens \in BOOLEAN
  BY DEF TypeInv, TypeOK, PetTypeOK, SameTokens
<1>1. ASSUME pe' = pe PROVE SameTokens
  BY <1>1 DEF SameTokens
<1>2. ASSUME NEW c \in Callers, PCMove(c)
      PROVE  \/ pe' = pe
             \/ (Pause(c) \/ Resume(c)) /\ PauseReturns(c)
             \/ AbendStep(c)
             \/ pc[c] = "queued" /\ pe[pet[c]].state = "reset"
                  /\ pe' = [pe EXCEPT ![pet[c]].state = "paused"]
  BY <1>2, AbendLeaves
  DEF PCMove, InPC, PCEnter, PCEnterFreed, Schedule, Pause, Resume, Return, cleanCopy, PCRefuse,
      XMAbend, petVars
<1>3. ASSUME NEW c \in Callers, pc[c] = "queued", pe[pet[c]].state = "reset",
             pe' = [pe EXCEPT ![pet[c]].state = "paused"]
      PROVE  SameTokens
  BY <1>0, <1>3 DEF SameTokens, PEs
<1>4. CASE WorkStep
  <2>1. ASSUME NEW e \in Elements, NEW code \in ReleaseCodes, releaseCaller(e, code)
        PROVE  SameTokens
    BY <2>1, ElementsType, ReleaseTokens DEF releaseCaller, completionPET
  <2>2. CASE workElementHandler
    <3>1. Head(workQueue) \in Elements
      <4>1. workQueue \in Seq(WorkElements) /\ workQueue # <<>>
        BY <2>2 DEF workElementHandler, TypeInv, TypeOK, WorkTypeOK
      <4>2. 1 \in DOMAIN workQueue /\ Head(workQueue) = workQueue[1]
        BY <4>1, LenProperties, EmptySeq, HeadTailProperties
      <4> QED
        BY <4>2 DEF Elements
    <3> QED
      BY <1>1, <2>1, <2>2, <3>1 DEF workElementHandler, ReleaseCodes
  <2>3. ASSUME NEW w \in workers, Worker(w) PROVE SameTokens
    <3>1. w.e \in Elements
      BY DEF Elements
    <3>2. pe' = pe \/ \E code \in ReleaseCodes : releaseCaller(w.e, code)
      BY <2>3 DEF Worker, WorkerHandle, WorkerRelease, WorkerFail, ReleaseCodes, petVars
    <3> QED
      BY <1>1, <2>1, <3>1, <3>2
  <2> QED
    BY <1>4, <2>2, <2>3 DEF WorkStep
<1>5. CASE HostStep
  BY <1>5, HostFrame, ReleaseTokens DEF ReleaseCodes
<1> QED
  BY <1>1, <1>2, <1>3, <1>4, <1>5, RequestStep DEF NewRequestStep, PCStep, NoCallerStep

\* A request that is current stays so until its token is renewed, its pause
\* element is freed or the address space is gone.
LEMMA CurrentStep ==
  ASSUME TokenInv, Next, NEW e \in Elements, Current(e)
  PROVE  \/ Current(e)'
         \/ pe'[e.p].gen = e.g + 1 /\ e.g = pe[e.p].gen
         \/ e.p \in lostPETs'
         \/ e.g # pe[e.p].gen
         \/ pe[e.p].state = "freed"
         \/ main = "gone"
<1>0. /\ e.c \in Callers /\ e.p \in PETs /\ e.g \in Nat /\ pe \in [PETs -> PEs]
      /\ pc \in [Callers -> Places] /\ pet \in [Callers -> PETs \cup {NoPET}]
      /\ reqNo \in [Callers -> Nat]
  BY ElementsType DEF TokenInv, PoolInv, TypeInv, TypeOK, PetTypeOK, ReqTypeOK
<1> USE <1>0 DEF Current
<1>1. ASSUME NEW c \in Callers, NewRequestStep(c) PROVE Current(e)'
  BY <1>1 DEF NewRequestStep
<1>2. ASSUME NEW c \in Callers, c # e.c, PCMove(c) PROVE Current(e)'
  BY <1>2 DEF PCMove, InPC, PCEnter, PCEnterFreed, Schedule, Pause, Resume, Return, cleanCopy, PCRefuse, PCAbend,
              XMAbend, LeaveWithPET, Leave, Stay, takePET, PauseReturns
<1>3. CASE PCMove(e.c)
  <2>1. CASE PauseReturns(e.c)
    BY <2>1 DEF PauseReturns
  <2>2. CASE ~PauseReturns(e.c) /\ ~PCAbend(e.c)
    BY <1>3, <2>2 DEF PCMove, InPC, PCEnter, PCEnterFreed, Schedule, Pause, Resume, Return,
                      cleanCopy, PCRefuse, XMAbend, Stay
  <2>3. CASE PCAbend(e.c)
    BY <2>3, AbendLeaves DEF TokenInv, PoolInv
  <2> QED
    BY <2>1, <2>2, <2>3
<1>4. CASE NoCallerStep
  BY <1>4 DEF NoCallerStep
<1> QED
  BY <1>1, <1>2, <1>3, <1>4, RequestStep DEF PCStep

\* Every step preserves the invariant of the tokens.
LEMMA TokenStep == TokenInv /\ [Next]_vars => TokenInv'
<1> SUFFICES ASSUME TokenInv, [Next]_vars PROVE TokenInv'
  OBVIOUS
<1>1. PoolInv'
  BY PoolStep DEF TokenInv
<1>2. CASE UNCHANGED vars
  BY <1>1, <1>2 DEF vars, hostVars, petVars, workVars, reqVars, TokenInv, TokenNotAhead,
                    TokenCurrent, GoneIsEmpty, Current, Elements
<1>3. CASE Next
  <2>0. TypeInv /\ pe \in [PETs -> PEs] /\ pc \in [Callers -> Places]
    BY DEF TokenInv, PoolInv, TypeInv, TypeOK, PetTypeOK, ReqTypeOK
  <2>1. \A p \in PETs : pe[p].gen \in Nat /\ pe'[p].gen \in Nat
    BY <1>1, <2>0 DEF PoolInv, TypeInv, TypeOK, PetTypeOK, PEs
  <2>2. ASSUME NEW p \in PETs
        PROVE  \/ pe'[p].gen = pe[p].gen /\ (pe[p].state = "freed" => pe'[p].state = "freed")
               \/ pe'[p].gen = pe[p].gen + 1
    <3>1. CASE SameTokens
      BY <3>1 DEF SameTokens
    <3>2. ASSUME NEW c \in Callers, PauseReturns(c)
          PROVE  pe'[p] = pe[p] \/ pe'[p].gen = pe[p].gen + 1
      BY <2>0, <3>2 DEF PauseReturns
    <3>3. ASSUME NEW c \in Callers, AbendStep(c)
          PROVE  pe'[p] = pe[p] \/ pe'[p].gen = pe[p].gen + 1
      BY <2>0, <3>3 DEF AbendStep
    <3> QED
      BY <1>3, <2>0, <3>1, <3>2, <3>3, TokensStep
  <2>3. GoneIsEmpty'
    <3>1. CASE main = "gone"
      <4>1. Elements = {}
        BY <3>1 DEF TokenInv, GoneIsEmpty, Elements
      <4>2. Elements' = {}
        BY <1>3, <2>0, <3>1, <4>1, ElementsStep DEF Schedule
      <4>3. workQueue' \in Seq(WorkElements)
        BY <1>1 DEF PoolInv, TypeInv, TypeOK, WorkTypeOK
      <4>4. DOMAIN workQueue' = {} /\ workers' = {}
        BY <4>2 DEF Elements
      <4>5. workQueue' = <<>>
        BY <4>3, <4>4, LenProperties, EmptySeq
      <4> QED
        BY <4>4, <4>5 DEF GoneIsEmpty
    <3>2. CASE main # "gone"
      BY <1>3, <3>2, RequestStep, HostFrame DEF NewRequestStep, PCStep, NoCallerStep, GoneIsEmpty
    <3> QED
      BY <3>1, <3>2
  <2>4. ASSUME NEW e \in Elements
        PROVE  /\ e.g <= pe'[e.p].gen
               /\ e.g = pe'[e.p].gen /\ pe'[e.p].state # "freed" => Current(e)' \/ e.p \in lostPETs'
    <3>1. e.p \in PETs /\ e.g \in Nat /\ e.g <= pe[e.p].gen
      BY <2>0, ElementsType DEF TokenInv, TokenNotAhead
    <3>2. e.g <= pe'[e.p].gen
      BY <2>1, <2>2, <3>1
    <3>3. ASSUME e.g = pe'[e.p].gen, pe'[e.p].state # "freed", e.p \notin lostPETs'
          PROVE  Current(e)'
      <4>1. e.g = pe[e.p].gen /\ pe[e.p].state # "freed" /\ e.p \notin lostPETs
        BY <1>3, <2>1, <2>2, <3>1, <3>3, LostForGood DEF TokenInv
      <4>2. Current(e) /\ main # "gone"
        BY <4>1 DEF TokenInv, TokenCurrent, GoneIsEmpty, Elements
      <4>3. Current(e)' \/ pe'[e.p].gen = e.g + 1
        BY <1>3, <3>3, <4>1, <4>2, CurrentStep
      <4> QED
        BY <3>1, <3>3, <4>3
    <3> QED
      BY <3>2, <3>3
  <2>5. ASSUME NEW c \in Callers, Schedule(c), isPETValid(pet[c]), Stay(c, "queued"), pet' = pet,
               NEW e, e = Element(c)
        PROVE  e.g <= pe'[e.p].gen /\ Current(e)'
    <3>1. e.c = c /\ e.n = reqNo[c] /\ e.p = pet[c] /\ e.g = requestPETs[pet[c]]
      BY <2>5 DEF Element
    <3>2. pe' = pe /\ reqNo' = reqNo /\ pc'[c] = "queued" /\ pe[pet[c]].gen = requestPETs[pet[c]]
      BY <2>0, <2>5 DEF Schedule, Stay, isPETValid
    <3>3. pet[c] \in PETs
      BY <2>0, <2>5 DEF Schedule, TypeInv, HeldIsSlot, PetPlaces
    <3> QED
      BY <2>1, <2>5, <3>1, <3>2, <3>3 DEF Current
  <2>6. TokenNotAhead' /\ TokenCurrent'
    <3> SUFFICES ASSUME NEW e \in Elements'
                 PROVE  /\ e.g <= pe'[e.p].gen
                        /\ e.g = pe'[e.p].gen /\ pe'[e.p].state # "freed" => Current(e)' \/ e.p \in lostPETs'
      BY DEF TokenNotAhead, TokenCurrent, Current
    <3> QED
      BY <1>3, <2>0, <2>4, <2>5, ElementsStep
  <2> QED
    BY <1>1, <2>3, <2>6 DEF TokenInv
<1> QED
  BY <1>2, <1>3

\* There is no work element at the start.
LEMMA TokenInit == Init => TokenInv
<1> SUFFICES ASSUME Init PROVE TokenInv
  OBVIOUS
<1>1. Elements = {} /\ main # "gone"
  BY DEF Init, Elements
<1> QED
  BY <1>1, PoolInit DEF TokenInv, TokenNotAhead, TokenCurrent, GoneIsEmpty

\* The invariant on tokens gives TokenOwned: an element whose token can still
\* release a pause element belongs to the caller that waits there.
LEMMA TokenInvOwned == TokenInv => TokenOwned
<1> SUFFICES ASSUME TokenInv, NEW e \in Elements, CanWake(e) PROVE Current(e) \/ e.p \in lostPETs
  BY DEF TokenOwned, Current
<1> QED
  BY DEF TokenInv, TokenCurrent, CanWake, ReleaseWorks, completionPET

\* The token of a work element never wakes anybody but the caller that queued
\* it, in the request that it was queued for: asyncRequestHanler,
\* handleCommRequest and workElementHandler cannot release the next user of a
\* recycled slot.
THEOREM TokensOwned == Spec => []TokenOwned
<1> QED
  BY TokenInit, TokenStep, TokenInvOwned, PTL DEF Spec

-----------------------------------------------------------------------------
(***************************************************************************)
(* The order of handling and waking.                                       *)
(***************************************************************************)
SameRequest(e, f) == e.c = f.c /\ e.n = f.n
Pending(c) == \E e \in Elements : e.c = c /\ e.n = reqNo[c]

\* Request numbers are handed out once, and a request has no element before
\* it is queued.
NumbersFresh ==
  /\ \A c \in Callers : reqNo[c] <= lastReq
  /\ \A e \in Elements : e.n <= lastReq
  /\ \A c \in Callers : pc[c] \in {"calling", "holding"} => ~Pending(c)

\* A request has one element: in the queue or with one worker.
OneElement ==
  /\ \A i, j \in DOMAIN workQueue : SameRequest(workQueue[i], workQueue[j]) => i = j
  /\ \A i \in DOMAIN workQueue : \A w \in workers : ~SameRequest(workQueue[i], w.e)
  /\ \A v, w \in workers : SameRequest(v.e, w.e) => v = w

\* A slot that was released with ZISAUX_PE_OK, and was not lost, is held by a caller that has
\* not returned from its pause and whose request was handled.
Signalled(p) == pe[p].state \in {"prereleased", "released"} /\ pe[p].code = "PE_OK"
SignalledIsHandled ==
  main # "gone" => \A p \in PETs \ lostPETs : Signalled(p) =>
    \E c \in Callers : pet[c] = p /\ pc[c] \in {"queued", "paused"} /\ ~Pending(c)

HandledInv == TokenInv /\ NumbersFresh /\ OneElement /\ SignalledIsHandled /\ HandledBeforeOK

\* The types that the following lemmas use.
LEMMA HandledTypes ==
  ASSUME HandledInv
  PROVE  /\ TypeInv /\ pc \in [Callers -> Places] /\ pet \in [Callers -> PETs \cup {NoPET}]
         /\ reqNo \in [Callers -> Nat] /\ lastReq \in Nat /\ pe \in [PETs -> PEs]
         /\ relCode \in [Callers -> ReleaseCodes]
BY DEF HandledInv, TokenInv, PoolInv, TypeInv, TypeOK, ReqTypeOK, PetTypeOK

\* Every step keeps request numbers fresh.
LEMMA FreshStep ==
  ASSUME HandledInv, Next
  PROVE  NumbersFresh'
<1> USE HandledTypes DEF Pending
<1>0. NumbersFresh /\ \A e \in Elements : e.n \in Nat /\ e.c \in Callers
  BY ElementsType DEF HandledInv
<1>1. ASSUME NEW c \in Callers, NewRequestStep(c) PROVE NumbersFresh'
  <2>1. Elements' = Elements
    BY <1>1 DEF NewRequestStep, Elements
  <2>2. /\ \A d \in Callers : reqNo'[d] <= lastReq'
        /\ \A e \in Elements : e.n <= lastReq' /\ e.n < lastReq + 1
    BY <1>0, <1>1 DEF NewRequestStep, NumbersFresh
  <2>3. ASSUME NEW d \in Callers, pc'[d] \in {"calling", "holding"},
               NEW e \in Elements, e.c = d, e.n = reqNo'[d]
        PROVE  FALSE
    <3>1. CASE d = c
      BY <1>0, <1>1, <2>2, <2>3, <3>1 DEF NewRequestStep
    <3>2. CASE d # c
      BY <1>0, <1>1, <2>3, <3>2 DEF NewRequestStep, NumbersFresh
    <3> QED
      BY <3>1, <3>2
  <2> QED
    BY <2>1, <2>2, <2>3 DEF NumbersFresh
<1>2. ASSUME UNCHANGED <<reqNo, lastReq>>,
             \A d \in Callers : pc'[d] \in {"calling", "holding"} => pc[d] \in {"calling", "holding"}
      PROVE  NumbersFresh'
  <2>1. CASE Elements' \subseteq Elements
    BY <1>0, <1>2, <2>1 DEF NumbersFresh
  <2>2. ASSUME NEW c \in Callers, Schedule(c), Stay(c, "queued"),
               Elements' \subseteq Elements \cup {Element(c)}
        PROVE  NumbersFresh'
    <3>1. Element(c).c = c /\ Element(c).n = reqNo[c] /\ pc'[c] = "queued"
      BY <2>2 DEF Element, Stay
    <3> QED
      BY <1>0, <1>2, <2>2, <3>1 DEF NumbersFresh
  <2> QED
    BY <2>1, <2>2, ElementsStep
<1>3. ASSUME NEW c \in Callers, PCStep(c)
      PROVE  \A d \in Callers : pc'[d] \in {"calling", "holding"} => pc[d] \in {"calling", "holding"}
  BY <1>3 DEF PCStep, PCMove, InPC, PCEnter, PCEnterFreed, Schedule, Pause, Resume, Return, cleanCopy, PCRefuse, PCAbend,
              XMAbend, LeaveWithPET, Leave, Stay, PauseReturns
<1> QED
  BY <1>1, <1>2, <1>3, RequestStep DEF PCStep, NoCallerStep

\* Every step keeps one element per request.
LEMMA OneElementStep ==
  ASSUME HandledInv, Next
  PROVE  OneElement'
<1> USE HandledTypes
<1>0. /\ OneElement /\ workQueue \in Seq(WorkElements)
      /\ workers \subseteq [e : WorkElements, step : {"running", "handled"}]
  BY DEF HandledInv, TypeInv, TypeOK, WorkTypeOK
<1>1. CASE UNCHANGED <<workQueue, workers>>
  BY <1>0, <1>1 DEF OneElement
<1>2. ASSUME NEW c \in Callers, Schedule(c), workQueue' = Append(workQueue, Element(c)),
             workers' = workers
      PROVE  OneElement'
  <2> DEFINE x == Element(c)
  <2>1. x \in WorkElements /\ x.c = c /\ x.n = reqNo[c]
    <3>1. x.c = c /\ x.n = reqNo[c]
      BY DEF Element
    <3> QED
      BY <1>2, <3>1, ElementType DEF Schedule, PetPlaces
  <2>2. \A e \in Elements : ~SameRequest(e, x) /\ ~SameRequest(x, e)
    BY <1>2, <2>1 DEF HandledInv, NumbersFresh, Pending, Schedule, SameRequest
  <2>3. \A i \in DOMAIN workQueue : workQueue[i] \in Elements
    BY DEF Elements
  <2>4. \A w \in workers : w.e \in Elements
    BY DEF Elements
  <2>5. \A i \in DOMAIN workQueue' : \/ i = Len(workQueue) + 1 /\ workQueue'[i] = x
                                     \/ i \in DOMAIN workQueue /\ workQueue'[i] = workQueue[i]
    BY <1>0, <1>2, <2>1, AppendProperties, LenProperties
  <2> HIDE DEF x
  <2> QED
    BY <1>0, <1>2, <2>2, <2>3, <2>4, <2>5 DEF OneElement
<1>3. CASE workElementHandler
  <2>1. /\ Len(workQueue) \in Nat \ {0} /\ DOMAIN workQueue = 1..Len(workQueue)
        /\ DOMAIN workQueue' = 1..(Len(workQueue) - 1) /\ Head(workQueue) = workQueue[1]
        /\ \A i \in DOMAIN workQueue' : workQueue'[i] = workQueue[i + 1]
    BY <1>0, <1>3, HeadTailProperties, LenProperties, EmptySeq DEF workElementHandler
  <2>2. \A i \in DOMAIN workQueue' : i + 1 \in DOMAIN workQueue /\ i + 1 # 1 /\ 1 \in DOMAIN workQueue
    BY <2>1
  <2>3. \A w \in workers' : w \in workers \/ w = [e |-> workQueue[1], step |-> "running"]
    BY <1>3, <2>1 DEF workElementHandler
  <2>4. \A i, j \in DOMAIN workQueue' : SameRequest(workQueue'[i], workQueue'[j]) => i = j
    <3> SUFFICES ASSUME NEW i \in DOMAIN workQueue', NEW j \in DOMAIN workQueue',
                        SameRequest(workQueue'[i], workQueue'[j])
                 PROVE  i = j
      OBVIOUS
    <3>1. i + 1 = j + 1
      BY <1>0, <2>1, <2>2 DEF OneElement
    <3> QED
      BY <2>1, <3>1
  <2>5. \A i \in DOMAIN workQueue' : \A w \in workers' : ~SameRequest(workQueue'[i], w.e)
    BY <1>0, <2>1, <2>2, <2>3 DEF OneElement
  <2>6. \A v, w \in workers' : SameRequest(v.e, w.e) => v = w
    <3> DEFINE x == [e |-> workQueue[1], step |-> "running"]
    <3>1. x.e = workQueue[1] /\ 1 \in DOMAIN workQueue
      BY <2>1
    <3>2. \A w \in workers : ~SameRequest(x.e, w.e) /\ ~SameRequest(w.e, x.e)
      BY <1>0, <3>1 DEF OneElement, SameRequest
    <3>3. \A w \in workers' : w \in workers \/ w = x
      BY <2>3
    <3> HIDE DEF x
    <3> QED
      BY <1>0, <3>2, <3>3 DEF OneElement
  <2> QED
    BY <2>4, <2>5, <2>6 DEF OneElement
<1>4. ASSUME NEW w \in workers, Worker(w) PROVE OneElement'
  <2> DEFINE h == [w EXCEPT !.step = "handled"]
  <2>1. workQueue' = workQueue /\ workers' \subseteq (workers \ {w}) \cup {h}
    BY <1>4 DEF Worker, WorkerHandle, WorkerRelease, WorkerFail
  <2>2. h.e = w.e
    BY <1>0
  <2> HIDE DEF h
  <2>3. \A v \in workers \ {w} : ~SameRequest(h.e, v.e) /\ ~SameRequest(v.e, h.e)
    BY <1>0, <2>2 DEF OneElement, SameRequest
  <2>4. \A u, v \in workers' : SameRequest(u.e, v.e) => u = v
    BY <1>0, <2>1, <2>3 DEF OneElement
  <2>5. \A i \in DOMAIN workQueue : \A v \in workers' : ~SameRequest(workQueue[i], v.e)
    BY <1>0, <2>1, <2>2 DEF OneElement
  <2> QED
    BY <1>0, <2>1, <2>4, <2>5 DEF OneElement
<1>5. CASE HostStep
  BY <1>0, <1>5, HostFrame DEF OneElement
<1>6. ASSUME NEW c \in Callers, PCStep(c)
      PROVE  UNCHANGED <<workQueue, workers>>
             \/ (Schedule(c) /\ workQueue' = Append(workQueue, Element(c)) /\ workers' = workers)
  BY <1>6 DEF PCStep, PCMove, InPC, PCEnter, PCEnterFreed, Schedule, Pause, Resume, Return, cleanCopy, PCRefuse, PCAbend,
              XMAbend, workVars
<1> QED
  BY <1>1, <1>2, <1>3, <1>4, <1>5, <1>6, RequestStep DEF NewRequestStep, NoCallerStep, WorkStep

\* A request that has no element any more, and has not returned, gets none.
LEMMA PendingKept ==
  ASSUME HandledInv, Next, NEW c \in Callers, pc[c] \in {"queued", "paused", "resumed"}, ~Pending(c)
  PROVE  ~Pending(c)'
<1> USE HandledTypes
<1>1. reqNo'[c] = reqNo[c]
  BY RequestStep DEF NewRequestStep, PCStep, NoCallerStep
<1>2. CASE Elements' \subseteq Elements
  BY <1>1, <1>2 DEF Pending
<1>3. ASSUME NEW d \in Callers, Schedule(d), Elements' \subseteq Elements \cup {Element(d)}
      PROVE  ~Pending(c)'
  <2>1. Element(d).c = d /\ d # c
    BY <1>3 DEF Element, Schedule
  <2> QED
    BY <1>1, <1>3, <2>1 DEF Pending
<1> QED
  BY <1>2, <1>3, ElementsStep

\* A slot is signalled with ZISAUX_PE_OK by the release of handleCommRequest.
LEMMA NewSignal ==
  ASSUME HandledInv, Next, NEW p \in PETs, ~Signalled(p), Signalled(p)'
  PROVE  \E w \in workers : WorkerRelease(w) /\ CanWake(w.e) /\ w.e.p = p
<1> USE HandledTypes DEF Signalled
<1>1. pe'[p] # pe[p]
  OBVIOUS
<1>2. ASSUME NEW c \in Callers, PCStep(c) PROVE FALSE
  <2>1. \/ pe' = pe
        \/ pe' = [pe EXCEPT ![pet[c]].state = "paused"]
        \/ PauseReturns(c) \/ AbendStep(c)
    BY <1>2, AbendLeaves
    DEF PCStep, PCMove, InPC, PCEnter, PCEnterFreed, Schedule, Pause, Resume, Return, cleanCopy, PCRefuse,
        XMAbend, petVars
  <2>2. CASE PauseReturns(c)
    BY <1>1, <2>2 DEF PauseReturns, AfterPause
  <2>3. CASE pe' = [pe EXCEPT ![pet[c]].state = "paused"]
    BY <1>1, <2>3 DEF PEs
  <2>4. CASE AbendStep(c)
    BY <1>1, <2>4 DEF AbendStep, AfterPause
  <2> QED
    BY <1>1, <2>1, <2>2, <2>3, <2>4
<1>3. ASSUME NEW q \in PETs, NEW g, NEW code \in ReleaseCodes, peRelease(q, g, code)
      PROVE  code = "PE_OK" /\ q = p /\ ReleaseWorks(q, g)
  BY <1>1, <1>3, ReleaseType DEF peRelease
<1>4. CASE workElementHandler
  <2>1. Head(workQueue).p \in PETs
    <3>1. workQueue \in Seq(WorkElements) /\ workQueue # <<>>
      BY <1>4 DEF workElementHandler, TypeInv, TypeOK, WorkTypeOK
    <3>2. Head(workQueue) \in WorkElements
      BY <3>1, HeadTailProperties
    <3> QED
      BY <3>2 DEF WorkElements
  <2> QED
    BY <1>1, <1>3, <1>4, <2>1 DEF workElementHandler, releaseCaller, ReleaseCodes
<1>5. ASSUME NEW w \in workers, Worker(w) PROVE WorkerRelease(w) /\ CanWake(w.e) /\ w.e.p = p
  <2>1. w.e.p \in PETs
    BY DEF TypeInv, TypeOK, WorkTypeOK, WorkElements
  <2>2. CASE WorkerHandle(w)
    BY <1>1, <2>2 DEF WorkerHandle, petVars
  <2>3. CASE WorkerRelease(w)
    BY <1>3, <2>1, <2>3 DEF WorkerRelease, releaseCaller, CanWake, ReleaseCodes
  <2>4. CASE WorkerFail(w)
    <3>1. PICK code \in {"WORKER_ABEND", "ENV_ERROR"} : releaseCaller(w.e, code)
      BY <2>4 DEF WorkerFail
    <3> QED
      BY <1>3, <2>1, <3>1 DEF releaseCaller, ReleaseCodes
  <2> QED
    BY <1>5, <2>2, <2>3, <2>4 DEF Worker
<1>6. CASE HostStep
  <2>2. ASSUME NEW code \in {"HOST_ABEND", "CANCEL"}, notifyAllPendingCallers(code) PROVE FALSE
    BY <1>1, <2>2, ReleaseType DEF notifyAllPendingCallers, ReleaseCodes
  <2>3. CASE peDeallocAll
    <3>1. pe[p] \in PEs
      OBVIOUS
    <3> QED
      BY <1>1, <2>3, <3>1 DEF peDeallocAll, PEs
  <2> QED
    BY <1>1, <1>6, <2>2, <2>3, HostFrame
<1> QED
  BY <1>1, <1>2, <1>4, <1>5, <1>6, RequestStep DEF NewRequestStep, NoCallerStep, WorkStep

\* A signalled slot keeps its handled holder until the holder's pause returns.
LEMMA SignalledStep ==
  ASSUME HandledInv, Next
  PROVE  SignalledIsHandled'
<1> USE HandledTypes
<1>0. SUFFICES ASSUME main' # "gone", NEW p \in PETs, p \notin lostPETs', Signalled(p)'
               PROVE  \E c \in Callers : pet'[c] = p /\ pc'[c] \in {"queued", "paused"} /\ ~Pending(c)'
  BY DEF SignalledIsHandled, Signalled, Pending
<1>3. p \notin lostPETs
  BY <1>0, LostForGood DEF HandledInv, TokenInv
<1>1. CASE Signalled(p)
  <2>1. main # "gone"
    BY <1>0, GoneForGood
  <2>2. PICK c \in Callers : pet[c] = p /\ pc[c] \in {"queued", "paused"} /\ ~Pending(c)
    BY <1>1, <1>3, <2>1 DEF HandledInv, SignalledIsHandled
  <2>3. ~Pending(c)'
    BY <2>2, PendingKept
  <2>4. pet'[c] = pet[c] /\ pc'[c] \in {"queued", "paused"}
    <3>1. ASSUME NEW d \in Callers, d # c, PCStep(d) PROVE pet'[c] = pet[c] /\ pc'[c] = pc[c]
      BY <3>1 DEF PCStep, PCMove, InPC, PCEnter, PCEnterFreed, Schedule, Pause, Resume, Return, cleanCopy, PCRefuse, PCAbend,
                  XMAbend, LeaveWithPET, Leave, Stay, takePET, PauseReturns
    <3>2. CASE PCStep(c)
      <4>1. ~PauseReturns(c)
        BY <1>0, <2>2 DEF PauseReturns, AfterPause, Signalled
      <4> QED
        BY <1>0, <1>1, <2>1, <2>2, <3>2, <4>1, AbendLeaves DEF PCStep, PCMove, InPC, PCEnter,
           PCEnterFreed, Schedule, Pause, Resume, Return, cleanCopy, PCRefuse, XMAbend, Signalled
    <3>3. ASSUME NEW d \in Callers, NewRequestStep(d) PROVE pet'[c] = pet[c] /\ pc'[c] = pc[c]
      BY <2>2, <3>3 DEF NewRequestStep
    <3> QED
      BY <2>2, <3>1, <3>2, <3>3, RequestStep DEF NoCallerStep
  <2> QED
    BY <2>2, <2>3, <2>4
<1>2. CASE ~Signalled(p)
  <2>1. PICK w \in workers : WorkerRelease(w) /\ CanWake(w.e) /\ w.e.p = p
    BY <1>0, <1>2, NewSignal
  <2>2. w.e \in Elements /\ w.e.c \in Callers /\ Current(w.e)
    <3>1. w.e \in Elements
      BY DEF Elements
    <3> QED
      BY <1>3, <2>1, <3>1, ElementsType, TokenInvOwned DEF HandledInv, TokenOwned, Current
  <2>3. UNCHANGED <<pc, pet, reqNo, workQueue>> /\ workers' = workers \ {w}
    BY <2>1 DEF WorkerRelease
  <2>4. ~Pending(w.e.c)'
    <3>1. ASSUME NEW e \in Elements', e.c = w.e.c, e.n = w.e.n PROVE FALSE
      BY <2>3, <3>1 DEF Elements, HandledInv, OneElement, SameRequest
    <3> QED
      BY <2>2, <2>3, <3>1 DEF Pending, Current
  <2> QED
    BY <2>1, <2>2, <2>3, <2>4 DEF Current
<1> QED
  BY <1>1, <1>2

\* Every step keeps HandledInv.
LEMMA HandledStep == HandledInv /\ [Next]_vars => HandledInv'
<1> SUFFICES ASSUME HandledInv, [Next]_vars PROVE HandledInv'
  OBVIOUS
<1>1. TokenInv'
  BY TokenStep DEF HandledInv
<1>2. CASE UNCHANGED vars
  BY <1>1, <1>2 DEF vars, hostVars, petVars, workVars, reqVars, HandledInv, NumbersFresh, OneElement,
     SignalledIsHandled, HandledBeforeOK, Signalled, Pending, Elements
<1>3. CASE Next
  <2>1. HandledBeforeOK'
    <3> SUFFICES ASSUME NEW c \in Callers, pc'[c] = "resumed", relCode'[c] = "PE_OK"
                 PROVE  ~Pending(c)'
      BY DEF HandledBeforeOK, Pending
    <3>1. CASE pc[c] = "resumed" /\ relCode[c] = "PE_OK"
      <4>1. ~Pending(c)
        BY <3>1 DEF HandledInv, HandledBeforeOK, Pending
      <4> QED
        BY <1>3, <3>1, <4>1, PendingKept
    <3>2. CASE ~(pc[c] = "resumed" /\ relCode[c] = "PE_OK")
      <4> USE HandledTypes
      <4>1. PCStep(c)
        <5>1. ASSUME NEW d \in Callers, d # c, PCStep(d)
              PROVE  pc'[c] = pc[c] /\ relCode'[c] = relCode[c]
          BY <5>1 DEF PCStep, PCMove, InPC, PCEnter, PCEnterFreed, Schedule, Pause, Resume, Return,
                      cleanCopy, PCRefuse, PCAbend, XMAbend, LeaveWithPET, Leave, Stay, PauseReturns
        <5> QED
          BY <1>3, <3>2, <5>1, RequestStep DEF NewRequestStep, NoCallerStep
      <4>2. PauseReturns(c) /\ pc[c] \in {"queued", "paused"} /\ main # "gone"
            /\ pe[pet[c]].state \in {"prereleased", "released"}
        BY <3>2, <4>1 DEF PCStep, PCMove, InPC, PCEnter, PCEnterFreed, Schedule, Pause, Resume, Return,
                    cleanCopy, PCRefuse, PCAbend, XMAbend, LeaveWithPET, Leave, Stay
      <4>3. pet[c] \in PETs /\ Signalled(pet[c])
        BY <4>2 DEF PauseReturns, Signalled, TypeInv, HeldIsSlot, PetPlaces
      <4>4. PICK d \in Callers : pet[d] = pet[c] /\ pc[d] \in {"queued", "paused"} /\ ~Pending(d)
        <5>1. pet[c] \notin lostPETs
          BY <4>2 DEF HandledInv, TokenInv, PoolInv, PETExclusive, Holds, PetPlaces
        <5> QED
          BY <4>2, <4>3, <5>1 DEF HandledInv, SignalledIsHandled
      <4>5. d = c
        BY <4>2, <4>4 DEF HandledInv, TokenInv, PoolInv, PETExclusive, Holds, PetPlaces
      <4> QED
        BY <1>3, <4>2, <4>4, <4>5, PendingKept
    <3> QED
      BY <3>1, <3>2
  <2> QED
    BY <1>1, <1>3, <2>1, FreshStep, OneElementStep, SignalledStep DEF HandledInv
<1> QED
  BY <1>2, <1>3

\* The invariant on handled requests holds at the start.
LEMMA HandledInit == Init => HandledInv
<1> SUFFICES ASSUME Init PROVE HandledInv
  OBVIOUS
<1>1. Elements = {} /\ workers = {} /\ DOMAIN workQueue = {}
  BY DEF Init, Elements
<1>2. \A p \in PETs : ~Signalled(p)
  BY DEF Init, Signalled
<1>3. lastReq = 0 /\ \A c \in Callers : reqNo[c] = 0 /\ pc[c] = "idle"
  BY DEF Init
<1>4. ASSUME NEW c \in Callers PROVE reqNo[c] <= lastReq
  <2>1. reqNo[c] = 0 /\ lastReq = 0
    BY <1>3
  <2> QED
    BY <2>1
<1> QED
  BY <1>1, <1>2, <1>3, <1>4, TokenInit
  DEF HandledInv, NumbersFresh, OneElement, SignalledIsHandled, HandledBeforeOK, Pending

\* A caller that takes its status from auxRC (its pause returned
\* ZISAUX_PE_OK) has been handled: no work element and no worker of its
\* request is left that could still write to its parameter list copy.
THEOREM HandledFirst == Spec => []HandledBeforeOK
<1>1. HandledInv => HandledBeforeOK
  BY DEF HandledInv
<1> QED
  BY HandledInit, HandledStep, <1>1, PTL DEF Spec

-----------------------------------------------------------------------------
(***************************************************************************)
(* The end of the host: who is released by whom, and what is left behind.  *)
(***************************************************************************)
Serving   == main \in {"init", "loop", "closing", "sleeping", "terminated"}
Cancelled == main \in {"ended", "gone"}

\* A release that the host makes for all its callers, or the end of a pause
\* element.  The status of such a request is not OK.
HostCodes == {"HOST_ABEND", "TERM"}
HostReleased(p) ==
  pe[p].state = "freed" \/ (pe[p].state \in {"prereleased", "released"} /\ pe[p].code \in HostCodes)
Blamed(c) == IF pc[c] = "resumed" THEN relCode[c] \in HostCodes ELSE HostReleased(pet[c])

\* Nobody is about to pause on a slot, or does.
Unused(p) == \A c \in Callers : pc[c] \in {"queued", "paused"} => pet[c] # p

\* Only the host releases a slot of the pool in advance.
QuietSlots   == ~Cancelled => \A p \in PETs \ lostPETs : Unused(p) => pe[p].state = "reset" \/ HostReleased(p)
ServingClean == Serving => \A p \in PETs : ~HostReleased(p)

\* A caller whose work element exists waits for it, unless the host has
\* released it; while the host serves, nobody else releases it, and only an
\* abend of the caller itself ends the wait.
Awaited(e) == CanWake(e) /\ e.p \notin lostPETs
OpenOrBlamed(e) == CopyAlive(e) => pet[e.c] = e.p /\ (CanWake(e) \/ Blamed(e.c))
ElementsOpen == ~Cancelled => \A e \in Elements : OpenOrBlamed(e)
ServingOpen  == Serving => \A e \in Elements : Awaited(e) \/ e.n \in abended
WorkersEnd   == Cancelled => workers = {}

\* The host has access only to the buffers that the copy names, unless a
\* worker cleaned the copy of a request that the host had released.
AccessOK == \A c \in Callers : pc[c] \in CopyPlaces => access[c] \subseteq bufs[c] \/ Blamed(c)

\* Who stops the main loop has said so in the flags before.
StopFlagged ==
  /\ main = "init" => commTask = "none" /\ workers = {} /\ (shutdown => earlyStop)
  /\ commTask = "signalled" \/ (shutdown /\ ~earlyStop) => "TERM_COMMAND_RECEIVED" \in flags
  /\ NormalTermination

EndInv ==
  /\ HandledInv /\ QuietSlots /\ ServingClean /\ ElementsOpen /\ ServingOpen /\ WorkersEnd
  /\ NoStrayTouch /\ AccessOK /\ AccessReleased

\* What a step does to the pause elements: nothing, the pause of a caller, its
\* return, a release on behalf of a work element, which goes with it, or the
\* end of the host.
PauseStep(c)  == /\ pc[c] = "queued" /\ pe[pet[c]].state = "reset" /\ pe' = [pe EXCEPT ![pet[c]].state = "paused"]
                 /\ pc' = [pc EXCEPT ![c] = "paused"] /\ UNCHANGED <<pet, relCode>>
ReturnStep(c) == /\ pc[c] \in {"queued", "paused"} /\ pe[pet[c]].state \in {"prereleased", "released"}
                 /\ main # "gone" /\ PauseReturns(c)
ElementDone(f) ==
  /\ \E code \in ReleaseCodes \ HostCodes : releaseCaller(f, code)
  /\ \A e \in Elements' : ~SameRequest(e, f)
  /\ UNCHANGED <<pc, pet, relCode>>
HostEnds ==
  /\ \/ peDeallocAll /\ main' = "deallocated"
     \/ notifyAllPendingCallers("HOST_ABEND") /\ main' = "abended"
     \/ notifyAllPendingCallers("CANCEL") /\ main' = "ended"
  /\ UNCHANGED <<pc, pet, relCode>>

\* The work element that a release is made for is the only one of its request,
\* and is taken off the queue or ends with its worker.
LEMMA WorkReleases ==
  ASSUME HandledInv, WorkStep
  PROVE  pe' = pe \/ \E f \in Elements : ElementDone(f)
<1>0. /\ OneElement /\ workQueue \in Seq(WorkElements) /\ UNCHANGED <<pc, pet, relCode>>
  BY DEF HandledInv, TokenInv, PoolInv, TypeInv, TypeOK, WorkTypeOK, WorkStep, workElementHandler, Worker,
         WorkerHandle, WorkerRelease, WorkerFail, reqVars
<1>1. CASE workElementHandler /\ pe' # pe
  <2>1. /\ Len(workQueue) \in Nat \ {0} /\ DOMAIN workQueue = 1..Len(workQueue)
        /\ DOMAIN workQueue' = 1..(Len(workQueue) - 1) /\ Head(workQueue) = workQueue[1]
        /\ \A i \in DOMAIN workQueue' : workQueue'[i] = workQueue[i + 1]
    BY <1>0, <1>1, HeadTailProperties, LenProperties, EmptySeq DEF workElementHandler
  <2>2. \A i \in DOMAIN workQueue' : i + 1 \in DOMAIN workQueue /\ i + 1 # 1 /\ 1 \in DOMAIN workQueue
    BY <2>1
  <2>3. PICK f : f = workQueue[1]
    OBVIOUS
  <2>4. f \in Elements /\ 1 \in DOMAIN workQueue
    BY <2>1, <2>3 DEF Elements
  <2>5. workers' = workers /\ \E code \in ReleaseCodes \ HostCodes : releaseCaller(f, code)
    BY <1>1, <2>1, <2>3 DEF workElementHandler, ReleaseCodes, HostCodes
  <2>6. \A i \in DOMAIN workQueue' : ~SameRequest(workQueue'[i], f)
    BY <1>0, <2>1, <2>2, <2>3 DEF OneElement
  <2>7. \A w \in workers : ~SameRequest(w.e, f)
    BY <1>0, <2>3, <2>4 DEF OneElement, SameRequest
  <2>8. \A e \in Elements' : ~SameRequest(e, f)
    BY <2>5, <2>6, <2>7 DEF Elements
  <2> QED
    BY <1>0, <2>4, <2>5, <2>8 DEF ElementDone
<1>2. ASSUME NEW w \in workers, Worker(w), pe' # pe PROVE \E f \in Elements : ElementDone(f)
  <2>1. PICK f : f = w.e
    OBVIOUS
  <2>2. f \in Elements
    BY <2>1 DEF Elements
  <2>3. /\ workQueue' = workQueue /\ workers' = workers \ {w}
        /\ \E code \in ReleaseCodes \ HostCodes : releaseCaller(f, code)
    BY <1>2, <2>1 DEF Worker, WorkerHandle, WorkerRelease, WorkerFail, petVars, ReleaseCodes, HostCodes
  <2>4. \A v \in workers' : ~SameRequest(v.e, f)
    BY <1>0, <2>1, <2>3 DEF OneElement
  <2>5. \A i \in DOMAIN workQueue : ~SameRequest(workQueue[i], f)
    BY <1>0, <2>1 DEF OneElement
  <2>6. \A e \in Elements' : ~SameRequest(e, f)
    BY <2>3, <2>4, <2>5 DEF Elements
  <2> QED
    BY <1>0, <2>2, <2>3, <2>6 DEF ElementDone
<1> QED
  BY <1>1, <1>2 DEF WorkStep

\* There is no other way for a pause element to change.
LEMMA SlotSteps ==
  ASSUME HandledInv, Next
  PROVE  \/ pe' = pe
         \/ \E c \in Callers : PauseStep(c) \/ ReturnStep(c) \/ AbendStep(c)
         \/ \E f \in Elements : ElementDone(f)
         \/ HostEnds
<1>1. ASSUME NEW c \in Callers, NewRequestStep(c) PROVE pe' = pe
  BY <1>1 DEF NewRequestStep
<1>2. ASSUME NEW c \in Callers, PCStep(c) PROVE pe' = pe \/ PauseStep(c) \/ ReturnStep(c) \/ AbendStep(c)
  <2>1. CASE Pause(c)
    BY <2>1 DEF Pause, PauseStep, ReturnStep, Stay
  <2>2. CASE Resume(c)
    BY <2>2 DEF Resume, ReturnStep
  <2>3. CASE ~Pause(c) /\ ~Resume(c)
    BY <1>2, <2>3, AbendLeaves, HandledTypes
    DEF PCStep, PCMove, InPC, PCEnter, PCEnterFreed, Schedule, Return, PCRefuse, XMAbend, petVars
  <2> QED
    BY <2>1, <2>2, <2>3
<1>3. CASE HostStep
  <2>1. UNCHANGED <<pc, pet, relCode>>
    BY <1>3, HostFrame DEF reqVars
  <2>2. \/ pe' = pe
        \/ peDeallocAll /\ main' = "deallocated"
        \/ notifyAllPendingCallers("HOST_ABEND") /\ main' = "abended"
        \/ notifyAllPendingCallers("CANCEL") /\ main' = "ended"
    <3>1. CASE startFails \/ deallocatePETs
      BY <3>1 DEF startFails, deallocatePETs, MainGoes
    <3>2. CASE hostAbend
      BY <3>2 DEF hostAbend, MainGoes
    <3>3. CASE handleCancel
      BY <3>3 DEF handleCancel, MainGoes
    <3>4. commTaskSignal \/ commTaskShutdown \/ operatorStop \/ startHost => pe' = pe
      BY DEF commTaskSignal, commTaskShutdown, operatorStop, startHost, petVars
    <3>5. exitMainLoop \/ guestTerminated \/ setTermFlag \/ freeContext \/ addressSpaceEnd => pe' = pe
      BY DEF exitMainLoop, guestTerminated, setTermFlag, freeContext, addressSpaceEnd, petVars
    <3>6. \/ startFails \/ deallocatePETs \/ hostAbend \/ handleCancel
          \/ commTaskSignal \/ commTaskShutdown \/ operatorStop \/ startHost
          \/ exitMainLoop \/ guestTerminated \/ setTermFlag \/ freeContext \/ addressSpaceEnd
      BY <1>3, Zenon DEF HostStep, Terminating
    <3> QED
      BY <3>1, <3>2, <3>3, <3>4, <3>5, <3>6, Zenon
  <2> QED
    BY <2>1, <2>2 DEF HostEnds
<1> QED
  BY <1>1, <1>2, <1>3, RequestStep, WorkReleases DEF NoCallerStep

\* Two callers that hold a slot hold different ones.
LEMMA HeldApart ==
  ASSUME HandledInv, NEW c \in Callers, NEW d \in Callers, pc[c] \in PetPlaces, pc[d] \in PetPlaces, pet[c] = pet[d]
  PROVE  c = d
BY DEF HandledInv, TokenInv, PoolInv, PETExclusive, Holds

\* What a release for a work element does: nothing, or it wakes the caller
\* that waits for this element, or releases a slot that nobody uses any more.
LEMMA DoneWakes ==
  ASSUME HandledInv, NEW f \in Elements, ElementDone(f)
  PROVE  \/ pe' = pe
         \/ /\ CanWake(f) /\ (Current(f) \/ f.p \in lostPETs) /\ f.c \in Callers /\ f.p \in PETs
            /\ \A q \in PETs : q # f.p => pe'[q] = pe[q]
            /\ pe'[f.p].state \in {"prereleased", "released"} /\ pe'[f.p].code \notin HostCodes
<1> USE HandledTypes
<1>1. f.c \in Callers /\ f.p \in PETs
  BY ElementsType
<1>2. PICK code \in ReleaseCodes \ HostCodes : peRelease(f.p, completionPET(f), code)
  BY DEF ElementDone, releaseCaller
<1>3. CASE CanWake(f)
  <2>1. pe' = [pe EXCEPT ![f.p] = Released(pe[f.p], code)]
    BY <1>1, <1>2, <1>3 DEF peRelease, CanWake
  <2>2. Current(f) \/ f.p \in lostPETs
    BY <1>3, TokenInvOwned DEF HandledInv, TokenOwned, Current
  <2>3. pe'[f.p] = Released(pe[f.p], code) /\ \A q \in PETs : q # f.p => pe'[q] = pe[q]
    BY <1>1, <2>1
  <2>4. pe'[f.p].state \in {"prereleased", "released"} /\ pe'[f.p].code = code
    BY <1>1, <2>3, ReleaseType
  <2> QED
    BY <1>1, <1>2, <1>3, <2>2, <2>3, <2>4
<1>4. CASE ~CanWake(f)
  BY <1>2, <1>4 DEF peRelease, CanWake
<1> QED
  BY <1>3, <1>4

\* What the end of the host does to a slot.
LEMMA EndReleases ==
  ASSUME HandledInv, HostEnds, NEW p \in PETs
  PROVE  /\ pe[p].state \in {"reset", "paused"} =>
              \/ pe'[p] = pe[p] /\ main' = "abended"
              \/ HostReleased(p)' \/ main' = "ended"
         /\ pe[p].state = "reset" => pe'[p].state = "reset" \/ HostReleased(p)' \/ main' = "ended"
         /\ HostReleased(p) => HostReleased(p)'
<1> USE HandledTypes
<1>0. pe[p] \in PEs
  OBVIOUS
<1>1. CASE peDeallocAll
  <2>1. /\ [pe[p] EXCEPT !.state = "freed"].state = "freed"
        /\ [pe[p] EXCEPT !.state = "released", !.code = "TERM"].state = "released"
        /\ [pe[p] EXCEPT !.state = "released", !.code = "TERM"].code = "TERM"
    BY <1>0 DEF PEs
  <2> QED
    BY <1>1, <2>1 DEF peDeallocAll, HostReleased, HostCodes
<1>2. ASSUME NEW code \in ReleaseCodes, notifyAllPendingCallers(code)
      PROVE  \/ pe'[p] = pe[p]
             \/ /\ pe[p].state \in {"reset", "paused"} /\ pe'[p].state \in {"prereleased", "released"}
                /\ pe'[p].code = code
  BY <1>0, <1>2, ReleaseType DEF notifyAllPendingCallers, ReleaseWorks
<1>3. CASE notifyAllPendingCallers("HOST_ABEND") /\ main' = "abended"
  BY <1>2, <1>3 DEF HostReleased, HostCodes, ReleaseCodes
<1>4. CASE notifyAllPendingCallers("CANCEL") /\ main' = "ended"
  BY <1>2, <1>4 DEF HostReleased, HostCodes, ReleaseCodes
<1> QED
  BY <1>1, <1>3, <1>4 DEF HostEnds

\* What pauses and their returns do to the slots.
LEMMA CallerSlots ==
  ASSUME HandledInv, NEW c \in Callers, PauseStep(c) \/ ReturnStep(c) \/ AbendStep(c)
  PROVE  /\ pet[c] \in PETs /\ \A q \in PETs : q # pet[c] => pe'[q] = pe[q]
         /\ PauseStep(c) => pe'[pet[c]].state = "paused" /\ pe'[pet[c]].gen = pe[pet[c]].gen
         /\ ReturnStep(c) \/ AbendStep(c) => pe'[pet[c]].state = AfterPause /\ pe'[pet[c]].code = "PE_OK"
         /\ pc[c] \in {"queued", "paused"}
<1> USE HandledTypes
<1>1. pet[c] \in PETs
  BY DEF PauseStep, ReturnStep, AbendStep, TypeInv, HeldIsSlot, PetPlaces
<1>2. CASE PauseStep(c)
  BY <1>1, <1>2 DEF PauseStep, ReturnStep, AbendStep, PEs
<1>3. CASE ReturnStep(c) \/ AbendStep(c)
  <2>1. PICK r : r = [gen |-> pe[pet[c]].gen + 1, state |-> AfterPause, code |-> "PE_OK"]
    OBVIOUS
  <2>2. r.state = AfterPause /\ r.code = "PE_OK" /\ pe' = [pe EXCEPT ![pet[c]] = r]
    BY <1>1, <1>3, <2>1 DEF ReturnStep, PauseReturns, AbendStep
  <2>3. ~PauseStep(c) /\ pc[c] \in {"queued", "paused"}
    BY <1>3 DEF PauseStep, ReturnStep, AbendStep
  <2> QED
    BY <1>1, <2>2, <2>3
<1> QED
  BY <1>2, <1>3

\* A caller that waits for its work element does so until the element is
\* done, the caller abends, or the host ends.
LEMMA WaitsOn ==
  ASSUME HandledInv, Next, NEW e \in Elements, e \in Elements', Awaited(e)
  PROVE  \/ CanWake(e)'
         \/ PCAbend(e.c)
         \/ HostReleased(e.p)' /\ UNCHANGED <<pc, pet>> /\ ~Serving'
         \/ main' = "ended"
<1> USE HandledTypes
<1>0. /\ e.c \in Callers /\ e.p \in PETs /\ Current(e) /\ pe[e.p].gen = e.g /\ pe[e.p].state \in {"reset", "paused"}
  BY ElementsType, TokenInvOwned DEF HandledInv, TokenOwned, Current, Awaited, CanWake, ReleaseWorks, completionPET
<1>1. SUFFICES ASSUME pe'[e.p].gen # e.g \/ pe'[e.p].state \notin {"reset", "paused"}, main' # "ended",
                      ~PCAbend(e.c)
               PROVE  HostReleased(e.p)' /\ UNCHANGED <<pc, pet>> /\ ~Serving'
  BY DEF CanWake, ReleaseWorks, completionPET
<1>2. pe'[e.p] # pe[e.p]
  BY <1>0, <1>1
<1>3. ASSUME NEW c \in Callers, PauseStep(c) \/ ReturnStep(c) PROVE FALSE
  <2>1. pet[c] = e.p
    BY <1>0, <1>2, <1>3, CallerSlots
  <2>2. ~ReturnStep(c)
    BY <1>0, <2>1 DEF ReturnStep
  <2> QED
    BY <1>0, <1>1, <1>3, <2>1, <2>2, CallerSlots
<1>7. ASSUME NEW c \in Callers, AbendStep(c) PROVE FALSE
  <2>1. pet[c] = e.p /\ pc[c] \in {"queued", "paused"}
    BY <1>0, <1>2, <1>7, CallerSlots
  <2>2. c = e.c
    BY <1>0, <2>1, HeldApart DEF Current, PetPlaces
  <2> QED
    BY <1>1, <1>7, <2>2 DEF AbendStep
<1>4. ASSUME NEW f \in Elements, ElementDone(f) PROVE FALSE
  <2>1. Current(f) /\ f.c \in Callers /\ f.p = e.p
    BY <1>0, <1>2, <1>4, DoneWakes DEF Awaited
  <2>2. f.c = e.c
    BY <1>0, <2>1, HeldApart DEF Current, PetPlaces
  <2>3. SameRequest(e, f)
    BY <1>0, <2>1, <2>2 DEF Current, SameRequest
  <2> QED
    BY <1>4, <2>3 DEF ElementDone
<1>5. HostEnds
  BY <1>2, <1>3, <1>4, <1>7, SlotSteps
<1>6. HostReleased(e.p)'
  BY <1>0, <1>1, <1>2, <1>5, EndReleases
<1> QED
  BY <1>5, <1>6 DEF HostEnds, Serving

\* A slot that the host has released stays so until the pause returns or is
\* broken.
LEMMA HostReleaseKept ==
  ASSUME HandledInv, Next, NEW p \in PETs, HostReleased(p)
  PROVE  HostReleased(p)' \/ \E c \in Callers : (ReturnStep(c) \/ AbendStep(c)) /\ pet[c] = p
<1>1. CASE pe'[p] = pe[p]
  BY <1>1 DEF HostReleased
<1>2. ASSUME NEW c \in Callers, PauseStep(c) PROVE pe'[p] = pe[p]
  <2>1. pet[c] # p
    BY <1>2 DEF PauseStep, HostReleased
  <2> QED
    BY <1>2, <2>1, CallerSlots
<1>3. ASSUME NEW c \in Callers, ReturnStep(c) \/ AbendStep(c) PROVE pe'[p] = pe[p] \/ pet[c] = p
  BY <1>3, CallerSlots
<1>4. ASSUME NEW f \in Elements, ElementDone(f) PROVE pe'[p] = pe[p]
  <2>1. CASE CanWake(f) /\ f.p = p
    BY <2>1 DEF CanWake, ReleaseWorks, HostReleased
  <2> QED
    BY <1>4, <2>1, DoneWakes
<1>5. CASE HostEnds
  BY <1>5, EndReleases
<1> QED
  BY <1>1, <1>2, <1>3, <1>4, <1>5, SlotSteps

\* What the steps of others leave alone.
LEMMA CallerFrame ==
  ASSUME HandledInv, Next, NEW c \in Callers, ~PCStep(c), pc[c] # "idle"
  PROVE  pc'[c] = pc[c] /\ pet'[c] = pet[c] /\ reqNo'[c] = reqNo[c] /\ relCode'[c] = relCode[c]
<1> USE HandledTypes
<1>1. ASSUME NEW d \in Callers, d # c, PCStep(d)
      PROVE  pc'[c] = pc[c] /\ pet'[c] = pet[c] /\ reqNo'[c] = reqNo[c] /\ relCode'[c] = relCode[c]
  BY <1>1 DEF PCStep, PCMove, InPC, PCEnter, PCEnterFreed, Schedule, Pause, Resume, Return, cleanCopy, PCRefuse, PCAbend,
              XMAbend, LeaveWithPET, Leave, Stay, takePET, PauseReturns
<1>2. ASSUME NEW d \in Callers, NewRequestStep(d)
      PROVE  pc'[c] = pc[c] /\ pet'[c] = pet[c] /\ reqNo'[c] = reqNo[c] /\ relCode'[c] = relCode[c]
  BY <1>2 DEF NewRequestStep
<1> QED
  BY <1>1, <1>2, RequestStep DEF NoCallerStep

\* The steps of a caller that has a copy.
LEMMA CopySteps ==
  ASSUME HandledInv, NEW c \in Callers, PCStep(c), pc[c] \in CopyPlaces
  PROVE  \/ PauseStep(c) \/ ReturnStep(c)
         \/ pc'[c] = "idle" /\ pe' = pe /\ (pc[c] = "resumed" \/ pe[pet[c]].state = "freed" \/ main = "gone")
         \/ pc'[c] = "idle" /\ PCAbend(c) /\ (pc[c] = "resumed" \/ pet[c] \in lostPETs')
<1> USE HandledTypes DEF CopyPlaces
<1>1. CASE Pause(c)
  BY <1>1 DEF Pause, PauseStep, ReturnStep, Stay, LeaveWithPET, Leave
<1>2. CASE Resume(c)
  BY <1>2 DEF Resume, ReturnStep
<1>3. CASE Return(c) \/ XMAbend(c)
  BY <1>3 DEF Return, cleanCopy, XMAbend, LeaveWithPET, Leave
<1>4. CASE PCEnter(c) \/ PCEnterFreed(c) \/ Schedule(c) \/ PCRefuse(c)
  BY <1>4 DEF PCEnter, PCEnterFreed, Schedule, PCRefuse
<1>5. CASE PCAbend(c)
  BY <1>5, AbendLeaves
<1> QED
  BY <1>1, <1>2, <1>3, <1>4, <1>5 DEF PCStep, PCMove, InPC

\* Who has been released by the host is told so, or leaves with an abend.
LEMMA BlamedKept ==
  ASSUME HandledInv, Next, NEW c \in Callers, pc[c] \in CopyPlaces, Blamed(c), pc'[c] \in CopyPlaces
  PROVE  Blamed(c)'
<1> USE HandledTypes
<1>1. CASE PCStep(c)
  <2>1. ~PauseStep(c)
    BY DEF PauseStep, Blamed, HostReleased
  <2>2. ReturnStep(c)
    BY <1>1, <2>1, CopySteps DEF CopyPlaces
  <2>3. pe[pet[c]].code \in HostCodes
    BY <2>2 DEF ReturnStep, Blamed, HostReleased
  <2>4. pc'[c] = "resumed" /\ relCode'[c] = pe[pet[c]].code
    BY <2>2 DEF ReturnStep, PauseReturns, Stay
  <2> QED
    BY <2>3, <2>4 DEF Blamed
<1>2. CASE ~PCStep(c)
  <2>1. pc'[c] = pc[c] /\ pet'[c] = pet[c] /\ relCode'[c] = relCode[c]
    BY <1>2, CallerFrame DEF CopyPlaces
  <2>2. CASE pc[c] = "resumed"
    BY <2>1, <2>2 DEF Blamed
  <2>3. CASE pc[c] # "resumed"
    <3>1. pet[c] \in PETs /\ HostReleased(pet[c])
      BY <2>3 DEF Blamed, TypeInv, HeldIsSlot, CopyPlaces, PetPlaces
    <3>2. ASSUME NEW d \in Callers, ReturnStep(d) \/ AbendStep(d), pet[d] = pet[c] PROVE FALSE
      <4>1. d = c
        BY <3>2, HeldApart DEF ReturnStep, AbendStep, CopyPlaces, PetPlaces
      <4>2. pc'[c] \in {"resumed", "idle"}
        BY <3>2, <4>1, AbendLeaves DEF ReturnStep, PauseReturns, Stay, AbendStep
      <4> QED
        BY <2>1, <2>3, <4>2 DEF CopyPlaces
    <3>3. HostReleased(pet[c])'
      <4>1. PICK p \in PETs : p = pet[c]
        BY <3>1
      <4>2. HostReleased(p)'
        BY <3>1, <3>2, <4>1, HostReleaseKept
      <4> QED
        BY <2>1, <4>1, <4>2 DEF HostReleased
    <3> QED
      BY <2>1, <2>3, <3>3 DEF Blamed
  <2> QED
    BY <2>2, <2>3
<1> QED
  BY <1>1, <1>2

\* A host that ended does not serve again, a cancelled one does not return.
LEMMA MainSteps ==
  ASSUME Next
  PROVE  (Serving' => Serving) /\ (~Cancelled' => ~Cancelled) /\ (Cancelled' => workers' = {} \/ main' = main)
<1>1. CASE main' = main
  BY <1>1 DEF Serving, Cancelled
<1>2. CASE HostStep
  <2>1. CASE commTaskSignal \/ commTaskShutdown \/ operatorStop
    BY <1>1, <2>1 DEF commTaskSignal, commTaskShutdown, operatorStop
  <2>2. CASE startHost \/ startFails \/ hostAbend \/ handleCancel
    BY <2>2 DEF startHost, startFails, hostAbend, handleCancel, MainGoes, Serving, Cancelled
  <2>3. CASE Terminating
    BY <2>3 DEF Terminating, exitMainLoop, guestTerminated, setTermFlag, deallocatePETs, freeContext,
                addressSpaceEnd, MainGoes, Serving, Cancelled
  <2> QED
    BY <1>2, <2>1, <2>2, <2>3 DEF HostStep
<1> QED
  BY <1>1, <1>2, RequestStep DEF NewRequestStep, PCStep, NoCallerStep

\* A copy comes into being in scheduleCommRequestProcessing, and its caller
\* keeps its slot and its request as long as it exists.
LEMMA CopyBack ==
  ASSUME HandledInv, Next, NEW c \in Callers, pc'[c] \in CopyPlaces
  PROVE  /\ pet'[c] = pet[c] /\ reqNo'[c] = reqNo[c]
         /\ pc[c] \in CopyPlaces \/ (pc[c] = "holding" /\ Schedule(c) /\ copyWorks(c) /\ bufs' = bufs)
<1> USE HandledTypes DEF CopyPlaces
<1>1. CASE PCStep(c)
  <2>1. reqNo'[c] = reqNo[c]
    BY <1>1 DEF PCStep
  <2>2. CASE PCEnter(c) \/ PCEnterFreed(c) \/ Return(c) \/ PCRefuse(c) \/ XMAbend(c)
    BY <2>2 DEF PCEnter, PCEnterFreed, Return, cleanCopy, PCRefuse, XMAbend, LeaveWithPET, Leave, Stay
  <2>5. ~PCAbend(c)
    BY AbendLeaves
  <2>3. CASE Schedule(c)
    BY <2>1, <2>3 DEF Schedule, LeaveWithPET, Leave, Stay
  <2>4. CASE Pause(c) \/ Resume(c)
    BY <2>1, <2>4 DEF Pause, Resume, LeaveWithPET, Leave, Stay, PauseReturns
  <2> QED
    BY <1>1, <2>2, <2>3, <2>4, <2>5 DEF PCStep, PCMove, InPC
<1>2. CASE ~PCStep(c) /\ pc[c] # "idle"
  BY <1>2, CallerFrame
<1>3. CASE ~PCStep(c) /\ pc[c] = "idle"
  <2>1. ASSUME NEW d \in Callers, d # c, PCStep(d) PROVE pc'[c] = pc[c]
    BY <2>1 DEF PCStep, PCMove, InPC, PCEnter, PCEnterFreed, Schedule, Pause, Resume, Return, cleanCopy, PCRefuse, PCAbend,
                XMAbend, LeaveWithPET, Leave, Stay, PauseReturns
  <2>2. ASSUME NEW d \in Callers, NewRequestStep(d) PROVE pc'[c] \in {"idle", "calling"}
    BY <1>3, <2>2 DEF NewRequestStep
  <2> QED
    BY <1>3, <2>1, <2>2, RequestStep DEF NoCallerStep
<1> QED
  BY <1>1, <1>2, <1>3

\* Slots that nobody pauses on stay quiet.
LEMMA QuietStep ==
  ASSUME EndInv, Next
  PROVE  QuietSlots'
<1> USE HandledTypes
<1>0. HandledInv /\ QuietSlots
  BY DEF EndInv
<1>1. SUFFICES ASSUME ~Cancelled', NEW p \in PETs, p \notin lostPETs', Unused(p)'
               PROVE  pe'[p].state = "reset" \/ HostReleased(p)'
  BY DEF QuietSlots
<1>2. ~Cancelled /\ p \notin lostPETs
  BY <1>0, <1>1, MainSteps, LostForGood DEF HandledInv, TokenInv
<1>3. ASSUME NEW c \in Callers, pc[c] \in {"queued", "paused"}, pet[c] = p
      PROVE  pe'[p].state = "reset" \/ HostReleased(p)'
  <2>1. ~(pc'[c] \in {"queued", "paused"} /\ pet'[c] = p)
    BY <1>1 DEF Unused
  <2>2. PCStep(c)
    BY <1>0, <1>3, <2>1, CallerFrame
  <2>3. CASE PauseStep(c)
    BY <1>0, <1>3, <2>1, <2>3 DEF PauseStep
  <2>4. CASE ReturnStep(c)
    BY <1>0, <1>3, <2>4, CallerSlots DEF AfterPause, HostReleased
  <2>5. CASE pe' = pe /\ pe[p].state = "freed"
    BY <2>5 DEF HostReleased
  <2> QED
    BY <1>0, <1>1, <1>2, <1>3, <2>2, <2>3, <2>4, <2>5, CopySteps DEF CopyPlaces, Cancelled
<1>4. CASE Unused(p) /\ HostReleased(p)
  BY <1>0, <1>4, HostReleaseKept DEF Unused, ReturnStep, AbendStep
<1>5. CASE Unused(p) /\ pe[p].state = "reset"
  <2>1. ASSUME NEW c \in Callers, PauseStep(c) \/ ReturnStep(c) \/ AbendStep(c) PROVE pe'[p] = pe[p]
    <3>1. pet[c] # p
      BY <1>5, <2>1 DEF Unused, PauseStep, ReturnStep, AbendStep
    <3> QED
      BY <1>0, <2>1, <3>1, CallerSlots
  <2>2. ASSUME NEW f \in Elements, ElementDone(f) PROVE pe'[p] = pe[p]
    BY <1>0, <1>2, <1>5, <2>2, DoneWakes DEF Unused, Current
  <2>3. CASE HostEnds
    BY <1>0, <1>1, <1>5, <2>3, EndReleases DEF Cancelled
  <2> QED
    BY <1>0, <1>5, <2>1, <2>2, <2>3, SlotSteps
<1> QED
  BY <1>0, <1>2, <1>3, <1>4, <1>5 DEF QuietSlots, Unused

\* While it serves, the host releases nobody for its own sake.
LEMMA CleanStep ==
  ASSUME EndInv, Next
  PROVE  ServingClean'
<1> USE HandledTypes
<1>0. HandledInv /\ ServingClean
  BY DEF EndInv
<1>1. SUFFICES ASSUME Serving', NEW p \in PETs, HostReleased(p)' PROVE FALSE
  BY DEF ServingClean
<1>2. Serving /\ ~HostReleased(p)
  BY <1>0, <1>1, MainSteps DEF ServingClean
<1>3. CASE pe'[p] = pe[p]
  BY <1>1, <1>2, <1>3 DEF HostReleased
<1>4. ASSUME NEW c \in Callers, PauseStep(c) \/ ReturnStep(c) \/ AbendStep(c), pet[c] = p PROVE FALSE
  <2>1. AfterPause = "reset"
    BY <1>2 DEF Serving, AfterPause
  <2> QED
    BY <1>0, <1>1, <1>4, <2>1, CallerSlots DEF HostReleased
<1>5. ASSUME NEW f \in Elements, ElementDone(f) PROVE FALSE
  BY <1>0, <1>1, <1>3, <1>5, DoneWakes DEF HostReleased
<1>6. CASE HostEnds
  BY <1>1, <1>6 DEF HostEnds, Serving
<1> QED
  BY <1>0, <1>3, <1>4, <1>5, <1>6, SlotSteps, CallerSlots

\* The token of a new work element wakes its caller, unless the host has
\* released the slot already.
LEMMA NewElement ==
  ASSUME EndInv, Next, ~Cancelled, NEW e \in Elements', e \notin Elements
  PROVE  /\ e.c \in Callers /\ pet'[e.c] = e.p /\ e.p \in PETs /\ pc'[e.c] = "queued" /\ pe' = pe
         /\ CanWake(e)' \/ HostReleased(e.p)
         /\ e.p \notin lostPETs'
<1> USE HandledTypes
<1>0. HandledInv /\ QuietSlots
  BY DEF EndInv
<1>1. PICK c \in Callers : /\ Schedule(c) /\ isPETValid(pet[c]) /\ Stay(c, "queued") /\ pet' = pet
                           /\ e = Element(c)
  BY <1>0, ElementsStep
<1>2. e.c = c /\ e.p = pet[c] /\ e.g = requestPETs[pet[c]] /\ pc[c] = "holding" /\ pe' = pe
  BY <1>1 DEF Element, Schedule
<1>3. pet[c] \in PETs
  BY <1>0, <1>2 DEF TypeInv, HeldIsSlot, PetPlaces
<1>4. Unused(pet[c])
  BY <1>0, <1>2, HeldApart DEF Unused, PetPlaces
<1>5. pet[c] \notin lostPETs /\ (pe[pet[c]].state = "reset" \/ HostReleased(pet[c]))
  <2>1. pet[c] \notin lostPETs
    BY <1>0, <1>2 DEF HandledInv, TokenInv, PoolInv, PETExclusive, Holds, PetPlaces
  <2> QED
    BY <1>0, <1>3, <1>4, <2>1 DEF QuietSlots
<1>6. pe'[e.p].gen = e.g /\ pe'[e.p] = pe[pet[c]]
  BY <1>1, <1>2 DEF isPETValid
<1>7. pc'[c] = "queued"
  BY <1>0, <1>1 DEF Stay
<1>8. lostPETs' = lostPETs
  BY <1>1, <1>7, <1>0 DEF Schedule, LeaveWithPET, Leave
<1> QED
  BY <1>1, <1>2, <1>3, <1>5, <1>6, <1>7, <1>8 DEF CanWake, ReleaseWorks, completionPET

\* A caller that is awaited and abends is on record.
LEMMA AbandonedMarked ==
  ASSUME HandledInv, NEW e \in Elements, Awaited(e), PCAbend(e.c)
  PROVE  e.n \in abended'
<1>1. e.c \in Callers /\ Current(e)
  BY HandledTypes, ElementsType, TokenInvOwned DEF HandledInv, TokenOwned, Current, Awaited
<1> QED
  BY <1>1, HandledTypes, AbendLeaves DEF Current, CopyPlaces

\* Abends stay on record.
LEMMA AbendedGrows ==
  ASSUME Next
  PROVE  abended \subseteq abended'
<1>1. ASSUME NEW c \in Callers, SendWork(c) \/ SendCommand(c) \/ SendTermSignal(c) \/ ForeignCall(c)
      PROVE  abended' = abended
  BY <1>1 DEF SendWork, SendCommand, SendTermSignal, ForeignCall, SendRequest, NewRequest, workVars
<1>2. ASSUME NEW c \in Callers, PCMove(c) PROVE abended \subseteq abended'
  BY <1>2 DEF PCMove, InPC, PCEnter, PCEnterFreed, Schedule, Pause, Resume, Return, PCRefuse, PCAbend,
              XMAbend, workVars
<1>3. ASSUME WorkStep PROVE abended' = abended
  BY <1>3 DEF WorkStep, workElementHandler, Worker, WorkerHandle, WorkerRelease, WorkerFail
<1> QED
  BY <1>1, <1>2, <1>3, NextCases, HostFrame DEF WorkStep

\* The slot of a caller that waits for its work element is lost by an abend of
\* this caller only.
LEMMA AwaitedKept ==
  ASSUME HandledInv, Next, main # "gone", NEW e \in Elements, Awaited(e), ~PCAbend(e.c)
  PROVE  e.p \notin lostPETs'
<1> USE HandledTypes
<1>0. /\ e.c \in Callers /\ e.p \in PETs /\ Current(e) /\ pe[e.p].state # "freed" /\ e.p \notin lostPETs
  BY ElementsType, TokenInvOwned DEF HandledInv, TokenOwned, Current, Awaited, CanWake, ReleaseWorks
<1>1. ASSUME NEW c \in Callers, PCStep(c), pet[c] = e.p, pc[c] \in PetPlaces PROVE lostPETs' = lostPETs
  <2>1. c = e.c
    BY <1>0, <1>1, HeldApart DEF Current, PetPlaces
  <2> QED
    BY <1>0, <1>1, <2>1 DEF Current, PCStep, PCMove, InPC, PCEnter, PCEnterFreed, Schedule, Pause, PauseReturns,
       Resume, Return, PCRefuse, XMAbend, petVars
<1>2. ASSUME NEW c \in Callers, PCStep(c), lostPETs' # lostPETs
      PROVE  pc[c] \in PetPlaces /\ lostPETs' = lostPETs \cup {pet[c]}
  BY <1>2 DEF PCStep, PCMove, InPC, PCEnter, PCEnterFreed, Schedule, Pause, PauseReturns, Resume, Return, PCRefuse,
     PCAbend, XMAbend, LeaveWithPET, PetPlaces, petVars
<1> QED
  BY <1>0, <1>1, <1>2, RequestStep DEF NewRequestStep, NoCallerStep

\* Callers with a work element wait for it or have been released by the host.
LEMMA OpenStep ==
  ASSUME EndInv, Next
  PROVE  ElementsOpen' /\ ServingOpen'
<1> USE HandledTypes
<1>0. HandledInv /\ ElementsOpen /\ ServingOpen /\ ServingClean
  BY DEF EndInv
<1>1. ASSUME Serving', NEW e \in Elements' PROVE Awaited(e)' \/ e.n \in abended'
  <2>1. Serving /\ ~Cancelled /\ main' # "ended" /\ main # "gone"
    BY <1>1, MainSteps DEF Serving, Cancelled
  <2>2. CASE e \in Elements /\ Awaited(e)
    <3>1. CASE PCAbend(e.c)
      BY <1>0, <2>2, <3>1, AbandonedMarked
    <3>2. CASE ~PCAbend(e.c)
      <4>1. CanWake(e)'
        BY <1>0, <1>1, <2>1, <2>2, <3>2, WaitsOn
      <4>2. e.p \notin lostPETs'
        BY <1>0, <2>1, <2>2, <3>2, AwaitedKept
      <4> QED
        BY <4>1, <4>2 DEF Awaited
    <3> QED
      BY <3>1, <3>2
  <2>4. CASE e \in Elements /\ ~Awaited(e)
    BY <1>0, <2>1, <2>4, AbendedGrows DEF ServingOpen
  <2>3. CASE e \notin Elements
    BY <1>0, <1>1, <2>1, <2>3, NewElement DEF ServingClean, Awaited
  <2> QED
    BY <2>2, <2>3, <2>4
<1>2. ASSUME ~Cancelled', NEW e \in Elements', CopyAlive(e)'
      PROVE  pet'[e.c] = e.p /\ (CanWake(e)' \/ Blamed(e.c)')
  <2>0. ~Cancelled /\ main' # "ended"
    BY <1>2, MainSteps DEF Cancelled
  <2>1. CASE e \notin Elements
    BY <1>0, <2>0, <2>1, NewElement DEF Blamed, HostReleased
  <2>2. CASE e \in Elements
    <3>1. PICK c \in Callers : c = e.c
      BY <1>0, <2>2, ElementsType
    <3>2. pc'[c] \in CopyPlaces /\ reqNo'[c] = e.n /\ ~(pc[c] = "holding" /\ reqNo[c] = e.n)
      BY <1>0, <1>2, <2>2, <3>1 DEF CopyAlive, HandledInv, NumbersFresh, Pending
    <3>3. pet'[c] = pet[c] /\ reqNo[c] = e.n /\ pc[c] \in CopyPlaces
      BY <1>0, <3>2, CopyBack
    <3>4. pet[c] = e.p /\ (CanWake(e) \/ Blamed(c))
      BY <1>0, <2>0, <2>2, <3>1, <3>3 DEF ElementsOpen, OpenOrBlamed, CopyAlive
    <3>5. CASE Blamed(c)
      <4>1. Blamed(c)'
        BY <1>0, <3>2, <3>3, <3>5, BlamedKept
      <4> QED
        BY <3>1, <3>3, <3>4, <4>1 DEF Blamed
    <3>6. CASE CanWake(e)
      <4>0. e.p \notin lostPETs
        BY <1>0, <3>3, <3>4 DEF HandledInv, TokenInv, PoolInv, PETExclusive, Holds, PetPlaces, CopyPlaces
      <4>1. pc[c] \in {"queued", "paused"}
        BY <1>0, <2>2, <3>1, <3>6, <4>0, TokenInvOwned DEF HandledInv, TokenOwned
      <4>3. ~PCAbend(c)
        BY <1>0, <3>2, AbendLeaves DEF CopyPlaces
      <4>2. CanWake(e)' \/ (HostReleased(e.p)' /\ UNCHANGED <<pc, pet>>)
        BY <1>0, <2>0, <2>2, <3>1, <3>6, <4>0, <4>3, WaitsOn DEF Awaited
      <4> QED
        BY <3>1, <3>3, <3>4, <4>1, <4>2 DEF Blamed, HostReleased
    <3> QED
      BY <3>4, <3>5, <3>6
  <2> QED
    BY <2>1, <2>2
<1> QED
  BY <1>1, <1>2 DEF ElementsOpen, OpenOrBlamed, ServingOpen

\* A cancelled host has no workers.
LEMMA WorkersStep ==
  ASSUME EndInv, Next
  PROVE  WorkersEnd'
<1>1. SUFFICES ASSUME Cancelled', main' = main PROVE workers' = {}
  BY MainSteps DEF WorkersEnd
<1>2. Cancelled /\ workers = {} /\ main # "loop"
  BY <1>1 DEF EndInv, WorkersEnd, Cancelled
<1>3. ASSUME NEW c \in Callers, NewRequestStep(c) PROVE workers' = {}
  BY <1>2, <1>3 DEF NewRequestStep
<1>4. ASSUME NEW c \in Callers, PCStep(c) PROVE workers' = {}
  BY <1>2, <1>4 DEF PCStep, PCMove, InPC, PCEnter, PCEnterFreed, Schedule, Pause, Resume, Return, PCRefuse, PCAbend,
                    XMAbend, workVars
<1>5. CASE HostStep
  BY <1>2, <1>5, HostFrame
<1>6. ~WorkStep
  BY <1>2 DEF WorkStep, workElementHandler
<1> QED
  BY <1>3, <1>4, <1>5, <1>6, RequestStep DEF NoCallerStep

\* While the host serves, a worker's copy is alive unless its caller abended,
\* and so is the context.
LEMMA TouchStep ==
  ASSUME EndInv, Next
  PROVE  NoStrayTouch'
<1>0. HandledInv /\ ServingOpen /\ NoStrayTouch
  BY DEF EndInv
<1>1. SUFFICES ASSUME Serving' PROVE strayTouch' \subseteq abended'
  BY DEF NoStrayTouch, Serving
<1>2. Serving /\ strayTouch \subseteq abended' /\ ~contextFreed /\ main # "destroyed"
  BY <1>0, <1>1, MainSteps, AbendedGrows DEF NoStrayTouch, Serving, contextFreed
<1>3. \A w \in workers : (CanWake(w.e) /\ CopyAlive(w.e)) \/ w.e.n \in abended'
  <2> SUFFICES ASSUME NEW w \in workers, w.e.n \notin abended PROVE CanWake(w.e) /\ CopyAlive(w.e)
    BY AbendedGrows
  <2>1. w.e \in Elements
    BY DEF Elements
  <2>2. Awaited(w.e)
    BY <1>0, <1>2, <2>1 DEF ServingOpen
  <2> QED
    BY <1>0, <2>1, <2>2, TokenInvOwned DEF HandledInv, TokenOwned, Awaited, CopyAlive, CopyPlaces
<1>4. ASSUME NEW c \in Callers, SendWork(c) \/ SendCommand(c) \/ SendTermSignal(c) \/ ForeignCall(c)
      PROVE  strayTouch' = strayTouch
  BY <1>4 DEF SendWork, SendCommand, SendTermSignal, ForeignCall, SendRequest, NewRequest, workVars
<1>5. ASSUME NEW c \in Callers, PCMove(c) PROVE strayTouch' = strayTouch
  BY <1>2, <1>5 DEF PCMove, InPC, PCEnter, PCEnterFreed, Schedule, Pause, Resume, Return, PCRefuse, PCAbend,
                    XMAbend, UseContext, workVars
<1>6. ASSUME NEW w \in workers, Worker(w) PROVE strayTouch' \subseteq abended'
  BY <1>2, <1>3, <1>6 DEF Worker, WorkerHandle, WorkerRelease, WorkerFail
<1>7. CASE workElementHandler
  BY <1>2, <1>7 DEF workElementHandler
<1>8. CASE HostStep
  BY <1>2, <1>8, HostFrame
<1> QED
  BY <1>2, <1>4, <1>5, <1>6, <1>7, <1>8, NextCases

\* What others do to the buffers of a caller in the PC routine: nothing, or a
\* worker cleans its copy because the host has released it.
LEMMA AccessFrame ==
  ASSUME EndInv, Next, NEW c \in Callers, pc[c] # "idle", ~PCStep(c)
  PROVE  \/ access'[c] = access[c] /\ bufs'[c] = bufs[c]
         \/ pc[c] \in CopyPlaces /\ Blamed(c)
<1> USE HandledTypes
<1>0. /\ HandledInv /\ access \in [Callers -> SUBSET Buffers] /\ bufs \in [Callers -> SUBSET Buffers]
  BY DEF EndInv, TypeInv, TypeOK, ReqTypeOK
<1>1. ASSUME NEW d \in Callers, SendWork(d) \/ SendCommand(d) \/ SendTermSignal(d) \/ ForeignCall(d)
      PROVE  access'[c] = access[c] /\ bufs'[c] = bufs[c]
  <2>1. d # c /\ access' = [access EXCEPT ![d] = {}]
    BY <1>1 DEF SendWork, SendCommand, SendTermSignal, ForeignCall, SendRequest, NewRequest
  <2>2. bufs' = bufs \/ \E b : bufs' = [bufs EXCEPT ![d] = b]
    BY <1>1 DEF SendWork, SendCommand, SendTermSignal, ForeignCall, SendRequest, Answer, CallPC, xmemPost
  <2> QED
    BY <1>0, <2>1, <2>2
<1>2. ASSUME NEW d \in Callers, PCMove(d), d # c PROVE access'[c] = access[c] /\ bufs'[c] = bufs[c]
  BY <1>0, <1>2 DEF PCMove, InPC, PCEnter, PCEnterFreed, Schedule, copyFails, copyWorks, Pause, Resume, Return,
      cleanCopy,
              PCRefuse, PCAbend, XMAbend, LeaveWithPET, Leave, Stay, PauseReturns
<1>3. ASSUME NEW w \in workers, Worker(w), ~(access' = access /\ bufs' = bufs)
      PROVE  (access'[c] = access[c] /\ bufs'[c] = bufs[c]) \/ (pc[c] \in CopyPlaces /\ Blamed(c))
  <2>1. WorkerRelease(w) /\ ~CanWake(w.e) /\ CopyAlive(w.e)
    BY <1>3 DEF Worker, WorkerHandle, WorkerRelease, WorkerFail, reqVars
  <2>2. PICK left : access' = [access EXCEPT ![w.e.c] = left] /\ bufs' = [bufs EXCEPT ![w.e.c] = {}]
    BY <2>1 DEF WorkerRelease
  <2>3. w.e \in Elements /\ ~Cancelled
    BY DEF Elements, EndInv, WorkersEnd
  <2>4. Blamed(w.e.c)
    BY <2>1, <2>3 DEF EndInv, ElementsOpen, OpenOrBlamed
  <2> QED
    BY <1>0, <2>1, <2>2, <2>4 DEF CopyAlive
<1>4. CASE workElementHandler
  BY <1>4 DEF workElementHandler, reqVars
<1>5. CASE HostStep
  BY <1>5, HostFrame DEF reqVars
<1>6. ~PCMove(c)
  BY RequestStep DEF PCStep, PCMove, InPC, PCEnter, PCEnterFreed, Schedule, Pause, Resume, Return, cleanCopy,
      PCRefuse, PCAbend,
              XMAbend, hostVars
<1> QED
  BY <1>1, <1>2, <1>3, <1>4, <1>5, <1>6, NextCases

\* The host has access to what the copy names, or the caller is told.
LEMMA AccessOKStep ==
  ASSUME EndInv, Next
  PROVE  AccessOK'
<1> USE HandledTypes
<1>0. /\ HandledInv /\ AccessOK /\ access \in [Callers -> SUBSET Buffers] /\ bufs \in [Callers -> SUBSET Buffers]
  BY DEF EndInv, TypeInv, TypeOK, ReqTypeOK
<1>1. SUFFICES ASSUME NEW c \in Callers, pc'[c] \in CopyPlaces PROVE access'[c] \subseteq bufs'[c] \/ Blamed(c)'
  BY DEF AccessOK
<1>2. CASE pc[c] \notin CopyPlaces
  BY <1>0, <1>1, <1>2, CopyBack DEF copyWorks
<1>3. CASE pc[c] \in CopyPlaces /\ Blamed(c)
  BY <1>0, <1>1, <1>3, BlamedKept
<1>4. CASE pc[c] \in CopyPlaces /\ ~Blamed(c)
  <2>1. access[c] \subseteq bufs[c]
    BY <1>0, <1>4 DEF AccessOK
  <2>2. CASE PCStep(c)
    <3>2. Pause(c) \/ Resume(c)
      BY <1>0, <1>1, <1>4, <2>2 DEF PCStep, PCMove, InPC, PCEnter, PCEnterFreed, Schedule, Return, cleanCopy,
          PCRefuse, PCAbend,
              XMAbend, LeaveWithPET, Leave, CopyPlaces
    <3>3. access' = access /\ bufs' = bufs
      BY <1>0, <1>1, <3>2 DEF Pause, Resume, PauseReturns, Stay, LeaveWithPET, Leave, CopyPlaces
    <3> QED
      BY <2>1, <3>3
  <2>3. CASE ~PCStep(c)
    BY <1>4, <2>1, <2>3, AccessFrame DEF CopyPlaces
  <2> QED
    BY <2>2, <2>3
<1> QED
  BY <1>2, <1>3, <1>4

\* A caller that is told OK leaves no access behind.
LEMMA ReleasedStep ==
  ASSUME EndInv, Next
  PROVE  AccessReleased'
<1> USE HandledTypes
<1>0. /\ HandledInv /\ AccessReleased /\ AccessOK
      /\ access \in [Callers -> SUBSET Buffers] /\ bufs \in [Callers -> SUBSET Buffers] /\ reply \in [Callers -> Replies]
  BY DEF EndInv, TypeInv, TypeOK, ReqTypeOK
<1>1. SUFFICES ASSUME NEW c \in Callers, pc'[c] = "idle", reply'[c] = "OK" PROVE access'[c] = {}
  BY DEF AccessReleased
<1>2. ASSUME NEW d \in Callers, SendWork(d) \/ SendCommand(d) \/ SendTermSignal(d) \/ ForeignCall(d)
      PROVE  access'[c] = {}
  <2>1. access' = [access EXCEPT ![d] = {}] /\ pc[d] = "idle"
    BY <1>2 DEF SendWork, SendCommand, SendTermSignal, ForeignCall, SendRequest, NewRequest
  <2>2. c # d => pc'[c] = pc[c] /\ reply'[c] = reply[c]
    BY <1>0, <1>2 DEF SendWork, SendCommand, SendTermSignal, ForeignCall, SendRequest, Answer, CallPC, xmemPost
  <2> QED
    BY <1>0, <1>1, <2>1, <2>2 DEF AccessReleased
<1>3. ASSUME NEW d \in Callers, PCMove(d), d # c PROVE access'[c] = {}
  <2>1. pc'[c] = pc[c] /\ reply'[c] = reply[c] /\ access'[c] = access[c]
    BY <1>0, <1>3 DEF PCMove, InPC, PCEnter, PCEnterFreed, Schedule, copyFails, copyWorks, Pause, Resume, Return,
        cleanCopy,
                PCRefuse, PCAbend, XMAbend, LeaveWithPET, Leave, Stay, PauseReturns
  <2> QED
    BY <1>0, <1>1, <2>1 DEF AccessReleased
<1>4. CASE Return(c)
  <2>1. PICK left \in LeftAccess(c) :
          /\ access' = [access EXCEPT ![c] = left]
          /\ Leave(c, IF left \cap bufs[c] # {} /\ statusOf(c) = "OK" THEN "SHR64_ERROR" ELSE statusOf(c))
    BY <1>4 DEF Return, cleanCopy
  <2>2. statusOf(c) = "OK" /\ left \cap bufs[c] = {} /\ access'[c] = left
    BY <1>0, <1>1, <2>1 DEF Leave
  <2>3. pc[c] = "resumed" /\ left \subseteq access[c]
    BY <1>4, <2>1 DEF Return, LeftAccess
  <2>4. ~Blamed(c)
    BY <2>2, <2>3 DEF Blamed, HostCodes, statusOf
  <2>5. access[c] \subseteq bufs[c]
    BY <1>0, <2>3, <2>4 DEF AccessOK, CopyPlaces
  <2> QED
    BY <2>2, <2>3, <2>5
<1>5. PCMove(c) => Return(c)
  <2>1. ~(PCEnter(c) \/ PCEnterFreed(c))
    BY <1>0, <1>1 DEF PCEnter, PCEnterFreed, Leave, Stay
  <2>2. ~Schedule(c)
    BY <1>0, <1>1 DEF Schedule, LeaveWithPET, Leave, Stay
  <2>3. ~(Pause(c) \/ Resume(c))
    BY <1>0, <1>1 DEF Pause, Resume, PauseReturns, LeaveWithPET, Leave, Stay
  <2>4. ~(PCRefuse(c) \/ PCAbend(c) \/ XMAbend(c))
    BY <1>0, <1>1 DEF PCRefuse, PCAbend, XMAbend, LeaveWithPET, Leave
  <2> QED
    BY <2>1, <2>2, <2>3, <2>4 DEF PCMove, InPC
<1>6. CASE WorkStep
  <2>1. UNCHANGED <<pc, reply>>
    BY <1>6 DEF WorkStep, workElementHandler, Worker, WorkerHandle, WorkerRelease, WorkerFail, reqVars
  <2>2. access' = access \/ \E w \in workers : CopyAlive(w.e) /\ \E left : access' = [access EXCEPT ![w.e.c] = left]
    BY <1>6 DEF WorkStep, workElementHandler, Worker, WorkerHandle, WorkerRelease, WorkerFail, reqVars
  <2>3. access'[c] = access[c]
    BY <1>0, <1>1, <2>1, <2>2 DEF CopyAlive, CopyPlaces
  <2> QED
    BY <1>0, <1>1, <2>1, <2>3 DEF AccessReleased
<1>7. CASE HostStep
  BY <1>0, <1>1, <1>7, HostFrame DEF reqVars, AccessReleased
<1> QED
  BY <1>2, <1>3, <1>4, <1>5, <1>6, <1>7, NextCases DEF WorkStep

\* Every step preserves the invariant.
LEMMA EndStep == EndInv /\ [Next]_vars => EndInv'
<1> SUFFICES ASSUME EndInv, [Next]_vars PROVE EndInv'
  OBVIOUS
<1>0. HandledInv'
  BY HandledStep DEF EndInv
<1>1. CASE UNCHANGED vars
  <2>1. /\ UNCHANGED <<main, pe, workQueue, workers, strayTouch, abended, lostPETs>> /\ UNCHANGED reqVars /\ UNCHANGED requestPETs
    BY <1>1 DEF vars, hostVars, petVars, workVars
  <2>2. /\ UNCHANGED <<Serving, Cancelled, Elements>> /\ WorkersEnd' /\ NoStrayTouch'
    BY <2>1 DEF EndInv, Serving, Cancelled, Elements, WorkersEnd, NoStrayTouch
  <2>3. QuietSlots' /\ ServingClean'
    BY <2>1, <2>2 DEF EndInv, QuietSlots, ServingClean, Unused, HostReleased, reqVars
  <2>4. ServingOpen'
    BY <2>1, <2>2 DEF EndInv, ServingOpen, Awaited, CanWake, ReleaseWorks, completionPET
  <2>5. ElementsOpen'
    BY <2>1, <2>2 DEF EndInv, ElementsOpen, OpenOrBlamed, CopyAlive, CanWake, ReleaseWorks, completionPET,
                      Blamed, HostReleased, reqVars
  <2>6. AccessOK' /\ AccessReleased'
    BY <2>1 DEF EndInv, AccessOK, AccessReleased, Blamed, HostReleased, reqVars
  <2> QED
    BY <1>0, <2>2, <2>3, <2>4, <2>5, <2>6 DEF EndInv
<1>2. CASE Next
  BY <1>0, <1>2, QuietStep, CleanStep, OpenStep, WorkersStep, TouchStep, AccessOKStep, ReleasedStep DEF EndInv
<1> QED
  BY <1>1, <1>2

\* It holds initially.
LEMMA EndInit == Init => EndInv
<1> SUFFICES ASSUME Init PROVE EndInv
  OBVIOUS
<1>1. HandledInv /\ Elements = {}
  BY HandledInit, EmptySeq DEF Init, Elements
<1>2. \A p \in PETs : pe[p].state = "reset"
  BY DEF Init
<1>3. QuietSlots /\ ServingClean
  BY <1>2 DEF QuietSlots, ServingClean, HostReleased
<1>4. ElementsOpen /\ ServingOpen /\ WorkersEnd
  BY <1>1 DEF ElementsOpen, ServingOpen, WorkersEnd, Init
<1>5. NoStrayTouch /\ AccessOK /\ AccessReleased
  BY DEF NoStrayTouch, AccessOK, AccessReleased, Init, CopyPlaces
<1> QED
  BY <1>1, <1>3, <1>4, <1>5 DEF EndInv

\* Until the host abends, is cancelled or destroys its context, no PC routine
\* uses a context that was freed, and a worker uses a parameter list copy that
\* its caller has left behind only if this very caller abended, or was
\* cancelled, in the PC routine while the request was pending: nobody but the
\* worker of a request releases its caller, and the worker of an abandoned
\* request reaches no other request, not even one of the same caller.
THEOREM NoStrayTouches == Spec => []NoStrayTouch
<1>1. EndInv => NoStrayTouch
  BY DEF EndInv
<1> QED
  BY EndInit, EndStep, <1>1, PTL DEF Spec

\* A caller that handleCommunicationPCSS tells OK has left the host no access
\* to its shared buffers, even if a worker cleaned its copy in between: such a
\* worker runs only when the host itself has released the caller, and the
\* caller's status then is not OK.
THEOREM AccessAlwaysReleased == Spec => []AccessReleased
<1>1. EndInv => AccessReleased
  BY DEF EndInv
<1> QED
  BY EndInit, EndStep, <1>1, PTL DEF Spec

-----------------------------------------------------------------------------
\* Every step preserves the flags' account of a stop.
LEMMA FlaggedStep == TypeInv /\ StopFlagged /\ [Next]_vars => StopFlagged'
<1> SUFFICES ASSUME TypeInv, StopFlagged, [Next]_vars PROVE StopFlagged'
  OBVIOUS
<1> USE DEF StopFlagged, NormalTermination
<1>1. CASE UNCHANGED vars
  BY <1>1 DEF vars, hostVars, workVars
<1>3. ASSUME NEW c \in Callers, SendWork(c) \/ SendCommand(c) \/ SendTermSignal(c) \/ ForeignCall(c)
      PROVE  UNCHANGED hostVars /\ workers' = workers
  BY <1>3 DEF SendWork, SendCommand, SendTermSignal, ForeignCall, SendRequest, NewRequest, workVars
<1>4. ASSUME NEW c \in Callers, PCMove(c) PROVE UNCHANGED hostVars /\ workers' = workers
  BY <1>4 DEF PCMove, InPC, PCEnter, PCEnterFreed, Schedule, Pause, Resume, Return, PCRefuse, PCAbend, XMAbend, workVars
<1>5. CASE UNCHANGED hostVars /\ workers' = workers
  BY <1>5 DEF hostVars
<1>6. CASE workElementHandler
  BY <1>6 DEF workElementHandler, hostVars
<1>7. ASSUME NEW w \in workers, Worker(w) PROVE StopFlagged'
  BY <1>7 DEF Worker, WorkerHandle, WorkerRelease, WorkerFail, terminateAUX, hostVars
<1>8. CASE commTaskSignal \/ commTaskShutdown \/ operatorStop
  BY <1>8 DEF commTaskSignal, commTaskShutdown, operatorStop, workVars, TypeInv, TypeOK, HostTypeOK
<1>9. CASE startHost \/ startFails
  BY <1>9 DEF startHost, startFails, MainGoes, workVars
<1>10. CASE Terminating
  BY <1>10 DEF Terminating, exitMainLoop, guestTerminated, setTermFlag, deallocatePETs, freeContext,
               addressSpaceEnd, MainGoes, workVars
<1>11. CASE hostAbend \/ handleCancel
  BY <1>11 DEF hostAbend, handleCancel, MainGoes, workVars
<1> QED
  BY <1>1, <1>3, <1>4, <1>5, <1>6, <1>7, <1>8, <1>9, <1>10, <1>11, NextCases DEF HostStep

\* isNormalTermination is true when the main loop of the host ends without an
\* abend: the communication task, a legacy termination request and the
\* operator's STOP all set TERM_COMMAND_RECEIVED before they stop the loop,
\* and only a STOP during the start of the guest can be lost.
THEOREM NormalTerminations == Spec => []NormalTermination
<1>1. Init => StopFlagged
  BY DEF Init, StopFlagged, NormalTermination
<1>2. StopFlagged => NormalTermination
  BY DEF StopFlagged
<1> QED
  BY TypeInit, TypeStep, FlaggedStep, <1>1, <1>2, PTL DEF Spec

=============================================================================

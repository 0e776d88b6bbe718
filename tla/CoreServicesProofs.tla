------------------------ MODULE CoreServicesProofs ------------------------
(***************************************************************************)
(* Proofs about the sessions of the cross-memory server, its dynamic       *)
(* linkage plug-in and its core services, for every set of requests,       *)
(* classes, JCLs, members and versions and any number of sessions.         *)
(***************************************************************************)
EXTENDS CoreServices, TLAPS

-----------------------------------------------------------------------------
(* The stub vectors. *)

InitPhases == {"take", "check", "make", "zero", "undefine", "assign", "install", "record"}
Phases == {"down", "initServer", "clean", "deploy", "up", "cleanup"} \cup InitPhases
Vectors == [size : Int, allocated : BOOLEAN, slots : Int]

VectorTypeOK ==
  /\ phase \in Phases /\ session \in Nat
  /\ vectors \in Seq(Vectors) /\ lpa \subseteq Nat /\ anchor \in [copy : Nat, version : Nat]
  /\ linkage \in 0..Len(vectors) /\ stubVector \in 0..Len(vectors) /\ vector \in 0..Len(vectors)
  /\ devSeen \in BOOLEAN /\ dynlinkFlag \in BOOLEAN

\* The anchor's copy is in LPA, and there is one while the plug-in is
\* initialized and when it has been.
CopyOK ==
  /\ anchor.copy # NULL => anchor.copy \in lpa
  /\ phase \in InitPhases \/ initRC # "none" => anchor.copy # NULL \/ phase \in {"cleanup", "down"}

\* The anchor never names a vector that was freed: it is taken out of the
\* anchor before dev mode frees it.
VectorOK ==
  /\ phase \in InitPhases \ {"take"} => stubVector = NULL
  /\ stubVector # NULL => vectors[stubVector].allocated
  /\ phase \in {"check", "make"} /\ vector # NULL => vectors[vector].allocated
  /\ phase \in {"zero", "undefine", "assign", "install", "record"} => vector # NULL /\ vectors[vector].allocated
  /\ phase \in {"install", "record"} => vectors[vector].slots = anchor.copy

\* The return code is there from the installation on.
InstalledOK ==
  /\ phase \notin {"record", "up", "cleanup"} => initRC = "none"
  /\ phase = "record" /\ initRC = "OK" => linkage = vector
  /\ ReadyVectorUsable

\* Without dev mode nothing is freed or deleted, and only the vector that is
\* being initialized, or was when the server ended, has slots of no copy.
SurvivesOK ==
  /\ phase \notin {"down", "initServer"} /\ devMode => devSeen
  /\ ~devSeen => \A v \in 1..Len(vectors) : vectors[v].allocated
  /\ phase \in {"undefine", "assign"} => vector \in torn
  /\ LinkageSurvives

LinkInv == VectorTypeOK /\ CopyOK /\ VectorOK /\ InstalledOK /\ SurvivesOK


USE DEF NULL

\* The invariant holds initially;
LEMMA LinkInit == Init => LinkInv
<1> SUFFICES ASSUME Init PROVE LinkInv
  OBVIOUS
<1> USE DEF Init, SessionInit, DynLinkInit
<1>1. PICK size \in LeftVectors :
        /\ vectors = IF size = 0 THEN <<>> ELSE <<[size |-> size, allocated |-> TRUE, slots |-> LEFT]>>
        /\ linkage = Len(vectors) /\ stubVector = Len(vectors)
        /\ anchor = [copy |-> IF size = 0 THEN NULL ELSE LEFT, version |-> 0]
  OBVIOUS
<1>2. size \in Int
  BY DynLinkAssumption
<1>3. VectorTypeOK
  <2>1. vectors \in Seq(Vectors) /\ Len(vectors) \in Nat
    <3>1. PICK e : e = [size |-> size, allocated |-> TRUE, slots |-> LEFT]
      OBVIOUS
    <3>2. e \in Vectors
      BY <1>2, <3>1 DEF Vectors, LEFT
    <3>3. vectors = <<>> \/ vectors = <<e>>
      BY <1>1, <3>1
    <3>4. <<>> \in Seq(Vectors) /\ Len(<<>>) = 0
      OBVIOUS
    <3>5. <<e>> \in Seq(Vectors) /\ Len(<<e>>) = 1
      BY <3>2
    <3> QED
      BY <3>3, <3>4, <3>5
  <2>2. anchor \in [copy : Nat, version : Nat]
    BY <1>1 DEF LEFT
  <2>3. lpa \subseteq Nat
    BY DEF LEFT
  <2>4. dynlinkFlag \in BOOLEAN /\ devSeen \in BOOLEAN
    OBVIOUS
  <2>5. linkage \in 0..Len(vectors) /\ stubVector \in 0..Len(vectors) /\ vector \in 0..Len(vectors)
    BY <1>1, <2>1
  <2>6. phase \in Phases /\ session \in Nat
    BY DEF Phases
  <2> QED
    BY <2>1, <2>2, <2>3, <2>4, <2>5, <2>6 DEF VectorTypeOK
<1>4. CopyOK /\ VectorOK /\ InstalledOK
  BY <1>1, <1>2 DEF CopyOK, VectorOK, InstalledOK, ReadyVectorUsable, ready, InitPhases, LEFT
<1>5. SurvivesOK
  <2>1. CASE size = 0
    BY <1>1, <2>1 DEF SurvivesOK, LinkageSurvives, live, LEFT
  <2>2. CASE size # 0
    <3>1. /\ Len(vectors) = 1 /\ vectors[1].allocated /\ vectors[1].slots = LEFT
          /\ anchor.copy = LEFT /\ lpa = {LEFT} /\ linkage = 1
      BY <1>1, <2>2
    <3> QED
      BY <3>1 DEF SurvivesOK, LinkageSurvives, live
  <2> QED
    BY <2>1, <2>2
<1> QED
  BY <1>3, <1>4, <1>5 DEF LinkInv

\* Dev mode is what the parameters say.
LEMMA SameMode == ASSUME UNCHANGED parms PROVE devMode' = devMode
BY DEF devMode, zisIsLPADevModeOn, isGiven, findEntry, zisGetParmValue

\* What the server's address space holds goes with it.
LEMMA LinkContextGone ==
  ASSUME LinkInv, contextGone, UNCHANGED <<vectorVars, dynlinkFlag, devSeen>>,
         UNCHANGED <<anchor, lpa>> \/
           (devMode /\ phase = "cleanup" /\ lpa' = lpa \ {anchor.copy} /\ anchor' = [anchor EXCEPT !.copy = NULL])
  PROVE  LinkInv'
<1> USE DEF LinkInv, contextGone, cleanContext, vectorVars
<1>1. anchor' \in [copy : Nat, version : Nat] /\ (anchor' = anchor \/ anchor'.copy = NULL)
  BY DEF VectorTypeOK
<1>2. VectorTypeOK'
  BY <1>1 DEF VectorTypeOK, Phases
<1>3. CopyOK'
  BY <1>1 DEF CopyOK, InitPhases
<1>4. VectorOK' /\ InstalledOK'
  BY DEF VectorOK, InstalledOK, ReadyVectorUsable, ready, InitPhases
<1>5. ~devSeen => UNCHANGED lpa
  BY DEF SurvivesOK
<1>6. SurvivesOK'
  BY <1>5 DEF SurvivesOK, LinkageSurvives, live
<1> QED
  BY <1>2, <1>3, <1>4, <1>6

\* The phases around the initialization of the plug-in.
LEMMA LinkStarts ==
  ASSUME LinkInv, (startFails \/ run) /\ UNCHANGED dynVars PROVE LinkInv'
<1> USE DEF LinkInv, dynVars, vectorVars, plugVars
<1>1. /\ phase' \in {"down", "initServer"} /\ phase = "down" /\ session' = session + 1
  BY DEF startFails, run, down
<1>2. VectorTypeOK'
  BY <1>1 DEF VectorTypeOK, Phases
<1>3. CopyOK' /\ VectorOK'
  BY <1>1 DEF CopyOK, VectorOK, InitPhases, InstalledOK
<1>4. InstalledOK' /\ SurvivesOK'
  BY <1>1 DEF InstalledOK, SurvivesOK, ReadyVectorUsable, ready, LinkageSurvives, live
<1> QED
  BY <1>2, <1>3, <1>4

\* initializing the server's vector anchor keeps it;
LEMMA LinkInitServer == ASSUME LinkInv, initServer PROVE LinkInv'
<1> USE DEF LinkInv, initServer, vectorVars, plugVars, cleanContext
<1>1. phase' \in {"clean", "down"} /\ dynlinkFlag' \in BOOLEAN /\ devSeen' \in BOOLEAN /\ initRC = "none"
  BY DEF VectorTypeOK, InstalledOK
<1>2. VectorTypeOK' /\ CopyOK' /\ VectorOK'
  BY <1>1 DEF VectorTypeOK, Phases, CopyOK, VectorOK, InitPhases
<1>3. InstalledOK'
  BY <1>1 DEF InstalledOK, ReadyVectorUsable, ready
<1>4. phase' = "clean" => devMode' = devMode
  BY SameMode
<1>5. SurvivesOK'
  BY <1>1, <1>4 DEF SurvivesOK, LinkageSurvives, live, VectorTypeOK
<1> QED
  BY <1>2, <1>3, <1>5

\* so does cleaning the plug-ins;
LEMMA LinkCleanPlugins == ASSUME LinkInv, cleanPlugins PROVE LinkInv'
<1> USE DEF LinkInv, cleanPlugins, vectorVars
<1>0. devMode' = devMode /\ (~devSeen => ~devMode)
  BY SameMode DEF SurvivesOK
<1>1. /\ anchor' \in [copy : Nat, version : Nat] /\ (anchor' = anchor \/ anchor'.copy = NULL)
      /\ lpa' \subseteq lpa /\ (UNCHANGED <<anchor, lpa>> \/ (anchor'.copy = NULL /\ devMode))
  BY DEF removePluginFromLPAIfNeeded, VectorTypeOK
<1>2. UNCHANGED <<vectors, linkage, stubVector, torn, dynlinkFlag, devSeen>>
  BY DEF removePluginFromLPAIfNeeded
<1>3. VectorTypeOK' /\ CopyOK' /\ VectorOK' /\ InstalledOK'
  BY <1>1, <1>2
     DEF VectorTypeOK, Phases, CopyOK, VectorOK, InstalledOK, ReadyVectorUsable, ready, InitPhases
<1>4. SurvivesOK'
  BY <1>0, <1>1, <1>2 DEF SurvivesOK, LinkageSurvives, live
<1> QED
  BY <1>3, <1>4

\* so does a start without the dynamic linkage plug-in;
LEMMA LinkSkips == ASSUME LinkInv, pluginSkipped PROVE LinkInv'
<1> USE DEF LinkInv, pluginSkipped, dynVars, vectorVars, plugVars
<1>1. devMode' = devMode
  BY SameMode
<1>2. VectorTypeOK' /\ CopyOK' /\ VectorOK' /\ InstalledOK'
  BY DEF VectorTypeOK, Phases, CopyOK, VectorOK, InstalledOK, ReadyVectorUsable, ready, InitPhases
<1>3. SurvivesOK'
  BY <1>1 DEF SurvivesOK, LinkageSurvives, live
<1> QED
  BY <1>2, <1>3

\* so does the plug-in's termination;
LEMMA LinkTerms == ASSUME LinkInv, termZISDynamic PROVE LinkInv'
<1> USE DEF LinkInv, termZISDynamic, plugVars
<1>1. devMode' = devMode
  BY SameMode
<1>2. VectorTypeOK'
  BY DEF VectorTypeOK, Phases
<1>3. CopyOK' /\ VectorOK' /\ InstalledOK'
  BY DEF CopyOK, VectorOK, InstalledOK, ReadyVectorUsable, ready, InitPhases
<1>4. SurvivesOK'
  BY <1>1 DEF SurvivesOK, LinkageSurvives, live
<1> QED
  BY <1>2, <1>3, <1>4

\* The plug-in's copy is in LPA when its init routine is called.
LEMMA LinkInstalls == ASSUME LinkInv, installPlugin PROVE LinkInv'
<1> USE DEF LinkInv, vectorVars
<1>0. devMode' = devMode /\ (~devSeen => ~devMode)
  BY SameMode DEF SurvivesOK, installPlugin
<1>1. /\ phase = "deploy"
      /\ UNCHANGED <<session, parms, read, memberLost, vectorVars, dynlinkFlag, vector, initRC, devSeen>>
  BY DEF installPlugin
<1>2. PICK v \in Versions :
        LET there == lpa \ (IF oldCopyDeleted(v) THEN {anchor.copy} ELSE {})
        IN  \/ /\ anchor' = [copy |-> IF keptCopy(v) = NULL THEN session + 1 ELSE keptCopy(v), version |-> v]
               /\ lpa' = there \cup {anchor'.copy} /\ phase' = "take" /\ listed' = TRUE
            \/ /\ keptCopy(v) = NULL
               /\ anchor' = [anchor EXCEPT !.copy = NULL] /\ lpa' = there /\ phase' = "up" /\ UNCHANGED listed
            \/ oldCopyDeleted(v) /\ phase' = "up" /\ UNCHANGED plugVars
  BY DEF installPlugin
<1>3. /\ v \in Nat /\ phase' \in {"take", "up"} /\ session \in Nat
      /\ anchor \in [copy : Nat, version : Nat] /\ lpa \subseteq Nat
      /\ keptCopy(v) = NULL \/ (keptCopy(v) = anchor.copy /\ ~oldCopyDeleted(v))
      /\ oldCopyDeleted(v) => devMode
  BY <1>2, DynLinkAssumption DEF VectorTypeOK, keptCopy, oldCopyDeleted
<1>4. /\ anchor' \in [copy : Nat, version : Nat] /\ lpa' \subseteq Nat
      /\ anchor'.copy # NULL => anchor'.copy \in lpa'
      /\ phase' = "take" => anchor'.copy # NULL
      /\ ~devSeen => lpa \subseteq lpa'
  BY <1>0, <1>2, <1>3 DEF plugVars, CopyOK
<1>5. VectorTypeOK'
  BY <1>1, <1>3, <1>4 DEF VectorTypeOK, Phases, InitPhases
<1>6. CopyOK' /\ VectorOK' /\ InstalledOK'
  BY <1>1, <1>3, <1>4 DEF CopyOK, VectorOK, InstalledOK, ReadyVectorUsable, ready, InitPhases
<1>7. SurvivesOK'
  BY <1>0, <1>1, <1>3, <1>4 DEF SurvivesOK, LinkageSurvives, live
<1> QED
  BY <1>5, <1>6, <1>7

\* A vector is changed where it is.
LEMMA VectorChanged ==
  ASSUME vectors \in Seq(Vectors), NEW v \in 1..Len(vectors), NEW e \in Vectors,
         vectors' = [vectors EXCEPT ![v] = e]
  PROVE  /\ vectors' \in Seq(Vectors) /\ Len(vectors') = Len(vectors) /\ vectors'[v] = e
         /\ \A w \in 1..Len(vectors) : w # v => vectors'[w] = vectors[w]
OBVIOUS

\* The fields of a stub vector that a step leaves alone.
LEMMA VectorFields ==
  ASSUME NEW r \in Vectors
  PROVE  /\ \A b \in BOOLEAN : [r EXCEPT !.allocated = b] \in Vectors
         /\ \A n \in Int : /\ [r EXCEPT !.slots = n] \in Vectors
                          /\ [r EXCEPT !.slots = n].slots = n
                          /\ [r EXCEPT !.slots = n].allocated = r.allocated
BY DEF Vectors

\* The steps of initZISDynamic.
LEMMA LinkTakes == ASSUME LinkInv, takeVector PROVE LinkInv'
<1> USE DEF LinkInv, takeVector, initUnchanged, initEnds, vectorVars, plugVars
<1>1. devMode' = devMode
  BY SameMode
<1>2. VectorTypeOK'
  BY DEF VectorTypeOK, Phases, InitPhases
<1>3. CopyOK' /\ VectorOK' /\ InstalledOK'
  BY DEF CopyOK, VectorOK, InstalledOK, ReadyVectorUsable, ready, InitPhases
<1>4. SurvivesOK'
  BY <1>1 DEF SurvivesOK, LinkageSurvives, live
<1> QED
  BY <1>2, <1>3, <1>4

\* Checking the old vector keeps the invariant;
LEMMA LinkChecks == ASSUME LinkInv, checkVector PROVE LinkInv'
<1> USE DEF LinkInv, initUnchanged, plugVars
<1>1. devMode' = devMode /\ phase = "check" /\ phase' = "make" /\ initRC = "none"
  BY SameMode DEF checkVector, InstalledOK
<1>2. UNCHANGED <<linkage, stubVector, torn, initRC, session, anchor, lpa, listed, dynlinkFlag, devSeen>>
  BY DEF checkVector
<1>3. CASE UNCHANGED vectors
  <2>1. vector' \in {vector, NULL}
    BY <1>3 DEF checkVector
  <2>2. VectorTypeOK' /\ CopyOK' /\ VectorOK' /\ InstalledOK'
    BY <1>1, <1>2, <1>3, <2>1
       DEF VectorTypeOK, Phases, InitPhases, CopyOK, VectorOK, InstalledOK, ReadyVectorUsable, ready
  <2>3. SurvivesOK'
    BY <1>1, <1>2, <1>3 DEF SurvivesOK, LinkageSurvives, live
  <2> QED
    BY <2>2, <2>3
<1>4. CASE /\ vector # NULL /\ devMode /\ vector' = NULL
           /\ vectors' = [vectors EXCEPT ![vector].allocated = FALSE]
  <2>1. vectors \in Seq(Vectors) /\ vector \in 1..Len(vectors) /\ devSeen
    BY <1>1, <1>4 DEF VectorTypeOK, SurvivesOK
  <2>2. PICK e : e = [vectors[vector] EXCEPT !.allocated = FALSE]
    OBVIOUS
  <2>3. e \in Vectors /\ vectors' = [vectors EXCEPT ![vector] = e]
    <3>1. vectors[vector] \in Vectors
      BY <2>1
    <3> QED
      BY <1>4, <2>1, <2>2, <3>1, VectorFields
  <2>4. vectors' \in Seq(Vectors) /\ Len(vectors') = Len(vectors)
    BY <2>1, <2>3, VectorChanged
  <2>5. VectorTypeOK' /\ CopyOK' /\ VectorOK' /\ InstalledOK'
    BY <1>1, <1>2, <1>4, <2>4
       DEF VectorTypeOK, Phases, InitPhases, CopyOK, VectorOK, InstalledOK, ReadyVectorUsable, ready
  <2>6. SurvivesOK'
    BY <1>1, <1>2, <2>1 DEF SurvivesOK, LinkageSurvives
  <2> QED
    BY <2>5, <2>6
<1> QED
  BY <1>3, <1>4 DEF checkVector, deletesVector

\* so does making a new one;
LEMMA LinkMakes == ASSUME LinkInv, makeVector PROVE LinkInv'
<1> USE DEF LinkInv, initUnchanged, initEnds, plugVars
<1>1. devMode' = devMode /\ phase = "make" /\ initRC = "none"
  BY SameMode DEF makeVector, InstalledOK
<1>2. UNCHANGED <<linkage, stubVector, torn, session, anchor, lpa, listed, dynlinkFlag, devSeen>>
  BY DEF makeVector
<1>3. CASE UNCHANGED <<vectors, vector>>
  <2>1. \/ vector # NULL /\ phase' = "zero" /\ UNCHANGED initRC
        \/ phase' = "up" /\ initRC' = "ALLOC_FAILED"
    BY <1>3 DEF makeVector, reusedVector, VectorTypeOK
  <2>2. VectorTypeOK' /\ CopyOK' /\ VectorOK' /\ InstalledOK'
    BY <1>1, <1>2, <1>3, <2>1
       DEF VectorTypeOK, Phases, InitPhases, CopyOK, VectorOK, InstalledOK, ReadyVectorUsable, ready
  <2>3. SurvivesOK'
    BY <1>1, <1>2, <1>3, <2>1 DEF SurvivesOK, LinkageSurvives, live
  <2> QED
    BY <2>2, <2>3
<1>4. CASE /\ phase' = "zero" /\ vector' = Len(vectors) + 1 /\ UNCHANGED initRC
           /\ vectors' = Append(vectors, [size |-> SIZE, allocated |-> TRUE, slots |-> STORAGE])
  <2>1. PICK e : e = [size |-> SIZE, allocated |-> TRUE, slots |-> STORAGE]
    OBVIOUS
  <2>2. e \in Vectors /\ e.allocated
    BY <2>1 DEF Vectors, SIZE, STORAGE
  <2>3. vectors \in Seq(Vectors) /\ vectors' = Append(vectors, e)
    BY <1>4, <2>1 DEF VectorTypeOK
  <2>4. /\ vectors' \in Seq(Vectors) /\ Len(vectors') = Len(vectors) + 1 /\ vectors'[vector'] = e
        /\ \A w \in 1..Len(vectors) : vectors'[w] = vectors[w]
    BY <1>4, <2>2, <2>3
  <2>5. /\ Len(vectors) \in Nat /\ linkage \in 0..Len(vectors) /\ stubVector \in 0..Len(vectors)
    BY DEF VectorTypeOK
  <2>6. VectorTypeOK'
    BY <1>2, <1>4, <2>4, <2>5 DEF VectorTypeOK, Phases, InitPhases
  <2>7. CopyOK' /\ VectorOK' /\ InstalledOK'
    BY <1>1, <1>2, <1>4, <2>2, <2>4, <2>5
       DEF InitPhases, CopyOK, VectorOK, InstalledOK, ReadyVectorUsable, ready
  <2>8. SurvivesOK'
    BY <1>1, <1>2, <1>4, <2>2, <2>4, <2>5 DEF SurvivesOK, LinkageSurvives, live
  <2> QED
    BY <2>6, <2>7, <2>8
<1> QED
  BY <1>3, <1>4 DEF makeVector

\* A vector that is rewritten is torn until its slots are the stubs again.
LEMMA LinkFills == ASSUME LinkInv, initStubVector PROVE LinkInv'
<1> USE DEF LinkInv, initUnchanged, plugVars
<1>1. /\ devMode' = devMode /\ phase \in {"zero", "undefine", "assign"} /\ initRC = "none"
      /\ phase' \in {"undefine", "assign", "install"}
  BY SameMode DEF initStubVector, InstalledOK
<1>2. UNCHANGED <<linkage, stubVector, vector, initRC, session, anchor, lpa, listed, dynlinkFlag, devSeen>>
  BY DEF initStubVector
<1>3. /\ vectors \in Seq(Vectors) /\ vector \in 1..Len(vectors) /\ vectors[vector].allocated
      /\ vectors[vector] \in Vectors /\ anchor.copy \in lpa /\ lpa \subseteq Nat
  BY <1>1 DEF VectorTypeOK, VectorOK, CopyOK, InitPhases
<1>4. PICK e \in Vectors :
        /\ e.allocated /\ vectors' = [vectors EXCEPT ![vector] = e]
        /\ phase' = "install" => e.slots = anchor.copy /\ torn' = torn \ {vector}
        /\ phase' # "install" => torn' = torn \cup {vector}
  <2>1. CASE phase = "zero"
    <3>1. [size |-> SIZE, allocated |-> TRUE, slots |-> ZERO] \in Vectors
      BY DEF Vectors, SIZE, ZERO
    <3> QED
      BY <2>1, <3>1 DEF initStubVector
  <2>2. CASE phase = "undefine"
    <3>1. PICK e : e = [vectors[vector] EXCEPT !.slots = UNDEFINED_STUB]
      OBVIOUS
    <3> UNDEFINED_STUB \in Int
      BY DEF UNDEFINED_STUB
    <3>2. e \in Vectors /\ e.allocated = vectors[vector].allocated
      BY <1>3, <3>1, VectorFields
    <3>3. vectors' = [vectors EXCEPT ![vector] = e] /\ phase' = "assign" /\ torn' = torn /\ vector \in torn
      BY <1>3, <2>2, <3>1 DEF initStubVector, SurvivesOK
    <3> QED
      BY <1>3, <3>2, <3>3
  <2>3. CASE phase = "assign"
    <3>1. PICK e : e = [vectors[vector] EXCEPT !.slots = anchor.copy]
      OBVIOUS
    <3> anchor.copy \in Int
      BY DEF LinkInv, VectorTypeOK
    <3>2. e \in Vectors /\ e.allocated = vectors[vector].allocated /\ e.slots = anchor.copy
      BY <1>3, <3>1, VectorFields
    <3>3. vectors' = [vectors EXCEPT ![vector] = e] /\ phase' = "install" /\ torn' = torn \ {vector}
      BY <1>3, <2>3, <3>1 DEF initStubVector
    <3> QED
      BY <1>3, <3>2, <3>3
  <2> QED
    BY <1>1, <2>1, <2>2, <2>3
<1>5. /\ vectors' \in Seq(Vectors) /\ Len(vectors') = Len(vectors) /\ vectors'[vector] = e
      /\ \A w \in 1..Len(vectors) : w # vector => vectors'[w] = vectors[w]
  BY <1>3, <1>4, VectorChanged
<1>6. VectorTypeOK'
  BY <1>1, <1>2, <1>5 DEF VectorTypeOK, Phases, InitPhases
<1>7. CopyOK' /\ VectorOK' /\ InstalledOK'
  BY <1>1, <1>2, <1>3, <1>4, <1>5
     DEF VectorTypeOK, InitPhases, CopyOK, VectorOK, InstalledOK, ReadyVectorUsable, ready
<1>8. SurvivesOK'
  BY <1>1, <1>2, <1>3, <1>4, <1>5 DEF VectorTypeOK, SurvivesOK, LinkageSurvives, live
<1> QED
  BY <1>6, <1>7, <1>8

\* The address is published, and put back into the anchor.
LEMMA LinkPublishes == ASSUME LinkInv, installDynamicLinkageVector PROVE LinkInv'
<1> USE DEF LinkInv, installDynamicLinkageVector, initUnchanged, plugVars
<1>1. devMode' = devMode
  BY SameMode
<1>2. vector \in 1..Len(vectors) /\ vectors[vector].allocated /\ vectors[vector].slots \in lpa
  BY DEF VectorTypeOK, VectorOK, CopyOK, InitPhases
<1>3. VectorTypeOK'
  BY DEF VectorTypeOK, Phases, InitPhases
<1>4. CopyOK' /\ VectorOK' /\ InstalledOK'
  BY DEF CopyOK, VectorOK, InstalledOK, ReadyVectorUsable, ready, InitPhases
<1>5. SurvivesOK'
  BY <1>1, <1>2 DEF SurvivesOK, LinkageSurvives, live
<1> QED
  BY <1>3, <1>4, <1>5

\* so does recording it in the server's anchor;
LEMMA LinkRecords == ASSUME LinkInv, recordVector PROVE LinkInv'
<1> USE DEF LinkInv, recordVector, initUnchanged, initEnds, plugVars
<1>1. devMode' = devMode
  BY SameMode
<1>2. vector \in 1..Len(vectors) /\ vectors[vector].allocated /\ vectors[vector].slots \in lpa
  BY DEF VectorTypeOK, VectorOK, CopyOK, InitPhases
<1>3. VectorTypeOK'
  BY DEF VectorTypeOK, Phases, InitPhases
<1>4. CopyOK' /\ VectorOK' /\ InstalledOK'
  BY <1>2 DEF CopyOK, VectorOK, InstalledOK, ReadyVectorUsable, ready, live, InitPhases
<1>5. SurvivesOK'
  BY <1>1 DEF SurvivesOK, LinkageSurvives, live
<1> QED
  BY <1>3, <1>4, <1>5

\* so does an abend of the plug-in's init callback.
LEMMA LinkAbends == ASSUME LinkInv, initAbends PROVE LinkInv'
<1> USE DEF LinkInv, initAbends, initUnchanged, initEnds, vectorVars, plugVars
<1>1. devMode' = devMode
  BY SameMode
<1>2. VectorTypeOK'
  BY DEF VectorTypeOK, Phases
<1>3. CopyOK' /\ VectorOK' /\ InstalledOK'
  BY DEF CopyOK, VectorOK, InstalledOK, ReadyVectorUsable, ready, InitPhases
<1>4. SurvivesOK'
  BY <1>1 DEF SurvivesOK, LinkageSurvives, live
<1> QED
  BY <1>2, <1>3, <1>4

\* The vectors do not depend on the calls.
LEMMA LinkUnchanged == ASSUME LinkInv, UNCHANGED <<sessionVars, dynVars>> PROVE LinkInv'
<1> USE DEF sessionVars, dynVars, vectorVars, plugVars
<1>1. devMode' = devMode
  BY SameMode
<1>2. VectorTypeOK' /\ CopyOK' /\ VectorOK'
  BY DEF LinkInv, VectorTypeOK, CopyOK, VectorOK
<1>3. InstalledOK' /\ SurvivesOK'
  BY <1>1 DEF LinkInv, InstalledOK, ReadyVectorUsable, ready, SurvivesOK, LinkageSurvives, live
<1> QED
  BY <1>2, <1>3 DEF LinkInv

\* Every step preserves the invariant.
LEMMA LinkNext == ASSUME LinkInv, [Next]_vars PROVE LinkInv'
<1>1. CASE UNCHANGED <<sessionVars, dynVars>>
  BY <1>1, LinkUnchanged
<1>2. CASE ServerNext
  BY <1>2, LinkStarts, LinkInitServer, LinkCleanPlugins, LinkSkips, LinkInstalls, LinkTakes, LinkChecks,
     LinkMakes, LinkFills, LinkPublishes, LinkRecords, LinkAbends DEF ServerNext
<1>3. CASE termZISDynamic
  BY <1>3, LinkTerms
<1>4. CASE serverAbends
  BY <1>4, LinkContextGone DEF serverAbends
<1>5. CASE cleanupServer
  BY <1>5, LinkContextGone DEF cleanupServer, removePluginFromLPAIfNeeded
<1>6. CallNext => UNCHANGED <<sessionVars, dynVars>>
  BY DEF CallNext, callService, checkClass, safVerifyCreate, pushCheck, safAuth,
         safVerifyDelete, snarferBegins, getASSB, allocateTransferBuffer, scheduleSynchSRB,
         copyToCaller, snarferEnds, cleanupSnarfer, nwmBegins, callNWMService, nwmEnds, authRequest,
         servePassTicket, resetPassword, servedBySaf, forget, percolates, becomes
<1> QED
  BY <1>1, <1>2, <1>3, <1>4, <1>5, <1>6 DEF Next, ServerEnds, vars

\* The invariant of the linkage holds.
LEMMA LinkAlways == Spec => []LinkInv
BY LinkInit, LinkNext, PTL DEF Spec

\* While a server whose dynamic linkage plug-in came up is ready, cmsGA gives
\* out the vector of the plug-in's anchor, and its slots are the routines of
\* the copy in LPA that this session runs (initZISDynamic, zisdynamic.c),
\* after any number of sessions, upgrades, failed starts and ABENDs.
THEOREM ReadyVectorsUsable == Spec => []ReadyVectorUsable
<1>1. LinkInv => ReadyVectorUsable
  BY DEF LinkInv, InstalledOK
<1> QED
  BY <1>1, LinkAlways, PTL

\* Until a session runs in LPA dev mode, what cmsGA gives out stays allocated
\* and its stubs stay in LPA; only initStubVector leaves slots that cannot be
\* called (zisdynamic.c, and relocatePluginToLPAIfNeeded of server.c).
THEOREM LinkageAlwaysSurvives == Spec => []LinkageSurvives
<1>1. LinkInv => LinkageSurvives
  BY DEF LinkInv, SurvivesOK
<1> QED
  BY <1>1, LinkAlways, PTL

-----------------------------------------------------------------------------
(* The calls. *)

CopySteps == {"assb", "alloc", "srb", "copyOut", "free"}
AuthSteps == {"create", "push", "check", "delete"}
Steps == {"idle", "service", "returned", "done", "nwm", "nwmFree"} \cup AuthSteps \cup CopySteps
ReturnCodes ==
  {"OK", "BAD_INPUT", "USER_CLASS_NOT_READ", "USER_CLASS_TOO_LONG", "CUSTOM_CLASS_NOT_ALLOWED", "CREATE_FAILED",
   "SAF_ERROR", "INSTALL_RECOVERY_FAILED", "SAF_ABENDED", "DELETE_FAILED", "BAD_DEST", "BAD_ASCB", "BAD_SIZE",
   "RECOVERY_ERROR", "SRC_ASSB_ABEND", "ECSA_ALLOC_FAILED", "SRC_IEAMSCHD_FAILED", "SRC_IEAMSCHD_ABEND",
   "BUFFER_NULL", "BUFFER_NOT_ALLOCATED", "NWM_FAILED", "BAD_SAF_SERVICE_VERSION"}
Results == {"none", "OK", "SERVICE_FAILED", "CMS_FAILED", "CANCELLED", "ENDED"}
Answers == {"none", "authorized", "notAuthorized", "authenticated", "notAuthenticated", "error", "badRequest", "tooMany"}

CallRecords ==
  [step : Steps, req : Requests \cup {Idle.req}, rc : ReturnCodes, safRC : {0, 1}, refused : BOOLEAN, level : Nat,
   acee : BOOLEAN, buffer : BOOLEAN, depth : Int, pushFailed : BOOLEAN, deleteFailed : BOOLEAN,
   result : Results, answer : Answers]

\* A step belongs to the services that take it.
PlaceOK(c) ==
  /\ c.step \in {"create", "push", "check"} => c.req.fc \in {"entity", "access"}
  /\ c.step = "delete" => c.req.fc \in AuthFunctions
  /\ c.step \in CopySteps => c.req.fc = "copy"
  /\ c.step \in {"nwm", "nwmFree"} => c.req.fc = "nwm"
  /\ c.step \in {"service", "returned"} => c.req.fc \in AuthFunctions \cup {"copy", "nwm"}

\* What SAF has for the user, as far as the call has found out.
Known(c)   == c.req.known /\ (c.req.fc \in {"password"} \cup TokenFunctions => c.req.right)
Granted(c) ==
  /\ c.req.fc = "entity" => c.req.level >= c.req.access
  /\ c.req.fc = "access" => c.level = c.req.level
SafOK(c) ==
  /\ c.step \in {"push", "check", "delete"} => Known(c)
  /\ c.step \in {"delete", "returned"} /\ c.rc = "OK" /\ c.req.fc \in AuthFunctions => Known(c) /\ Granted(c)
  /\ c.req.fc # "access" /\ c.safRC # 0 => c.refused
  /\ c.rc = "SAF_ERROR" => c.refused
  /\ c.step \notin {"delete", "free", "nwmFree", "returned", "done"} => c.rc = "OK"
  /\ c.step # "done" => c.result = "none" /\ c.answer = "none"

\* What the service holds at each step.
HoldsOK(c) ==
  /\ c.step \in {"idle", "service", "create", "nwm", "nwmFree"} \cup CopySteps => ~c.acee
  /\ c.step \in {"idle", "service", "returned"} \cup AuthSteps => ~c.buffer
  /\ c.step = "returned" /\ c.acee => c.deleteFailed
  /\ c.step # "done" /\ ~c.pushFailed => c.depth = IF c.step \in {"check", "nwm"} \cup CopySteps THEN 1 ELSE 0

CallOK(c) == c \in CallRecords /\ PlaceOK(c) /\ SafOK(c) /\ HoldsOK(c)

CallInv == CallOK(call) /\ VerdictFromSAF /\ ResourcesReturned

CallParts(c) == PlaceOK(c) /\ SafOK(c) /\ HoldsOK(c)

\* A call that has not begun holds nothing.
LEMMA IdleIsCall ==
  /\ Idle \in CallRecords /\ Idle.step = "idle" /\ Idle.req.fc = "none" /\ Idle.rc = "OK" /\ Idle.safRC = 0
  /\ ~Idle.acee /\ ~Idle.buffer /\ Idle.depth = 0 /\ ~Idle.pushFailed
  /\ Idle.result = "none" /\ Idle.answer = "none"
<1>1. PICK q : q = Idle.req
  OBVIOUS
<1>4. q.fc = "none"
  BY <1>1 DEF Idle
<1>5. Idle = [step |-> "idle", req |-> q, rc |-> "OK", safRC |-> 0, refused |-> FALSE, level |-> 0,
              acee |-> FALSE, buffer |-> FALSE, depth |-> 0, pushFailed |-> FALSE, deleteFailed |-> FALSE,
              result |-> "none", answer |-> "none"]
  BY <1>1 DEF Idle
<1>6. Idle \in CallRecords
  BY <1>1, <1>5 DEF CallRecords, Steps, ReturnCodes, Results, Answers
<1> QED
  BY <1>1, <1>4, <1>5, <1>6

\* The invariant of a call holds initially.
LEMMA CallInit == Init => CallInv
<1> SUFFICES ASSUME Init PROVE CallInv
  OBVIOUS
<1>1. call = Idle
  BY DEF Init, CoreInit
<1>2. CallParts(call)
  BY <1>1, IdleIsCall DEF CallParts, PlaceOK, SafOK, HoldsOK, CopySteps, AuthSteps,
      AuthFunctions, TokenFunctions
<1> QED
  BY <1>1, <1>2, IdleIsCall DEF CallInv, CallOK, CallParts, VerdictFromSAF, ResourcesReturned

\* A call that is not done has nothing to answer for.
LEMMA NotDone ==
  ASSUME call' \in CallRecords, CallParts(call'), call'.step # "done" PROVE CallInv'
BY DEF CallInv, CallOK, CallParts, VerdictFromSAF, ResourcesReturned

\* The answers of the REST services.
LEMMA AnswerGiven ==
  ASSUME NEW c \in CallRecords
  PROVE  \E a \in Answers :
           /\ answered(c) = [c EXCEPT !.answer = a]
           /\ a = "authorized" => c.req.fc = "entity" /\ c.result = "OK"
           /\ a = "authenticated" => c.req.fc \in TokenFunctions /\ c.result = "OK"
           /\ a = "notAuthorized" => c.req.fc = "entity" /\ c.safRC # 0
           /\ a = "notAuthenticated" => c.rc = "SAF_ERROR"
BY DEF answered, respond, authenticate, verify, Answers, TokenFunctions

\* When an answer is given, the invariant asks only what the answer promises.
LEMMA IsDone ==
  ASSUME NEW c \in CallRecords, c.step = "done", call' = answered(c),
         c.req.fc # "access" /\ c.safRC # 0 => c.refused,
         c.rc = "SAF_ERROR" => c.refused,
         c.result = "OK" /\ c.req.fc \in AuthFunctions => Known(c) /\ Granted(c),
         c.result \in {"OK", "SERVICE_FAILED"} =>
           (c.acee => c.deleteFailed) /\ ~c.buffer /\ (c.depth # 0 => c.pushFailed),
         c.result # "CANCELLED"
  PROVE  CallInv'
<1>1. PICK a \in Answers :
           /\ answered(c) = [c EXCEPT !.answer = a]
           /\ a = "authorized" => c.req.fc = "entity" /\ c.result = "OK"
           /\ a = "authenticated" => c.req.fc \in TokenFunctions /\ c.result = "OK"
           /\ a = "notAuthorized" => c.req.fc = "entity" /\ c.safRC # 0
           /\ a = "notAuthenticated" => c.rc = "SAF_ERROR"
  BY AnswerGiven, Zenon
<1>2. /\ call' \in CallRecords /\ call'.step = c.step /\ call'.req = c.req /\ call'.rc = c.rc
      /\ call'.safRC = c.safRC /\ call'.refused = c.refused /\ call'.level = c.level /\ call'.acee = c.acee
      /\ call'.buffer = c.buffer /\ call'.depth = c.depth /\ call'.pushFailed = c.pushFailed
      /\ call'.deleteFailed = c.deleteFailed
      /\ call'.result = c.result /\ call'.answer = a
  BY <1>1 DEF CallRecords
<1>3. CallOK(call)'
  BY <1>2 DEF CallOK, PlaceOK, SafOK, HoldsOK, CopySteps, AuthSteps
<1>4. VerdictFromSAF'
  BY <1>1, <1>2 DEF VerdictFromSAF, mayCreate, fc, Known, Granted, AuthFunctions, TokenFunctions
<1>5. ResourcesReturned'
  BY <1>2 DEF ResourcesReturned, fc
<1> QED
  BY <1>3, <1>4, <1>5 DEF CallInv

\* An ABEND that is percolated tells nothing.
LEMMA Percolated == ASSUME CallInv, percolates PROVE CallInv'
<1>1. PICK c : c = [goes("done") EXCEPT !.result = "CMS_FAILED", !.rc = "OK"]
  OBVIOUS
<1>2. call' = answered(c)
  BY <1>1 DEF percolates, becomes
<1>3. call \in CallRecords /\ SafOK(call)
  BY DEF CallInv, CallOK
<1>4. /\ c \in CallRecords /\ c.step = "done" /\ c.req = call.req /\ c.safRC = call.safRC
      /\ c.refused = call.refused /\ c.rc = "OK" /\ c.result = "CMS_FAILED"
  BY <1>1, <1>3, IdleIsCall DEF goes, CallRecords, Steps, Results, ReturnCodes
<1> QED
  BY <1>2, <1>3, <1>4, IsDone DEF SafOK


\* What is left of the record when a call goes on from call to d: everything
\* but the fields that a step names.
Keeps(d) ==
  /\ d \in CallRecords /\ d.req = call.req /\ d.refused = call.refused /\ d.safRC = call.safRC
  /\ d.level = call.level /\ d.acee = call.acee /\ d.buffer = call.buffer /\ d.depth = call.depth
  /\ d.pushFailed = call.pushFailed /\ d.deleteFailed = call.deleteFailed
  /\ d.result = call.result /\ d.answer = call.answer

\* What the invariant says of the call.
LEMMA CallHolds == ASSUME CallInv PROVE call \in CallRecords /\ CallParts(call)
BY DEF CallInv, CallOK, CallParts

\* goes and returns leave everything else alone.
LEMMA Goes ==
  ASSUME call \in CallRecords, NEW step \in Steps
  PROVE  Keeps(goes(step)) /\ goes(step).step = step /\ goes(step).rc = call.rc
<1>1. PICK d : d = [call EXCEPT !.step = step]
  OBVIOUS
<1>2. Keeps(d) /\ d.step = step /\ d.rc = call.rc
  BY <1>1 DEF Keeps, CallRecords
<1> QED
  BY <1>1, <1>2 DEF goes

\* A service that returns changes its return code and its step only.
LEMMA Returns ==
  ASSUME NEW c \in CallRecords, NEW rc \in ReturnCodes, NEW d, d = returns(c, rc)
  PROVE  /\ d \in CallRecords /\ d.step = "returned" /\ d.rc = rc
         /\ d.req = c.req /\ d.refused = c.refused /\ d.safRC = c.safRC
         /\ d.level = c.level /\ d.acee = c.acee /\ d.buffer = c.buffer /\ d.depth = c.depth
         /\ d.pushFailed = c.pushFailed /\ d.deleteFailed = c.deleteFailed
         /\ d.result = c.result /\ d.answer = c.answer
BY IdleIsCall DEF returns, CallRecords, Steps

\* Calling a service keeps the invariant;
LEMMA ServiceCalled == ASSUME CallInv, callService PROVE CallInv'
<1>1. PICK r \in Requests :
        /\ r.fc \in AuthFunctions \cup {"copy", "nwm"}
        /\ \/ call' = answered([[Idle EXCEPT !.req = r] EXCEPT !.step = "done", !.result = "SERVICE_FAILED", !.rc = "BAD_INPUT"])
           \/ call' = answered([[Idle EXCEPT !.req = r] EXCEPT !.step = "done", !.result = "CMS_FAILED"])
           \/ call' = [[Idle EXCEPT !.req = r] EXCEPT !.step = "service"]
  BY DEF callService, becomes
<1>2. PICK c : c = [Idle EXCEPT !.req = r]
  OBVIOUS
<1>3. /\ c \in CallRecords /\ c.req = r /\ c.rc = "OK" /\ c.safRC = 0
      /\ ~c.acee /\ ~c.buffer /\ c.depth = 0 /\ ~c.pushFailed /\ c.result = "none" /\ c.answer = "none"
  BY <1>2, IdleIsCall DEF CallRecords
<1>4. ASSUME NEW d, d = [c EXCEPT !.step = "done", !.result = "SERVICE_FAILED", !.rc = "BAD_INPUT"], call' = answered(d)
      PROVE  CallInv'
  <2>1. /\ d \in CallRecords /\ d.step = "done" /\ d.safRC = 0 /\ d.rc = "BAD_INPUT" /\ d.result = "SERVICE_FAILED"
        /\ ~d.acee /\ ~d.buffer /\ d.depth = 0
    BY <1>3, <1>4 DEF CallRecords, Steps, Results, ReturnCodes
  <2> QED
    BY <1>4, <2>1, IsDone
<1>5. ASSUME NEW d, d = [c EXCEPT !.step = "done", !.result = "CMS_FAILED"], call' = answered(d)
      PROVE  CallInv'
  <2>1. d \in CallRecords /\ d.step = "done" /\ d.safRC = 0 /\ d.rc = "OK" /\ d.result = "CMS_FAILED"
    BY <1>3, <1>5 DEF CallRecords, Steps, Results, ReturnCodes
  <2> QED
    BY <1>5, <2>1, IsDone
<1>6. CASE call' = [c EXCEPT !.step = "service"]
  <2>1. /\ call' \in CallRecords /\ call'.step = "service" /\ call'.req = r /\ call'.rc = "OK" /\ call'.safRC = 0
        /\ ~call'.acee /\ ~call'.buffer /\ call'.depth = 0 /\ ~call'.pushFailed
        /\ call'.result = "none" /\ call'.answer = "none"
    BY <1>3, <1>6 DEF CallRecords, Steps
  <2>2. CallParts(call')
    BY <1>1, <2>1 DEF CallParts, PlaceOK, SafOK, HoldsOK, CopySteps, AuthSteps
  <2> QED
    BY <2>1, <2>2, NotDone
<1> QED
  BY <1>1, <1>2, <1>4, <1>5, <1>6

\* The authorization services.
LEMMA ClassChecked == ASSUME CallInv, checkClass PROVE CallInv'
<1>0. call \in CallRecords /\ CallParts(call) /\ call.step = "service" /\ call.req.fc \in {"entity", "access"}
  BY CallHolds DEF checkClass, fc
<1>1. PICK class : call' = IF classRC(class) = "OK" THEN goes("create") ELSE returns(call, classRC(class))
  BY DEF checkClass, becomes
<1>2. classRC(class) \in ReturnCodes
  BY DEF classRC, ReturnCodes
<1>3. \/ Keeps(call') /\ call'.step = "create" /\ call'.rc = call.rc
      \/ Keeps(call') /\ call'.step = "returned" /\ call'.rc \notin {"OK", "SAF_ERROR"}
  <2>1. CASE classRC(class) = "OK"
    BY <1>0, <1>1, <2>1, Goes DEF Steps, AuthSteps
  <2>2. CASE classRC(class) # "OK"
    <3>1. call' = returns(call, classRC(class)) /\ classRC(class) # "SAF_ERROR"
      BY <1>1, <2>2 DEF classRC
    <3> QED
      BY <1>0, <1>2, <2>2, <3>1, Returns DEF Keeps
  <2> QED
    BY <2>1, <2>2
<1>4. CallParts(call')
  BY <1>0, <1>3 DEF Keeps, CallParts, PlaceOK, SafOK, HoldsOK, CopySteps, AuthSteps, AuthFunctions
<1> QED
  BY <1>3, <1>4, NotDone DEF Keeps


\* What a call may keep when some of its fields are set.
SameCall(d) ==
  /\ d \in CallRecords /\ d.req = call.req /\ d.level = call.level
  /\ d.result = call.result /\ d.answer = call.answer
SameSaf(d)   == d.refused = call.refused /\ d.safRC = call.safRC
SameHolds(d) == d.acee = call.acee /\ d.buffer = call.buffer /\ d.deleteFailed = call.deleteFailed
SameStack(d) == d.depth = call.depth /\ d.pushFailed = call.pushFailed

\* so does creating the ACEE;
LEMMA Created == ASSUME CallInv, safVerifyCreate PROVE CallInv'
<1>0. /\ call \in CallRecords /\ CallParts(call)
      /\ call.step = "create" \/ (call.step = "service" /\ call.req.fc \in {"password", "user"} \cup TokenFunctions)
  BY CallHolds DEF safVerifyCreate, fc
<1>1. CASE /\ Known(call)
           /\ call' = [goes(IF fc \in {"entity", "access"} THEN "push" ELSE "delete") EXCEPT !.acee = TRUE]
  <2>1. PICK step \in {"push", "delete"} :
          /\ step = IF fc \in {"entity", "access"} THEN "push" ELSE "delete"
          /\ call' = [[call EXCEPT !.step = step] EXCEPT !.acee = TRUE]
    BY <1>1 DEF goes
  <2>2. /\ SameCall(call') /\ SameSaf(call') /\ SameStack(call') /\ call'.step = step /\ call'.rc = call.rc
        /\ call'.acee /\ call'.buffer = call.buffer
    <3>1. PICK d : d = [call EXCEPT !.step = step]
      OBVIOUS
    <3>2. SameCall(d) /\ SameSaf(d) /\ SameStack(d) /\ d.step = step /\ d.rc = call.rc /\ d.buffer = call.buffer
      BY <1>0, <3>1 DEF SameCall, SameSaf, SameStack, CallRecords, Steps, AuthSteps
    <3>3. call' = [d EXCEPT !.acee = TRUE]
      BY <2>1, <3>1
    <3> QED
      BY <3>2, <3>3 DEF SameCall, SameSaf, SameStack, CallRecords
  <2>3. CallParts(call')
    <3>1. /\ step \in {"push", "delete"} /\ (step = "push" <=> call.req.fc \in {"entity", "access"})
          /\ Known(call) /\ call' \in CallRecords
      BY <1>1, <2>1, <2>2 DEF fc, SameCall
    <3>2. PlaceOK(call')
      BY <1>0, <2>2, <3>1 DEF SameCall, CallParts, PlaceOK, CopySteps, AuthFunctions, TokenFunctions
    <3>3. SafOK(call')
      BY <1>0, <2>2, <3>1 DEF SameCall, SameSaf, SameStack, CallParts, PlaceOK, SafOK, Known, Granted, CopySteps,
          AuthSteps, AuthFunctions, TokenFunctions
    <3>4. HoldsOK(call')
      BY <1>0, <2>2, <3>1 DEF SameCall, SameStack, CallParts, PlaceOK, HoldsOK, CopySteps, AuthSteps,
          AuthFunctions, TokenFunctions
    <3> QED
      BY <3>2, <3>3, <3>4 DEF CallParts
  <2> QED
    BY <2>1, <2>2, <2>3, NotDone DEF SameCall
<1>2. CASE call' = returns([call EXCEPT !.safRC = 1, !.refused = TRUE], createRC)
  <2>1. PICK c : c = [call EXCEPT !.safRC = 1, !.refused = TRUE]
    OBVIOUS
  <2>2. /\ SameCall(c) /\ SameHolds(c) /\ SameStack(c) /\ c.step = call.step /\ c.refused
    BY <1>0, <2>1 DEF SameCall, SameHolds, SameStack, CallRecords, Steps, AuthSteps, CopySteps,
        ReturnCodes, Results
  <2>3. createRC \in ReturnCodes \ {"OK"}
    BY DEF createRC, ReturnCodes
  <2>4. SameCall(call') /\ SameHolds(call') /\ SameStack(call') /\ call'.step = "returned" /\ call'.refused /\ call'.rc # "OK"
    <3>1. call' = returns(c, createRC) /\ c \in CallRecords
      BY <1>2, <2>1, <2>2 DEF SameCall
    <3> QED
      BY <2>2, <2>3, <3>1, Returns DEF SameCall, SameHolds, SameStack
  <2>5. CallParts(call')
    BY <1>0, <2>4 DEF SameCall, SameHolds, SameStack, CallParts, PlaceOK, SafOK, HoldsOK, Known,
        Granted, CopySteps, AuthSteps, AuthFunctions, TokenFunctions
  <2> QED
    BY <2>4, <2>5, NotDone DEF SameCall
<1>3. CASE call.step = "service" /\ call' = returns(call, "BAD_SAF_SERVICE_VERSION")
  <2>1. Keeps(call') /\ call'.step = "returned" /\ call'.rc \notin {"OK", "SAF_ERROR"}
    BY <1>0, <1>3, Returns DEF Keeps, ReturnCodes
  <2>2. CallParts(call')
    BY <1>0, <1>3, <2>1 DEF Keeps, CallParts, PlaceOK, SafOK, HoldsOK, CopySteps, AuthSteps, AuthFunctions, TokenFunctions
  <2> QED
    BY <2>1, <2>2, NotDone DEF Keeps
<1> QED
  BY <1>1, <1>2, <1>3, Percolated DEF safVerifyCreate, becomes, mayCreate, Known, fc

\* so does pushing the recovery state of the check;
LEMMA CheckPushed == ASSUME CallInv, pushCheck PROVE CallInv'
<1>0. call \in CallRecords /\ CallParts(call) /\ call.step = "push" /\ call.depth \in Int
  BY CallHolds DEF pushCheck, CallRecords
<1>1. CASE call' = [goes("check") EXCEPT !.depth = @ + 1]
  <2>1. PICK n \in Int : n = call.depth + 1
    BY <1>0
  <2>2. call' = [[call EXCEPT !.step = "check"] EXCEPT !.depth = n]
    BY <1>0, <1>1, <2>1 DEF goes, CallRecords
  <2>3. /\ SameCall(call') /\ SameSaf(call') /\ SameHolds(call') /\ call'.step = "check" /\ call'.rc = call.rc
        /\ call'.depth = n /\ call'.pushFailed = call.pushFailed
    BY <1>0, <2>2 DEF SameCall, SameSaf, SameHolds, CallRecords, Steps, AuthSteps, CopySteps, ReturnCodes,
        Results
  <2>4. CallParts(call')
    BY <1>0, <2>1, <2>3 DEF SameCall, SameSaf, SameHolds, CallParts, PlaceOK, SafOK, HoldsOK,
        Known, Granted, CopySteps, AuthSteps, AuthFunctions, TokenFunctions
  <2> QED
    BY <2>3, <2>4, NotDone DEF SameCall
<1>2. CASE call' = [goes("delete") EXCEPT !.rc = "INSTALL_RECOVERY_FAILED", !.pushFailed = TRUE]
  <2>1. /\ SameCall(call') /\ SameSaf(call') /\ SameHolds(call') /\ call'.step = "delete"
        /\ call'.rc = "INSTALL_RECOVERY_FAILED" /\ call'.pushFailed
    BY <1>0, <1>2 DEF SameCall, SameSaf, SameHolds, goes, CallRecords, Steps, AuthSteps, CopySteps,
        ReturnCodes, Results
  <2>2. CallParts(call')
    BY <1>0, <2>1 DEF SameCall, SameSaf, SameHolds, CallParts, PlaceOK, SafOK, HoldsOK, Known,
        Granted, CopySteps, AuthSteps, AuthFunctions, TokenFunctions
  <2> QED
    BY <2>1, <2>2, NotDone DEF SameCall
<1> QED
  BY <1>1, <1>2 DEF pushCheck, becomes

\* so does the check itself;
LEMMA Checked == ASSUME CallInv, safAuth PROVE CallInv'
<1>0. call \in CallRecords /\ CallParts(call) /\ call.step = "check" /\ call.depth \in Int
  BY CallHolds DEF safAuth, CallRecords
<1>1. PICK n \in Int : n = call.depth - 1
  BY <1>0
<1>2. PICK c : c = [[call EXCEPT !.step = "delete"] EXCEPT !.depth = n]
  OBVIOUS
<1>3. c = [goes("delete") EXCEPT !.depth = @ - 1]
  BY <1>0, <1>1, <1>2 DEF goes, CallRecords
<1>4. /\ SameCall(c) /\ SameSaf(c) /\ SameHolds(c) /\ c.step = "delete" /\ c.rc = call.rc
      /\ c.depth = n /\ c.pushFailed = call.pushFailed
  BY <1>0, <1>2 DEF SameCall, SameSaf, SameHolds, CallRecords, Steps, AuthSteps, CopySteps, ReturnCodes, Results
<1>5. \/ call.req.fc = "entity" /\ call.req.level >= call.req.access /\ call' = [c EXCEPT !.safRC = 0]
      \/ call.req.fc = "access" /\ call' = [c EXCEPT !.safRC = 0, !.level = call.req.level]
      \/ call' = [c EXCEPT !.safRC = 1, !.rc = "SAF_ERROR", !.refused = TRUE]
      \/ call' = [c EXCEPT !.rc = "SAF_ABENDED"]
  BY <1>3 DEF safAuth, becomes, fc
<1>6. /\ call' \in CallRecords /\ call'.step = "delete" /\ call'.req = call.req /\ SameHolds(call')
      /\ call'.depth = n /\ call'.pushFailed = call.pushFailed /\ call'.result = c.result /\ call'.answer = c.answer
      /\ \/ /\ call.req.fc = "entity" /\ call.req.level >= call.req.access /\ call'.safRC = 0 /\ call'.rc = c.rc
         \/ /\ call.req.fc = "access" /\ call'.level = call.req.level /\ call'.safRC = 0 /\ call'.rc = c.rc
         \/ call'.refused /\ call'.rc = "SAF_ERROR"
         \/ call'.rc = "SAF_ABENDED" /\ call'.refused = c.refused /\ call'.safRC = c.safRC
  <2>1. CASE call.req.fc = "entity" /\ call.req.level >= call.req.access /\ call' = [c EXCEPT !.safRC = 0]
    BY <1>4, <2>1 DEF SameCall, SameHolds, CallRecords, Steps, AuthSteps, CopySteps, ReturnCodes, Results
  <2>2. CASE call.req.fc = "access" /\ call' = [c EXCEPT !.safRC = 0, !.level = call.req.level]
    <3>1. PICK l \in Nat : l = call.req.level
      <4>1. call.req \in Requests
        BY <1>0, <2>2, IdleIsCall DEF CallRecords
      <4> QED
        BY <4>1, CoreServicesAssumption
    <3>2. call' = [c EXCEPT !.safRC = 0, !.level = l]
      BY <2>2, <3>1
    <3>3. PICK d : d = [c EXCEPT !.safRC = 0]
      OBVIOUS
    <3>4. /\ SameCall(d) /\ SameHolds(d) /\ d.step = "delete" /\ d.safRC = 0 /\ d.rc = c.rc
          /\ d.depth = n /\ d.pushFailed = call.pushFailed /\ d.result = c.result /\ d.answer = c.answer
      BY <1>4, <3>3 DEF SameCall, SameHolds, CallRecords
    <3>5. call' = [d EXCEPT !.level = l]
      BY <3>2, <3>3
    <3> QED
      BY <2>2, <3>1, <3>4, <3>5 DEF SameCall, SameHolds, CallRecords
  <2>3. CASE call' = [c EXCEPT !.safRC = 1, !.rc = "SAF_ERROR", !.refused = TRUE]
    <3>1. PICK d : d = [c EXCEPT !.safRC = 1, !.rc = "SAF_ERROR"]
      OBVIOUS
    <3>2. /\ SameCall(d) /\ SameHolds(d) /\ d.step = "delete" /\ d.rc = "SAF_ERROR"
          /\ d.depth = n /\ d.pushFailed = call.pushFailed /\ d.result = c.result /\ d.answer = c.answer
      BY <1>4, <3>1 DEF SameCall, SameHolds, CallRecords, ReturnCodes
    <3>3. call' = [d EXCEPT !.refused = TRUE]
      BY <2>3, <3>1
    <3> QED
      BY <3>2, <3>3 DEF SameCall, SameHolds, CallRecords
  <2>4. CASE call' = [c EXCEPT !.rc = "SAF_ABENDED"]
    BY <1>4, <2>4 DEF SameCall, SameHolds, CallRecords, Steps, AuthSteps, CopySteps, ReturnCodes, Results
  <2> QED
    BY <1>5, <2>1, <2>2, <2>3, <2>4
<1>7. CallParts(call')
  BY <1>0, <1>1, <1>4, <1>6 DEF SameCall, SameSaf, SameHolds, CallParts, PlaceOK, SafOK, HoldsOK,
      Known, Granted, CopySteps, AuthSteps, AuthFunctions, TokenFunctions
<1> QED
  BY <1>6, <1>7, NotDone

\* so does deleting the ACEE.
LEMMA Deleted == ASSUME CallInv, safVerifyDelete PROVE CallInv'
<1>0. call \in CallRecords /\ CallParts(call) /\ call.step = "delete" /\ call.rc \in ReturnCodes
  BY CallHolds DEF safVerifyDelete, CallRecords
<1>1. CASE call' = returns([call EXCEPT !.acee = FALSE], call.rc)
  <2>1. PICK c : c = [call EXCEPT !.acee = FALSE]
    OBVIOUS
  <2>2. SameCall(c) /\ SameSaf(c) /\ SameStack(c) /\ c.buffer = call.buffer /\ ~c.acee
    BY <1>0, <2>1 DEF SameCall, SameSaf, SameStack, CallRecords, Steps, AuthSteps, CopySteps, ReturnCodes,
        Results
  <2>3. /\ SameCall(call') /\ SameSaf(call') /\ SameStack(call') /\ call'.buffer = call.buffer /\ ~call'.acee
        /\ call'.step = "returned" /\ call'.rc = call.rc
    <3>1. call' = returns(c, call.rc) /\ c \in CallRecords
      BY <1>1, <2>1, <2>2 DEF SameCall
    <3> QED
      BY <1>0, <2>2, <3>1, Returns DEF SameCall, SameSaf, SameStack
  <2>4. CallParts(call')
    BY <1>0, <2>3 DEF SameCall, SameSaf, SameStack, CallParts, PlaceOK, SafOK, HoldsOK, Known,
        Granted, CopySteps, AuthSteps, AuthFunctions, TokenFunctions
  <2> QED
    BY <2>3, <2>4, NotDone DEF SameCall
<1>2. CASE call' = [deleteFails(call) EXCEPT !.step = "returned", !.deleteFailed = TRUE]
  <2>1. PICK c : c = deleteFails(call)
    OBVIOUS
  <2>2. /\ SameCall(c) /\ c.refused = call.refused /\ SameHolds(c) /\ SameStack(c)
        /\ \/ c.rc = "DELETE_FAILED" /\ (call.req.fc # "access" => c.safRC = call.safRC)
           \/ c.rc = call.rc /\ c.safRC = call.safRC /\ call.rc # "OK"
    <3>1. \/ c = [call EXCEPT !.rc = "DELETE_FAILED"]
          \/ c = [call EXCEPT !.rc = "DELETE_FAILED", !.safRC = 1] /\ call.req.fc = "access"
          \/ c = call /\ call.rc # "OK"
      BY <2>1 DEF deleteFails, fc
    <3>2. CASE c = [call EXCEPT !.rc = "DELETE_FAILED"]
      BY <1>0, <3>2 DEF SameCall, SameHolds, SameStack, CallRecords, ReturnCodes
    <3>3. CASE c = [call EXCEPT !.rc = "DELETE_FAILED", !.safRC = 1] /\ call.req.fc = "access"
      BY <1>0, <3>3 DEF SameCall, SameHolds, SameStack, CallRecords, ReturnCodes
    <3> QED
      BY <1>0, <3>1, <3>2, <3>3 DEF SameCall, SameHolds, SameStack
  <2>3. /\ call' \in CallRecords /\ call'.req = c.req /\ call'.result = c.result /\ call'.answer = c.answer
        /\ call'.refused = c.refused /\ call'.safRC = c.safRC /\ call'.rc = c.rc /\ call'.step = "returned"
        /\ call'.deleteFailed /\ call'.buffer = c.buffer /\ call'.depth = c.depth /\ call'.pushFailed = c.pushFailed
    <3>1. call' = [c EXCEPT !.step = "returned", !.deleteFailed = TRUE] /\ c \in CallRecords
      BY <1>2, <2>1, <2>2 DEF SameCall
    <3>2. PICK d : d = [c EXCEPT !.step = "returned"]
      OBVIOUS
    <3>3. /\ d \in CallRecords /\ d.req = c.req /\ d.result = c.result /\ d.answer = c.answer
          /\ d.refused = c.refused /\ d.safRC = c.safRC /\ d.rc = c.rc /\ d.step = "returned"
          /\ d.buffer = c.buffer /\ d.depth = c.depth /\ d.pushFailed = c.pushFailed
      BY <3>1, <3>2 DEF CallRecords, Steps, AuthSteps
    <3>4. call' = [d EXCEPT !.deleteFailed = TRUE]
      BY <3>1, <3>2
    <3> QED
      BY <3>3, <3>4 DEF CallRecords
  <2>4. CallParts(call')
    BY <1>0, <2>2, <2>3 DEF SameCall, SameHolds, SameStack, CallParts, PlaceOK, SafOK, HoldsOK,
        Known, Granted, CopySteps, AuthSteps, AuthFunctions, TokenFunctions
  <2> QED
    BY <2>3, <2>4, NotDone
<1> QED
  BY <1>1, <1>2, Percolated DEF safVerifyDelete, becomes


\* The copy service.  Its depth may be anything once a push failed.
LEMMA Depth == ASSUME call \in CallRecords PROVE call.depth \in Int
BY DEF CallRecords

\* Whatever its rc, a service that goes to its end without a copy is in order.
LEMMA CopyFrees ==
  ASSUME CallInv, call.step \in CopySteps, call' \in CallRecords, call'.step = "free", call'.req = call.req,
         call'.rc \notin {"OK", "SAF_ERROR"}, SameSaf(call'), call'.acee = call.acee,
         call'.pushFailed \/ SameStack(call'), call'.result = call.result, call'.answer = call.answer
  PROVE  CallInv'
<1>0. call \in CallRecords /\ CallParts(call)
  BY CallHolds
<1>1. CallParts(call')
  BY <1>0 DEF SameSaf, SameStack, CallParts, PlaceOK, SafOK, HoldsOK, Known, Granted, CopySteps,
      AuthSteps, AuthFunctions, TokenFunctions
<1> QED
  BY <1>1, NotDone

\* A push that fails in the copy service keeps the invariant;
LEMMA PushFails ==
  ASSUME CallInv, call.step \in CopySteps, call' = pushFails(goes("free")) PROVE CallInv'
<1>0. call \in CallRecords
  BY CallHolds
<1>1. PICK n \in Int : n = call.depth - 1
  BY <1>0, Depth
<1>2. call' = [[call EXCEPT !.step = "free"] EXCEPT !.rc = "RECOVERY_ERROR", !.pushFailed = TRUE, !.depth = n]
  BY <1>0, <1>1 DEF pushFails, goes, CallRecords
<1>3. /\ call' \in CallRecords /\ call'.step = "free" /\ call'.req = call.req /\ call'.rc = "RECOVERY_ERROR"
      /\ SameSaf(call') /\ call'.acee = call.acee /\ call'.pushFailed
      /\ call'.result = call.result /\ call'.answer = call.answer
  <2>1. PICK c : c = [[call EXCEPT !.step = "free"] EXCEPT !.rc = "RECOVERY_ERROR"]
    OBVIOUS
  <2>2. /\ c \in CallRecords /\ c.step = "free" /\ c.req = call.req /\ c.rc = "RECOVERY_ERROR" /\ SameSaf(c)
        /\ c.acee = call.acee /\ c.result = call.result /\ c.answer = call.answer
    BY <1>0, <2>1 DEF SameSaf, CallRecords, Steps, CopySteps, ReturnCodes
  <2>3. call' = [c EXCEPT !.pushFailed = TRUE, !.depth = n]
    BY <1>2, <2>1
  <2> QED
    BY <2>2, <2>3 DEF SameSaf, CallRecords
<1> QED
  BY <1>3, CopyFrees

\* so does any other failure of the copy service;
LEMMA CopyFails ==
  ASSUME CallInv, call.step \in CopySteps, NEW rc \in ReturnCodes \ {"OK", "SAF_ERROR"},
         call' = [goes("free") EXCEPT !.rc = rc]
  PROVE  CallInv'
<1>0. call \in CallRecords
  BY CallHolds
<1>1. /\ call' \in CallRecords /\ call'.step = "free" /\ call'.req = call.req /\ call'.rc = rc
      /\ SameSaf(call') /\ call'.acee = call.acee /\ SameStack(call')
      /\ call'.result = call.result /\ call'.answer = call.answer
  BY <1>0 DEF goes, SameSaf, SameStack, CallRecords, Steps, CopySteps
<1> QED
  BY <1>1, CopyFrees

\* so does the beginning of the service.
LEMMA SnarferBegins == ASSUME CallInv, snarferBegins PROVE CallInv'
<1>0. call \in CallRecords /\ CallParts(call) /\ call.step = "service" /\ call.req.fc = "copy"
  BY CallHolds DEF snarferBegins, fc
<1>1. ASSUME NEW c \in CallRecords, SameCall(c), SameSaf(c), SameHolds(c), c.pushFailed \/ SameStack(c),
             NEW rc \in ReturnCodes \ {"OK", "SAF_ERROR"}, call' = returns(c, rc)
      PROVE  CallInv'
  <2>1. /\ call' \in CallRecords /\ call'.step = "returned" /\ call'.req = call.req /\ call'.rc = rc
        /\ SameSaf(call') /\ SameHolds(call') /\ call'.result = call.result /\ call'.answer = call.answer
        /\ call'.pushFailed \/ SameStack(call')
    BY <1>1, Returns DEF SameCall, SameSaf, SameHolds, SameStack
  <2>2. CallParts(call')
    BY <1>0, <1>1, <2>1 DEF SameSaf, SameHolds, SameStack, CallParts, PlaceOK, SafOK, HoldsOK,
        Known, Granted, CopySteps, AuthSteps, AuthFunctions, TokenFunctions
  <2> QED
    BY <2>1, <2>2, NotDone
<1>2. CASE \E rc \in {"BAD_DEST", "BAD_ASCB", "BAD_SIZE"} : call' = returns(call, rc)
  BY <1>0, <1>1, <1>2 DEF SameCall, SameSaf, SameHolds, SameStack, ReturnCodes
<1>3. CASE call' = returns([call EXCEPT !.pushFailed = TRUE], "RECOVERY_ERROR")
  <2>1. PICK c : c = [call EXCEPT !.pushFailed = TRUE]
    OBVIOUS
  <2>2. SameCall(c) /\ SameSaf(c) /\ SameHolds(c) /\ c.pushFailed
    BY <1>0, <2>1 DEF SameCall, SameSaf, SameHolds, CallRecords
  <2>3. call' = returns(c, "RECOVERY_ERROR") /\ c \in CallRecords
    BY <1>3, <2>1, <2>2 DEF SameCall
  <2> QED
    BY <1>1, <2>2, <2>3 DEF ReturnCodes
<1>4. CASE call' = [goes("assb") EXCEPT !.depth = 1]
  <2>1. /\ SameCall(call') /\ SameSaf(call') /\ SameHolds(call') /\ call'.depth = 1 /\ call'.step = "assb"
        /\ call'.rc = call.rc
    <3>1. PICK n \in Int : n = 1
      OBVIOUS
    <3>2. call' = [[call EXCEPT !.step = "assb"] EXCEPT !.depth = n]
      BY <1>4, <3>1 DEF goes
    <3> QED
      BY <1>0, <3>1, <3>2 DEF SameCall, SameSaf, SameHolds, CallRecords, Steps, CopySteps
  <2>2. CallParts(call')
    BY <1>0, <2>1 DEF SameCall, SameSaf, SameHolds, CallParts, PlaceOK, SafOK, HoldsOK, Known,
        Granted, CopySteps, AuthSteps, AuthFunctions, TokenFunctions
  <2> QED
    BY <2>1, <2>2, NotDone DEF SameCall
<1> QED
  BY <1>2, <1>3, <1>4 DEF snarferBegins, becomes

\* The copy service moves on without a word about SAF or its stack.
LEMMA CopyGoesOn ==
  ASSUME CallInv, call.step \in CopySteps \ {"free"}, call' \in CallRecords, call'.step \in CopySteps,
         call'.req = call.req, call'.rc = call.rc, SameSaf(call'), call'.acee = call.acee, SameStack(call'),
         call'.result = call.result, call'.answer = call.answer
  PROVE  CallInv'
<1>0. call \in CallRecords /\ CallParts(call)
  BY CallHolds
<1>1. CallParts(call')
  BY <1>0 DEF SameSaf, SameStack, CallParts, PlaceOK, SafOK, HoldsOK, Known, Granted, CopySteps,
      AuthSteps, AuthFunctions, TokenFunctions
<1> QED
  BY <1>1, NotDone DEF CopySteps

\* as when it just takes its next step.
LEMMA GoesOn ==
  ASSUME CallInv, call.step \in CopySteps \ {"free"}, NEW step \in CopySteps, call' = goes(step) PROVE CallInv'
<1>0. call \in CallRecords
  BY CallHolds
<1>1. Keeps(call') /\ call'.step = step /\ call'.rc = call.rc
  BY <1>0, Goes DEF Steps
<1> QED
  BY <1>1, CopyGoesOn DEF Keeps, SameSaf, SameStack

\* Finding the ASSB keeps the invariant;
LEMMA ASSBGot == ASSUME CallInv, getASSB PROVE CallInv'
<1>0. call \in CallRecords /\ call.step = "assb"
  BY CallHolds DEF getASSB
<1>1. CASE call' = goes("alloc")
  BY <1>0, <1>1, GoesOn DEF CopySteps
<1> QED
  BY <1>0, <1>1, CopyFails, PushFails DEF getASSB, becomes, ReturnCodes, CopySteps

\* so does allocating the transfer buffer;
LEMMA Allocated == ASSUME CallInv, allocateTransferBuffer PROVE CallInv'
<1>0. call \in CallRecords /\ call.step = "alloc"
  BY CallHolds DEF allocateTransferBuffer
<1>1. CASE call' = [goes("srb") EXCEPT !.buffer = TRUE]
  <2>1. /\ SameCall(call') /\ SameSaf(call') /\ SameStack(call') /\ call'.acee = call.acee
        /\ call'.step = "srb" /\ call'.rc = call.rc
    BY <1>0, <1>1 DEF goes, SameCall, SameSaf, SameStack, CallRecords, Steps, AuthSteps, CopySteps,
        ReturnCodes, Results
  <2> QED
    BY <1>0, <2>1, CopyGoesOn DEF SameCall, CopySteps
<1> QED
  BY <1>0, <1>1, CopyFails DEF allocateTransferBuffer, becomes, ReturnCodes, CopySteps

\* so does the SRB;
LEMMA SRBScheduled == ASSUME CallInv, scheduleSynchSRB PROVE CallInv'
<1>0. call \in CallRecords /\ call.step = "srb"
  BY CallHolds DEF scheduleSynchSRB
<1>1. CASE call' = goes("copyOut")
  BY <1>0, <1>1, GoesOn DEF CopySteps
<1> QED
  BY <1>0, <1>1, CopyFails, PushFails DEF scheduleSynchSRB, becomes, ReturnCodes, CopySteps

\* so does copying to the caller;
LEMMA CopiedOut == ASSUME CallInv, copyToCaller PROVE CallInv'
<1>0. call \in CallRecords /\ CallParts(call) /\ call.step = "copyOut"
  BY CallHolds DEF copyToCaller
<1>1. CASE call' = goes("free")
  BY <1>0, <1>1, GoesOn DEF CopySteps
<1> QED
  BY <1>1, Percolated DEF copyToCaller, becomes

\* so does the end of the service.
LEMMA SnarferEnds == ASSUME CallInv, snarferEnds PROVE CallInv'
<1>0. call \in CallRecords /\ CallParts(call) /\ call.step = "free" /\ call.rc \in ReturnCodes
  BY CallHolds DEF snarferEnds, CallRecords
<1>1. PICK n \in Int : n = call.depth - 1
  BY <1>0, Depth
<1>2. PICK c : c = [call EXCEPT !.buffer = FALSE, !.depth = n]
  OBVIOUS
<1>3. c = [call EXCEPT !.buffer = FALSE, !.depth = @ - 1]
  BY <1>0, <1>1, <1>2 DEF CallRecords
<1>4. call' = returns(c, call.rc)
  BY <1>3 DEF snarferEnds, becomes
<1>5. /\ SameCall(c) /\ SameSaf(c) /\ ~c.buffer /\ c.acee = call.acee /\ c.depth = n /\ c.pushFailed = call.pushFailed
  BY <1>0, <1>2 DEF SameCall, SameSaf, CallRecords
<1>6. /\ SameCall(call') /\ SameSaf(call') /\ ~call'.buffer /\ call'.acee = call.acee
      /\ call'.depth = n /\ call'.pushFailed = call.pushFailed /\ call'.step = "returned" /\ call'.rc = call.rc
  BY <1>0, <1>4, <1>5, Returns DEF SameCall, SameSaf
<1>7. CallParts(call')
  BY <1>0, <1>1, <1>6 DEF SameCall, SameSaf, CallParts, PlaceOK, SafOK, HoldsOK, Known, Granted,
      CopySteps, AuthSteps, AuthFunctions, TokenFunctions
<1> QED
  BY <1>6, <1>7, NotDone DEF SameCall


\* A copy that is cut short by the cancel of its caller or by the end of the
\* server.
LEMMA CutShort ==
  ASSUME CallInv, call.step \in CopySteps \cup {"service"}, call.req.fc = "copy", NEW b \in BOOLEAN, NEW result \in {"CANCELLED", "ENDED"},
         call' = [goes("done") EXCEPT !.result = result, !.buffer = b],
         result = "CANCELLED" /\ ~call.pushFailed => ~b
  PROVE  CallInv'
<1>0. call \in CallRecords /\ CallParts(call)
  BY CallHolds
<1>1. PICK c : c = goes("done")
  OBVIOUS
<1>2. SameCall(c) /\ SameSaf(c) /\ c.pushFailed = call.pushFailed /\ c.step = "done" /\ c.rc = call.rc
  BY <1>0, <1>1, IdleIsCall DEF goes, SameCall, SameSaf, CallRecords, Steps
<1>3. call' = [c EXCEPT !.result = result, !.buffer = b] /\ c \in CallRecords
  BY <1>1, <1>2 DEF SameCall
<1>4. /\ call' \in CallRecords /\ call'.step = "done" /\ call'.req = c.req /\ call'.rc = c.rc /\ call'.answer = c.answer
      /\ call'.refused = c.refused /\ call'.safRC = c.safRC /\ call'.pushFailed = c.pushFailed
      /\ call'.result = result /\ call'.buffer = b
  <2>1. PICK d : d = [c EXCEPT !.result = result]
    OBVIOUS
  <2>2. /\ d \in CallRecords /\ d.step = "done" /\ d.req = c.req /\ d.rc = c.rc /\ d.answer = c.answer
        /\ d.refused = c.refused /\ d.safRC = c.safRC /\ d.pushFailed = c.pushFailed /\ d.result = result
    <3>1. result \in Results /\ c.step = "done"
      BY <1>2 DEF Results
    <3> QED
      BY <1>3, <2>1, <3>1 DEF CallRecords
  <2>3. call' = [d EXCEPT !.buffer = b]
    BY <1>3, <2>1
  <2>4. call' \in CallRecords /\ call'.buffer = b
    BY <2>2, <2>3 DEF CallRecords
  <2>5. /\ call'.step = d.step /\ call'.req = d.req /\ call'.rc = d.rc /\ call'.answer = d.answer
        /\ call'.refused = d.refused /\ call'.safRC = d.safRC /\ call'.pushFailed = d.pushFailed
        /\ call'.result = d.result
    BY <2>2, <2>3 DEF CallRecords
  <2> QED
    BY <2>2, <2>4, <2>5
<1>5. CallParts(call') /\ call'.answer = "none"
  BY <1>0, <1>2, <1>4 DEF SameCall, SameSaf, CallParts, PlaceOK, SafOK, HoldsOK, Known, Granted,
      CopySteps, AuthSteps, AuthFunctions, TokenFunctions
<1> QED
  BY <1>2, <1>4, <1>5
     DEF SameCall, CallInv, CallOK, CallParts, VerdictFromSAF, ResourcesReturned

\* The cancel of the caller, with the cleanup, keeps the invariant;
LEMMA Cancelled == ASSUME CallInv, cleanupSnarfer PROVE CallInv'
<1>0. call \in CallRecords /\ CallParts(call) /\ call.step \in CopySteps /\ call.req.fc = "copy"
  BY CallHolds DEF cleanupSnarfer, fc, CopySteps
<1>1. PICK b \in BOOLEAN : b <=> call.buffer /\ call.depth <= 0
  <2>1. \E b \in BOOLEAN : b = (call.buffer /\ call.depth <= 0)
    OBVIOUS
  <2> QED
    BY <2>1
<1>2. ~call.pushFailed => ~b
  BY <1>0, <1>1 DEF CallParts, HoldsOK, CopySteps
<1>3. call' = [goes("done") EXCEPT !.result = "CANCELLED", !.buffer = b]
  <2>1. PICK c : c = goes("done")
    OBVIOUS
  <2>2. c \in CallRecords /\ c.buffer = call.buffer
    BY <1>0, <2>1, IdleIsCall DEF goes, CallRecords, Steps
  <2>3. call' = [c EXCEPT !.result = "CANCELLED", !.buffer = @ /\ call.depth <= 0]
    BY <2>1 DEF cleanupSnarfer, becomes
  <2>4. call' = [c EXCEPT !.result = "CANCELLED", !.buffer = b]
    BY <1>1, <2>2, <2>3 DEF CallRecords
  <2> QED
    BY <2>1, <2>4
<1> QED
  BY <1>0, <1>2, <1>3, CutShort

\* so does the end of the server under a space-switch call.
LEMMA ServerEnded == ASSUME CallInv, endSpaceSwitch PROVE CallInv'
<1>0. call \in CallRecords /\ CallParts(call)
  BY CallHolds
<1>1. CASE call' = call
  BY <1>1 DEF CallInv, CallOK, VerdictFromSAF, ResourcesReturned, fc, mayCreate,
              CallParts, PlaceOK, SafOK, HoldsOK, Known, Granted, CopySteps, AuthSteps,
              AuthFunctions, TokenFunctions
<1>2. CASE /\ call.req.fc = "copy" /\ call.step \notin {"idle", "returned", "done"}
           /\ call' = [goes("done") EXCEPT !.result = "ENDED"]
  <2>1. call.step \in CopySteps \cup {"service"}
    BY <1>0, <1>2 DEF CallRecords, Steps, CallParts, PlaceOK, AuthSteps, AuthFunctions, TokenFunctions
  <2>2. PICK b \in BOOLEAN : b = call.buffer
    BY <1>0 DEF CallRecords
  <2>3. PICK c : c = goes("done")
    OBVIOUS
  <2>4. c \in CallRecords /\ c.buffer = call.buffer
    BY <1>0, <2>3, IdleIsCall DEF goes, CallRecords, Steps
  <2>5. call' = [c EXCEPT !.result = "ENDED", !.buffer = b]
    BY <1>2, <2>2, <2>3, <2>4 DEF CallRecords
  <2> QED
    BY <1>2, <2>1, <2>3, <2>5, CutShort
<1> QED
  BY <1>1, <1>2 DEF endSpaceSwitch, isSpaceSwitch, fc

\* The network management service.
LEMMA NWMBegins == ASSUME CallInv, nwmBegins PROVE CallInv'
<1>0. call \in CallRecords /\ CallParts(call) /\ call.step = "service" /\ call.req.fc = "nwm"
  BY CallHolds DEF nwmBegins, fc
<1>1. CASE \E rc \in {"BUFFER_NULL", "BUFFER_NOT_ALLOCATED"} : call' = returns(call, rc)
  <2>1. PICK rc \in {"BUFFER_NULL", "BUFFER_NOT_ALLOCATED"} : call' = returns(call, rc)
    BY <1>1
  <2>2. Keeps(call') /\ call'.step = "returned" /\ call'.rc = rc
    BY <1>0, <2>1, Returns DEF Keeps, ReturnCodes
  <2>3. CallParts(call')
    BY <1>0, <2>1, <2>2 DEF Keeps, CallParts, PlaceOK, SafOK, HoldsOK, Known, Granted, CopySteps,
        AuthSteps, AuthFunctions, TokenFunctions
  <2> QED
    BY <2>2, <2>3, NotDone DEF Keeps
<1>2. CASE call' = [goes("nwm") EXCEPT !.buffer = TRUE, !.depth = 1]
  <2>1. PICK n \in Int : n = 1
    OBVIOUS
  <2>2. call' = [[call EXCEPT !.step = "nwm"] EXCEPT !.buffer = TRUE, !.depth = n]
    BY <1>2, <2>1 DEF goes
  <2>3. /\ SameCall(call') /\ SameSaf(call') /\ call'.acee = call.acee /\ call'.depth = n
        /\ call'.step = "nwm" /\ call'.rc = call.rc
    BY <1>0, <2>2 DEF SameCall, SameSaf, CallRecords, Steps
  <2>4. CallParts(call')
    BY <1>0, <2>1, <2>3 DEF SameCall, SameSaf, CallParts, PlaceOK, SafOK, HoldsOK, Known,
        Granted, CopySteps, AuthSteps, AuthFunctions, TokenFunctions
  <2> QED
    BY <2>3, <2>4, NotDone DEF SameCall
<1>3. CASE call' = [goes("nwmFree") EXCEPT !.buffer = TRUE, !.rc = "RECOVERY_ERROR", !.pushFailed = TRUE]
  <2>1. PICK c : c = goes("nwmFree")
    OBVIOUS
  <2>2. Keeps(c) /\ c.step = "nwmFree"
    BY <1>0, <2>1, Goes DEF Steps
  <2>3. call' = [c EXCEPT !.buffer = TRUE, !.rc = "RECOVERY_ERROR", !.pushFailed = TRUE] /\ c \in CallRecords
    BY <1>3, <2>1, <2>2 DEF Keeps
  <2>4. /\ call' \in CallRecords /\ call'.req = c.req /\ call'.step = "nwmFree" /\ call'.rc = "RECOVERY_ERROR"
        /\ call'.pushFailed /\ call'.acee = c.acee /\ call'.safRC = c.safRC /\ call'.refused = c.refused
        /\ call'.result = c.result /\ call'.answer = c.answer
    BY <2>2, <2>3 DEF CallRecords, ReturnCodes
  <2>5. CallParts(call')
    BY <1>0, <2>2, <2>4 DEF Keeps, CallParts, PlaceOK, SafOK, HoldsOK, Known, Granted, CopySteps,
        AuthSteps, AuthFunctions, TokenFunctions
  <2> QED
    BY <2>4, <2>5, NotDone
<1> QED
  BY <1>1, <1>2, <1>3 DEF nwmBegins, becomes

\* Calling the network management interface keeps the invariant;
LEMMA NWMCalled == ASSUME CallInv, callNWMService PROVE CallInv'
<1>0. call \in CallRecords /\ CallParts(call) /\ call.step = "nwm"
  BY CallHolds DEF callNWMService
<1>1. CASE \E rc \in {"OK", "NWM_FAILED"} : call' = [goes("nwmFree") EXCEPT !.depth = @ - 1, !.rc = rc]
  <2>1. PICK rc \in {"OK", "NWM_FAILED"} : call' = [[call EXCEPT !.step = "nwmFree"] EXCEPT !.depth = @ - 1, !.rc = rc]
    BY <1>1 DEF goes
  <2>2. PICK n \in Int : n = call.depth - 1
    BY <1>0, Depth
  <2>3. call' = [[call EXCEPT !.step = "nwmFree"] EXCEPT !.depth = n, !.rc = rc]
    BY <1>0, <2>1, <2>2 DEF CallRecords
  <2>4. /\ SameCall(call') /\ SameSaf(call') /\ SameHolds(call') /\ call'.step = "nwmFree" /\ call'.rc = rc
        /\ call'.depth = n /\ call'.pushFailed = call.pushFailed
    BY <1>0, <2>3 DEF SameCall, SameSaf, SameHolds, CallRecords, Steps, ReturnCodes
  <2>5. CallParts(call')
    BY <1>0, <2>1, <2>2, <2>4 DEF SameCall, SameSaf, SameHolds, CallParts, PlaceOK, SafOK, HoldsOK,
        Known, Granted, CopySteps, AuthSteps, AuthFunctions, TokenFunctions
  <2> QED
    BY <2>4, <2>5, NotDone DEF SameCall
<1> QED
  BY <1>1, Percolated DEF callNWMService, becomes

\* so does its answer.
LEMMA NWMEnds == ASSUME CallInv, nwmEnds PROVE CallInv'
<1>0. call \in CallRecords /\ CallParts(call) /\ call.step = "nwmFree" /\ call.rc \in ReturnCodes
  BY CallHolds DEF nwmEnds, CallRecords
<1>1. CASE call' = returns([call EXCEPT !.buffer = FALSE], call.rc)
  <2>1. PICK c : c = [call EXCEPT !.buffer = FALSE]
    OBVIOUS
  <2>2. SameCall(c) /\ SameSaf(c) /\ SameStack(c) /\ c.acee = call.acee /\ ~c.buffer
    BY <1>0, <2>1 DEF SameCall, SameSaf, SameStack, CallRecords
  <2>3. call' = returns(c, call.rc) /\ c \in CallRecords
    BY <1>1, <2>1, <2>2 DEF SameCall
  <2>4. /\ SameCall(call') /\ SameSaf(call') /\ SameStack(call') /\ call'.acee = call.acee /\ ~call'.buffer
        /\ call'.step = "returned" /\ call'.rc = call.rc
    BY <1>0, <2>2, <2>3, Returns DEF SameCall, SameSaf, SameStack
  <2>5. CallParts(call')
    BY <1>0, <2>4 DEF SameCall, SameSaf, SameStack, CallParts, PlaceOK, SafOK, HoldsOK, Known,
        Granted, CopySteps, AuthSteps, AuthFunctions, TokenFunctions
  <2> QED
    BY <2>4, <2>5, NotDone DEF SameCall
<1> QED
  BY <1>1, Percolated DEF nwmEnds, becomes


\* The client routine copies the status of the parameter list.
LEMMA Requested == ASSUME CallInv, authRequest PROVE CallInv'
<1>0. call \in CallRecords /\ CallParts(call) /\ call.step = "returned"
  BY CallHolds DEF authRequest
<1>1. PICK result \in Results : result = IF call.rc = "OK" THEN "OK" ELSE "SERVICE_FAILED"
  BY DEF Results
<1>2. PICK saf \in {0, 1} : saf = IF statusCopied(call.rc) THEN call.safRC ELSE 0
  BY <1>0 DEF CallRecords
<1>3. PICK c : c = [[call EXCEPT !.step = "done"] EXCEPT !.result = result, !.safRC = saf]
  OBVIOUS
<1>4. call' = answered(c)
  <2>1. c = [goes("done") EXCEPT !.result = IF call.rc = "OK" THEN "OK" ELSE "SERVICE_FAILED",
                                 !.safRC = IF statusCopied(call.rc) THEN @ ELSE 0]
    BY <1>0, <1>1, <1>2, <1>3 DEF goes, CallRecords
  <2> QED
    BY <2>1 DEF authRequest, becomes
<1>5. /\ c \in CallRecords /\ c.step = "done" /\ c.req = call.req /\ c.level = call.level
      /\ c.rc = call.rc /\ c.refused = call.refused /\ c.safRC = saf /\ c.result = result
      /\ SameHolds(c) /\ SameStack(c)
  BY <1>0, <1>3 DEF SameHolds, SameStack, CallRecords, Steps
<1>6. Known(c) <=> Known(call)
  BY <1>5 DEF Known
<1>7. Granted(c) <=> Granted(call)
  BY <1>5 DEF Granted
<1>8. /\ c.req.fc # "access" /\ c.safRC # 0 => c.refused
      /\ c.rc = "SAF_ERROR" => c.refused
      /\ c.result # "CANCELLED"
      /\ c.result = "OK" /\ c.req.fc \in AuthFunctions => Known(c) /\ Granted(c)
  BY <1>0, <1>1, <1>2, <1>5, <1>6, <1>7 DEF CallParts, SafOK
<1>9. (c.acee => c.deleteFailed) /\ ~c.buffer /\ (c.depth # 0 => c.pushFailed)
  BY <1>0, <1>5 DEF SameHolds, SameStack, CallParts, HoldsOK, CopySteps
<1> QED
  BY <1>4, <1>5, <1>8, <1>9, IsDone

\* The services that ask SAF themselves.
LEMMA Served ==
  ASSUME CallInv, NEW f \in {"ticket", "reset"},
         NEW refusals \in SUBSET {"error", "notAuthenticated", "badRequest", "tooMany"},
         servedBySaf(f, refusals)
  PROVE  CallInv'
<1>1. PICK r \in Requests :
        /\ r.fc = f
        /\ \/ call' = [[Idle EXCEPT !.step = "done", !.req = r] EXCEPT !.answer = "badRequest"]
           \/ /\ r.known /\ r.right
              /\ call' = [[Idle EXCEPT !.step = "done", !.req = r] EXCEPT !.answer = "authenticated"]
           \/ \E a \in refusals : call' = [[Idle EXCEPT !.step = "done", !.req = r] EXCEPT !.answer = a, !.refused = TRUE]
  BY DEF servedBySaf, becomes
<1>2. PICK c : c = [Idle EXCEPT !.step = "done", !.req = r]
  OBVIOUS
<1>3. /\ c \in CallRecords /\ c.step = "done" /\ c.req = r /\ c.rc = "OK" /\ c.safRC = 0 /\ c.result = "none"
  BY <1>2, IdleIsCall DEF CallRecords, Steps
<1>4. \/ call' = [c EXCEPT !.answer = "badRequest"]
      \/ r.known /\ r.right /\ call' = [c EXCEPT !.answer = "authenticated"]
      \/ \E a \in refusals : call' = [c EXCEPT !.answer = a, !.refused = TRUE]
  BY <1>1, <1>2
<1>5. /\ call' \in CallRecords /\ call'.step = "done" /\ call'.req = r /\ call'.rc = "OK" /\ call'.safRC = 0
      /\ call'.result = "none" /\ call'.answer \in {"badRequest", "authenticated", "error", "notAuthenticated", "tooMany"}
      /\ call'.answer = "authenticated" => r.known /\ r.right
      /\ call'.answer = "notAuthenticated" => call'.refused
  <2>1. CASE call' = [c EXCEPT !.answer = "badRequest"]
    BY <1>3, <2>1 DEF CallRecords, Answers
  <2>2. CASE r.known /\ r.right /\ call' = [c EXCEPT !.answer = "authenticated"]
    BY <1>3, <2>2 DEF CallRecords, Answers
  <2>3. CASE \E a \in refusals : call' = [c EXCEPT !.answer = a, !.refused = TRUE]
    <3>1. PICK a \in {"error", "notAuthenticated", "badRequest", "tooMany"} : call' = [c EXCEPT !.answer = a, !.refused = TRUE]
      BY <2>3
    <3> QED
      BY <1>3, <3>1 DEF CallRecords, Answers
  <2> QED
    BY <1>4, <2>1, <2>2, <2>3
<1>6. CallOK(call)'
  BY <1>1, <1>5 DEF CallOK, CallParts, PlaceOK, SafOK, HoldsOK, Known, Granted, CopySteps,
      AuthSteps, AuthFunctions, TokenFunctions
<1>7. VerdictFromSAF' /\ ResourcesReturned'
  BY <1>1, <1>5 DEF VerdictFromSAF, ResourcesReturned, fc
<1> QED
  BY <1>6, <1>7 DEF CallInv

\* A call that the caller has forgotten keeps nothing.
LEMMA Forgotten == ASSUME CallInv, forget PROVE CallInv'
<1>1. call' = Idle
  BY DEF forget, becomes
<1>2. CallParts(call')
  BY <1>1, IdleIsCall DEF CallParts, PlaceOK, SafOK, HoldsOK, Known, Granted, CopySteps,
      AuthSteps, AuthFunctions, TokenFunctions
<1> QED
  BY <1>1, <1>2, IdleIsCall, NotDone

\* Steps of others leave the call alone.
LEMMA CallUnchanged == ASSUME CallInv, UNCHANGED call PROVE CallInv'
BY DEF CallInv, CallOK, VerdictFromSAF, ResourcesReturned, fc, mayCreate, CallParts,
    PlaceOK, SafOK, HoldsOK, Known, Granted, CopySteps, AuthSteps, AuthFunctions, TokenFunctions

\* Every step preserves the invariant of a call.
LEMMA CallSteps == ASSUME CallInv, [Next]_vars PROVE CallInv'
<1>1. CASE CallNext
  <2>1. servePassTicket \/ resetPassword => CallInv'
    <3>1. {"error"} \in SUBSET {"error", "notAuthenticated", "badRequest", "tooMany"}
      OBVIOUS
    <3>2. {"notAuthenticated", "badRequest", "tooMany"} \in SUBSET {"error", "notAuthenticated", "badRequest", "tooMany"}
      OBVIOUS
    <3> QED
      BY <3>1, <3>2, Served DEF servePassTicket, resetPassword
  <2> QED
    BY <1>1, <2>1, ServiceCalled, ClassChecked, Created, CheckPushed, Checked, Deleted, SnarferBegins, ASSBGot,
       Allocated, SRBScheduled, CopiedOut, SnarferEnds, Cancelled, NWMBegins, NWMCalled, NWMEnds,
       Requested, Forgotten DEF CallNext
<1>2. CASE ServerEnds
  BY <1>2, ServerEnded DEF ServerEnds
<1> QED
  BY <1>1, <1>2, CallUnchanged DEF Next, vars

\* The invariant of a call holds.
LEMMA CallAlways == Spec => []CallInv
BY CallInit, CallSteps, PTL DEF Spec

\* What the core services and the REST services above them say about a user is
\* what SAF said (handleUserStatusCheck and the others of auth.c, authRequest
\* of client.c, respond of authService.c), whichever call, recovery or delete
\* fails on the way, and whenever the server ends.
THEOREM VerdictsFromSAF == Spec => []VerdictFromSAF
<1>1. CallInv => VerdictFromSAF
  BY DEF CallInv
<1> QED
  BY <1>1, CallAlways, PTL

\* A service that returns has given back its buffer, its ACEE, unless SAF
\* refused to delete it, and its recovery entry, unless a push failed: with a
\* failed push it may leave the stack changed.  A cancelled copy leaves no
\* transfer buffer, unless a push failed and cleanupSnarfer no longer runs
\* (auth.c, snarfer.c, nwm.c).
THEOREM ResourcesAlwaysReturned == Spec => []ResourcesReturned
<1>1. CallInv => ResourcesReturned
  BY DEF CallInv
<1> QED
  BY <1>1, CallAlways, PTL

=============================================================================

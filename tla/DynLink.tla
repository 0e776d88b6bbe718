------------------------------ MODULE DynLink ------------------------------
(***************************************************************************)
(* The dynamic linkage plug-in (c/zis/zisdynamic.c) in the sessions of the *)
(* cross-memory server that deploys it.                                    *)
(*                                                                         *)
(* The stub vector lives in common storage.  The plug-in's anchor keeps    *)
(* its address from one session to the next, and cmsGA publishes it to     *)
(* every address space: code that uses the stubs goes through cmsGA, or    *)
(* holds the address, while the server starts, ends or ABENDs.  The stubs  *)
(* are routines of the plug-in's copy in LPA.                              *)
(***************************************************************************)
EXTENDS ZisSession

CONSTANTS
  Versions,     \* versions of the plug-in's module
  LeftVectors   \* sizes of a stub vector that an earlier release left, or none: 0

NULL     == 0
SIZE     == 2      \* sizeof(ZISDynStubVector): an earlier release's may be 1 or 3
DYNBASE  == <<"ZWES.PLUGIN.DYNBASE">>
LEFT     == 1      \* the LPA copy of the release that left the vector
\* What the slots hold when they are not the stubs of an LPA copy.
STORAGE == -1
ZERO    == -2
UNDEFINED_STUB == -3

ASSUME DynLinkAssumption == Versions \subseteq Nat /\ LeftVectors \subseteq 0..3

VARIABLES
  \* common storage
  vectors,     \* stub vectors, in order of allocation: size, storage and what the slots hold
  linkage,     \* cmsGA->userServerDynLinkVector
  stubVector,  \* pluginData->stubVector in the plug-in's anchor
  anchor,      \* the plug-in anchor's LPA flag and copy (NULL for none) and version
  dynlinkFlag, \* ZIS_SERVER_ANCHOR_FLAG_DYNLINK in the server anchor
  lpa,         \* copies of the module in LPA: LEFT, and session + 1 for a session's
  \* the server
  listed,      \* the plug-in is in context->firstPlugin
  vector,      \* initZISDynamic's stubVector
  initRC,      \* what initZISDynamic returned in this session
  \* ghosts
  devSeen,     \* a session ran in LPA dev mode
  torn         \* vectors whose initialization was begun and not finished

vectorVars == <<vectors, linkage, stubVector, torn>>
plugVars   == <<anchor, lpa, listed>>
dynVars    == <<vectorVars, plugVars, dynlinkFlag, vector, initRC, devSeen>>

DynLinkInit ==
  /\ \E size \in LeftVectors :
       /\ vectors = IF size = 0 THEN <<>>
                    ELSE <<[size |-> size, allocated |-> TRUE, slots |-> LEFT]>>
       /\ linkage = Len(vectors) /\ stubVector = Len(vectors)
       /\ anchor = [copy |-> IF size = 0 THEN NULL ELSE LEFT, version |-> 0]
  /\ lpa = {LEFT} \cap {anchor.copy} /\ dynlinkFlag = (vectors # <<>>)
  /\ listed = FALSE /\ vector = NULL /\ initRC = "none" /\ devSeen = FALSE /\ torn = {}

devMode == zisIsLPADevModeOn

\* The server's own storage goes with its address space.
contextGone == cleanContext /\ listed' = FALSE /\ vector' = NULL /\ initRC' = "none"

-----------------------------------------------------------------------------
\* initServer: initGlobalResources sets the flag in an old anchor or a new
\* one; the anchor or the service table may not be allocated.
initServer ==
  /\ phase = "initServer" /\ devSeen' = (devSeen \/ devMode)
  /\ \/ /\ phase' = "clean" /\ dynlinkFlag' = TRUE
        /\ read' = NothingRead /\ memberLost' = FALSE /\ UNCHANGED <<session, parms>>
     \/ cleanContext /\ UNCHANGED dynlinkFlag
  /\ UNCHANGED <<vectorVars, plugVars, vector, initRC>>

\* removePluginFromLPAIfNeeded: the delete may fail, and then the flag stays.
removePluginFromLPAIfNeeded ==
  /\ \/ UNCHANGED <<anchor, lpa>>
     \/ /\ devMode /\ anchor.copy # NULL
        /\ lpa' = lpa \ {anchor.copy} /\ anchor' = [anchor EXCEPT !.copy = NULL]
  /\ UNCHANGED <<vectorVars, dynlinkFlag, devSeen>>

cleanPlugins ==
  /\ phase = "clean" /\ phase' = "deploy" /\ removePluginFromLPAIfNeeded
  /\ UNCHANGED <<session, parms, read, memberLost, listed, vector, initRC>>

\* deployPlugins: the plug-in is not asked for, is not loaded, or its EP gives
\* no descriptor because verifyZISVersion fails.
pluginSkipped ==
  /\ phase = "deploy" /\ phase' = "up"
  /\ UNCHANGED <<session, parms, read, memberLost, dynVars>>

oldCopyDeleted_Version(v) == anchor.copy # NULL /\ (devMode \/ anchor.version # v)

\* relocatePluginToLPAIfNeeded: only dev mode deletes a copy; a copy of another
\* version is forgotten, and stays for those who run it.
oldCopyDeleted(v) == anchor.copy # NULL /\ devMode

keptCopy(v) == IF devMode \/ anchor.version # v THEN NULL ELSE anchor.copy

\* installPlugin up to the call of initZISDynamic.  When ADD fails the old copy
\* is forgotten, when DELETE fails it is not; the plug-in is left out.
installPlugin ==
  /\ phase = "deploy" /\ isGiven(parms, DYNBASE)
  /\ \E v \in Versions :
       LET there == lpa \ (IF oldCopyDeleted(v) THEN {anchor.copy} ELSE {})
       IN  \/ /\ anchor' = [copy |-> IF keptCopy(v) = NULL THEN session + 1 ELSE keptCopy(v), version |-> v]
              /\ lpa' = there \cup {anchor'.copy} /\ phase' = "take" /\ listed' = TRUE
           \/ /\ keptCopy(v) = NULL
              /\ anchor' = [anchor EXCEPT !.copy = NULL] /\ lpa' = there /\ phase' = "up" /\ UNCHANGED listed
           \/ oldCopyDeleted(v) /\ phase' = "up" /\ UNCHANGED plugVars
  /\ UNCHANGED <<session, parms, read, memberLost, vectorVars, dynlinkFlag, vector, initRC, devSeen>>

-----------------------------------------------------------------------------
\* initZISDynamic, called by callPluginInit.  It ends with a return code, or
\* in an ABEND that callPluginInit recovers; the server goes on in any case.
initUnchanged == UNCHANGED <<session, parms, read, memberLost, plugVars, dynlinkFlag, devSeen>>
initEnds(rc) == phase' = "up" /\ initRC' = rc

\* The address is taken out of the anchor before the vector is looked at.
takeVector ==
  /\ phase = "take" /\ initUnchanged
  /\ \/ initEnds("ENV_ERROR") /\ UNCHANGED <<vectorVars, vector>>
     \/ /\ vector' = stubVector /\ stubVector' = NULL /\ phase' = "check"
        /\ UNCHANGED <<vectors, linkage, torn, initRC>>

isStubVectorValid(v) == vectors[v].size >= SIZE

deletesVector == isStubVectorValid(vector) /\ devMode

\* A vector that is not valid is left where it is; dev mode frees a valid one.
checkVector ==
  /\ phase = "check" /\ phase' = "make" /\ initUnchanged
  /\ \/ vector = NULL /\ UNCHANGED <<vectors, vector>>
     \/ /\ vector # NULL
        /\ vectors' = IF deletesVector THEN [vectors EXCEPT ![vector].allocated = FALSE] ELSE vectors
        /\ vector' = IF isStubVectorValid(vector) /\ ~deletesVector THEN vector ELSE NULL
  /\ UNCHANGED <<linkage, stubVector, torn, initRC>>

reusedVector_AsIs == "install"

reusedVector == "zero"

\* makeStubVector, or the vector of the session before.
makeVector ==
  /\ phase = "make" /\ initUnchanged
  /\ \/ vector # NULL /\ phase' = reusedVector /\ UNCHANGED <<vectors, vector, initRC>>
     \/ vector = NULL /\ initEnds("ALLOC_FAILED") /\ UNCHANGED <<vectors, vector>>
     \/ /\ vector = NULL /\ phase' = "zero" /\ vector' = Len(vectors) + 1
        /\ vectors' = Append(vectors, [size |-> SIZE, allocated |-> TRUE, slots |-> STORAGE])
        /\ UNCHANGED initRC
  /\ UNCHANGED <<linkage, stubVector, torn>>

\* initStubVector clears the vector, fills the slots with the undefined stub
\* and then assigns them, in the storage that others may be using.
initStubVector ==
  /\ phase \in {"zero", "undefine", "assign"}
  /\ \/ phase = "zero" /\ phase' = "undefine" /\ torn' = torn \cup {vector}
        /\ vectors' = [vectors EXCEPT ![vector] = [size |-> SIZE, allocated |-> TRUE, slots |-> ZERO]]
     \/ phase = "undefine" /\ phase' = "assign" /\ UNCHANGED torn
        /\ vectors' = [vectors EXCEPT ![vector].slots = UNDEFINED_STUB]
     \/ phase = "assign" /\ phase' = "install" /\ torn' = torn \ {vector}
        /\ vectors' = [vectors EXCEPT ![vector].slots = anchor.copy]
  /\ UNCHANGED <<linkage, stubVector, vector, initRC>> /\ initUnchanged

installDynamicLinkageVector ==
  /\ phase = "install" /\ phase' = "record" /\ initUnchanged
  /\ IF dynlinkFlag THEN linkage' = vector /\ initRC' = "OK"
                    ELSE initRC' = "UNSUPPORTED_ZIS" /\ UNCHANGED linkage
  /\ UNCHANGED <<vectors, stubVector, torn, vector>>

recordVector ==
  /\ phase = "record" /\ stubVector' = vector /\ initEnds(initRC) /\ initUnchanged
  /\ UNCHANGED <<vectors, linkage, torn, vector>>

initAbends ==
  /\ phase \in {"take", "check", "make", "zero", "undefine", "assign", "install", "record"}
  /\ initEnds("ABEND") /\ initUnchanged /\ UNCHANGED <<vectorVars, vector>>

-----------------------------------------------------------------------------
\* READY is off, and callPluginTerm calls termZISDynamic, if the
\* plug-in is in the list, whether its init routine worked or not.
termZISDynamic ==
  /\ phase = "up" /\ phase' = "cleanup"
  /\ linkage' = IF listed /\ devMode THEN NULL ELSE linkage
  /\ UNCHANGED <<session, parms, read, memberLost, vectors, stubVector, torn, plugVars, dynlinkFlag, vector, initRC, devSeen>>

\* The plug-ins are cleaned once more, and the server's address space ends.
cleanupServer == phase = "cleanup" /\ removePluginFromLPAIfNeeded /\ contextGone

\* An ABEND or CANCEL of the server: nothing in common storage is cleaned.
serverAbends ==
  /\ phase # "down" /\ contextGone
  /\ UNCHANGED <<vectorVars, anchor, lpa, dynlinkFlag, devSeen>>

ready == phase = "up"

ServerNext ==
  \/ (startFails \/ run) /\ UNCHANGED dynVars
  \/ initServer \/ cleanPlugins \/ pluginSkipped \/ installPlugin
  \/ takeVector \/ checkVector \/ makeVector \/ initStubVector
  \/ installDynamicLinkageVector \/ recordVector \/ initAbends

-----------------------------------------------------------------------------
live(v) == vectors[v].allocated /\ vectors[v].slots \in lpa

\* While a server whose dynamic linkage plug-in came up is ready, cmsGA gives
\* out the vector that the anchor will hand to the next session, and its slots
\* are the routines of the copy this session runs, which is in LPA, whatever
\* earlier sessions, releases and failures left behind.
ReadyVectorUsable ==
  ready /\ initRC = "OK" =>
    linkage # NULL /\ linkage = stubVector /\ live(linkage) /\ vectors[linkage].slots = anchor.copy

\* Until a server first runs in LPA dev mode, a vector that cmsGA gives out
\* stays allocated and its stubs stay in LPA, over ends, ABENDs, upgrades and
\* failed starts; only initStubVector, while it works or when it was cut
\* short, leaves slots that cannot be called.
LinkageSurvives ==
  ~devSeen /\ linkage # NULL => vectors[linkage].allocated /\ (live(linkage) \/ linkage \in torn)
=============================================================================

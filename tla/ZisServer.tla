----------------------------- MODULE ZisServer -----------------------------
(***************************************************************************)
(* Plug-ins and services of the cross-memory server (c/zis/server.c,       *)
(* plugin.c, service.c) and the callers of its services (zisCallService in *)
(* c/zis/client.c, zisRouteService in server.c).                           *)
(*                                                                         *)
(* The server anchor, the plug-in and service anchors and the service      *)
(* table live in common storage and outlive the server.  Every start of    *)
(* the server cleans the anchors it finds, then reuses them for whatever   *)
(* the PARMLIB member names now; callers read the same anchors at the same *)
(* time, in their own address spaces, with no lock.                        *)
(*                                                                         *)
(* The READY flag and the PC routines belong to the cross-memory server of *)
(* zowe-common-c: a PC is accepted from the end of initServer to the start *)
(* of cleanupServer, or to an ABEND of the server.                         *)
(***************************************************************************)
EXTENDS Integers, SequencesExt

CONSTANTS
  Callers,      \* address spaces that call services
  Parmlibs,     \* contents of the PARMLIB member: sequences of plug-in modules
  LeftBehind,   \* anchors that an earlier release may have left: service anchors and plug-in names
  Requests,     \* service versions and SAF permissions of the calls
  DevModes,     \* values of the LPA dev mode
  MaxSessions,  \* bound: starts of the server
  MaxCalls      \* bound: service calls

\* A module is a plug-in descriptor: name, nickname, version, whether it asks
\* for LPA, whether it is the dynamic linkage module, whether its header is
\* valid, and its services: name, version, space switch or current primary,
\* the SAF profile of its specific check (NoSaf for none).
Modules  == UNION {Range(p) : p \in Parmlibs}
Services == UNION {Range(m.services) : m \in Modules}
LeftAnchors == UNION {Range(l.anchors) : l \in LeftBehind}
NoSaf    == "noSaf"
Names    == {m.name : m \in Modules} \cup UNION {Range(l.plugins) : l \in LeftBehind}
Paths    == {<<m.name, s.name>> : m \in Modules, s \in Services} \cup {a.path : a \in LeftAnchors}
SAF_SUPPORT == 2       \* ZIS_SERVICE_ANCHOR_VERSION_SAF_SUPPORT
ANCHOR_VERSION == 2    \* ZIS_SERVICE_ANCHOR_VERSION
NULL     == 0          \* a null anchor
NoCode   == [path |-> <<>>, session |-> 0, lpa |-> FALSE]   \* a null serve
ANY_VERSION == 1000    \* ZIS_SERVICE_ANY_VERSION, above every service version

Codes    == [path : Paths \cup {<<>>}, session : Nat, lpa : BOOLEAN]
AnchorRecords ==
  [path : Paths, version : Nat, ss : BOOLEAN, auth : BOOLEAN,
   saf : {NoSaf} \cup {s.saf : s \in Services} \cup {a.saf : a \in LeftAnchors}, serve : Codes,
   serviceVersion : Nat, active : BOOLEAN, discarded : BOOLEAN]

ASSUME ZisServerAssumption ==
  /\ MaxSessions \in Nat /\ MaxCalls \in Nat /\ DevModes \subseteq BOOLEAN
  /\ \A p \in Parmlibs : p \in Seq(Modules)
  /\ \A m \in Modules : m.services \in Seq(Services) /\ m.lpa \in BOOLEAN
  /\ \A s \in Services : s.ss \in BOOLEAN /\ s.version \in Nat

\* A descriptor names each of its services once: zisPluginAddService leaves
\* that to the author of the plug-in.
ASSUME DistinctServices ==
  \A m \in Modules : \A j, k \in DOMAIN m.services : m.services[j].name = m.services[k].name => j = k

\* An earlier release that ended normally left one inactive anchor for each
\* service of the plug-ins in its list.
ASSUME LeftBehindAssumption ==
  \A l \in LeftBehind :
    /\ l.anchors \in Seq(AnchorRecords) /\ l.plugins \in Seq(Names)
    /\ \A i \in DOMAIN l.anchors : /\ ~l.anchors[i].active /\ ~l.anchors[i].discarded
                                   /\ l.anchors[i].path[1] \in Range(l.plugins)
    /\ \A i, j \in DOMAIN l.anchors : l.anchors[i].path = l.anchors[j].path => i = j

VARIABLES
  \* common storage
  table,       \* serviceTable: anchor of each path, NULL for none; <<>> if it was not allocated
  anchors,     \* service anchors, in order of creation
  plugAnchor,  \* plug-in anchors: LPA flag, plug-in version and LPA copy
  plugList,    \* serverAnchor->firstPlugin: names, first to last
  lpa,         \* module copies that are in LPA
  ready,       \* external: PCs to the server are accepted
  \* the server's address space
  phase,       \* what the server is doing
  session,     \* number of the current start
  devMode,     \* zisIsLPADevModeOn
  parms,       \* plug-in parameters still to visit: place in PARMLIB and module
  walk,        \* where cleanPlugins is: place in plugList, anchors left there, anchor at hand
  todo,        \* services of the plug-in still to install
  plugins,     \* context->firstPlugin: modules, first to last
  \* the callers
  caller,      \* where each caller is in zisCallService and zisRouteService
  calls,       \* number of calls made
  installed    \* ghost: services that this session installed, as their descriptors say

common == <<table, anchors, plugAnchor, plugList, lpa>>
server == <<phase, session, devMode, parms, walk, todo, plugins, installed>>
clients == <<caller, calls>>
vars == <<common, ready, server, clients>>

-----------------------------------------------------------------------------
NoWalk == [at |-> 0, anchors |-> {}, current |-> NULL]

Idle == [step |-> "idle", path |-> <<>>, req |-> NULL, anchor |-> NULL, ss |-> FALSE,
         session |-> 0, found |-> 0, code |-> NoCode, rc |-> "none"]

NoCopy   == [name |-> "none", version |-> 0, session |-> 0]
NoAnchor == [made |-> FALSE, lpa |-> FALSE, version |-> 0, copy |-> NoCopy]

Init ==
  /\ \E l \in LeftBehind : anchors = l.anchors /\ plugList = l.plugins
  /\ table = IF anchors = <<>> THEN <<>>
             ELSE [p \in Paths |-> IF \E i \in DOMAIN anchors : anchors[i].path = p
                                   THEN CHOOSE i \in DOMAIN anchors : anchors[i].path = p ELSE NULL]
  /\ plugAnchor = [n \in Names |-> [NoAnchor EXCEPT !.made = n \in Range(plugList)]]
  /\ lpa = {} /\ ready = FALSE
  /\ phase = "down" /\ session = 0 /\ devMode = FALSE
  /\ parms = {} /\ walk = NoWalk /\ todo = <<>> /\ plugins = <<>> /\ installed = {}
  /\ caller = [c \in Callers |-> Idle] /\ calls = 0

-----------------------------------------------------------------------------
\* cleanPlugins goes through the plug-in anchors in the order of the list.
walkAt(k) ==
  IF k > Len(plugList) THEN NoWalk
  ELSE [at |-> k, anchors |-> {i \in DOMAIN anchors : anchors[i].path[1] = plugList[k]}, current |-> NULL]

cleanPlugins == walkAt(1)

\* initServer: initGlobalResources keeps the anchors of earlier sessions; the
\* table may fail to be allocated, which initServiceTable does not report.
\* Then come cleanPlugins and deployPlugins.
initServer ==
  /\ phase = "down" /\ session < MaxSessions /\ session' = session + 1
  /\ \/ table # <<>> /\ table' = table
     \/ table = <<>> /\ table' \in {<<>>, [p \in Paths |-> NULL]}
  /\ \E p \in Parmlibs : parms' = {<<k, p[k]>> : k \in DOMAIN p}
  /\ devMode' \in DevModes
  /\ phase' = "clean" /\ walk' = cleanPlugins /\ installed' = {} /\ plugins' = <<>>
  /\ UNCHANGED <<anchors, plugAnchor, plugList, lpa, ready, todo, clients>>

cleared_StillActive(a) == a

\* cleanPluginAnchor: every service anchor of the plug-in, the newest one
\* first, loses ACTIVE and then, in another store, its serve routine.
cleared(a) == [a EXCEPT !.active = FALSE]

ClearActive ==
  /\ phase \in {"clean", "cleanup"} /\ walk.current = NULL
  /\ \E i \in walk.anchors :
       /\ \A j \in walk.anchors : j <= i
       /\ anchors' = [anchors EXCEPT ![i] = cleared(@)]
       /\ walk' = [walk EXCEPT !.anchors = @ \ {i}, !.current = i]
  /\ UNCHANGED <<table, plugAnchor, plugList, lpa, ready, phase, session, devMode, parms, todo, plugins,
                 installed, clients>>

ClearServe ==
  /\ phase \in {"clean", "cleanup"} /\ walk.current # NULL
  /\ anchors' = [anchors EXCEPT ![walk.current].serve = NoCode]
  /\ walk' = [walk EXCEPT !.current = NULL]
  /\ UNCHANGED <<table, plugAnchor, plugList, lpa, ready, phase, session, devMode, parms, todo, plugins,
                 installed, clients>>

\* The anchor after its LPA copy is deleted or discarded.
forgotten(a) == [a EXCEPT !.lpa = FALSE, !.copy = NoCopy]

\* In dev mode the plug-in leaves LPA, unless the delete fails: then the LPA
\* flag stays.  Then comes the next plug-in.
removePluginFromLPAIfNeeded ==
  /\ phase \in {"clean", "cleanup"} /\ walk # NoWalk /\ walk.anchors = {} /\ walk.current = NULL
  /\ walk' = walkAt(walk.at + 1)
  /\ LET n == plugList[walk.at]
     IN  \/ UNCHANGED <<plugAnchor, lpa>>
         \/ /\ plugAnchor[n].lpa /\ devMode
            /\ lpa' = lpa \ {plugAnchor[n].copy}
            /\ plugAnchor' = [plugAnchor EXCEPT ![n] = forgotten(@)]
  /\ UNCHANGED <<table, anchors, plugList, ready, phase, session, devMode, parms, todo, plugins, installed, clients>>

deployPlugins ==
  /\ phase = "clean" /\ walk = NoWalk /\ phase' = "deploy"
  /\ UNCHANGED <<common, ready, session, devMode, parms, walk, todo, plugins, installed, clients>>

-----------------------------------------------------------------------------
\* isPluginValid: the header counts.  When the loop over the services meets an
\* invalid one it leaves only itself, and the plug-in is installed all the same.
isPluginValid(m) == m.header

isDuplicatePlugin(m) == \E k \in Range(plugins) : k.name = m.name \/ k.nickname = m.nickname

\* findPluginAnchor, or a new zisCreatePluginAnchor.  No release has made plug-in
\* anchors of a version above ZIS_PLUGIN_ANCHOR_VERSION, which is 1, so the
\* version that is compared there lets every anchor through.
pluginAnchor(m) ==
  IF plugAnchor[m.name].made THEN plugAnchor[m.name]
  ELSE [made |-> TRUE, lpa |-> FALSE, version |-> m.version, copy |-> NoCopy]

\* relocatePluginToLPAIfNeeded.  A copy of another version is forgotten but
\* stays in LPA, where callers may still run it; dev mode deletes the copy.
\* The outcomes are success, a failure of DELETE, which changes nothing, and
\* a failure of ADD, after which the old copy is forgotten.

versionChanged(m) == pluginAnchor(m).version # m.version

deletedCopies_Refresh(m) ==
  IF pluginAnchor(m).lpa /\ (devMode \/ versionChanged(m)) THEN {pluginAnchor(m).copy} ELSE {}

deletedCopies(m) == IF pluginAnchor(m).lpa /\ devMode THEN {pluginAnchor(m).copy} ELSE {}

relocatePluginToLPAIfNeeded(m) ==
  LET old    == pluginAnchor(m)
      kept   == IF devMode \/ versionChanged(m) THEN forgotten(old) ELSE old
      adding == m.lpa /\ ~kept.lpa
      there  == lpa \ deletedCopies(m)
      copy   == [name |-> m.name, version |-> m.version, session |-> session]
  IN  {IF adding THEN [ok |-> TRUE, anchor |-> [kept EXCEPT !.lpa = TRUE, !.copy = copy],
                       lpa |-> there \cup {copy}]
                 ELSE [ok |-> TRUE, anchor |-> kept, lpa |-> there]}
        \cup {[ok |-> FALSE, anchor |-> old, lpa |-> lpa] : x \in deletedCopies(m)}
        \cup (IF adding THEN {[ok |-> FALSE, anchor |-> kept, lpa |-> there]} ELSE {})

\* deployPlugins goes through the parameters twice: isPluginSuitable lets the
\* dynamic linkage module through in the first pass and the others in the
\* second one.
visitedBefore(x, y) ==
  IF x[2].dynlink = y[2].dynlink THEN x[1] < y[1] ELSE x[2].dynlink

nextParm(x) == x \in parms /\ \A y \in parms \ {x} : visitedBefore(x, y)

\* visitPluginParm and installPlugin.  The plug-in may not be loaded, may give
\* no descriptor, be invalid or a duplicate, or get no anchor: then nothing
\* changes.  It joins the list of plug-ins before its init routine runs, and
\* stays there when that fails; its services are installed only if it works.
PluginSkipped ==
  /\ phase = "deploy" /\ \E x \in parms : nextParm(x) /\ parms' = parms \ {x}
  /\ UNCHANGED <<common, ready, phase, session, devMode, walk, todo, plugins, installed, clients>>

installPlugin(m, r) ==
  /\ lpa' = r.lpa
  /\ plugAnchor' = [plugAnchor EXCEPT ![m.name] =
                      IF r.ok THEN [r.anchor EXCEPT !.version = m.version] ELSE r.anchor]
  /\ plugList' = IF plugAnchor[m.name].made THEN plugList ELSE <<m.name>> \o plugList
  /\ plugins' = IF r.ok THEN <<m>> \o plugins ELSE plugins
  /\ \/ r.ok /\ m.services # <<>> /\ phase' = "bind" /\ todo' = m.services
     \/ UNCHANGED <<phase, todo>>

visitPluginParm ==
  /\ phase = "deploy"
  /\ \E x \in parms :
       /\ nextParm(x) /\ parms' = parms \ {x}
       /\ isPluginValid(x[2]) /\ ~isDuplicatePlugin(x[2])
       /\ \E r \in relocatePluginToLPAIfNeeded(x[2]) : installPlugin(x[2], r)
  /\ UNCHANGED <<table, anchors, ready, session, devMode, walk, installed, clients>>

-----------------------------------------------------------------------------
\* installServices: one service is bound to an anchor, initialised, put in the
\* table and made ACTIVE, and then comes the next one.
plugin  == Head(plugins)
service == Head(todo)
path    == <<plugin.name, service.name>>

\* The code that the descriptor names: the LPA copy's or the one loaded now.
code ==
  [path |-> path, lpa |-> plugin.lpa,
   session |-> IF plugin.lpa THEN plugAnchor[plugin.name].copy.session ELSE session]

Usable(a) == a.version <= ANCHOR_VERSION /\ ~a.discarded

findServiceAnchor ==
  LET found == {i \in DOMAIN anchors : anchors[i].path = path /\ Usable(anchors[i])}
  IN  IF found = {} THEN NULL ELSE Max(found)

isServiceAnchorCompatible_Always(a) == TRUE

isServiceAnchorCompatible(a) == service.saf # NoSaf => a.version >= SAF_SUPPORT

zisCreateServiceAnchor ==
  [path |-> path, version |-> ANCHOR_VERSION, ss |-> service.ss, auth |-> service.saf # NoSaf,
   saf |-> service.saf, serve |-> code, serviceVersion |-> service.version,
   active |-> FALSE, discarded |-> FALSE]

needsNewAnchor ==
  findServiceAnchor # NULL => ~isServiceAnchorCompatible(anchors[findServiceAnchor])

discardServiceAnchor ==
  [k \in DOMAIN anchors |-> IF k = findServiceAnchor THEN [anchors[k] EXCEPT !.discarded = TRUE] ELSE anchors[k]]

\* An anchor that is not compatible is discarded before its successor is
\* allocated; when that fails, the rest of the services is given up.  An anchor
\* that is reused gets the flags first.
BindService ==
  /\ phase = "bind"
  /\ \/ /\ ~needsNewAnchor /\ phase' = "storeServe" /\ UNCHANGED todo
        /\ anchors' = [anchors EXCEPT ![findServiceAnchor].ss = service.ss,
                                      ![findServiceAnchor].auth = service.saf # NoSaf]
     \/ /\ needsNewAnchor /\ phase' = "init" /\ UNCHANGED todo
        /\ anchors' = Append(discardServiceAnchor, zisCreateServiceAnchor)
     \/ /\ needsNewAnchor /\ phase' = "deploy" /\ todo' = <<>>
        /\ anchors' = discardServiceAnchor
  /\ UNCHANGED <<table, plugAnchor, plugList, lpa, ready, session, devMode, parms, walk, plugins, installed,
                 clients>>

\* The other stores of zisUpdateServiceAnchor.  A call that an earlier session
\* let past the router's tests sees the anchor between any two of them.  Class
\* and entity name are one profile here.
zisUpdateServiceAnchor ==
  /\ \/ /\ phase = "storeServe" /\ phase' = "storeVersion"
        /\ anchors' = [anchors EXCEPT ![findServiceAnchor].serve = code]
     \/ /\ phase = "storeVersion" /\ phase' = "storeSaf"
        /\ anchors' = [anchors EXCEPT ![findServiceAnchor].serviceVersion = service.version]
     \/ /\ phase = "storeSaf" /\ phase' = "init"
        /\ anchors' = [anchors EXCEPT ![findServiceAnchor].saf =
                         IF service.saf # NoSaf /\ anchors[findServiceAnchor].version >= SAF_SUPPORT
                         THEN service.saf ELSE @]
  /\ UNCHANGED <<table, plugAnchor, plugList, lpa, ready, session, devMode, parms, walk, todo, plugins, installed,
                 clients>>

NextService ==
  todo' = Tail(todo) /\ phase' = IF Tail(todo) = <<>> THEN "deploy" ELSE "bind"

\* A service whose init routine fails or ABENDs is not put in the table.
callServiceInit ==
  /\ phase = "init"
  /\ \/ phase' = "put" /\ UNCHANGED todo
     \/ NextService
  /\ UNCHANGED <<common, ready, session, devMode, parms, walk, plugins, installed, clients>>

\* crossMemoryMapPut, and the replacement of the entry that is there already.
\* A new entry may fail to be allocated.
putRC == IF table[path] = NULL THEN {0, -1} ELSE {1}

newEntry_NotReplaced(rc) == IF rc = 1 THEN table[path] ELSE IF rc = -1 THEN NULL ELSE findServiceAnchor

newEntry(rc) == IF rc = -1 THEN NULL ELSE findServiceAnchor

PutService ==
  /\ phase = "put" /\ table # <<>>
  /\ \E rc \in putRC :
       /\ table' = [table EXCEPT ![path] = newEntry(rc)]
       /\ IF rc = -1 THEN phase' = "deploy" /\ todo' = <<>>
                     ELSE phase' = "activate" /\ UNCHANGED todo
  /\ UNCHANGED <<anchors, plugAnchor, plugList, lpa, ready, session, devMode, parms, walk, plugins, installed, clients>>

ActivateService ==
  /\ phase = "activate" /\ NextService
  /\ anchors' = [anchors EXCEPT ![findServiceAnchor].active = TRUE]
  /\ installed' = installed \cup {[path |-> path, code |-> code, saf |-> service.saf, ss |-> service.ss,
                                   version |-> service.version]}
  /\ UNCHANGED <<table, plugAnchor, plugList, lpa, ready, session, devMode, parms, walk, plugins, clients>>

\* initServer returns: the cross-memory server becomes ready.
SetReady ==
  /\ phase = "deploy" /\ parms = {} /\ phase' = "up" /\ ready' = TRUE
  /\ UNCHANGED <<common, session, devMode, parms, walk, todo, plugins, installed, clients>>

-----------------------------------------------------------------------------
\* Callers in the server's address space (space switch) end with it.
endSpaceSwitch ==
  caller' = [c \in Callers |-> IF caller[c].ss /\ caller[c].step \in {"route", "version", "state", "auth", "serve", "serving"}
                               THEN [Idle EXCEPT !.rc = "ended"] ELSE caller[c]]

cleanupServer_StillReady ==
  /\ phase = "up" /\ phase' = "cleanup" /\ walk' = cleanPlugins
  /\ UNCHANGED <<common, ready, session, devMode, parms, todo, plugins, installed, clients>>

\* cleanupServer: READY is off, the term routines run, then cleanPlugins.
cleanupServer ==
  /\ phase = "up" /\ ready' = FALSE /\ phase' = "cleanup" /\ walk' = cleanPlugins
  /\ UNCHANGED <<common, session, devMode, parms, todo, plugins, installed, clients>>

ServerEnds ==
  /\ phase = "cleanup" /\ walk = NoWalk /\ phase' = "down" /\ endSpaceSwitch
  /\ plugins' = <<>>
  /\ UNCHANGED <<common, ready, session, devMode, parms, walk, todo, installed, calls>>

\* An ABEND or CANCEL of the server; a put into a table that was never
\* allocated is one.  Nothing in common storage is cleaned.
ServerAbends ==
  /\ phase # "down" /\ phase' = "down" /\ ready' = FALSE /\ endSpaceSwitch
  /\ plugins' = <<>> /\ todo' = <<>> /\ parms' = {} /\ walk' = NoWalk
  /\ UNCHANGED <<common, session, devMode, installed, calls>>

-----------------------------------------------------------------------------
Goes(c, step) == caller' = [caller EXCEPT ![c].step = step]
Ends(c, rc)   == caller' = [caller EXCEPT ![c] = [Idle EXCEPT !.rc = rc]]

\* zisCallService: the client checks READY, reads the table and chooses the
\* router by the anchor's SPACE_SWITCH flag.
zisCallService(c) ==
  /\ caller[c].step = "idle" /\ calls < MaxCalls /\ calls' = calls + 1
  /\ \/ ~ready /\ Ends(c, "CMS_FAILED")
     \/ ready /\ table = <<>> /\ Ends(c, "SERVICE_TABLE_NULL")
     \/ /\ ready /\ table # <<>>
        /\ \E p \in Paths, r \in Requests :
             \/ table[p] = NULL /\ Ends(c, "SERVICE_NOT_FOUND")
             \/ /\ table[p] # NULL
                /\ caller' = [caller EXCEPT ![c] =
                     [Idle EXCEPT !.step = "call", !.path = p, !.req = r, !.ss = anchors[table[p]].ss]]
  /\ UNCHANGED <<common, ready, server>>

\* External: the PC, which only a ready server accepts.
CallRouter(c) ==
  /\ caller[c].step = "call"
  /\ \/ ready /\ caller' = [caller EXCEPT ![c].step = "route", ![c].session = session]
     \/ ~ready /\ Ends(c, "CMS_FAILED")
  /\ UNCHANGED <<common, ready, server, calls>>

RouteLookup(c) ==
  /\ caller[c].step = "route"
  /\ IF table[caller[c].path] = NULL THEN Ends(c, "SERVICE_NOT_FOUND")
     ELSE caller' = [caller EXCEPT ![c].step = "version", ![c].anchor = table[caller[c].path]]
  /\ UNCHANGED <<common, ready, server, calls>>

routed(c) == anchors[caller[c].anchor]

RouteVersion(c) ==
  /\ caller[c].step = "version"
  /\ IF caller[c].req.version > routed(c).serviceVersion /\ caller[c].req.version # ANY_VERSION
     THEN Ends(c, "BAD_SERVICE_VERSION") ELSE Goes(c, "state")
  /\ UNCHANGED <<common, ready, server, calls>>

\* The ghost field found is the session whose service the call found ACTIVE, 0
\* for one that an earlier session left ACTIVE.
foundIn(c) == IF \E i \in installed : i.path = caller[c].path THEN session ELSE 0

RouteState(c) ==
  /\ caller[c].step = "state"
  /\ IF routed(c).active THEN caller' = [caller EXCEPT ![c].step = "auth", ![c].found = foundIn(c)]
     ELSE Ends(c, "SERVICE_INACTIVE")
  /\ UNCHANGED <<common, ready, server, calls>>

\* An anchor of an older version has no SAF fields: what is read there is not
\* known.
authorized(c) ==
  IF routed(c).version >= SAF_SUPPORT THEN {routed(c).saf \in caller[c].req.permits} ELSE BOOLEAN

RouteAuth(c) ==
  /\ caller[c].step = "auth"
  /\ \E ok \in (IF routed(c).auth THEN authorized(c) ELSE {TRUE}) :
       IF ok THEN Goes(c, "serve") ELSE Ends(c, "SPECIFIC_AUTH_FAILED")
  /\ UNCHANGED <<common, ready, server, calls>>

\* serviceAnchor->serve is read once more and called; it may be null by now.
Serve(c) ==
  /\ caller[c].step = "serve"
  /\ IF routed(c).serve = NoCode THEN Ends(c, "ABEND")
     ELSE caller' = [caller EXCEPT ![c].step = "serving", ![c].code = routed(c).serve]
  /\ UNCHANGED <<common, ready, server, calls>>

ServeReturns(c) ==
  /\ caller[c].step = "serving" /\ Ends(c, "OK")
  /\ UNCHANGED <<common, ready, server, calls>>

ServerNext ==
  \/ initServer \/ ClearActive \/ ClearServe \/ removePluginFromLPAIfNeeded \/ deployPlugins \/ PluginSkipped \/ visitPluginParm
  \/ BindService \/ zisUpdateServiceAnchor \/ callServiceInit \/ PutService \/ ActivateService \/ SetReady
  \/ cleanupServer \/ ServerEnds \/ ServerAbends

CallerNext(c) ==
  \/ zisCallService(c) \/ CallRouter(c) \/ RouteLookup(c) \/ RouteVersion(c)
  \/ RouteState(c) \/ RouteAuth(c) \/ Serve(c) \/ ServeReturns(c)

Next == ServerNext \/ \E c \in Callers : CallerNext(c)

Spec == Init /\ [][Next]_vars

-----------------------------------------------------------------------------
\* The copy that the LPA code x belongs to is among the copies.
Present(x, copies) == \E k \in copies : k.name = x.path[1] /\ k.session = x.session

\* While the server is ready, the table and the anchors say what this session
\* installed, whatever earlier sessions, releases and failures left behind: an
\* installed service is ACTIVE under its path with its own routine, version
\* and checks, and an ACTIVE anchor in the table is an installed service.  A
\* plug-in in LPA runs from a copy of its own version, which is there ("when a
\* different version is detected, the current LPA module is discarded").
ReadyTableExact ==
  /\ ready => \A m \in Range(plugins) : m.lpa =>
       plugAnchor[m.name].copy \in lpa /\ plugAnchor[m.name].copy.version = m.version
  /\ ready /\ table # <<>> =>
    {[path |-> p, code |-> anchors[table[p]].serve, ss |-> anchors[table[p]].ss,
      saf |-> IF anchors[table[p]].auth THEN anchors[table[p]].saf ELSE NoSaf,
      version |-> anchors[table[p]].serviceVersion] :
        p \in {q \in Paths : table[q] # NULL /\ anchors[table[q]].active}}
    = {[path |-> i.path, code |-> i.code, ss |-> i.ss, saf |-> i.saf, version |-> i.version] : i \in installed}

\* A call that the server accepted in this session, or that found a service of
\* this session ACTIVE, runs a routine that this session initialised, under
\* the path that was asked for.
ServesInstalled ==
  \A c \in Callers : caller[c].step = "serving" /\ session \in {caller[c].session, caller[c].found} =>
    /\ caller[c].code.path = caller[c].path
    /\ \E i \in installed : i.code = caller[c].code

\* A call that found a service of this session ACTIVE, whichever session
\* accepted the call, runs the routine of a service with a specific SAF check
\* only with access to the profile that this session's descriptor names.  Left
\* out are calls of current-primary services that passed the router's state
\* test in an earlier session: the anchor may be reused before the check or
\* after it, and they run the new routine unchecked, or checked against the
\* old profile.
SpecificAuthEnforced ==
  \A c \in Callers : caller[c].step = "serving" /\ caller[c].found = session =>
    \A i \in installed : i.path = caller[c].path /\ i.saf # NoSaf => i.saf \in caller[c].req.permits

\* Outside dev mode, LPA code that a caller runs stays in LPA until the call
\* returns, even when the server ends, restarts or is upgraded meanwhile
\* ("never deletes it from LPA").
RunningLpaCodeStays ==
  [][\A c \in Callers :
       caller[c].step = "serving" /\ caller[c].code.lpa /\ Present(caller[c].code, lpa) /\ ~devMode'
         => Present(caller[c].code, lpa')]_vars

\* A call that is accepted and not overtaken by the end of its session does
\* not ABEND in the router and is not turned away from an installed service:
\* the anchors stand still as long as READY is on.
StableWhileReady ==
  [][\A c \in Callers :
       ready /\ caller[c].session = session /\ caller'[c].rc \in {"ABEND", "SERVICE_INACTIVE"}
         /\ caller[c].step # "idle" =>
           ~\E i \in installed : i.path = caller[c].path]_vars

=============================================================================

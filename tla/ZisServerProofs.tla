-------------------------- MODULE ZisServerProofs --------------------------
(***************************************************************************)
(* Proofs about the plug-ins and services of the cross-memory server: what *)
(* a session installed is what its table says and what its callers run,    *)
(* for every content of the PARMLIB member, every number of callers and    *)
(* whatever earlier sessions and releases left in common storage.          *)
(***************************************************************************)
EXTENDS ZisServer, SequenceTheorems, TLAPS

Storing    == {"storeServe", "storeVersion", "storeSaf"}
Installing == {"bind", "init", "put", "activate"} \cup Storing
Phases     == {"down", "clean", "deploy", "up", "cleanup"} \cup Installing
Bound      == {"init", "put", "activate"}
Deployed   == {"deploy", "up"} \cup Installing

RouterSteps == {"route", "version", "state", "auth", "serve", "serving"}
CallerSteps == {"idle", "call"} \cup RouterSteps

Versions    == {0} \cup {m.version : m \in Modules}
Copies      == [name : Names \cup {"none"}, version : Versions, session : Nat]
PlugAnchors == [made : BOOLEAN, lpa : BOOLEAN, version : Versions, copy : Copies]
Safs        == {NoSaf} \cup {s.saf : s \in Services}
Installs    == [path : Paths, code : Codes, saf : Safs, ss : BOOLEAN, version : Nat]
Walks       == [at : Nat, anchors : SUBSET Nat, current : Nat]
CallRecords ==
  [step : CallerSteps, path : Paths \cup {<<>>}, req : Requests \cup {NULL}, anchor : Nat, ss : BOOLEAN,
   session : Nat, found : Nat, code : Codes, rc : {"none", "ended", "CMS_FAILED", "SERVICE_TABLE_NULL", "SERVICE_NOT_FOUND",
   "BAD_SERVICE_VERSION", "SERVICE_INACTIVE", "SPECIFIC_AUTH_FAILED", "ABEND", "OK"}]

TypeOK ==
  /\ anchors \in Seq(AnchorRecords) /\ (table = <<>> \/ table \in [Paths -> 0..Len(anchors)])
  /\ plugList \in Seq(Names) /\ plugAnchor \in [Names -> PlugAnchors] /\ lpa \subseteq Copies
  /\ ready \in BOOLEAN /\ phase \in Phases /\ session \in Nat /\ devMode \in BOOLEAN
  /\ parms \subseteq Nat \X Modules /\ walk \in Walks
  /\ todo \in Seq(Services) /\ plugins \in Seq(Modules) /\ installed \subseteq Installs
  /\ caller \in [Callers -> CallRecords] /\ calls \in Nat

\* Every plug-in with an anchor is in the list; the copy of a plug-in that has
\* the LPA flag is in LPA, under its name and version.
PlugOK ==
  \A n \in Names :
    /\ plugAnchor[n].made <=> n \in Range(plugList)
    /\ plugAnchor[n].lpa => /\ plugAnchor[n].copy \in lpa /\ plugAnchor[n].copy.name = n
                            /\ plugAnchor[n].copy.version = plugAnchor[n].version

\* The plug-ins of the session have anchors of their version, in LPA if they
\* ask for it.
PluginsOK ==
  phase \in Deployed => \A m \in Range(plugins) :
    plugAnchor[m.name].version = m.version /\ (m.lpa => plugAnchor[m.name].lpa)

\* Every service anchor is in the list of a plug-in that is in the list, one
\* of a path at most is usable, and the table leads to anchors of the path.
AnchorsOK ==
  /\ \A i \in 1..Len(anchors) : anchors[i].path[1] \in Range(plugList)
  /\ \A i, j \in 1..Len(anchors) :
       anchors[i].path = anchors[j].path /\ Usable(anchors[i]) /\ Usable(anchors[j]) => i = j
  /\ table # <<>> => \A p \in Paths : table[p] # NULL => anchors[table[p]].path = p

\* The walk of cleanPlugins stays among the anchors; at the start of a
\* session every ACTIVE anchor is still ahead of it.
WalkOK ==
  /\ walk.anchors \subseteq 1..Len(anchors) /\ walk.current \in 0..Len(anchors)
  /\ walk = NoWalk \/ walk.at \in 1..Len(plugList)
  /\ phase = "clean" =>
       /\ installed = {} /\ plugins = <<>>
       /\ \A i \in 1..Len(anchors) : anchors[i].active =>
            \/ i \in walk.anchors
            \/ \E k \in 1..Len(plugList) : walk # NoWalk /\ k > walk.at /\ plugList[k] = anchors[i].path[1]

\* The anchors that the session in progress, or a call of the session, sees:
\* an ACTIVE one is in the table, for a service that the session installed.
Seen == phase \in Deployed \cup {"cleanup"} \/ installed # {} \/ \E c \in Callers : caller[c].session = session
ActiveOK ==
  Seen => \A i \in 1..Len(anchors) : anchors[i].active =>
            /\ table # <<>> /\ table[anchors[i].path] = i
            /\ \E s \in installed : s.path = anchors[i].path

\* An installed service has an anchor in the table, with its own fields; only
\* cleaning takes the routine and the ACTIVE flag away.
HasAnchor(s) ==
  LET a == anchors[table[s.path]]
  IN  /\ table # <<>> /\ table[s.path] # NULL
      /\ a.ss = s.ss /\ a.serviceVersion = s.version /\ (a.auth <=> s.saf # NoSaf)
      /\ s.saf # NoSaf => a.saf = s.saf /\ a.version >= SAF_SUPPORT
      /\ a.serve \in {s.code, NoCode}
      /\ phase \in Deployed => a.serve = s.code /\ a.active
InstalledOK ==
  /\ \A s \in installed : s.code.path = s.path /\ s.path # <<>> /\ HasAnchor(s)
  /\ \A r, s \in installed : r.path = s.path => r = s
  /\ phase \in Deployed => \A s \in installed : \E m \in Range(plugins) : m.name = s.path[1]

\* The services still to install are not installed yet, and the anchor that
\* the service at hand is bound to has its fields.
BoundTo(i) ==
  /\ anchors[i].path = path /\ Usable(anchors[i]) /\ ~anchors[i].active
  /\ anchors[i].serve = code /\ anchors[i].ss = service.ss /\ anchors[i].serviceVersion = service.version
  /\ anchors[i].auth <=> service.saf # NoSaf
  /\ service.saf # NoSaf => anchors[i].saf = service.saf /\ anchors[i].version >= SAF_SUPPORT
\* While the stores of zisUpdateServiceAnchor are made, it has the fields that
\* are stored already.
PartlyBound(i) ==
  /\ anchors[i].path = path /\ Usable(anchors[i]) /\ ~anchors[i].active
  /\ anchors[i].ss = service.ss /\ (anchors[i].auth <=> service.saf # NoSaf)
  /\ service.saf # NoSaf => anchors[i].version >= SAF_SUPPORT
  /\ phase \in {"storeVersion", "storeSaf"} => anchors[i].serve = code
  /\ phase = "storeSaf" => anchors[i].serviceVersion = service.version
InstallOK ==
  /\ phase \in Installing =>
       /\ todo # <<>> /\ plugins # <<>> /\ \A k \in 1..Len(todo) : todo[k] \in Range(plugin.services)
       /\ \A j, k \in 1..Len(todo) : todo[j].name = todo[k].name => j = k
       /\ \A k \in 1..Len(todo) : \A s \in installed : s.path # <<plugin.name, todo[k].name>>
       /\ plugin.name \in Range(plugList)
  /\ phase \in Storing => \E i \in 1..Len(anchors) : PartlyBound(i)
  /\ phase \in Bound => \E i \in 1..Len(anchors) : BoundTo(i) /\ (phase = "activate" => table # <<>> /\ table[path] = i)

\* A session that has not opened yet has no calls.
SessionOK ==
  /\ ready <=> phase = "up"
  /\ phase # "down" => session > 0
  /\ \A c \in Callers : caller[c].session <= session /\ caller[c].found <= session
  /\ phase \in {"clean", "deploy"} \cup Installing => \A c \in Callers : caller[c].session # session

\* What a call has found out in the session that accepted it, and in the one
\* in which it found its service ACTIVE.
CallOK(k) ==
  /\ k.step = "idle" => k.session = 0
  /\ k.step # "idle" => k.rc = "none" /\ k.path \in Paths /\ table # <<>> /\ session > 0
  /\ k.step \in {"version", "state", "auth", "serve"} =>
       k.anchor \in 1..Len(anchors) /\ anchors[k.anchor].path = k.path
  /\ k.step \in RouterSteps /\ k.session = session =>
       /\ k.step \in {"version", "state"} => k.anchor = table[k.path] /\ k.anchor # NULL
       /\ k.step \in {"auth", "serve", "serving"} => k.found = session
  /\ k.found = session =>
       /\ k.step \in {"auth", "serve"} =>
            k.anchor = table[k.path] /\ k.anchor # NULL /\ \E s \in installed : s.path = k.path
       /\ k.step \in {"serve", "serving"} =>
            \A s \in installed : s.path = k.path /\ s.saf # NoSaf => s.saf \in k.req.permits
       /\ k.step = "serving" => \E s \in installed : s.path = k.path /\ s.code = k.code

StoreInv == TypeOK /\ PlugOK /\ PluginsOK
TableInv == AnchorsOK /\ WalkOK /\ ActiveOK /\ InstalledOK /\ InstallOK /\ SessionOK
ZisInv   == StoreInv /\ TableInv /\ \A c \in Callers : CallOK(caller[c])

-----------------------------------------------------------------------------
\* Facts about the records and sequences of the model.
LEMMA NoCodeIsCode == NoCode \in Codes /\ NoCode.path = <<>>
BY DEF NoCode, Codes

LEMMA IdleIsCall ==
  ASSUME NEW rc \in {"none", "ended", "CMS_FAILED", "SERVICE_TABLE_NULL", "SERVICE_NOT_FOUND",
                     "BAD_SERVICE_VERSION", "SERVICE_INACTIVE", "SPECIFIC_AUTH_FAILED", "ABEND", "OK"}
  PROVE  /\ [Idle EXCEPT !.rc = rc] \in CallRecords /\ [Idle EXCEPT !.rc = rc].step = "idle"
         /\ [Idle EXCEPT !.rc = rc].session = 0 /\ [Idle EXCEPT !.rc = rc].found = 0 /\ [Idle EXCEPT !.rc = rc].rc = rc
<1>1. PICK x \in Codes : x = NoCode
  BY NoCodeIsCode
<1>2. Idle = [step |-> "idle", path |-> <<>>, req |-> NULL, anchor |-> NULL, ss |-> FALSE,
              session |-> 0, found |-> 0, code |-> x, rc |-> "none"]
  BY <1>1 DEF Idle
<1> QED
  BY <1>2 DEF CallRecords, CallerSteps, NULL

LEMMA IdleFields ==
  Idle \in CallRecords /\ Idle.step = "idle" /\ Idle.session = 0 /\ Idle.found = 0 /\ Idle.rc = "none"
<1>1. PICK x \in Codes : x = NoCode
  BY NoCodeIsCode
<1>2. Idle = [step |-> "idle", path |-> <<>>, req |-> NULL, anchor |-> NULL, ss |-> FALSE,
              session |-> 0, found |-> 0, code |-> x, rc |-> "none"]
  BY <1>1 DEF Idle
<1> QED
  BY <1>2 DEF CallRecords, CallerSteps, NULL

LEMMA NoWalkIsWalk == NoWalk \in Walks /\ NoWalk.at = 0 /\ NoWalk.anchors = {} /\ NoWalk.current = NULL
BY DEF NoWalk, Walks, NULL

\* Putting an element in front of a list.
LEMMA Pushed ==
  ASSUME NEW S, NEW l \in Seq(S), NEW e \in S
  PROVE  /\ <<e>> \o l \in Seq(S) /\ <<e>> \o l # <<>> /\ Head(<<e>> \o l) = e
         /\ Range(<<e>> \o l) = {e} \cup Range(l) /\ Len(<<e>> \o l) = Len(l) + 1
<1>0. <<e>> \in Seq(S) /\ Len(<<e>>) = 1 /\ <<e>>[1] = e /\ Len(l) \in Nat
  OBVIOUS
<1>1. PICK m \in Seq(S) : m = <<e>> \o l
  BY <1>0, ConcatProperties
<1>2. Len(m) = Len(l) + 1 /\ m[1] = e
  BY <1>0, <1>1, ConcatProperties
<1>3. \A i \in 2..Len(m) : i - 1 \in 1..Len(l) /\ m[i] = l[i - 1]
  <2>1. \A i \in 1..1 + Len(l) : m[i] = IF i <= 1 THEN <<e>>[i] ELSE l[i - 1]
    BY <1>0, <1>1, ConcatProperties
  <2> QED
    BY <1>0, <1>2, <2>1
<1>4. Range(m) = {e} \cup Range(l)
  <2>1. ASSUME NEW x \in Range(m) PROVE x \in {e} \cup Range(l)
    <3>1. PICK i \in 1..Len(m) : x = m[i]
      BY <2>1 DEF Range
    <3>2. CASE i = 1
      BY <1>2, <3>1, <3>2
    <3>3. CASE i # 1
      <4>1. i \in 2..Len(m)
        BY <3>3
      <4>2. i - 1 \in DOMAIN l /\ x = l[i - 1]
        BY <1>3, <3>1, <4>1
      <4> QED
        BY <4>2 DEF Range
    <3> QED
      BY <3>2, <3>3
  <2>2. ASSUME NEW x \in Range(l) PROVE x \in Range(m)
    <3>1. PICK i \in 1..Len(l) : x = l[i]
      BY <2>2 DEF Range
    <3>2. i + 1 \in 2..Len(m) /\ (i + 1) - 1 = i
      BY <1>0, <1>2
    <3>3. m[i + 1] = l[i] /\ i + 1 \in 1..Len(m)
      BY <1>3, <3>2
    <3> QED
      BY <3>1, <3>3 DEF Range
  <2>3. e \in Range(m)
    BY <1>2 DEF Range
  <2> QED
    BY <2>1, <2>2, <2>3
<1>5. m # <<>> /\ Head(m) = e
  BY <1>0, <1>2
<1> QED
  BY <1>1, <1>2, <1>4, <1>5

\* An anchor without a copy.
LEMMA NoAnchorIs ==
  ASSUME NEW b \in BOOLEAN
  PROVE  [NoAnchor EXCEPT !.made = b] \in PlugAnchors /\ [NoAnchor EXCEPT !.made = b].made = b
         /\ ~[NoAnchor EXCEPT !.made = b].lpa
BY DEF NoAnchor, NoCopy, PlugAnchors, Copies, Versions

-----------------------------------------------------------------------------
\* An earlier release leaves a state of the invariant.
LEMMA InitInv == ASSUME Init PROVE ZisInv
<1>1. PICK l \in LeftBehind : anchors = l.anchors /\ plugList = l.plugins
  BY DEF Init
<1>2. /\ anchors \in Seq(AnchorRecords) /\ plugList \in Seq(Names)
      /\ \A i \in 1..Len(anchors) : ~anchors[i].active /\ anchors[i].path[1] \in Range(plugList)
      /\ \A i, j \in 1..Len(anchors) : anchors[i].path = anchors[j].path => i = j
  BY <1>1, LeftBehindAssumption
<1>3. \/ table = <<>>
      \/ /\ table \in [Paths -> 0..Len(anchors)]
         /\ \A p \in Paths : table[p] # NULL => anchors[table[p]].path = p
  <2>1. CASE anchors # <<>>
    <3>1. table = [p \in Paths |-> IF \E i \in 1..Len(anchors) : anchors[i].path = p
                                   THEN CHOOSE i \in 1..Len(anchors) : anchors[i].path = p ELSE NULL]
      BY <1>2, <2>1 DEF Init
    <3>2. ASSUME NEW p \in Paths
          PROVE  \/ table[p] = 0
                 \/ table[p] \in 1..Len(anchors) /\ anchors[table[p]].path = p
      BY <3>1 DEF NULL
    <3>3. \A p \in Paths : table[p] \in 0..Len(anchors)
      BY <1>2, <3>2
    <3> QED
      BY <3>1, <3>2, <3>3 DEF NULL
  <2> QED
    BY <2>1 DEF Init
<1>4. plugAnchor \in [Names -> PlugAnchors]
      /\ \A n \in Names : (plugAnchor[n].made <=> n \in Range(plugList)) /\ ~plugAnchor[n].lpa
  <2>1. plugAnchor = [n \in Names |-> [NoAnchor EXCEPT !.made = n \in Range(plugList)]]
    BY DEF Init
  <2>2. \A n \in Names : (n \in Range(plugList)) \in BOOLEAN
    OBVIOUS
  <2>3. ASSUME NEW n \in Names
        PROVE  /\ plugAnchor[n] \in PlugAnchors /\ (plugAnchor[n].made <=> n \in Range(plugList))
               /\ ~plugAnchor[n].lpa
    <3>1. PICK b \in BOOLEAN : b = (n \in Range(plugList))
      BY <2>2
    <3>2. plugAnchor[n] = [NoAnchor EXCEPT !.made = b]
      BY <2>1, <3>1
    <3> QED
      BY <3>1, <3>2, NoAnchorIs
  <2> QED
    BY <2>1, <2>3
<1>5. /\ lpa = {} /\ ready = FALSE /\ phase = "down" /\ session = 0 /\ devMode = FALSE /\ parms = {}
      /\ walk = NoWalk /\ todo = <<>> /\ plugins = <<>> /\ installed = {} /\ calls = 0
      /\ caller = [c \in Callers |-> Idle]
  BY DEF Init
<1>6. TypeOK
  <2>1. walk \in Walks /\ caller \in [Callers -> CallRecords]
    BY <1>5, IdleFields, NoWalkIsWalk
  <2>2. todo \in Seq(Services) /\ plugins \in Seq(Modules) /\ installed \subseteq Installs
    BY <1>5
  <2>3. table = <<>> \/ table \in [Paths -> 0..Len(anchors)]
    BY <1>3
  <2> QED
    BY <1>2, <1>4, <1>5, <2>1, <2>2, <2>3 DEF TypeOK, Phases
<1>7. StoreInv
  BY <1>4, <1>5, <1>6 DEF StoreInv, PlugOK, PluginsOK, Deployed, Installing, Storing
<1>8. AnchorsOK
  BY <1>2, <1>3 DEF AnchorsOK
<1>9. WalkOK /\ ActiveOK
  BY <1>2, <1>5, NoWalkIsWalk DEF WalkOK, ActiveOK, NULL
<1>10. InstalledOK /\ InstallOK
  BY <1>5 DEF InstalledOK, InstallOK, Deployed, Installing, Storing, Bound
<1>11. SessionOK
  BY <1>5, IdleFields DEF SessionOK, Installing, Storing
<1>12. \A c \in Callers : CallOK(caller[c])
  BY <1>5, IdleFields DEF CallOK, RouterSteps
<1> QED
  BY <1>7, <1>8, <1>9, <1>10, <1>11, <1>12 DEF ZisInv, TableInv

-----------------------------------------------------------------------------
\* A step of a caller keeps the invariant when what the call has found out is so.
LEMMA CallerStep ==
  ASSUME ZisInv, NEW c \in Callers, NEW k \in CallRecords, caller' = [caller EXCEPT ![c] = k],
         UNCHANGED <<common, ready, server>>, calls' \in Nat, CallOK(k),
         k.session \in {0, caller[c].session} \/ (ready /\ k.session = session),
         k.found \in {0, caller[c].found, session}
  PROVE  ZisInv'
<1> USE DEF ZisInv, StoreInv, TableInv, common, server
<1>0. caller \in [Callers -> CallRecords] /\ session \in Nat
  BY DEF TypeOK
<1>1. TypeOK'
  BY <1>0 DEF TypeOK
<1>2. PlugOK' /\ PluginsOK'
  BY DEF PlugOK, PluginsOK
<1>3. AnchorsOK' /\ WalkOK'
  BY DEF AnchorsOK, WalkOK
<1>4. caller'[c] = k /\ \A d \in Callers \ {c} : caller'[d] = caller[d]
  BY <1>0
<1>5. SessionOK'
  <2>1. k.session \in Nat /\ caller[c].session \in Nat /\ k.found \in Nat /\ caller[c].found \in Nat
    BY <1>0 DEF CallRecords
  <2>2. k.session <= session /\ k.found <= session /\ (phase \in {"clean", "deploy"} \cup Installing => k.session # session)
    BY <1>0, <2>1 DEF SessionOK, Installing, Storing
  <2> QED
    BY <1>4, <2>2 DEF SessionOK
<1>6. Seen' => Seen
  <2>1. ASSUME NEW d \in Callers, caller'[d].session = session PROVE Seen
    <3>1. CASE d # c
      BY <1>4, <2>1, <3>1 DEF Seen
    <3>2. CASE d = c /\ ready
      BY <3>2 DEF Seen, SessionOK, Deployed
    <3>3. CASE d = c /\ k.session = 0
      BY <1>0, <1>4, <2>1, <3>3 DEF Seen, SessionOK, CallRecords
    <3>4. CASE d = c /\ k.session = caller[c].session
      BY <1>4, <2>1, <3>4 DEF Seen
    <3> QED
      BY <3>1, <3>2, <3>3, <3>4
  <2> QED
    BY <2>1 DEF Seen
<1>7. ActiveOK'
  BY <1>6 DEF ActiveOK
<1>8. InstalledOK'
  BY DEF InstalledOK, HasAnchor
<1>9. InstallOK'
  BY DEF InstallOK, BoundTo, PartlyBound, path, plugin, service, code
<1>10. \A d \in Callers : CallOK(caller[d])'
  <2>1. ASSUME NEW d \in Callers PROVE CallOK(caller[d])'
    <3>1. PICK x : x = caller'[d] /\ CallOK(x)
      BY <1>4
    <3> QED
      BY <3>1 DEF CallOK
  <2> QED
    BY <2>1
<1> QED
  BY <1>1, <1>2, <1>3, <1>5, <1>7, <1>8, <1>9, <1>10

\* A call that ends has found out nothing.
LEMMA CallEnds ==
  ASSUME ZisInv, NEW c \in Callers, UNCHANGED <<common, ready, server>>, calls' \in Nat,
         NEW rc \in {"none", "ended", "CMS_FAILED", "SERVICE_TABLE_NULL", "SERVICE_NOT_FOUND",
                     "BAD_SERVICE_VERSION", "SERVICE_INACTIVE", "SPECIFIC_AUTH_FAILED", "ABEND", "OK"},
         Ends(c, rc)
  PROVE  ZisInv'
<1>1. PICK k \in CallRecords : k = [Idle EXCEPT !.rc = rc] /\ k.step = "idle" /\ k.session = 0 /\ k.found = 0
  BY IdleIsCall
<1>2. caller' = [caller EXCEPT ![c] = k]
  BY <1>1 DEF Ends
<1>3. CallOK(k)
  BY <1>1 DEF CallOK, RouterSteps
<1> QED
  BY <1>1, <1>2, <1>3, CallerStep

\* A call that goes on keeps what it has.
LEMMA CallGoes ==
  ASSUME NEW c \in Callers, caller \in [Callers -> CallRecords], NEW step \in CallerSteps, Goes(c, step)
  PROVE  \E k \in CallRecords :
           /\ caller' = [caller EXCEPT ![c] = k] /\ k.step = step /\ k.session = caller[c].session
           /\ k.path = caller[c].path /\ k.anchor = caller[c].anchor /\ k.req = caller[c].req /\ k.rc = caller[c].rc
           /\ k.found = caller[c].found
<1>1. PICK k : k = [caller[c] EXCEPT !.step = step]
  OBVIOUS
<1>2. k \in CallRecords /\ k.step = step /\ k.session = caller[c].session
      /\ k.path = caller[c].path /\ k.anchor = caller[c].anchor /\ k.req = caller[c].req /\ k.rc = caller[c].rc
      /\ k.found = caller[c].found
  BY <1>1 DEF CallRecords
<1>3. caller' = [caller EXCEPT ![c] = k]
  BY <1>1 DEF Goes
<1> QED
  BY <1>2, <1>3

\* An entry of the table is an anchor of its path.
LEMMA EntryIs ==
  ASSUME TypeOK, AnchorsOK, NEW p \in Paths, table # <<>>, table[p] # NULL
  PROVE  table[p] \in 1..Len(anchors) /\ anchors[table[p]] \in AnchorRecords /\ anchors[table[p]].path = p
BY DEF TypeOK, AnchorsOK, NULL

\* zisCallService keeps the invariant;
LEMMA CallKeeps ==
  ASSUME ZisInv, NEW c \in Callers, zisCallService(c) PROVE ZisInv'
<1>0. /\ UNCHANGED <<common, ready, server>> /\ calls' \in Nat /\ caller[c].step = "idle"
      /\ TypeOK /\ AnchorsOK /\ SessionOK
  <2>1. UNCHANGED <<common, ready, server>> /\ calls' = calls + 1 /\ caller[c].step = "idle"
    BY Zenon DEF zisCallService
  <2>2. TypeOK /\ AnchorsOK /\ SessionOK /\ calls \in Nat
    BY DEF ZisInv, StoreInv, TableInv, TypeOK
  <2> QED
    BY <2>1, <2>2
<1>1. CASE \E rc \in {"CMS_FAILED", "SERVICE_TABLE_NULL", "SERVICE_NOT_FOUND"} : Ends(c, rc)
  BY <1>0, <1>1, CallEnds
<1>2. CASE /\ ready /\ table # <<>>
           /\ \E p \in Paths, r \in Requests :
                /\ table[p] # NULL
                /\ caller' = [caller EXCEPT ![c] =
                     [Idle EXCEPT !.step = "call", !.path = p, !.req = r, !.ss = anchors[table[p]].ss]]
  <2>1. PICK p \in Paths, r \in Requests :
          /\ table[p] # NULL
          /\ caller' = [caller EXCEPT ![c] =
               [Idle EXCEPT !.step = "call", !.path = p, !.req = r, !.ss = anchors[table[p]].ss]]
    BY <1>2
  <2>2. PICK b \in BOOLEAN : b = anchors[table[p]].ss
    BY <1>0, <1>2, <2>1, EntryIs DEF AnchorRecords
  <2>3. PICK k : k = [Idle EXCEPT !.step = "call", !.path = p, !.req = r, !.ss = b]
    OBVIOUS
  <2>4. k \in CallRecords /\ k.step = "call" /\ k.path = p /\ k.session = 0 /\ k.rc = "none" /\ k.found = 0
    <3>1. PICK x \in Codes : x = NoCode
      BY NoCodeIsCode
    <3>2. k = [step |-> "call", path |-> p, req |-> r, anchor |-> 0, ss |-> b,
               session |-> 0, found |-> 0, code |-> x, rc |-> "none"]
      BY <2>3, <3>1 DEF Idle, NULL
    <3> QED
      BY <3>2 DEF CallRecords, CallerSteps
  <2>5. session > 0
    BY <1>0, <1>2 DEF SessionOK
  <2>6. CallOK(k)
    BY <1>2, <2>4, <2>5 DEF CallOK, RouterSteps
  <2>7. caller' = [caller EXCEPT ![c] = k]
    BY <2>1, <2>2, <2>3
  <2> QED
    BY <1>0, <2>4, <2>6, <2>7, CallerStep
<1> QED
  BY <1>1, <1>2 DEF zisCallService

\* so does the PC, which records the session;
LEMMA RouterKeeps ==
  ASSUME ZisInv, NEW c \in Callers, CallRouter(c) PROVE ZisInv'
<1>0. /\ UNCHANGED <<common, ready, server>> /\ calls' \in Nat /\ caller[c].step = "call"
      /\ TypeOK /\ SessionOK /\ CallOK(caller[c])
  BY DEF CallRouter, ZisInv, StoreInv, TableInv, TypeOK
<1>1. CASE Ends(c, "CMS_FAILED")
  BY <1>0, <1>1, CallEnds
<1>2. CASE ready /\ caller' = [caller EXCEPT ![c].step = "route", ![c].session = session]
  <2>1. PICK k : k = [caller[c] EXCEPT !.step = "route", !.session = session]
    OBVIOUS
  <2>2. caller[c] \in CallRecords /\ session \in Nat
    BY <1>0 DEF TypeOK
  <2>3. k \in CallRecords /\ k.step = "route" /\ k.session = session /\ k.path = caller[c].path /\ k.rc = caller[c].rc
        /\ k.found = caller[c].found
    BY <2>1, <2>2 DEF CallRecords, CallerSteps, RouterSteps
  <2>4. CallOK(k)
    BY <1>0, <2>3 DEF CallOK
  <2>5. caller' = [caller EXCEPT ![c] = k]
    BY <1>0, <1>2, <2>1 DEF TypeOK
  <2> QED
    BY <1>0, <1>2, <2>3, <2>4, <2>5, CallerStep
<1> QED
  BY <1>1, <1>2 DEF CallRouter

\* the router's look at the table;
LEMMA LookupKeeps ==
  ASSUME ZisInv, NEW c \in Callers, RouteLookup(c) PROVE ZisInv'
<1>0. /\ UNCHANGED <<common, ready, server>> /\ calls' \in Nat /\ caller[c].step = "route"
      /\ TypeOK /\ AnchorsOK /\ CallOK(caller[c]) /\ caller[c] \in CallRecords
  BY DEF RouteLookup, ZisInv, StoreInv, TableInv, TypeOK
<1>1. CASE Ends(c, "SERVICE_NOT_FOUND")
  BY <1>0, <1>1, CallEnds
<1>2. CASE /\ table[caller[c].path] # NULL
           /\ caller' = [caller EXCEPT ![c].step = "version", ![c].anchor = table[caller[c].path]]
  <2>1. PICK i \in 1..Len(anchors) : i = table[caller[c].path] /\ anchors[i].path = caller[c].path
    BY <1>0, <1>2, EntryIs DEF CallOK
  <2>2. PICK k : k = [caller[c] EXCEPT !.step = "version", !.anchor = i]
    OBVIOUS
  <2>3. /\ k \in CallRecords /\ k.step = "version" /\ k.session = caller[c].session /\ k.path = caller[c].path
        /\ k.rc = caller[c].rc /\ k.anchor = i /\ k.found = caller[c].found
    <3>1. i \in Nat
      BY <1>0, <2>1 DEF TypeOK
    <3> QED
      BY <1>0, <2>2, <3>1 DEF CallRecords, CallerSteps, RouterSteps
  <2>4. CallOK(k)
    BY <1>0, <1>2, <2>1, <2>3 DEF CallOK
  <2>5. caller' = [caller EXCEPT ![c] = k]
    BY <1>0, <1>2, <2>1, <2>2 DEF TypeOK
  <2> QED
    BY <1>0, <2>3, <2>4, <2>5, CallerStep
<1> QED
  BY <1>1, <1>2 DEF RouteLookup

\* its look at the version;
LEMMA VersionKeeps ==
  ASSUME ZisInv, NEW c \in Callers, RouteVersion(c) PROVE ZisInv'
<1>0. /\ UNCHANGED <<common, ready, server>> /\ calls' \in Nat /\ caller[c].step = "version"
      /\ TypeOK /\ CallOK(caller[c]) /\ caller \in [Callers -> CallRecords]
  BY DEF RouteVersion, ZisInv, StoreInv, TableInv, TypeOK
<1>1. CASE Ends(c, "BAD_SERVICE_VERSION")
  BY <1>0, <1>1, CallEnds
<1>2. CASE Goes(c, "state")
  <2>1. PICK k \in CallRecords :
          /\ caller' = [caller EXCEPT ![c] = k] /\ k.step = "state" /\ k.session = caller[c].session
          /\ k.path = caller[c].path /\ k.anchor = caller[c].anchor /\ k.req = caller[c].req /\ k.rc = caller[c].rc
          /\ k.found = caller[c].found
    BY <1>0, <1>2, CallGoes DEF CallerSteps, RouterSteps
  <2>2. CallOK(k)
    BY <1>0, <2>1 DEF CallOK, RouterSteps
  <2> QED
    BY <1>0, <2>1, <2>2, CallerStep
<1> QED
  BY <1>1, <1>2 DEF RouteVersion

\* its look at the state: an ACTIVE anchor belongs to an installed service;
LEMMA StateKeeps ==
  ASSUME ZisInv, NEW c \in Callers, RouteState(c) PROVE ZisInv'
<1>0. /\ UNCHANGED <<common, ready, server>> /\ calls' \in Nat /\ caller[c].step = "state"
      /\ TypeOK /\ AnchorsOK /\ ActiveOK /\ CallOK(caller[c]) /\ caller \in [Callers -> CallRecords]
  BY DEF RouteState, ZisInv, StoreInv, TableInv, TypeOK
<1>1. CASE Ends(c, "SERVICE_INACTIVE")
  BY <1>0, <1>1, CallEnds
<1>2. CASE routed(c).active /\ caller' = [caller EXCEPT ![c].step = "auth", ![c].found = foundIn(c)]
  <2>1. PICK f \in {0, session} : f = foundIn(c) /\ (f # 0 => \E s \in installed : s.path = caller[c].path)
    BY DEF foundIn
  <2>0. f \in Nat /\ caller[c] \in CallRecords
    BY <1>0, <2>1 DEF TypeOK
  <2>2. PICK k : k = [caller[c] EXCEPT !.step = "auth", !.found = f]
    OBVIOUS
  <2>3. /\ k \in CallRecords /\ k.step = "auth" /\ k.session = caller[c].session /\ k.found = f
        /\ k.path = caller[c].path /\ k.anchor = caller[c].anchor /\ k.req = caller[c].req /\ k.rc = caller[c].rc
    BY <1>0, <2>0, <2>2 DEF CallRecords, CallerSteps, RouterSteps
  <2>4. PICK i \in 1..Len(anchors) : /\ i = caller[c].anchor /\ anchors[i].path = caller[c].path
                                     /\ anchors[i].active
    BY <1>0, <1>2 DEF CallOK, routed
  <2>5. session > 0 /\ session \in Nat /\ caller[c].path \in Paths
    BY <1>0 DEF CallOK, TypeOK
  <2>6. ASSUME k.session = session PROVE \E s \in installed : s.path = caller[c].path
    <3>1. Seen
      BY <2>3, <2>6 DEF Seen
    <3> QED
      BY <1>0, <2>4, <3>1 DEF ActiveOK
  <2>7. k.session = session => f = session
    BY <2>1, <2>6 DEF foundIn
  <2>8. ASSUME f = session
        PROVE  k.anchor = table[k.path] /\ k.anchor # NULL /\ \E s \in installed : s.path = k.path
    <3>1. \E s \in installed : s.path = caller[c].path
      BY <2>1, <2>5, <2>8
    <3>2. Seen
      BY <3>1 DEF Seen
    <3> QED
      BY <1>0, <2>3, <2>4, <3>1, <3>2 DEF ActiveOK, NULL
  <2>9. CallOK(k)
    BY <1>0, <2>3, <2>7, <2>8 DEF CallOK, RouterSteps
  <2>10. caller' = [caller EXCEPT ![c] = k]
    BY <1>0, <1>2, <2>1, <2>2
  <2> QED
    BY <1>0, <2>1, <2>3, <2>9, <2>10, CallerStep
<1> QED
  BY <1>1, <1>2 DEF RouteState

\* the anchor of a call that the router has let through;
LEMMA RoutedIs ==
  ASSUME ZisInv, NEW c \in Callers, caller[c].step \in {"auth", "serve"}, caller[c].found = session
  PROVE  \E s \in installed :
           /\ s.path = caller[c].path /\ (routed(c).auth <=> s.saf # NoSaf)
           /\ s.saf # NoSaf => routed(c).saf = s.saf /\ routed(c).version >= SAF_SUPPORT
           /\ routed(c).serve \in {s.code, NoCode} /\ (ready => routed(c).serve = s.code /\ routed(c).active)
           /\ s.code.path = s.path /\ \A r \in installed : r.path = s.path => r = s
<1>1. /\ CallOK(caller[c]) /\ InstalledOK /\ SessionOK
  BY DEF ZisInv, TableInv
<1>2. PICK s \in installed : s.path = caller[c].path
  BY <1>1 DEF CallOK, RouterSteps
<1>3. routed(c) = anchors[table[s.path]]
  BY <1>1, <1>2 DEF CallOK, RouterSteps, routed
<1>4. HasAnchor(s) /\ s.code.path = s.path /\ \A r \in installed : r.path = s.path => r = s
  BY <1>1 DEF InstalledOK
<1>5. ready => phase \in Deployed
  BY <1>1 DEF SessionOK, Deployed
<1>6. PICK a : a = anchors[table[s.path]]
  OBVIOUS
<1>7. /\ (a.auth <=> s.saf # NoSaf) /\ (s.saf # NoSaf => a.saf = s.saf /\ a.version >= SAF_SUPPORT)
      /\ a.serve \in {s.code, NoCode} /\ (phase \in Deployed => a.serve = s.code /\ a.active)
  BY <1>4, <1>6 DEF HasAnchor
<1>8. routed(c) = a
  BY <1>3, <1>6
<1> QED
  BY <1>2, <1>4, <1>5, <1>7, <1>8

\* the specific SAF check;
LEMMA AuthKeeps ==
  ASSUME ZisInv, NEW c \in Callers, RouteAuth(c) PROVE ZisInv'
<1>0. /\ UNCHANGED <<common, ready, server>> /\ calls' \in Nat /\ caller[c].step = "auth"
      /\ TypeOK /\ CallOK(caller[c]) /\ caller \in [Callers -> CallRecords]
  BY DEF RouteAuth, ZisInv, StoreInv, TableInv, TypeOK
<1>1. CASE Ends(c, "SPECIFIC_AUTH_FAILED")
  BY <1>0, <1>1, CallEnds
<1>2. CASE TRUE \in (IF routed(c).auth THEN authorized(c) ELSE {TRUE}) /\ Goes(c, "serve")
  <2>1. PICK k \in CallRecords :
          /\ caller' = [caller EXCEPT ![c] = k] /\ k.step = "serve" /\ k.session = caller[c].session
          /\ k.path = caller[c].path /\ k.anchor = caller[c].anchor /\ k.req = caller[c].req /\ k.rc = caller[c].rc
          /\ k.found = caller[c].found
    BY <1>0, <1>2, CallGoes DEF CallerSteps, RouterSteps
  <2>2. ASSUME k.found = session, NEW s \in installed, s.path = k.path, s.saf # NoSaf PROVE s.saf \in k.req.permits
    <3>1. routed(c).auth /\ routed(c).saf = s.saf /\ routed(c).version >= SAF_SUPPORT
      <4>1. PICK r \in installed :
              /\ r.path = caller[c].path /\ (routed(c).auth <=> r.saf # NoSaf)
              /\ r.saf # NoSaf => routed(c).saf = r.saf /\ routed(c).version >= SAF_SUPPORT
              /\ \A q \in installed : q.path = r.path => q = r
        BY <1>0, <2>1, <2>2, RoutedIs
      <4> QED
        BY <2>1, <2>2, <4>1
    <3>2. authorized(c) = {routed(c).saf \in caller[c].req.permits}
      BY <3>1 DEF authorized
    <3> QED
      BY <1>2, <2>1, <3>1, <3>2
  <2>3. CallOK(k)
    BY <1>0, <2>1, <2>2 DEF CallOK, RouterSteps
  <2> QED
    BY <1>0, <2>1, <2>3, CallerStep
<1>3. PICK ok \in (IF routed(c).auth THEN authorized(c) ELSE {TRUE}) :
        IF ok THEN Goes(c, "serve") ELSE Ends(c, "SPECIFIC_AUTH_FAILED")
  BY DEF RouteAuth
<1>4. ok \in BOOLEAN
  <2>1. authorized(c) \subseteq BOOLEAN
    <3>1. (routed(c).saf \in caller[c].req.permits) \in BOOLEAN
      OBVIOUS
    <3> QED
      BY <3>1, Zenon DEF authorized
  <2> QED
    BY <1>3, <2>1
<1> QED
  BY <1>1, <1>2, <1>3, <1>4

\* the call of the routine.
LEMMA ServeKeeps ==
  ASSUME ZisInv, NEW c \in Callers, Serve(c) PROVE ZisInv'
<1>0. /\ UNCHANGED <<common, ready, server>> /\ calls' \in Nat /\ caller[c].step = "serve"
      /\ TypeOK /\ CallOK(caller[c]) /\ caller \in [Callers -> CallRecords]
  BY DEF Serve, ZisInv, StoreInv, TableInv, TypeOK
<1>1. CASE Ends(c, "ABEND")
  BY <1>0, <1>1, CallEnds
<1>2. CASE /\ routed(c).serve # NoCode
           /\ caller' = [caller EXCEPT ![c].step = "serving", ![c].code = routed(c).serve]
  <2>1. PICK k : k = [caller[c] EXCEPT !.step = "serving", !.code = routed(c).serve]
    OBVIOUS
  <2>2. routed(c).serve \in Codes
    <3>1. anchors \in Seq(AnchorRecords) /\ caller[c].anchor \in 1..Len(anchors)
      BY <1>0 DEF CallOK, TypeOK
    <3>2. anchors[caller[c].anchor] \in AnchorRecords
      BY <3>1
    <3> QED
      BY <3>2 DEF routed, AnchorRecords
  <2>3. /\ k \in CallRecords /\ k.step = "serving" /\ k.session = caller[c].session /\ k.path = caller[c].path
        /\ k.found = caller[c].found /\ k.rc = caller[c].rc /\ k.code = routed(c).serve /\ k.req = caller[c].req
    BY <1>0, <2>1, <2>2 DEF CallRecords, CallerSteps, RouterSteps
  <2>4. ASSUME k.found = session PROVE \E s \in installed : s.path = k.path /\ s.code = k.code
    <3>1. PICK s \in installed : s.path = caller[c].path /\ routed(c).serve \in {s.code, NoCode}
      BY <1>0, <2>3, <2>4, RoutedIs
    <3> QED
      BY <1>2, <2>3, <3>1
  <2>5. CallOK(k)
    BY <1>0, <2>3, <2>4 DEF CallOK, RouterSteps
  <2>6. caller' = [caller EXCEPT ![c] = k]
    BY <1>0, <1>2, <2>1 DEF TypeOK
  <2> QED
    BY <1>0, <2>3, <2>5, <2>6, CallerStep
<1> QED
  BY <1>1, <1>2 DEF Serve

\* Together:
LEMMA CallersKeep ==
  ASSUME ZisInv, NEW c \in Callers, CallerNext(c) PROVE ZisInv'
<1>1. CASE ServeReturns(c)
  <2>1. UNCHANGED <<common, ready, server>> /\ calls' \in Nat /\ Ends(c, "OK")
    BY <1>1 DEF ServeReturns, ZisInv, StoreInv, TypeOK
  <2> QED
    BY <2>1, CallEnds
<1> QED
  BY <1>1, CallKeeps, RouterKeeps, LookupKeeps, VersionKeeps, StateKeeps, AuthKeeps, ServeKeeps DEF CallerNext

-----------------------------------------------------------------------------
\* A step of the server keeps what the calls have found out: it leaves the
\* table and the installed services alone, or installs another service while
\* no call of the session is there, or starts a session that has no calls yet.
LEMMA CallsKept ==
  ASSUME ZisInv, Len(anchors) \in Nat, Len(anchors') \in Nat, Len(anchors') >= Len(anchors),
         table # <<>> => table' # <<>>,
         \A i \in 1..Len(anchors) : anchors'[i].path = anchors[i].path,
         \A c \in Callers : caller'[c] = caller[c] \/ (caller'[c].step = "idle" /\ caller'[c].session = 0),
         session' \in {session, session + 1},
         \/ session' = session /\ table' = table /\ installed' = installed
         \/ /\ session' = session /\ \A c \in Callers : caller[c].session # session
            /\ \A s \in installed : s \in installed' /\ table'[s.path] = table[s.path]
            /\ \A r \in installed' : r \in installed \/ \A s \in installed : r.path # s.path
         \/ \A c \in Callers : caller[c].session # session' /\ caller[c].found # session'
  PROVE  \A c \in Callers : CallOK(caller[c])'
<1> SUFFICES ASSUME NEW c \in Callers PROVE CallOK(caller[c])'
  OBVIOUS
<1>0. CallOK(caller[c]) /\ session \in Nat
  BY DEF ZisInv, StoreInv, TypeOK
<1>1. CASE caller'[c].step = "idle" /\ caller'[c].session = 0
  BY <1>1 DEF CallOK, RouterSteps
<1>2. CASE caller'[c] = caller[c] /\ session' = session /\ table' = table /\ installed' = installed
  BY <1>0, <1>2 DEF CallOK
<1>3. CASE caller'[c] = caller[c] /\ caller[c].session # session' /\ caller[c].found # session'
  BY <1>0, <1>3 DEF CallOK
<1>4. CASE /\ caller'[c] = caller[c] /\ session' = session /\ caller[c].session # session
           /\ \A s \in installed : s \in installed' /\ table'[s.path] = table[s.path]
           /\ \A r \in installed' : r \in installed \/ \A s \in installed : r.path # s.path
  <2>1. PICK k : k = caller[c]
    OBVIOUS
  <2>2. ASSUME k.found = session, k.step \in {"auth", "serve"}
        PROVE  k.anchor = table'[k.path] /\ k.anchor # NULL /\ \E s \in installed' : s.path = k.path
    BY <1>0, <1>4, <2>1, <2>2 DEF CallOK
  <2>3. ASSUME k.found = session, k.step = "serving"
        PROVE  \E s \in installed' : s.path = k.path /\ s.code = k.code
    BY <1>0, <1>4, <2>1, <2>3 DEF CallOK
  <2>4. ASSUME k.found = session, k.step \in {"serve", "serving"},
               NEW s \in installed', s.path = k.path, s.saf # NoSaf
        PROVE  s.saf \in k.req.permits
    <3>1. \E r \in installed : r.path = k.path
      BY <1>0, <2>1, <2>4 DEF CallOK
    <3>2. s \in installed
      BY <1>4, <2>4, <3>1
    <3> QED
      BY <1>0, <2>1, <2>4, <3>2 DEF CallOK
  <2>5. CallOK(k)'
    BY <1>0, <1>4, <2>1, <2>2, <2>3, <2>4 DEF CallOK
  <2> QED
    BY <1>4, <2>1, <2>5
<1> QED
  BY <1>1, <1>2, <1>3, <1>4

\* The clean plug-ins of the walk.
LEMMA WalkAtIs ==
  ASSUME TypeOK, NEW k \in Nat \ {0}
  PROVE  /\ walkAt(k) \in Walks /\ walkAt(k).anchors \subseteq 1..Len(anchors) /\ walkAt(k).current = NULL
         /\ k > Len(plugList) => walkAt(k) = NoWalk
         /\ k <= Len(plugList) =>
              /\ walkAt(k).at = k /\ k \in 1..Len(plugList) /\ walkAt(k) # NoWalk
              /\ \A i \in 1..Len(anchors) : anchors[i].path[1] = plugList[k] => i \in walkAt(k).anchors
<1>0. Len(plugList) \in Nat /\ Len(anchors) \in Nat
  BY DEF TypeOK
<1>1. CASE k > Len(plugList)
  BY <1>0, <1>1, NoWalkIsWalk DEF walkAt
<1>2. CASE k <= Len(plugList)
  <2>1. PICK A : A = {i \in 1..Len(anchors) : anchors[i].path[1] = plugList[k]}
    OBVIOUS
  <2>2. walkAt(k) = [at |-> k, anchors |-> A, current |-> NULL]
    <3>1. DOMAIN anchors = 1..Len(anchors)
      BY DEF TypeOK
    <3>2. ~(k > Len(plugList))
      BY <1>0, <1>2
    <3> QED
      BY <2>1, <3>1, <3>2 DEF walkAt
  <2>3. A \subseteq 1..Len(anchors) /\ A \in SUBSET Nat
    BY <1>0, <2>1
  <2>4. walkAt(k).at = k /\ walkAt(k).anchors = A /\ walkAt(k).current = NULL /\ walkAt(k) \in Walks
    BY <2>2, <2>3 DEF Walks, NULL
  <2> QED
    BY <1>0, <1>2, <2>1, <2>3, <2>4, NoWalkIsWalk
<1> QED
  BY <1>0, <1>1, <1>2

\* A store of cleanPluginAnchor takes ACTIVE or the routine from one anchor.
LEMMA CleaningKeeps ==
  ASSUME ZisInv, phase \in {"clean", "cleanup"}, NEW i \in 1..Len(anchors), NEW b \in AnchorRecords,
         anchors' = [anchors EXCEPT ![i] = b], walk' \in Walks, WalkOK',
         b.path = anchors[i].path, b.version = anchors[i].version, b.discarded = anchors[i].discarded,
         b.ss = anchors[i].ss, b.auth = anchors[i].auth, b.saf = anchors[i].saf,
         b.serviceVersion = anchors[i].serviceVersion, b.active => anchors[i].active,
         b.serve \in {anchors[i].serve, NoCode},
         UNCHANGED <<table, plugAnchor, plugList, lpa, ready, phase, session, devMode, parms, todo, plugins,
                     installed, clients>>
  PROVE  ZisInv'
<1> USE DEF clients
<1>0. TypeOK /\ PlugOK /\ AnchorsOK /\ ActiveOK /\ InstalledOK /\ SessionOK /\ anchors \in Seq(AnchorRecords)
  BY DEF ZisInv, StoreInv, TableInv, TypeOK
<1>1. /\ anchors' \in Seq(AnchorRecords) /\ Len(anchors') = Len(anchors) /\ Len(anchors) \in Nat
      /\ anchors'[i] = b /\ \A j \in 1..Len(anchors) : j # i => anchors'[j] = anchors[j]
  BY <1>0, ExceptSeq
<1>2. \A j \in 1..Len(anchors) :
        /\ anchors'[j].path = anchors[j].path /\ anchors'[j].version = anchors[j].version
        /\ anchors'[j].discarded = anchors[j].discarded /\ anchors'[j].ss = anchors[j].ss
        /\ anchors'[j].auth = anchors[j].auth /\ anchors'[j].saf = anchors[j].saf
        /\ anchors'[j].serviceVersion = anchors[j].serviceVersion
        /\ anchors'[j].active => anchors[j].active
        /\ anchors'[j].serve \in {anchors[j].serve, NoCode}
  BY <1>1
<1>3. TypeOK'
  BY <1>0, <1>1 DEF TypeOK
<1>4. PlugOK' /\ PluginsOK'
  BY <1>0 DEF PlugOK, PluginsOK, Deployed, Installing, Storing
<1>5. AnchorsOK'
  <2>1. \A j, k \in 1..Len(anchors) :
          anchors'[j].path = anchors'[k].path /\ Usable(anchors'[j]) /\ Usable(anchors'[k]) => j = k
    BY <1>0, <1>2 DEF AnchorsOK, Usable
  <2>2. table # <<>> => \A p \in Paths : table[p] # NULL => anchors'[table[p]].path = p
    <3> SUFFICES ASSUME table # <<>>, NEW p \in Paths, table[p] # NULL PROVE anchors'[table[p]].path = p
      OBVIOUS
    <3>1. table[p] \in 1..Len(anchors) /\ anchors[table[p]].path = p
      BY <1>0, EntryIs
    <3> QED
      BY <1>2, <3>1
  <2> QED
    BY <1>0, <1>1, <1>2, <2>1, <2>2 DEF AnchorsOK
<1>6. ActiveOK'
  BY <1>0, <1>1, <1>2 DEF ActiveOK, Seen
<1>7. InstalledOK'
  <2>1. ASSUME NEW s \in installed PROVE HasAnchor(s)'
    <3>1. HasAnchor(s) /\ s.path \in Paths
      BY <1>0 DEF InstalledOK, TypeOK, Installs
    <3>2. table # <<>> /\ table[s.path] # NULL /\ table[s.path] \in 1..Len(anchors)
      BY <1>0, <3>1, EntryIs DEF HasAnchor
    <3> QED
      BY <1>2, <3>1, <3>2 DEF HasAnchor, Deployed, Installing, Storing
  <2> QED
    BY <1>0, <2>1 DEF InstalledOK, Deployed, Installing
<1>8. InstallOK' /\ SessionOK'
  BY <1>0 DEF InstallOK, Installing, Storing, Bound, SessionOK
<1>9. \A c \in Callers : CallOK(caller[c])'
  BY <1>1, <1>2, CallsKept
<1> QED
  BY <1>3, <1>4, <1>5, <1>6, <1>7, <1>8, <1>9 DEF ZisInv, StoreInv, TableInv

\* The first store;
LEMMA ClearActiveKeeps == ASSUME ZisInv, ClearActive PROVE ZisInv'
<1>0. /\ TypeOK /\ WalkOK /\ anchors \in Seq(AnchorRecords) /\ walk \in Walks /\ Len(anchors) \in Nat
  BY DEF ZisInv, StoreInv, TableInv, TypeOK
<1>1. PICK i \in walk.anchors :
        /\ anchors' = [anchors EXCEPT ![i] = cleared(@)]
        /\ walk' = [walk EXCEPT !.anchors = @ \ {i}, !.current = i]
  BY DEF ClearActive
<1>2. i \in 1..Len(anchors) /\ anchors[i] \in AnchorRecords
  BY <1>0 DEF WalkOK
<1>3. PICK b \in AnchorRecords : b = cleared(anchors[i])
  BY <1>2 DEF cleared, AnchorRecords
<1>4. /\ b.path = anchors[i].path /\ b.version = anchors[i].version /\ b.discarded = anchors[i].discarded
      /\ b.ss = anchors[i].ss /\ b.auth = anchors[i].auth /\ b.saf = anchors[i].saf
      /\ b.serviceVersion = anchors[i].serviceVersion /\ ~b.active /\ b.serve = anchors[i].serve
  BY <1>2, <1>3 DEF cleared, AnchorRecords
<1>5. anchors' = [anchors EXCEPT ![i] = b]
  BY <1>0, <1>1, <1>2, <1>3
<1>6. PICK w \in Walks : w = [walk EXCEPT !.anchors = @ \ {i}]
  BY <1>0 DEF Walks
<1>7. w.at = walk.at /\ w.anchors = walk.anchors \ {i}
  BY <1>0, <1>6 DEF Walks
<1>8. walk' = [w EXCEPT !.current = i]
  BY <1>1, <1>6
<1>9. walk' \in Walks /\ walk'.at = walk.at /\ walk'.anchors = walk.anchors \ {i} /\ walk'.current = i
  BY <1>0, <1>2, <1>7, <1>8 DEF Walks
<1>10. walk # NoWalk /\ walk.at \in 1..Len(plugList) /\ walk' # NoWalk
  BY <1>0, <1>9, NoWalkIsWalk DEF WalkOK
<1>11. UNCHANGED <<plugList, phase, plugins, installed>>
  BY DEF ClearActive
<1>12. anchors'[i] = b /\ Len(anchors') = Len(anchors) /\ \A j \in 1..Len(anchors) : j # i => anchors'[j] = anchors[j]
  BY <1>0, <1>2, <1>5
<1>13. WalkOK'
  <2>1. walk'.anchors \subseteq 1..Len(anchors) /\ walk'.current \in 0..Len(anchors)
    BY <1>0, <1>2, <1>9 DEF WalkOK
  <2>2. ASSUME phase = "clean", NEW j \in 1..Len(anchors), anchors'[j].active
        PROVE  \/ j \in walk'.anchors
               \/ \E k \in 1..Len(plugList) : k > walk.at /\ plugList[k] = anchors'[j].path[1]
    <3>1. j # i /\ anchors'[j] = anchors[j]
      BY <1>4, <1>12, <2>2
    <3> QED
      BY <1>0, <1>9, <2>2, <3>1 DEF WalkOK
  <2> QED
    BY <1>0, <1>9, <1>10, <1>11, <1>12, <2>1, <2>2 DEF WalkOK
<1> QED
  BY <1>2, <1>4, <1>5, <1>9, <1>13, CleaningKeeps DEF ClearActive

\* the second one.
LEMMA ClearServeKeeps == ASSUME ZisInv, ClearServe PROVE ZisInv'
<1>0. /\ TypeOK /\ WalkOK /\ anchors \in Seq(AnchorRecords) /\ walk \in Walks /\ Len(anchors) \in Nat
  BY DEF ZisInv, StoreInv, TableInv, TypeOK
<1>1. PICK i \in 1..Len(anchors) : i = walk.current
  BY <1>0 DEF ClearServe, WalkOK, NULL
<1>2. anchors[i] \in AnchorRecords
  BY <1>0
<1>3. PICK b \in AnchorRecords : b = [anchors[i] EXCEPT !.serve = NoCode]
  BY <1>2, NoCodeIsCode DEF AnchorRecords
<1>4. /\ b.path = anchors[i].path /\ b.version = anchors[i].version /\ b.discarded = anchors[i].discarded
      /\ b.ss = anchors[i].ss /\ b.auth = anchors[i].auth /\ b.saf = anchors[i].saf
      /\ b.serviceVersion = anchors[i].serviceVersion /\ b.active = anchors[i].active /\ b.serve = NoCode
  BY <1>2, <1>3 DEF AnchorRecords
<1>5. anchors' = [anchors EXCEPT ![i] = b]
  BY <1>0, <1>1, <1>3 DEF ClearServe
<1>6. walk' = [walk EXCEPT !.current = NULL] /\ walk.current # NULL /\ phase \in {"clean", "cleanup"}
  BY DEF ClearServe
<1>7. walk' \in Walks /\ walk'.at = walk.at /\ walk'.anchors = walk.anchors /\ walk'.current = NULL
  BY <1>0, <1>6 DEF Walks, NULL
<1>8. walk # NoWalk /\ walk.at \in 1..Len(plugList) /\ walk' # NoWalk
  <2>1. walk # NoWalk
    BY <1>6, NoWalkIsWalk
  <2>2. walk.at \in 1..Len(plugList)
    BY <1>0, <2>1 DEF WalkOK
  <2>3. walk'.at # 0
    BY <1>7, <2>2
  <2> QED
    BY <2>1, <2>2, <2>3, NoWalkIsWalk
<1>9. UNCHANGED <<table, plugAnchor, plugList, lpa, ready, phase, session, devMode, parms, todo, plugins,
                  installed, clients>>
  BY DEF ClearServe
<1>10. Len(anchors') = Len(anchors) /\ \A j \in 1..Len(anchors) : anchors'[j].active = anchors[j].active /\ anchors'[j].path = anchors[j].path
  BY <1>0, <1>1, <1>4, <1>5
<1>11. WalkOK'
  BY <1>0, <1>7, <1>8, <1>9, <1>10 DEF WalkOK, NULL
<1> QED
  BY <1>1, <1>4, <1>5, <1>6, <1>7, <1>9, <1>11, CleaningKeeps

\* removePluginFromLPAIfNeeded keeps the invariant: the copy that it deletes
\* belongs to the plug-in that loses the flag.
LEMMA RemoveKeeps == ASSUME ZisInv, removePluginFromLPAIfNeeded PROVE ZisInv'
<1>0. /\ TypeOK /\ PlugOK /\ AnchorsOK /\ WalkOK /\ ActiveOK /\ InstalledOK /\ SessionOK
      /\ Len(anchors) \in Nat /\ Len(plugList) \in Nat /\ walk \in Walks /\ plugAnchor \in [Names -> PlugAnchors]
      /\ lpa \subseteq Copies /\ plugList \in Seq(Names)
  BY DEF ZisInv, StoreInv, TableInv, TypeOK
<1>1. /\ walk' = walkAt(walk.at + 1) /\ walk # NoWalk /\ walk.anchors = {} /\ phase \in {"clean", "cleanup"}
      /\ UNCHANGED <<table, anchors, plugList, ready, phase, session, devMode, parms, todo, plugins, installed,
                     caller, calls>>
  BY DEF removePluginFromLPAIfNeeded, clients
<1>2. walk.at \in 1..Len(plugList) /\ walk.at + 1 \in Nat \ {0}
  BY <1>0, <1>1 DEF WalkOK
<1>3. PICK n \in Names : n = plugList[walk.at]
  BY <1>0, <1>2
<1>4. \/ UNCHANGED <<plugAnchor, lpa>>
      \/ lpa' = lpa \ {plugAnchor[n].copy} /\ plugAnchor[n].lpa
         /\ plugAnchor' = [plugAnchor EXCEPT ![n] = forgotten(plugAnchor[n])]
  BY <1>0, <1>3 DEF removePluginFromLPAIfNeeded
<1>5. plugAnchor' \in [Names -> PlugAnchors] /\ lpa' \subseteq Copies /\ PlugOK'
  <2>1. CASE UNCHANGED <<plugAnchor, lpa>>
    BY <1>0, <1>1, <2>1 DEF PlugOK
  <2>2. CASE /\ lpa' = lpa \ {plugAnchor[n].copy} /\ plugAnchor[n].lpa
             /\ plugAnchor' = [plugAnchor EXCEPT ![n] = forgotten(plugAnchor[n])]
    <3>1. PICK a : a = forgotten(plugAnchor[n])
      OBVIOUS
    <3>2. a \in PlugAnchors /\ a.made = plugAnchor[n].made /\ ~a.lpa
      BY <1>0, <3>1 DEF forgotten, PlugAnchors, NoCopy, Copies, Versions
    <3>3. plugAnchor' = [plugAnchor EXCEPT ![n] = a]
      BY <2>2, <3>1
    <3>4. plugAnchor'[n] = a /\ \A m \in Names : m # n => plugAnchor'[m] = plugAnchor[m]
      BY <1>0, <3>3
    <3>5. \A m \in Names : m # n /\ plugAnchor[m].lpa => plugAnchor[m].copy # plugAnchor[n].copy
      BY <1>0, <2>2 DEF PlugOK
    <3>6. PlugOK'
      BY <1>0, <1>1, <2>2, <3>2, <3>4, <3>5 DEF PlugOK
    <3> QED
      BY <1>0, <2>2, <3>2, <3>3, <3>6
  <2> QED
    BY <1>4, <2>1, <2>2
<1>6. walk' \in Walks /\ walk'.anchors \subseteq 1..Len(anchors) /\ walk'.current = NULL
      /\ (walk' = NoWalk \/ walk'.at \in 1..Len(plugList))
  BY <1>0, <1>1, <1>2, WalkAtIs
<1>7. TypeOK'
  BY <1>0, <1>1, <1>5, <1>6 DEF TypeOK
<1>8. PluginsOK' /\ InstallOK'
  BY <1>1 DEF PluginsOK, Deployed, Installing, Storing, InstallOK, Bound
<1>9. AnchorsOK'
  BY <1>0, <1>1 DEF AnchorsOK
<1>10. WalkOK'
  <2>1. ASSUME phase = "clean", NEW i \in 1..Len(anchors), anchors[i].active
        PROVE  \/ i \in walk'.anchors
               \/ \E k \in 1..Len(plugList) : walk' # NoWalk /\ k > walk'.at /\ plugList[k] = anchors[i].path[1]
    <3>1. PICK k \in 1..Len(plugList) : k > walk.at /\ plugList[k] = anchors[i].path[1]
      BY <1>0, <1>1, <2>1 DEF WalkOK
    <3>2. walk.at + 1 <= Len(plugList)
      BY <1>0, <1>2, <3>1
    <3>3. /\ walk' # NoWalk /\ walk'.at = walk.at + 1
          /\ \A j \in 1..Len(anchors) : anchors[j].path[1] = plugList[walk.at + 1] => j \in walk'.anchors
      BY <1>0, <1>1, <1>2, <3>2, WalkAtIs
    <3>4. k = walk.at + 1 \/ k > walk.at + 1
      BY <1>2, <3>1
    <3> QED
      BY <3>1, <3>3, <3>4
  <2>2. phase = "clean" => installed = {} /\ plugins = <<>>
    BY <1>0 DEF WalkOK
  <2>3. walk'.current \in 0..Len(anchors)
    BY <1>0, <1>6 DEF NULL
  <2> QED
    BY <1>1, <1>6, <2>1, <2>2, <2>3 DEF WalkOK
<1>11. ActiveOK'
  BY <1>0, <1>1 DEF ActiveOK, Seen
<1>12. InstalledOK'
  BY <1>0, <1>1 DEF InstalledOK, HasAnchor
<1>13. SessionOK'
  BY <1>0, <1>1 DEF SessionOK
<1>14. \A c \in Callers : CallOK(caller[c])'
  BY <1>0, <1>1, CallsKept
<1> QED
  BY <1>5, <1>7, <1>8, <1>9, <1>10, <1>11, <1>12, <1>13, <1>14 DEF ZisInv, StoreInv, TableInv

\* So does the start of the server: no call is in the new session, and every
\* ACTIVE anchor is ahead of the walk.
LEMMA InitServerKeeps == ASSUME ZisInv, initServer PROVE ZisInv'
<1>0. /\ TypeOK /\ PlugOK /\ AnchorsOK /\ WalkOK /\ SessionOK
      /\ Len(anchors) \in Nat /\ Len(plugList) \in Nat /\ session \in Nat
      /\ caller \in [Callers -> CallRecords] /\ anchors \in Seq(AnchorRecords) /\ plugList \in Seq(Names)
  BY DEF ZisInv, StoreInv, TableInv, TypeOK
<1>1. /\ session' = session + 1 /\ phase' = "clean" /\ walk' = walkAt(1) /\ installed' = {} /\ plugins' = <<>>
      /\ phase = "down" /\ devMode' \in DevModes
      /\ UNCHANGED <<anchors, plugAnchor, plugList, lpa, ready, todo, caller, calls>>
  BY DEF initServer, cleanPlugins, clients
<1>2. table' = table \/ (table = <<>> /\ table' = [p \in Paths |-> NULL])
  BY DEF initServer
<1>3. table' = <<>> \/ table' \in [Paths -> 0..Len(anchors)]
  BY <1>0, <1>2 DEF TypeOK, NULL
<1>4. parms' \subseteq Nat \X Modules
  <2>1. PICK p \in Parmlibs : parms' = {<<k, p[k]>> : k \in DOMAIN p}
    BY DEF initServer
  <2>2. p \in Seq(Modules)
    BY ZisServerAssumption
  <2>3. \A k \in DOMAIN p : k \in Nat /\ p[k] \in Modules
    BY <2>2
  <2> QED
    BY <2>1, <2>3
<1>5. walk' \in Walks /\ walk'.anchors \subseteq 1..Len(anchors) /\ walk'.current = NULL
      /\ (walk' = NoWalk \/ walk'.at \in 1..Len(plugList))
  BY <1>0, <1>1, WalkAtIs
<1>6. TypeOK'
  <2>1. devMode' \in BOOLEAN /\ session' \in Nat
    BY <1>0, <1>1, ZisServerAssumption
  <2> QED
    BY <1>0, <1>1, <1>3, <1>4, <1>5, <2>1 DEF TypeOK, Phases
<1>7. PlugOK' /\ PluginsOK'
  BY <1>0, <1>1 DEF PlugOK, PluginsOK, Deployed, Installing, Storing
<1>8. AnchorsOK'
  <2>1. table' # <<>> => \A p \in Paths : table'[p] # NULL => anchors[table'[p]].path = p
    BY <1>0, <1>2 DEF AnchorsOK
  <2> QED
    BY <1>0, <1>1, <2>1 DEF AnchorsOK
<1>9. WalkOK'
  <2>1. ASSUME NEW i \in 1..Len(anchors)
        PROVE  \/ i \in walk'.anchors
               \/ \E k \in 1..Len(plugList) : walk' # NoWalk /\ k > walk'.at /\ plugList[k] = anchors[i].path[1]
    <3>1. PICK k \in 1..Len(plugList) : plugList[k] = anchors[i].path[1]
      <4>1. PICK n : n = anchors[i].path[1] /\ n \in Range(plugList)
        BY <1>0 DEF AnchorsOK
      <4>2. DOMAIN plugList = 1..Len(plugList)
        BY <1>0
      <4> QED
        BY <4>1, <4>2 DEF Range
    <3>2. /\ walk' # NoWalk /\ walk'.at = 1
          /\ \A j \in 1..Len(anchors) : anchors[j].path[1] = plugList[1] => j \in walk'.anchors
      BY <1>0, <1>1, <3>1, WalkAtIs
    <3>3. k = 1 \/ k > 1
      BY <3>1
    <3> QED
      BY <3>1, <3>2, <3>3
  <2>2. walk'.current \in 0..Len(anchors)
    BY <1>0, <1>5 DEF NULL
  <2> QED
    BY <1>1, <1>5, <2>1, <2>2 DEF WalkOK
<1>10. \A c \in Callers : /\ caller[c].session # session' /\ caller[c].session <= session'
                          /\ caller[c].found # session' /\ caller[c].found <= session'
  <2>1. \A c \in Callers : caller[c].session \in Nat /\ caller[c].found \in Nat
    BY <1>0 DEF CallRecords
  <2> QED
    BY <1>0, <1>1, <2>1 DEF SessionOK
<1>11. ActiveOK' /\ InstalledOK' /\ InstallOK'
  BY <1>1, <1>10 DEF ActiveOK, Seen, InstalledOK, InstallOK, Deployed, Installing, Storing, Bound
<1>12. SessionOK'
  BY <1>0, <1>1, <1>10 DEF SessionOK
<1>13. \A c \in Callers : CallOK(caller[c])'
  BY <1>0, <1>1, <1>2, <1>10, CallsKept
<1> QED
  BY <1>6, <1>7, <1>8, <1>9, <1>11, <1>12, <1>13 DEF ZisInv, StoreInv, TableInv

\* After cleaning, nothing is ACTIVE.
LEMMA DeployKeeps == ASSUME ZisInv, deployPlugins PROVE ZisInv'
<1>0. /\ TypeOK /\ PlugOK /\ AnchorsOK /\ WalkOK /\ SessionOK /\ Len(anchors) \in Nat
  BY DEF ZisInv, StoreInv, TableInv, TypeOK
<1>1. /\ phase = "clean" /\ walk = NoWalk /\ phase' = "deploy"
      /\ UNCHANGED <<table, anchors, plugAnchor, plugList, lpa, ready, session, devMode, parms, walk, todo, plugins,
                     installed, caller, calls>>
  BY DEF deployPlugins, common, clients
<1>2. installed = {} /\ plugins = <<>> /\ \A i \in 1..Len(anchors) : ~anchors[i].active
  BY <1>0, <1>1, NoWalkIsWalk DEF WalkOK
<1>3. TypeOK'
  BY <1>0, <1>1 DEF TypeOK, Phases
<1>4. PlugOK' /\ PluginsOK'
  BY <1>0, <1>1, <1>2 DEF PlugOK, PluginsOK, Range
<1>5. AnchorsOK'
  BY <1>0, <1>1 DEF AnchorsOK
<1>6. WalkOK'
  BY <1>0, <1>1 DEF WalkOK
<1>7. ActiveOK' /\ InstalledOK' /\ InstallOK'
  BY <1>1, <1>2 DEF ActiveOK, InstalledOK, InstallOK, Installing, Storing, Bound
<1>8. SessionOK'
  BY <1>0, <1>1 DEF SessionOK
<1>9. \A c \in Callers : CallOK(caller[c])'
  BY <1>0, <1>1, CallsKept
<1> QED
  BY <1>3, <1>4, <1>5, <1>6, <1>7, <1>8, <1>9 DEF ZisInv, StoreInv, TableInv

\* A plug-in that is skipped changes nothing but the parameters left.
LEMMA SkippedKeeps == ASSUME ZisInv, PluginSkipped PROVE ZisInv'
<1>0. /\ TypeOK /\ PlugOK /\ PluginsOK /\ AnchorsOK /\ WalkOK /\ ActiveOK /\ InstalledOK /\ SessionOK
      /\ Len(anchors) \in Nat
  BY DEF ZisInv, StoreInv, TableInv, TypeOK
<1>1. /\ phase = "deploy" /\ parms' \subseteq parms
      /\ UNCHANGED <<table, anchors, plugAnchor, plugList, lpa, ready, phase, session, devMode, walk, todo, plugins,
                     installed, caller, calls>>
  BY DEF PluginSkipped, common, clients
<1>2. TypeOK'
  BY <1>0, <1>1 DEF TypeOK
<1>3. PlugOK' /\ PluginsOK'
  BY <1>0, <1>1 DEF PlugOK, PluginsOK
<1>4. AnchorsOK' /\ WalkOK'
  BY <1>0, <1>1 DEF AnchorsOK, WalkOK
<1>5. ActiveOK'
  BY <1>0, <1>1 DEF ActiveOK, Seen
<1>6. InstalledOK'
  BY <1>0, <1>1 DEF InstalledOK, HasAnchor
<1>7. InstallOK' /\ SessionOK'
  BY <1>0, <1>1 DEF InstallOK, Installing, Storing, Bound, SessionOK
<1>8. \A c \in Callers : CallOK(caller[c])'
  BY <1>0, <1>1, CallsKept
<1> QED
  BY <1>2, <1>3, <1>4, <1>5, <1>6, <1>7, <1>8 DEF ZisInv, StoreInv, TableInv

-----------------------------------------------------------------------------
\* relocatePluginToLPAIfNeeded: the anchor it leaves.  A copy that the anchor
\* keeps or adds is in LPA and of the plug-in's version, and no copy of
\* another plug-in leaves LPA.
LEMMA RelocateIs ==
  ASSUME TypeOK, PlugOK, NEW m \in Modules, NEW r \in relocatePluginToLPAIfNeeded(m)
  PROVE  /\ r.ok \in BOOLEAN /\ r.anchor \in PlugAnchors /\ r.anchor.made /\ r.lpa \subseteq Copies
         /\ \A x \in lpa : x.name # m.name => x \in r.lpa
         /\ r.anchor.lpa => /\ r.anchor.copy \in r.lpa /\ r.anchor.copy.name = m.name
                            /\ r.anchor.copy.version = IF r.ok THEN m.version ELSE r.anchor.version
         /\ r.ok /\ m.lpa => r.anchor.lpa
<1> DEFINE old  == pluginAnchor(m)
           kept == IF devMode \/ versionChanged(m) THEN forgotten(old) ELSE old
           there == lpa \ deletedCopies(m)
           copy == [name |-> m.name, version |-> m.version, session |-> session]
<1>0. /\ m.name \in Names /\ m.version \in Versions /\ m.lpa \in BOOLEAN /\ session \in Nat /\ lpa \subseteq Copies
      /\ devMode \in BOOLEAN /\ plugAnchor[m.name] \in PlugAnchors
  BY ZisServerAssumption DEF Names, Versions, TypeOK
<1>1. NoCopy \in Copies
  BY DEF NoCopy, Copies, Versions
<1>2. /\ old \in PlugAnchors /\ old.made
      /\ old.lpa => old.copy \in lpa /\ old.copy.name = m.name /\ old.copy.version = old.version
  <2>1. CASE plugAnchor[m.name].made
    BY <1>0, <2>1 DEF pluginAnchor, PlugOK
  <2>2. CASE ~plugAnchor[m.name].made
    <3>1. PICK n \in Copies : n = NoCopy
      BY <1>1
    <3>2. old = [made |-> TRUE, lpa |-> FALSE, version |-> m.version, copy |-> n]
      BY <2>2, <3>1 DEF pluginAnchor
    <3> QED
      BY <1>0, <3>2 DEF PlugAnchors
  <2> QED
    BY <2>1, <2>2
<1>3. copy \in Copies /\ copy.name = m.name /\ copy.version = m.version
  BY <1>0 DEF Copies
<1>4. /\ deletedCopies(m) \subseteq {old.copy} /\ (deletedCopies(m) # {} => old.lpa /\ devMode)
      /\ \A x \in lpa : x.name # m.name => x \in there
  <2>1. deletedCopies(m) = IF old.lpa /\ devMode THEN {old.copy} ELSE {}
    BY DEF deletedCopies
  <2> HIDE DEF old
  <2> QED
    BY <1>2, <2>1
<1>5. /\ kept \in PlugAnchors /\ kept.made
      /\ kept.lpa => /\ kept = old /\ ~devMode /\ old.version = m.version /\ there = lpa
  <2> HIDE DEF old
  <2>1. PICK g : g = forgotten(old)
    OBVIOUS
  <2>2. g \in PlugAnchors /\ g.made /\ ~g.lpa
    BY <1>1, <1>2, <2>1 DEF forgotten, PlugAnchors
  <2>3. ~devMode => there = lpa
    BY <1>4
  <2>4. ~versionChanged(m) => old.version = m.version
    BY DEF versionChanged, old
  <2> QED
    BY <1>2, <2>1, <2>2, <2>3, <2>4
<1>6. \/ m.lpa /\ ~kept.lpa /\ r = [ok |-> TRUE, anchor |-> [kept EXCEPT !.lpa = TRUE, !.copy = copy],
                                    lpa |-> there \cup {copy}]
      \/ ~(m.lpa /\ ~kept.lpa) /\ r = [ok |-> TRUE, anchor |-> kept, lpa |-> there]
      \/ r = [ok |-> FALSE, anchor |-> old, lpa |-> lpa]
      \/ ~kept.lpa /\ r = [ok |-> FALSE, anchor |-> kept, lpa |-> there]
  BY DEF relocatePluginToLPAIfNeeded
<1> HIDE DEF old, kept, there, copy
<1>7. there \subseteq Copies
  BY <1>0 DEF there
<1>8. CASE m.lpa /\ ~kept.lpa /\ r = [ok |-> TRUE, anchor |-> [kept EXCEPT !.lpa = TRUE, !.copy = copy],
                                      lpa |-> there \cup {copy}]
  <2>1. PICK g : g = [kept EXCEPT !.lpa = TRUE, !.copy = copy]
    OBVIOUS
  <2>2. g \in PlugAnchors /\ g.made /\ g.lpa /\ g.copy = copy
    BY <1>3, <1>5, <2>1 DEF PlugAnchors
  <2>3. r.ok = TRUE /\ r.anchor = g /\ r.lpa = there \cup {copy}
    BY <1>8, <2>1
  <2> QED
    BY <1>3, <1>4, <1>7, <2>2, <2>3
<1>9. CASE ~(m.lpa /\ ~kept.lpa) /\ r = [ok |-> TRUE, anchor |-> kept, lpa |-> there]
  <2>1. r.ok = TRUE /\ r.anchor = kept /\ r.lpa = there
    BY <1>9
  <2> QED
    BY <1>2, <1>4, <1>5, <1>7, <1>9, <2>1
<1>10. CASE r = [ok |-> FALSE, anchor |-> old, lpa |-> lpa]
  <2>1. r.ok = FALSE /\ r.anchor = old /\ r.lpa = lpa
    BY <1>10
  <2> QED
    BY <1>0, <1>2, <2>1
<1>11. CASE ~kept.lpa /\ r = [ok |-> FALSE, anchor |-> kept, lpa |-> there]
  <2>1. r.ok = FALSE /\ r.anchor = kept /\ r.lpa = there
    BY <1>11
  <2> QED
    BY <1>4, <1>5, <1>7, <1>11, <2>1
<1> QED
  BY <1>6, <1>8, <1>9, <1>10, <1>11

\* visitPluginParm: the plug-in that is installed has a name of its own, so the
\* anchors, the copies and the services of the other plug-ins stay as they are.
LEMMA VisitKeeps == ASSUME ZisInv, visitPluginParm PROVE ZisInv'
<1>0. /\ TypeOK /\ PlugOK /\ PluginsOK /\ AnchorsOK /\ WalkOK /\ ActiveOK /\ InstalledOK /\ SessionOK
      /\ Len(anchors) \in Nat /\ Len(plugList) \in Nat /\ plugAnchor \in [Names -> PlugAnchors]
      /\ plugList \in Seq(Names) /\ plugins \in Seq(Modules) /\ parms \subseteq Nat \X Modules
      /\ todo \in Seq(Services) /\ lpa \subseteq Copies
  BY DEF ZisInv, StoreInv, TableInv, TypeOK
<1>1. /\ phase = "deploy"
      /\ UNCHANGED <<table, anchors, ready, session, devMode, walk, installed, caller, calls>>
  BY Zenon DEF visitPluginParm, clients
<1>2. PICK x \in parms :
        /\ parms' = parms \ {x} /\ ~isDuplicatePlugin(x[2])
        /\ \E r \in relocatePluginToLPAIfNeeded(x[2]) : installPlugin(x[2], r)
  BY Zenon DEF visitPluginParm
<1>3. PICK m \in Modules : m = x[2]
  BY <1>0
<1>4. PICK r \in relocatePluginToLPAIfNeeded(m) : installPlugin(m, r)
  BY <1>2, <1>3
<1>5. /\ r.ok \in BOOLEAN /\ r.anchor \in PlugAnchors /\ r.anchor.made /\ r.lpa \subseteq Copies
      /\ \A y \in lpa : y.name # m.name => y \in r.lpa
      /\ r.anchor.lpa => /\ r.anchor.copy \in r.lpa /\ r.anchor.copy.name = m.name
                         /\ r.anchor.copy.version = IF r.ok THEN m.version ELSE r.anchor.version
      /\ r.ok /\ m.lpa => r.anchor.lpa
  BY <1>0, RelocateIs
<1>6. /\ m.name \in Names /\ m.version \in Versions /\ m.services \in Seq(Services)
      /\ \A y \in Modules : y.name \in Names
  BY ZisServerAssumption DEF Names, Versions
<1>7. \A y \in Range(plugins) : y.name # m.name /\ y \in Modules
  <2>1. \A y \in Range(plugins) : y \in Modules
    BY <1>0 DEF Range
  <2> QED
    BY <1>2, <1>3, <2>1 DEF isDuplicatePlugin
<1>8. PICK f : f = IF r.ok THEN [r.anchor EXCEPT !.version = m.version] ELSE r.anchor
  OBVIOUS
<1>9. /\ f \in PlugAnchors /\ f.made /\ (r.ok => f.version = m.version) /\ (r.ok /\ m.lpa => f.lpa)
      /\ f.lpa => f.copy \in r.lpa /\ f.copy.name = m.name /\ f.copy.version = f.version
  <2>1. CASE r.ok
    <3>1. /\ f \in PlugAnchors /\ f.made = r.anchor.made /\ f.lpa = r.anchor.lpa /\ f.copy = r.anchor.copy
          /\ f.version = m.version
      BY <1>5, <1>6, <1>8, <2>1 DEF PlugAnchors
    <3> QED
      BY <1>5, <2>1, <3>1
  <2>2. CASE ~r.ok
    BY <1>5, <1>8, <2>2
  <2> QED
    BY <2>1, <2>2
<1>10. /\ lpa' = r.lpa /\ plugAnchor' = [plugAnchor EXCEPT ![m.name] = f]
       /\ plugList' = IF plugAnchor[m.name].made THEN plugList ELSE <<m.name>> \o plugList
       /\ plugins' = IF r.ok THEN <<m>> \o plugins ELSE plugins
       /\ \/ r.ok /\ m.services # <<>> /\ phase' = "bind" /\ todo' = m.services
          \/ UNCHANGED <<phase, todo>>
  BY <1>4, <1>8 DEF installPlugin
<1>11. /\ plugAnchor' \in [Names -> PlugAnchors] /\ plugAnchor'[m.name] = f
       /\ \A n \in Names : n # m.name => plugAnchor'[n] = plugAnchor[n]
  BY <1>0, <1>6, <1>9, <1>10
<1>12. /\ plugList' \in Seq(Names) /\ Len(plugList') >= Len(plugList) /\ Len(plugList') \in Nat
       /\ Range(plugList') = {m.name} \cup Range(plugList)
  <2>1. CASE plugAnchor[m.name].made
    <3>1. m.name \in Range(plugList)
      BY <1>0, <1>6, <2>1 DEF PlugOK
    <3> QED
      BY <1>0, <1>10, <2>1, <3>1
  <2>2. CASE ~plugAnchor[m.name].made
    <3>1. PICK l : l = <<m.name>> \o plugList
      OBVIOUS
    <3>2. l \in Seq(Names) /\ Range(l) = {m.name} \cup Range(plugList) /\ Len(l) = Len(plugList) + 1
      BY <1>0, <1>6, <3>1, Pushed
    <3>3. plugList' = l
      BY <1>10, <2>2, <3>1
    <3> QED
      BY <1>0, <3>2, <3>3
  <2> QED
    BY <2>1, <2>2
<1>13. /\ <<m>> \o plugins \in Seq(Modules) /\ <<m>> \o plugins # <<>> /\ Head(<<m>> \o plugins) = m
       /\ Range(<<m>> \o plugins) = {m} \cup Range(plugins)
  BY <1>0, Pushed
<1>14. /\ plugins' \in Seq(Modules) /\ Range(plugins) \subseteq Range(plugins')
       /\ \A y \in Range(plugins') : y \in Range(plugins) \/ (r.ok /\ y = m)
       /\ r.ok => plugins' # <<>> /\ Head(plugins') = m
  BY <1>0, <1>10, <1>13
<1>15. phase' \in {"deploy", "bind"} /\ todo' \in Seq(Services)
       /\ (phase' = "bind" => r.ok /\ m.services # <<>> /\ todo' = m.services)
  BY <1>0, <1>1, <1>6, <1>10
<1>16. TypeOK'
  <2>1. parms' \subseteq Nat \X Modules /\ lpa' \subseteq Copies /\ phase' \in Phases
    BY <1>0, <1>2, <1>5, <1>10, <1>15 DEF Phases, Installing
  <2> QED
    BY <1>0, <1>1, <1>11, <1>12, <1>14, <1>15, <2>1 DEF TypeOK
<1>17. PlugOK'
  <2>1. ASSUME NEW n \in Names, n # m.name
        PROVE  /\ plugAnchor'[n].made <=> n \in Range(plugList')
               /\ plugAnchor'[n].lpa => /\ plugAnchor'[n].copy \in lpa' /\ plugAnchor'[n].copy.name = n
                                        /\ plugAnchor'[n].copy.version = plugAnchor'[n].version
    <3>1. plugAnchor'[n] = plugAnchor[n] /\ (n \in Range(plugList') <=> n \in Range(plugList))
      BY <1>11, <1>12, <2>1
    <3>2. lpa' = r.lpa
      BY <1>10, Zenon
    <3>3. /\ plugAnchor[n].made <=> n \in Range(plugList)
          /\ plugAnchor[n].lpa => /\ plugAnchor[n].copy \in lpa /\ plugAnchor[n].copy.name = n
                                  /\ plugAnchor[n].copy.version = plugAnchor[n].version
      BY <1>0 DEF PlugOK
    <3> QED
      BY <1>5, <2>1, <3>1, <3>2, <3>3
  <2>2. /\ plugAnchor'[m.name].made <=> m.name \in Range(plugList')
        /\ plugAnchor'[m.name].lpa => /\ plugAnchor'[m.name].copy \in lpa' /\ plugAnchor'[m.name].copy.name = m.name
                                      /\ plugAnchor'[m.name].copy.version = plugAnchor'[m.name].version
    BY <1>9, <1>10, <1>11, <1>12
  <2> QED
    BY <2>1, <2>2 DEF PlugOK
<1>18. PluginsOK'
  <2>1. ASSUME NEW y \in Range(plugins')
        PROVE  plugAnchor'[y.name].version = y.version /\ (y.lpa => plugAnchor'[y.name].lpa)
    <3>1. CASE y \in Range(plugins)
      <4>1. plugAnchor'[y.name] = plugAnchor[y.name]
        BY <1>6, <1>7, <1>11, <3>1
      <4> QED
        BY <1>0, <1>1, <3>1, <4>1 DEF PluginsOK, Deployed
    <3>2. CASE r.ok /\ y = m
      BY <1>9, <1>11, <3>2
    <3> QED
      BY <1>14, <2>1, <3>1, <3>2
  <2> QED
    BY <2>1 DEF PluginsOK
<1>19. AnchorsOK'
  BY <1>0, <1>1, <1>12 DEF AnchorsOK
<1>20. WalkOK'
  BY <1>0, <1>1, <1>12, <1>15 DEF WalkOK
<1>21. ActiveOK'
  BY <1>0, <1>1 DEF ActiveOK, Seen, Deployed
<1>22. InstalledOK'
  <2>1. ASSUME NEW s \in installed PROVE HasAnchor(s)'
    <3>1. HasAnchor(s)
      BY <1>0 DEF InstalledOK
    <3> QED
      BY <1>1, <3>1 DEF HasAnchor, Deployed
  <2>2. \A s \in installed : \E y \in Range(plugins') : y.name = s.path[1]
    BY <1>0, <1>1, <1>14 DEF InstalledOK, Deployed
  <2> QED
    BY <1>0, <1>1, <2>1, <2>2 DEF InstalledOK
<1>23. InstallOK'
  <2>1. CASE phase' = "deploy"
    BY <2>1 DEF InstallOK, Installing, Storing, Bound
  <2>2. CASE phase' = "bind"
    <3>1. /\ todo' = m.services /\ todo' # <<>> /\ plugins' # <<>> /\ plugin' = m
          /\ DOMAIN m.services = 1..Len(m.services)
      BY <1>6, <1>14, <1>15, <2>2 DEF plugin
    <3>2. \A k \in 1..Len(todo') : todo'[k] \in Range(m.services)
      BY <3>1 DEF Range
    <3>3. \A j, k \in 1..Len(todo') : todo'[j].name = todo'[k].name => j = k
      BY <3>1, DistinctServices
    <3>4. ASSUME NEW s \in installed, NEW n PROVE s.path # <<m.name, n>>
      <4>1. PICK y \in Range(plugins) : y.name = s.path[1]
        BY <1>0, <1>1 DEF InstalledOK, Deployed
      <4>2. <<m.name, n>>[1] = m.name
        OBVIOUS
      <4> QED
        BY <1>7, <4>1, <4>2
    <3> QED
      BY <1>1, <1>12, <2>2, <3>1, <3>2, <3>3, <3>4 DEF InstallOK, Bound, Storing
  <2> QED
    BY <1>15, <2>1, <2>2
<1>24. SessionOK'
  BY <1>0, <1>1, <1>15 DEF SessionOK, Installing
<1>25. \A c \in Callers : CallOK(caller[c])'
  BY <1>0, <1>1, CallsKept
<1> QED
  BY <1>16, <1>17, <1>18, <1>19, <1>20, <1>21, <1>22, <1>23, <1>24, <1>25 DEF ZisInv, StoreInv, TableInv

-----------------------------------------------------------------------------
\* The service at hand while services are installed.
LEMMA AtHand ==
  ASSUME ZisInv, phase \in Installing
  PROVE  /\ plugin \in Range(plugins) /\ plugin \in Modules /\ plugin.name \in Range(plugList)
         /\ Len(todo) \in Nat \ {0} /\ service = todo[1] /\ service \in Services
         /\ path \in Paths /\ path # <<>> /\ path[1] = plugin.name
         /\ code \in Codes /\ code.path = path
         /\ \A s \in installed : s.path # path
<1>0. TypeOK /\ InstallOK /\ todo \in Seq(Services) /\ plugins \in Seq(Modules) /\ session \in Nat
      /\ plugAnchor \in [Names -> PlugAnchors]
  BY DEF ZisInv, StoreInv, TableInv, TypeOK
<1>1. todo # <<>> /\ plugins # <<>> /\ plugin.name \in Range(plugList)
      /\ \A k \in 1..Len(todo) : \A s \in installed : s.path # <<plugin.name, todo[k].name>>
  BY <1>0 DEF InstallOK
<1>2. /\ Len(todo) \in Nat \ {0} /\ service = todo[1] /\ service \in Services
  BY <1>0, <1>1 DEF service
<1>3. plugin \in Range(plugins) /\ plugin \in Modules
  <2>1. 1 \in DOMAIN plugins /\ plugin = plugins[1]
    BY <1>0, <1>1 DEF plugin
  <2> QED
    BY <1>0, <2>1 DEF Range
<1>4. path \in Paths /\ path # <<>> /\ path[1] = plugin.name
  BY <1>2, <1>3 DEF path, Paths
<1>5. \A s \in installed : s.path # path
  BY <1>1, <1>2 DEF path
<1>6. code \in Codes /\ code.path = path
  <2>1. plugin.lpa \in BOOLEAN /\ plugin.name \in Names
    BY <1>3, ZisServerAssumption DEF Names
  <2>2. plugAnchor[plugin.name].copy.session \in Nat
    BY <1>0, <2>1 DEF PlugAnchors, Copies
  <2>3. PICK n \in Nat : n = IF plugin.lpa THEN plugAnchor[plugin.name].copy.session ELSE session
    BY <1>0, <2>2
  <2>4. code = [path |-> path, lpa |-> plugin.lpa, session |-> n]
    BY <2>3 DEF code
  <2> QED
    BY <1>4, <2>1, <2>4 DEF Codes
<1> QED
  BY <1>1, <1>2, <1>3, <1>4, <1>5, <1>6

\* findServiceAnchor finds the one usable anchor of the path, if there is one.
LEMMA FindIs ==
  ASSUME TypeOK, AnchorsOK
  PROVE  \/ /\ findServiceAnchor = NULL
            /\ \A i \in 1..Len(anchors) : anchors[i].path = path => ~Usable(anchors[i])
         \/ /\ findServiceAnchor \in 1..Len(anchors) /\ anchors[findServiceAnchor].path = path
            /\ Usable(anchors[findServiceAnchor])
<1> DEFINE found == {i \in 1..Len(anchors) : anchors[i].path = path /\ Usable(anchors[i])}
<1>0. DOMAIN anchors = 1..Len(anchors) /\ Len(anchors) \in Nat
  BY DEF TypeOK
<1>1. findServiceAnchor = IF found = {} THEN NULL ELSE Max(found)
  BY <1>0 DEF findServiceAnchor
<1>2. CASE found = {}
  BY <1>1, <1>2
<1>3. CASE found # {}
  <2>1. PICK i \in found : TRUE
    BY <1>3
  <2>2. i \in Int /\ found = {i}
    BY <1>0, <2>1 DEF AnchorsOK
  <2>3. Max({i}) = i
    BY <2>2 DEF Max
  <2>4. findServiceAnchor = i
    <3> HIDE DEF found
    <3> QED
      BY <1>1, <1>3, <2>2, <2>3
  <2> QED
    BY <2>1, <2>4
<1> QED
  BY <1>2, <1>3

\* After a service is bound, that is the anchor that it is bound to.
LEMMA FoundIs ==
  ASSUME ZisInv, phase \in Bound
  PROVE  \E i \in 1..Len(anchors) :
           /\ findServiceAnchor = i /\ BoundTo(i)
           /\ phase = "activate" => table # <<>> /\ table[path] = i
<1>0. TypeOK /\ AnchorsOK /\ InstallOK
  BY DEF ZisInv, StoreInv, TableInv
<1>1. PICK i \in 1..Len(anchors) : BoundTo(i) /\ (phase = "activate" => table # <<>> /\ table[path] = i)
  BY <1>0 DEF InstallOK
<1>2. anchors[i].path = path /\ Usable(anchors[i])
  BY <1>1 DEF BoundTo
<1>3. findServiceAnchor \in 1..Len(anchors) /\ anchors[findServiceAnchor].path = path
      /\ Usable(anchors[findServiceAnchor])
  BY <1>0, <1>2, FindIs
<1>4. findServiceAnchor = i
  BY <1>0, <1>2, <1>3 DEF AnchorsOK
<1> QED
  BY <1>1, <1>4

\* The next service has another name than the one at hand.
LEMMA NextInstall ==
  ASSUME ZisInv, phase \in Installing, NextService, UNCHANGED <<plugins, plugList>>,
         \A s \in installed' : s \in installed \/ s.path = path
  PROVE  InstallOK' /\ phase' \in {"deploy", "bind"} /\ todo' \in Seq(Services)
<1>0. InstallOK /\ todo \in Seq(Services) /\ todo # <<>> /\ plugins # <<>> /\ service = todo[1]
      /\ plugin.name \in Range(plugList)
  BY AtHand DEF ZisInv, StoreInv, TableInv, TypeOK, InstallOK
<1>1. /\ todo' = Tail(todo) /\ phase' \in {"deploy", "bind"} /\ (phase' = "bind" => todo' # <<>>)
  BY DEF NextService
<1>2. /\ todo' \in Seq(Services) /\ Len(todo) \in Nat /\ Len(todo') \in Nat
      /\ \A k \in 1..Len(todo') : k + 1 \in 2..Len(todo) /\ todo'[k] = todo[k + 1]
  BY <1>0, <1>1
<1>3. plugin' = plugin
  BY DEF plugin
<1>4. \A j, k \in 1..Len(todo) : todo[j].name = todo[k].name => j = k
  BY <1>0 DEF InstallOK
<1>5. \A k \in 1..Len(todo') : todo'[k] \in Range(plugin.services)
  BY <1>0, <1>2 DEF InstallOK
<1>6. \A j, k \in 1..Len(todo') : todo'[j].name = todo'[k].name => j = k
  <2>1. ASSUME NEW j \in 1..Len(todo'), NEW k \in 1..Len(todo'), todo'[j].name = todo'[k].name PROVE j = k
    <3>1. j + 1 \in 1..Len(todo) /\ k + 1 \in 1..Len(todo) /\ todo[j + 1].name = todo[k + 1].name
      BY <1>2, <2>1
    <3>2. j + 1 = k + 1
      BY <1>4, <3>1
    <3> QED
      BY <3>2
  <2> QED
    BY <2>1
<1>7. ASSUME NEW k \in 1..Len(todo'), NEW s \in installed' PROVE s.path # <<plugin.name, todo'[k].name>>
  <2>1. k + 1 \in 1..Len(todo) /\ todo'[k] = todo[k + 1] /\ k + 1 # 1 /\ 1 \in 1..Len(todo)
    BY <1>2
  <2>2. CASE s \in installed
    BY <1>0, <2>1, <2>2 DEF InstallOK
  <2>3. CASE s.path = path
    <3>1. path = <<plugin.name, todo[1].name>>
      BY <1>0 DEF path
    <3>2. todo[k + 1].name # todo[1].name
      BY <1>4, <2>1
    <3> QED
      BY <2>1, <2>3, <3>1, <3>2
  <2> QED
    BY <2>2, <2>3
<1>8. phase' \in {"deploy", "bind"} /\ (phase' = "bind" => todo' # <<>>)
  BY <1>1
<1>9. CASE phase' = "deploy"
  BY <1>2, <1>9 DEF InstallOK, Installing, Storing, Bound
<1>10. CASE phase' = "bind"
  <2>1. plugin'.name \in Range(plugList') /\ plugins' # <<>>
    BY <1>0, <1>3
  <2>2. /\ \A k \in 1..Len(todo') : todo'[k] \in Range(plugin'.services)
        /\ \A k \in 1..Len(todo') : \A s \in installed' : s.path # <<plugin'.name, todo'[k].name>>
    BY <1>3, <1>5, <1>7
  <2> QED
    BY <1>2, <1>6, <1>8, <1>10, <2>1, <2>2 DEF InstallOK, Bound, Storing
<1> QED
  BY <1>8, <1>9, <1>10

\* Binding a service touches the anchors of its path only, none of which is
\* ACTIVE, and leaves one of them usable at most.
LEMMA BindingKeeps ==
  ASSUME ZisInv, phase \in {"bind"} \cup Storing, anchors' \in Seq(AnchorRecords), Len(anchors') >= Len(anchors),
         \A k \in 1..Len(anchors) :
           /\ anchors'[k].path = anchors[k].path /\ anchors'[k].active = anchors[k].active
           /\ anchors[k].path # path => anchors'[k] = anchors[k],
         \A k \in 1..Len(anchors') : k > Len(anchors) => anchors'[k].path = path /\ ~anchors'[k].active,
         \A j, k \in 1..Len(anchors') :
           anchors'[j].path = path /\ anchors'[k].path = path /\ Usable(anchors'[j]) /\ Usable(anchors'[k]) => j = k,
         todo' \in Seq(Services), InstallOK', phase' \in {"init", "deploy"} \cup Storing,
         UNCHANGED <<table, plugAnchor, plugList, lpa, ready, session, devMode, parms, walk, plugins, installed,
                     clients>>
  PROVE  ZisInv'
<1> USE DEF clients
<1>0. /\ TypeOK /\ PlugOK /\ PluginsOK /\ AnchorsOK /\ WalkOK /\ ActiveOK /\ InstalledOK /\ SessionOK
      /\ Len(anchors) \in Nat /\ Len(anchors') \in Nat
  BY DEF ZisInv, StoreInv, TableInv, TypeOK
<1>1. path \in Paths /\ path[1] \in Range(plugList) /\ \A s \in installed : s.path # path
  BY AtHand DEF Installing, Storing
<1>2. TypeOK'
  <2>1. table' = <<>> \/ table' \in [Paths -> 0..Len(anchors')]
    BY <1>0 DEF TypeOK
  <2>2. phase' \in Phases
    BY DEF Phases, Installing
  <2> QED
    BY <1>0, <2>1, <2>2 DEF TypeOK
<1>3. PlugOK' /\ PluginsOK'
  BY <1>0 DEF PlugOK, PluginsOK, Deployed, Installing, Storing
<1>4. AnchorsOK'
  <2>1. ASSUME NEW k \in 1..Len(anchors') PROVE anchors'[k].path[1] \in Range(plugList)
    <3>1. CASE k \in 1..Len(anchors)
      BY <1>0, <3>1 DEF AnchorsOK
    <3>2. CASE k > Len(anchors)
      BY <1>1, <3>2
    <3> QED
      BY <1>0, <3>1, <3>2
  <2>2. ASSUME NEW j \in 1..Len(anchors'), NEW k \in 1..Len(anchors'), anchors'[j].path = anchors'[k].path,
               Usable(anchors'[j]), Usable(anchors'[k])
        PROVE  j = k
    <3>1. CASE anchors'[j].path = path
      BY <2>2, <3>1
    <3>2. CASE anchors'[j].path # path
      <4>1. j \in 1..Len(anchors) /\ k \in 1..Len(anchors)
        BY <1>0, <2>2, <3>2
      <4>2. anchors'[j] = anchors[j] /\ anchors'[k] = anchors[k]
        BY <2>2, <3>2, <4>1
      <4> QED
        BY <1>0, <2>2, <4>1, <4>2 DEF AnchorsOK
    <3> QED
      BY <3>1, <3>2
  <2>3. ASSUME table # <<>>, NEW p \in Paths, table[p] # NULL PROVE anchors'[table[p]].path = p
    BY <1>0, <2>3, EntryIs
  <2> QED
    BY <2>1, <2>2, <2>3 DEF AnchorsOK
<1>5. WalkOK'
  BY <1>0 DEF WalkOK, Storing
<1>6. ActiveOK'
  <2>1. ASSUME NEW k \in 1..Len(anchors'), anchors'[k].active
        PROVE  /\ table # <<>> /\ table[anchors'[k].path] = k
               /\ \E s \in installed : s.path = anchors'[k].path
    <3>1. k \in 1..Len(anchors) /\ anchors[k].active /\ anchors'[k].path = anchors[k].path
      BY <1>0, <2>1
    <3> QED
      BY <1>0, <3>1 DEF ActiveOK, Seen, Deployed, Installing, Storing
  <2> QED
    BY <2>1 DEF ActiveOK
<1>7. InstalledOK'
  <2>1. ASSUME NEW s \in installed PROVE HasAnchor(s)'
    <3>1. HasAnchor(s) /\ s.path \in Paths
      BY <1>0 DEF InstalledOK, TypeOK, Installs
    <3>2. table # <<>> /\ table[s.path] # NULL
      BY <3>1 DEF HasAnchor
    <3>3. table[s.path] \in 1..Len(anchors) /\ anchors[table[s.path]].path = s.path
      BY <1>0, <3>1, <3>2, EntryIs
    <3>4. anchors'[table[s.path]] = anchors[table[s.path]]
      BY <1>1, <3>3
    <3> QED
      BY <3>1, <3>4 DEF HasAnchor, Deployed, Installing, Storing
  <2> QED
    BY <1>0, <2>1 DEF InstalledOK, Deployed, Installing, Storing
<1>8. SessionOK'
  BY <1>0 DEF SessionOK, Installing, Storing
<1>9. \A c \in Callers : CallOK(caller[c])'
  BY <1>0, CallsKept
<1> QED
  BY <1>2, <1>3, <1>4, <1>5, <1>6, <1>7, <1>8, <1>9 DEF ZisInv, StoreInv, TableInv

\* A new anchor has the fields of the service at hand.
LEMMA CreatedIs ==
  ASSUME ZisInv, phase \in Installing
  PROVE  \E b \in AnchorRecords :
           /\ b = zisCreateServiceAnchor /\ b.path = path /\ Usable(b) /\ ~b.active
           /\ b.serve = code /\ b.ss = service.ss /\ b.serviceVersion = service.version
           /\ b.auth <=> service.saf # NoSaf
           /\ service.saf # NoSaf => b.saf = service.saf /\ b.version >= SAF_SUPPORT
<1>1. /\ code \in Codes /\ service \in Services /\ service.ss \in BOOLEAN /\ service.version \in Nat /\ path \in Paths
  BY AtHand, ZisServerAssumption
<1>2. PICK ss \in BOOLEAN, v \in Nat, x \in Codes, p \in Paths :
        ss = service.ss /\ v = service.version /\ x = code /\ p = path
  BY <1>1
<1>3. PICK auth \in BOOLEAN : auth = (service.saf # NoSaf)
  OBVIOUS
<1>4. PICK saf \in {NoSaf} \cup {s.saf : s \in Services} \cup {l.saf : l \in LeftAnchors} : saf = service.saf
  BY <1>1
<1>5. PICK b : b = [path |-> p, version |-> 2, ss |-> ss, auth |-> auth, saf |-> saf, serve |-> x,
                    serviceVersion |-> v, active |-> FALSE, discarded |-> FALSE]
  OBVIOUS
<1>6. b = zisCreateServiceAnchor
  BY <1>2, <1>3, <1>4, <1>5 DEF zisCreateServiceAnchor, ANCHOR_VERSION
<1>7. b \in AnchorRecords
  BY <1>5 DEF AnchorRecords
<1>8. /\ b.path = p /\ b.version = 2 /\ ~b.discarded /\ ~b.active /\ b.serve = x /\ b.ss = ss
      /\ b.serviceVersion = v /\ b.auth = auth /\ b.saf = saf
  BY <1>5
<1>9. Usable(b)
  BY <1>8 DEF Usable, ANCHOR_VERSION
<1>10. b.auth <=> service.saf # NoSaf
  BY <1>3, <1>8
<1>11. service.saf # NoSaf => b.saf = service.saf /\ b.version >= SAF_SUPPORT
  BY <1>4, <1>8 DEF SAF_SUPPORT
<1>12. b.path = path /\ ~b.active /\ b.serve = code /\ b.ss = service.ss /\ b.serviceVersion = service.version
  BY <1>2, <1>8
<1> QED
  BY <1>6, <1>7, <1>9, <1>10, <1>11, <1>12, Zenon

\* After discardServiceAnchor no anchor of the path is usable.
LEMMA DiscardIs ==
  ASSUME TypeOK, AnchorsOK
  PROVE  /\ discardServiceAnchor \in Seq(AnchorRecords) /\ Len(discardServiceAnchor) = Len(anchors)
         /\ \A k \in 1..Len(anchors) :
              /\ discardServiceAnchor[k].path = anchors[k].path /\ discardServiceAnchor[k].active = anchors[k].active
              /\ anchors[k].path # path => discardServiceAnchor[k] = anchors[k]
              /\ anchors[k].path = path => ~Usable(discardServiceAnchor[k])
<1>0. anchors \in Seq(AnchorRecords) /\ Len(anchors) \in Nat /\ DOMAIN anchors = 1..Len(anchors)
  BY DEF TypeOK
<1>1. PICK i : i = findServiceAnchor
  OBVIOUS
<1>2. \/ i = NULL /\ \A k \in 1..Len(anchors) : anchors[k].path = path => ~Usable(anchors[k])
      \/ i \in 1..Len(anchors) /\ anchors[i].path = path /\ Usable(anchors[i])
  BY <1>1, FindIs
<1>3. PICK d : d = discardServiceAnchor
  OBVIOUS
<1>4. d = [k \in 1..Len(anchors) |-> IF k = i THEN [anchors[k] EXCEPT !.discarded = TRUE] ELSE anchors[k]]
  BY <1>0, <1>1, <1>3 DEF discardServiceAnchor
<1>5. ASSUME NEW k \in 1..Len(anchors)
      PROVE  /\ d[k] \in AnchorRecords /\ d[k].path = anchors[k].path /\ d[k].active = anchors[k].active
             /\ anchors[k].path # path => d[k] = anchors[k]
             /\ anchors[k].path = path => ~Usable(d[k])
  <2>0. anchors[k] \in AnchorRecords
    BY <1>0
  <2>1. CASE k = i
    <3>1. PICK b : b = [anchors[k] EXCEPT !.discarded = TRUE]
      OBVIOUS
    <3>2. b \in AnchorRecords /\ b.path = anchors[k].path /\ b.active = anchors[k].active /\ b.discarded
      BY <2>0, <3>1 DEF AnchorRecords
    <3>3. d[k] = b
      BY <1>4, <2>1, <3>1
    <3>4. anchors[k].path = path
      BY <1>0, <1>2, <2>1 DEF NULL
    <3> QED
      BY <3>2, <3>3, <3>4 DEF Usable
  <2>2. CASE k # i
    <3>1. d[k] = anchors[k]
      BY <1>4, <2>2
    <3>2. anchors[k].path = path => ~Usable(anchors[k])
      BY <1>2, <2>2 DEF AnchorsOK
    <3> QED
      BY <2>0, <3>1, <3>2
  <2> QED
    BY <2>1, <2>2
<1>6. d \in Seq(AnchorRecords) /\ Len(d) = Len(anchors)
  <2>1. d \in [1..Len(anchors) -> AnchorRecords]
    BY <1>4, <1>5
  <2> QED
    BY <1>0, <2>1
<1> QED
  BY <1>3, <1>5, <1>6

\* A store into the usable anchor of the service at hand keeps the invariant.
LEMMA StoredKeeps ==
  ASSUME ZisInv, phase \in {"bind"} \cup Storing, NEW i \in 1..Len(anchors), anchors[i].path = path,
         Usable(anchors[i]), NEW b \in AnchorRecords, anchors' = [anchors EXCEPT ![i] = b], b.path = path,
         b.version = anchors[i].version, b.discarded = anchors[i].discarded, b.active = anchors[i].active,
         UNCHANGED todo, InstallOK', phase' \in {"init"} \cup Storing,
         UNCHANGED <<table, plugAnchor, plugList, lpa, ready, session, devMode, parms, walk, plugins, installed,
                     clients>>
  PROVE  ZisInv'
<1>0. /\ AnchorsOK /\ anchors \in Seq(AnchorRecords) /\ Len(anchors) \in Nat /\ todo \in Seq(Services)
  BY DEF ZisInv, StoreInv, TableInv, TypeOK
<1>1. /\ anchors' \in Seq(AnchorRecords) /\ Len(anchors') = Len(anchors) /\ anchors'[i] = b
      /\ \A k \in 1..Len(anchors) : k # i => anchors'[k] = anchors[k]
  BY <1>0, ExceptSeq
<1>2. \A k \in 1..Len(anchors) :
        /\ anchors'[k].path = anchors[k].path /\ anchors'[k].active = anchors[k].active
        /\ anchors[k].path # path => anchors'[k] = anchors[k]
  BY <1>1
<1>3. \A k \in 1..Len(anchors) : anchors'[k].path = path /\ Usable(anchors'[k]) => k = i
  BY <1>0, <1>1 DEF AnchorsOK
<1> QED
  BY <1>0, <1>1, <1>2, <1>3, BindingKeeps

\* BindService: the first store into the usable anchor, a new anchor, or none.
LEMMA BindKeeps == ASSUME ZisInv, BindService PROVE ZisInv'
<1>0. /\ TypeOK /\ AnchorsOK /\ ActiveOK /\ InstallOK /\ phase = "bind" /\ phase \in Installing
      /\ anchors \in Seq(AnchorRecords) /\ Len(anchors) \in Nat /\ todo \in Seq(Services)
  BY DEF ZisInv, StoreInv, TableInv, TypeOK, BindService, Installing
<1>1. UNCHANGED <<table, plugAnchor, plugList, lpa, ready, session, devMode, parms, walk, plugins, installed, clients>>
  BY DEF BindService
<1>2. \A k \in 1..Len(anchors) : anchors[k].path = path => ~anchors[k].active
  BY <1>0, AtHand DEF ActiveOK, Seen, Deployed
<1>3. ASSUME todo' = todo, phase' = "init", NEW i \in 1..Len(anchors'), NEW b,
             anchors'[i] = b, b.path = path, Usable(b), ~b.active, b.serve = code, b.ss = service.ss,
             b.serviceVersion = service.version, b.auth <=> service.saf # NoSaf,
             service.saf # NoSaf => b.saf = service.saf /\ b.version >= SAF_SUPPORT
      PROVE  InstallOK'
  <2>1. plugin' = plugin /\ service' = service
    BY <1>1, <1>3 DEF plugin, service
  <2>2. path' = path
    BY <2>1 DEF path
  <2>3. code' = code
    BY <1>1, <2>1, <2>2 DEF code
  <2>4. BoundTo(i)'
    BY <1>3, <2>1, <2>2, <2>3 DEF BoundTo
  <2> QED
    BY <1>0, <1>1, <1>3, <2>1, <2>4 DEF InstallOK, Storing
<1>4. CASE /\ ~needsNewAnchor /\ phase' = "storeServe" /\ UNCHANGED todo
           /\ anchors' = [anchors EXCEPT ![findServiceAnchor].ss = service.ss,
                                         ![findServiceAnchor].auth = service.saf # NoSaf]
  <2>1. findServiceAnchor # NULL /\ isServiceAnchorCompatible(anchors[findServiceAnchor])
    BY <1>4 DEF needsNewAnchor
  <2>2. PICK i \in 1..Len(anchors) : i = findServiceAnchor /\ anchors[i].path = path /\ Usable(anchors[i])
    BY <1>0, <2>1, FindIs
  <2>3. anchors[i] \in AnchorRecords /\ service.ss \in BOOLEAN
    BY <1>0, AtHand, ZisServerAssumption
  <2>4. PICK ss \in BOOLEAN, auth \in BOOLEAN : ss = service.ss /\ auth = (service.saf # NoSaf)
    BY <2>3
  <2>5. PICK b : b = [anchors[i] EXCEPT !.ss = ss, !.auth = auth]
    OBVIOUS
  <2>6. /\ b \in AnchorRecords /\ b.path = path /\ b.version = anchors[i].version
        /\ b.discarded = anchors[i].discarded /\ b.active = anchors[i].active /\ b.ss = ss /\ b.auth = auth
    BY <2>2, <2>3, <2>5 DEF AnchorRecords
  <2>7. anchors' = [anchors EXCEPT ![i] = b]
    BY <1>0, <1>4, <2>2, <2>4, <2>5
  <2>8. Usable(b) /\ ~b.active /\ (service.saf # NoSaf => b.version >= SAF_SUPPORT)
    BY <1>2, <2>1, <2>2, <2>6 DEF Usable, isServiceAnchorCompatible
  <2>9. anchors'[i] = b /\ Len(anchors') = Len(anchors)
    BY <1>0, <2>6, <2>7, ExceptSeq
  <2>10. InstallOK'
    <3>1. plugin' = plugin /\ service' = service
      BY <1>1, <1>4 DEF plugin, service
    <3>2. path' = path
      BY <3>1 DEF path
    <3>3. PartlyBound(i)'
      BY <1>4, <2>4, <2>6, <2>8, <2>9, <3>1, <3>2 DEF PartlyBound
    <3> QED
      BY <1>0, <1>1, <1>4, <2>9, <3>1, <3>3 DEF InstallOK, Storing, Bound
  <2> QED
    BY <1>0, <1>1, <1>4, <2>2, <2>6, <2>7, <2>8, <2>10, StoredKeeps DEF Storing
<1>5. PICK d \in Seq(AnchorRecords) :
        /\ d = discardServiceAnchor /\ Len(d) = Len(anchors)
        /\ \A k \in 1..Len(anchors) :
             /\ d[k].path = anchors[k].path /\ d[k].active = anchors[k].active
             /\ anchors[k].path # path => d[k] = anchors[k]
             /\ anchors[k].path = path => ~Usable(d[k])
  BY <1>0, DiscardIs
<1>6. CASE /\ needsNewAnchor /\ phase' = "init" /\ UNCHANGED todo
           /\ anchors' = Append(discardServiceAnchor, zisCreateServiceAnchor)
  <2>1. PICK b \in AnchorRecords :
           /\ b = zisCreateServiceAnchor /\ b.path = path /\ Usable(b) /\ ~b.active
           /\ b.serve = code /\ b.ss = service.ss /\ b.serviceVersion = service.version
           /\ b.auth <=> service.saf # NoSaf
           /\ service.saf # NoSaf => b.saf = service.saf /\ b.version >= SAF_SUPPORT
    BY <1>0, CreatedIs
  <2>2. anchors' = Append(d, b)
    BY <1>5, <1>6, <2>1
  <2>3. /\ anchors' \in Seq(AnchorRecords) /\ Len(anchors') = Len(anchors) + 1
        /\ anchors'[Len(anchors) + 1] = b /\ \A k \in 1..Len(anchors) : anchors'[k] = d[k]
    BY <1>5, <2>2, AppendProperties
  <2>4. Len(anchors) + 1 \in 1..Len(anchors')
    BY <1>0, <2>3
  <2>5. InstallOK'
    BY <1>3, <1>6, <2>1, <2>3, <2>4
  <2>6. \A k \in 1..Len(anchors') : k > Len(anchors) => k = Len(anchors) + 1
    BY <1>0, <2>3
  <2>7. \A k \in 1..Len(anchors') : anchors'[k].path = path /\ Usable(anchors'[k]) => k = Len(anchors) + 1
    <3>1. \A k \in 1..Len(anchors') : k \in 1..Len(anchors) \/ k = Len(anchors) + 1
      BY <1>0, <2>3
    <3> QED
      BY <1>5, <2>3, <3>1
  <2>8. \A k \in 1..Len(anchors') : k > Len(anchors) => anchors'[k].path = path /\ ~anchors'[k].active
    BY <2>1, <2>3, <2>6
  <2>9. \A k \in 1..Len(anchors) :
          /\ anchors'[k].path = anchors[k].path /\ anchors'[k].active = anchors[k].active
          /\ anchors[k].path # path => anchors'[k] = anchors[k]
    BY <1>5, <2>3
  <2>10. Len(anchors') >= Len(anchors)
    BY <1>0, <2>3
  <2> QED
    BY <1>0, <1>1, <1>6, <2>3, <2>5, <2>7, <2>8, <2>9, <2>10, BindingKeeps
<1>7. CASE /\ needsNewAnchor /\ phase' = "deploy" /\ todo' = <<>>
           /\ anchors' = discardServiceAnchor
  <2>1. anchors' = d /\ todo' \in Seq(Services)
    BY <1>5, <1>7
  <2>2. InstallOK'
    BY <1>7 DEF InstallOK, Installing, Storing, Bound
  <2> QED
    BY <1>0, <1>1, <1>5, <1>7, <2>1, <2>2, BindingKeeps
<1> QED
  <2>1. \/ /\ ~needsNewAnchor /\ phase' = "storeServe" /\ UNCHANGED todo
           /\ anchors' = [anchors EXCEPT ![findServiceAnchor].ss = service.ss,
                                         ![findServiceAnchor].auth = service.saf # NoSaf]
        \/ /\ needsNewAnchor /\ phase' = "init" /\ UNCHANGED todo
           /\ anchors' = Append(discardServiceAnchor, zisCreateServiceAnchor)
        \/ /\ needsNewAnchor /\ phase' = "deploy" /\ todo' = <<>>
           /\ anchors' = discardServiceAnchor
    BY Zenon DEF BindService
  <2> QED
    BY <1>4, <1>6, <1>7, <2>1

\* zisUpdateServiceAnchor: the other stores.
LEMMA UpdateKeeps == ASSUME ZisInv, zisUpdateServiceAnchor PROVE ZisInv'
<1>0. /\ TypeOK /\ AnchorsOK /\ InstallOK /\ phase \in Storing /\ phase \in Installing
      /\ anchors \in Seq(AnchorRecords) /\ Len(anchors) \in Nat
  BY DEF ZisInv, StoreInv, TableInv, TypeOK, zisUpdateServiceAnchor, Storing, Installing
<1>1. UNCHANGED <<table, plugAnchor, plugList, lpa, ready, session, devMode, parms, walk, todo, plugins, installed,
                  clients>>
  BY DEF zisUpdateServiceAnchor
<1>2. PICK i \in 1..Len(anchors) : findServiceAnchor = i /\ PartlyBound(i)
  <2>1. PICK i \in 1..Len(anchors) : PartlyBound(i)
    BY <1>0 DEF InstallOK
  <2>2. anchors[i].path = path /\ Usable(anchors[i])
    BY <2>1 DEF PartlyBound
  <2>3. findServiceAnchor = i
    BY <1>0, <2>2, FindIs DEF AnchorsOK
  <2> QED
    BY <2>1, <2>3
<1>3. PICK a \in AnchorRecords : a = anchors[i]
  BY <1>0
<1>4. /\ a.path = path /\ Usable(a) /\ ~a.active /\ a.ss = service.ss /\ (a.auth <=> service.saf # NoSaf)
      /\ service.saf # NoSaf => a.version >= SAF_SUPPORT
      /\ phase \in {"storeVersion", "storeSaf"} => a.serve = code
      /\ phase = "storeSaf" => a.serviceVersion = service.version
  BY <1>2, <1>3 DEF PartlyBound
<1>5. service \in Services /\ service.version \in Nat /\ code \in Codes
  BY <1>0, AtHand, ZisServerAssumption
<1>6. plugin' = plugin /\ service' = service
  BY <1>1 DEF plugin, service
<1>7. path' = path
  BY <1>6 DEF path
<1>8. code' = code
  BY <1>1, <1>6, <1>7 DEF code
<1>9. ASSUME NEW b \in AnchorRecords, anchors' = [anchors EXCEPT ![i] = b], b.path = path, b.version = a.version,
             b.discarded = a.discarded, b.active = a.active, b.ss = a.ss, b.auth = a.auth, b.serve = code,
             phase' \in {"storeVersion", "storeSaf", "init"},
             phase' \in {"storeSaf", "init"} => b.serviceVersion = service.version,
             phase' = "init" /\ service.saf # NoSaf => b.saf = service.saf
      PROVE  ZisInv'
  <2>1. anchors'[i] = b /\ Len(anchors') = Len(anchors)
    BY <1>0, <1>9, ExceptSeq
  <2>2. Usable(b)
    BY <1>4, <1>9 DEF Usable
  <2>3. phase' \in Storing => PartlyBound(i)'
    BY <1>4, <1>6, <1>7, <1>8, <1>9, <2>1, <2>2 DEF PartlyBound
  <2>4. phase' = "init" => BoundTo(i)'
    BY <1>4, <1>6, <1>7, <1>8, <1>9, <2>1, <2>2 DEF BoundTo
  <2>5. InstallOK'
    BY <1>0, <1>1, <1>6, <1>9, <2>1, <2>3, <2>4 DEF InstallOK, Storing, Bound
  <2> QED
    BY <1>0, <1>1, <1>3, <1>4, <1>9, <2>5, StoredKeeps DEF Storing
<1>10. CASE phase = "storeServe" /\ phase' = "storeVersion" /\ anchors' = [anchors EXCEPT ![findServiceAnchor].serve = code]
  <2>1. PICK b : b = [a EXCEPT !.serve = code]
    OBVIOUS
  <2>2. /\ b \in AnchorRecords /\ b.path = path /\ b.version = a.version /\ b.discarded = a.discarded
        /\ b.active = a.active /\ b.ss = a.ss /\ b.auth = a.auth /\ b.serve = code
    BY <1>4, <1>5, <2>1 DEF AnchorRecords
  <2>3. anchors' = [anchors EXCEPT ![i] = b]
    BY <1>0, <1>2, <1>3, <1>10, <2>1
  <2> QED
    BY <1>9, <1>10, <2>2, <2>3
<1>11. CASE /\ phase = "storeVersion" /\ phase' = "storeSaf"
            /\ anchors' = [anchors EXCEPT ![findServiceAnchor].serviceVersion = service.version]
  <2>1. PICK b : b = [a EXCEPT !.serviceVersion = service.version]
    OBVIOUS
  <2>2. /\ b \in AnchorRecords /\ b.path = path /\ b.version = a.version /\ b.discarded = a.discarded
        /\ b.active = a.active /\ b.ss = a.ss /\ b.auth = a.auth /\ b.serve = a.serve
        /\ b.serviceVersion = service.version
    BY <1>4, <1>5, <2>1 DEF AnchorRecords
  <2>3. anchors' = [anchors EXCEPT ![i] = b]
    BY <1>0, <1>2, <1>3, <1>11, <2>1
  <2> QED
    BY <1>4, <1>9, <1>11, <2>2, <2>3
<1>12. CASE /\ phase = "storeSaf" /\ phase' = "init"
            /\ anchors' = [anchors EXCEPT ![findServiceAnchor].saf =
                             IF service.saf # NoSaf /\ anchors[findServiceAnchor].version >= SAF_SUPPORT
                             THEN service.saf ELSE @]
  <2>1. PICK saf \in {NoSaf} \cup {s.saf : s \in Services} \cup {l.saf : l \in LeftAnchors} :
          saf = IF service.saf # NoSaf /\ a.version >= SAF_SUPPORT THEN service.saf ELSE a.saf
    BY <1>5 DEF AnchorRecords
  <2>2. PICK b : b = [a EXCEPT !.saf = saf]
    OBVIOUS
  <2>3. /\ b \in AnchorRecords /\ b.path = path /\ b.version = a.version /\ b.discarded = a.discarded
        /\ b.active = a.active /\ b.ss = a.ss /\ b.auth = a.auth /\ b.serve = a.serve
        /\ b.serviceVersion = a.serviceVersion /\ b.saf = saf
    BY <1>4, <2>2 DEF AnchorRecords
  <2>4. anchors' = [anchors EXCEPT ![i] = b]
    BY <1>0, <1>2, <1>3, <1>12, <2>1, <2>2
  <2>5. service.saf # NoSaf => saf = service.saf
    BY <1>4, <2>1
  <2> QED
    BY <1>4, <1>9, <1>12, <2>3, <2>4, <2>5
<1> QED
  BY <1>10, <1>11, <1>12, Zenon DEF zisUpdateServiceAnchor

\* callServiceInit leaves common storage alone.
LEMMA ServiceInitKeeps == ASSUME ZisInv, callServiceInit PROVE ZisInv'
<1>0. /\ TypeOK /\ PlugOK /\ PluginsOK /\ AnchorsOK /\ WalkOK /\ ActiveOK /\ InstalledOK /\ InstallOK /\ SessionOK
      /\ phase = "init" /\ phase \in Installing /\ Len(anchors) \in Nat /\ todo \in Seq(Services)
  BY DEF ZisInv, StoreInv, TableInv, TypeOK, callServiceInit, Installing
<1>1. UNCHANGED <<table, anchors, plugAnchor, plugList, lpa, ready, session, devMode, parms, walk, plugins,
                  installed, caller, calls>>
  BY DEF callServiceInit, common, clients
<1>2. InstallOK' /\ phase' \in {"put", "deploy", "bind"} /\ todo' \in Seq(Services)
  <2>1. CASE phase' = "put" /\ UNCHANGED todo
    <3>1. plugin' = plugin /\ service' = service
      BY <1>1, <2>1 DEF plugin, service
    <3>2. path' = path
      BY <3>1 DEF path
    <3>3. code' = code
      BY <1>1, <3>1, <3>2 DEF code
    <3>4. PICK i \in 1..Len(anchors) : BoundTo(i)
      BY <1>0 DEF InstallOK, Bound
    <3>5. BoundTo(i)'
      BY <1>1, <3>1, <3>2, <3>3, <3>4 DEF BoundTo
    <3> QED
      BY <1>0, <1>1, <2>1, <3>1, <3>5 DEF InstallOK, Storing
  <2>2. CASE NextService
    BY <1>0, <1>1, <2>2, NextInstall
  <2> QED
    BY <2>1, <2>2 DEF callServiceInit
<1>3. TypeOK'
  BY <1>0, <1>1, <1>2 DEF TypeOK, Phases, Installing
<1>4. PlugOK' /\ PluginsOK'
  BY <1>0, <1>1 DEF PlugOK, PluginsOK, Deployed
<1>5. AnchorsOK' /\ WalkOK'
  BY <1>0, <1>1, <1>2 DEF AnchorsOK, WalkOK
<1>6. ActiveOK'
  BY <1>0, <1>1 DEF ActiveOK, Seen, Deployed
<1>7. InstalledOK'
  BY <1>0, <1>1 DEF InstalledOK, HasAnchor, Deployed
<1>8. SessionOK'
  BY <1>0, <1>1, <1>2 DEF SessionOK, Installing
<1>9. \A c \in Callers : CallOK(caller[c])'
  BY <1>0, <1>1, CallsKept
<1> QED
  BY <1>2, <1>3, <1>4, <1>5, <1>6, <1>7, <1>8, <1>9 DEF ZisInv, StoreInv, TableInv

\* PutService changes the entry of the service at hand only, which is not an
\* installed one.
LEMMA PutKeeps == ASSUME ZisInv, PutService PROVE ZisInv'
<1>0. /\ TypeOK /\ PlugOK /\ PluginsOK /\ AnchorsOK /\ WalkOK /\ ActiveOK /\ InstalledOK /\ InstallOK /\ SessionOK
      /\ phase = "put" /\ phase \in Installing /\ phase \in Bound /\ Len(anchors) \in Nat /\ todo \in Seq(Services)
      /\ table # <<>> /\ table \in [Paths -> 0..Len(anchors)]
  BY DEF ZisInv, StoreInv, TableInv, TypeOK, PutService, Installing, Bound
<1>1. UNCHANGED <<anchors, plugAnchor, plugList, lpa, ready, session, devMode, parms, walk, plugins, installed,
                  caller, calls>>
  BY DEF PutService, clients
<1>2. path \in Paths /\ \A s \in installed : s.path # path
  BY <1>0, AtHand
<1>3. PICK i \in 1..Len(anchors) : findServiceAnchor = i /\ BoundTo(i) /\ anchors[i].path = path
  BY <1>0, FoundIs DEF BoundTo
<1>4. PICK e \in 0..Len(anchors) :
        /\ table' = [table EXCEPT ![path] = e] /\ e \in {NULL, i}
        /\ \/ phase' = "deploy" /\ todo' = <<>>
           \/ phase' = "activate" /\ todo' = todo /\ e = i
  <2>1. PICK rc \in putRC :
          /\ table' = [table EXCEPT ![path] = newEntry(rc)]
          /\ IF rc = -1 THEN phase' = "deploy" /\ todo' = <<>> ELSE phase' = "activate" /\ UNCHANGED todo
    BY Zenon DEF PutService
  <2>2. PICK e : e = newEntry(rc)
    OBVIOUS
  <2>3. e \in {NULL, i} /\ (rc # -1 => e = i) /\ e \in 0..Len(anchors)
    BY <1>0, <1>3, <2>2 DEF newEntry, NULL
  <2> QED
    BY <2>1, <2>2, <2>3
<1>5. /\ table' \in [Paths -> 0..Len(anchors)] /\ table'[path] = e
      /\ \A p \in Paths : p # path => table'[p] = table[p]
  BY <1>0, <1>2, <1>4
<1>6. table' # <<>>
  BY <1>2, <1>5
<1>7. phase' \in {"deploy", "activate"} /\ todo' \in Seq(Services)
  <2>1. phase' \in {"deploy", "activate"} /\ todo' \in {<<>>, todo}
    BY <1>4
  <2>2. <<>> \in Seq(Services) /\ todo \in Seq(Services)
    BY <1>0
  <2> QED
    BY <2>1, <2>2, Zenon
<1>8. TypeOK'
  BY <1>0, <1>1, <1>5, <1>7 DEF TypeOK, Phases, Installing
<1>9. PlugOK' /\ PluginsOK'
  BY <1>0, <1>1 DEF PlugOK, PluginsOK, Deployed
<1>10. AnchorsOK'
  <2>1. \A p \in Paths : table'[p] # NULL => anchors[table'[p]].path = p
    BY <1>0, <1>3, <1>4, <1>5 DEF AnchorsOK
  <2> QED
    BY <1>0, <1>1, <2>1 DEF AnchorsOK
<1>11. WalkOK'
  BY <1>0, <1>1, <1>7 DEF WalkOK
<1>12. ActiveOK'
  <2>1. ASSUME NEW k \in 1..Len(anchors), anchors[k].active
        PROVE  table'[anchors[k].path] = k /\ \E s \in installed : s.path = anchors[k].path
    <3>1. table[anchors[k].path] = k /\ \E s \in installed : s.path = anchors[k].path
      BY <1>0, <2>1 DEF ActiveOK, Seen, Deployed
    <3>2. anchors[k].path \in Paths
      <4>1. anchors[k] \in AnchorRecords
        BY <1>0 DEF TypeOK
      <4> QED
        BY <4>1 DEF AnchorRecords
    <3> QED
      BY <1>2, <1>5, <3>1, <3>2
  <2> QED
    BY <1>1, <1>6, <2>1 DEF ActiveOK
<1>13. InstalledOK'
  <2>1. ASSUME NEW s \in installed PROVE HasAnchor(s)'
    <3>1. HasAnchor(s) /\ s.path \in Paths
      BY <1>0 DEF InstalledOK, TypeOK, Installs
    <3>2. table'[s.path] = table[s.path]
      BY <1>2, <1>5, <3>1
    <3> QED
      BY <1>0, <1>1, <1>6, <3>1, <3>2 DEF HasAnchor, Deployed
  <2> QED
    BY <1>0, <1>1, <2>1 DEF InstalledOK, Deployed
<1>14. InstallOK'
  <2>1. CASE phase' = "deploy"
    BY <2>1 DEF InstallOK, Installing, Storing, Bound
  <2>2. CASE phase' = "activate" /\ todo' = todo /\ e = i
    <3>1. plugin' = plugin /\ service' = service
      BY <1>1, <2>2 DEF plugin, service
    <3>2. path' = path
      BY <3>1 DEF path
    <3>3. code' = code
      BY <1>1, <3>1, <3>2 DEF code
    <3>4. BoundTo(i)'
      BY <1>1, <1>3, <3>1, <3>2, <3>3 DEF BoundTo
    <3>5. table'[path'] = i
      BY <1>5, <2>2, <3>2
    <3> QED
      BY <1>0, <1>1, <1>6, <2>2, <3>1, <3>4, <3>5 DEF InstallOK, Storing
  <2> QED
    BY <1>4, <2>1, <2>2
<1>15. SessionOK'
  BY <1>0, <1>1, <1>7 DEF SessionOK, Installing
<1>16. \A c \in Callers : CallOK(caller[c])'
  <2>1. \A c \in Callers : caller[c].session # session
    BY <1>0 DEF SessionOK
  <2>2. \A s \in installed : table'[s.path] = table[s.path]
    BY <1>0, <1>2, <1>5 DEF TypeOK, Installs
  <2> QED
    BY <1>0, <1>1, <1>6, <2>1, <2>2, CallsKept
<1> QED
  BY <1>8, <1>9, <1>10, <1>11, <1>12, <1>13, <1>14, <1>15, <1>16 DEF ZisInv, StoreInv, TableInv

\* ActivateService makes the service at hand an installed one.
LEMMA ActivateKeeps == ASSUME ZisInv, ActivateService PROVE ZisInv'
<1>0. /\ TypeOK /\ PlugOK /\ PluginsOK /\ AnchorsOK /\ WalkOK /\ ActiveOK /\ InstalledOK /\ InstallOK /\ SessionOK
      /\ phase = "activate" /\ phase \in Installing /\ phase \in Bound /\ Len(anchors) \in Nat
      /\ anchors \in Seq(AnchorRecords)
  BY DEF ZisInv, StoreInv, TableInv, TypeOK, ActivateService, Installing, Bound
<1>1. /\ UNCHANGED <<table, plugAnchor, plugList, lpa, ready, session, devMode, parms, walk, plugins, caller, calls>>
      /\ NextService
  BY DEF ActivateService, clients
<1>2. /\ path \in Paths /\ path # <<>> /\ path[1] = plugin.name /\ plugin \in Range(plugins)
      /\ code \in Codes /\ code.path = path /\ service \in Services /\ \A s \in installed : s.path # path
  BY <1>0, AtHand
<1>3. PICK i \in 1..Len(anchors) : /\ findServiceAnchor = i /\ BoundTo(i) /\ anchors[i].path = path
                                   /\ table # <<>> /\ table[path] = i
  BY <1>0, FoundIs DEF BoundTo
<1>4. PICK n : n = [path |-> path, code |-> code, saf |-> service.saf, ss |-> service.ss, version |-> service.version]
  OBVIOUS
<1>5. /\ n \in Installs /\ n.path = path /\ n.code = code /\ n.saf = service.saf /\ n.ss = service.ss
      /\ n.version = service.version
  <2>1. service.saf \in Safs /\ service.ss \in BOOLEAN /\ service.version \in Nat
    BY <1>2, ZisServerAssumption DEF Safs
  <2> QED
    BY <1>2, <1>4, <2>1 DEF Installs
<1>6. installed' = installed \cup {n}
  BY <1>4 DEF ActivateService
<1>7. PICK b : b = [anchors[i] EXCEPT !.active = TRUE]
  OBVIOUS
<1>8. /\ b \in AnchorRecords /\ b.path = anchors[i].path /\ b.version = anchors[i].version /\ b.ss = anchors[i].ss
      /\ b.auth = anchors[i].auth /\ b.saf = anchors[i].saf /\ b.serve = anchors[i].serve
      /\ b.serviceVersion = anchors[i].serviceVersion /\ b.active /\ b.discarded = anchors[i].discarded
  <2>1. anchors[i] \in AnchorRecords
    BY <1>0
  <2> QED
    BY <1>7, <2>1 DEF AnchorRecords
<1>9. anchors' = [anchors EXCEPT ![i] = b]
  BY <1>3, <1>7 DEF ActivateService
<1>10. /\ anchors' \in Seq(AnchorRecords) /\ Len(anchors') = Len(anchors) /\ anchors'[i] = b
       /\ \A k \in 1..Len(anchors) : k # i => anchors'[k] = anchors[k]
  BY <1>0, <1>8, <1>9, ExceptSeq
<1>11. InstallOK' /\ phase' \in {"deploy", "bind"} /\ todo' \in Seq(Services)
  BY <1>0, <1>1, <1>5, <1>6, NextInstall
<1>12. TypeOK'
  <2>1. installed' \subseteq Installs /\ phase' \in Phases
    BY <1>0, <1>5, <1>6, <1>11 DEF TypeOK, Phases, Installing
  <2> QED
    BY <1>0, <1>1, <1>10, <1>11, <2>1 DEF TypeOK
<1>13. PlugOK' /\ PluginsOK'
  BY <1>0, <1>1 DEF PlugOK, PluginsOK, Deployed
<1>14. AnchorsOK'
  <2>1. \A k \in 1..Len(anchors) :
          /\ anchors'[k].path = anchors[k].path /\ anchors'[k].version = anchors[k].version
          /\ anchors'[k].discarded = anchors[k].discarded
    BY <1>8, <1>10
  <2>2. \A j, k \in 1..Len(anchors) :
          anchors'[j].path = anchors'[k].path /\ Usable(anchors'[j]) /\ Usable(anchors'[k]) => j = k
    BY <1>0, <2>1 DEF AnchorsOK, Usable
  <2>3. \A p \in Paths : table[p] # NULL => anchors'[table[p]].path = p
    BY <1>0, <1>3, <2>1, EntryIs
  <2> QED
    BY <1>0, <1>1, <1>10, <2>1, <2>2, <2>3 DEF AnchorsOK
<1>15. WalkOK'
  BY <1>0, <1>1, <1>10, <1>11 DEF WalkOK
<1>16. ActiveOK'
  <2>1. ASSUME NEW k \in 1..Len(anchors), anchors'[k].active
        PROVE  table[anchors'[k].path] = k /\ \E s \in installed' : s.path = anchors'[k].path
    <3>1. CASE k = i
      BY <1>3, <1>5, <1>6, <1>8, <1>10, <3>1
    <3>2. CASE k # i
      BY <1>0, <1>6, <1>10, <2>1, <3>2 DEF ActiveOK, Seen, Deployed
    <3> QED
      BY <3>1, <3>2
  <2> QED
    BY <1>1, <1>3, <1>10, <2>1 DEF ActiveOK
<1>17. InstalledOK'
  <2>1. ASSUME NEW s \in installed PROVE HasAnchor(s)'
    <3>1. HasAnchor(s) /\ s.path \in Paths /\ s.path # path
      BY <1>0, <1>2 DEF InstalledOK, TypeOK, Installs
    <3>2. table[s.path] # NULL
      BY <3>1 DEF HasAnchor
    <3>3. table[s.path] \in 1..Len(anchors) /\ table[s.path] # i
      BY <1>0, <1>3, <3>1, <3>2, EntryIs
    <3>4. anchors'[table[s.path]] = anchors[table[s.path]]
      BY <1>10, <3>3
    <3> QED
      BY <1>0, <1>1, <3>1, <3>4 DEF HasAnchor, Deployed
  <2>2. HasAnchor(n)'
    <3>1. /\ b.serve = n.code /\ b.ss = n.ss /\ b.serviceVersion = n.version /\ (b.auth <=> n.saf # NoSaf)
          /\ n.saf # NoSaf => b.saf = n.saf /\ b.version >= SAF_SUPPORT
      BY <1>3, <1>5, <1>8 DEF BoundTo
    <3>2. anchors'[table'[n.path]] = b /\ table' # <<>> /\ table'[n.path] # NULL
      BY <1>1, <1>3, <1>5, <1>10 DEF NULL
    <3> QED
      BY <1>8, <3>1, <3>2 DEF HasAnchor
  <2>3. n.code.path = n.path /\ n.path # <<>>
    BY <1>2, <1>5
  <2>4. \A s \in installed' : s.code.path = s.path /\ s.path # <<>> /\ HasAnchor(s)'
    BY <1>0, <1>6, <2>1, <2>2, <2>3 DEF InstalledOK
  <2>5. \A r, s \in installed' : r.path = s.path => r = s
    BY <1>0, <1>2, <1>5, <1>6 DEF InstalledOK
  <2>6. \A s \in installed' : \E m \in Range(plugins) : m.name = s.path[1]
    BY <1>0, <1>2, <1>5, <1>6 DEF InstalledOK, Deployed
  <2> QED
    BY <1>1, <2>4, <2>5, <2>6 DEF InstalledOK
<1>18. SessionOK'
  BY <1>0, <1>1, <1>11 DEF SessionOK, Installing
<1>19. \A c \in Callers : CallOK(caller[c])'
  <2>1. \A c \in Callers : caller[c].session # session
    BY <1>0 DEF SessionOK
  <2>2. \A k \in 1..Len(anchors) : anchors'[k].path = anchors[k].path
    BY <1>8, <1>10
  <2>3. \A r \in installed' : r \in installed \/ \A s \in installed : r.path # s.path
    BY <1>2, <1>5, <1>6
  <2>4. /\ Len(anchors') >= Len(anchors) /\ Len(anchors') \in Nat /\ session' = session /\ table' = table
        /\ caller' = caller /\ \A s \in installed : s \in installed'
    BY <1>0, <1>1, <1>6, <1>10
  <2> QED
    BY <1>0, <2>1, <2>2, <2>3, <2>4, CallsKept
<1> QED
  BY <1>11, <1>12, <1>13, <1>14, <1>15, <1>16, <1>17, <1>18, <1>19 DEF ZisInv, StoreInv, TableInv

-----------------------------------------------------------------------------
\* The server opens;
LEMMA ReadyKeeps == ASSUME ZisInv, SetReady PROVE ZisInv'
<1>0. /\ TypeOK /\ PlugOK /\ PluginsOK /\ AnchorsOK /\ WalkOK /\ ActiveOK /\ InstalledOK /\ SessionOK
      /\ phase = "deploy" /\ Len(anchors) \in Nat
  BY DEF ZisInv, StoreInv, TableInv, TypeOK, SetReady
<1>1. /\ phase' = "up" /\ ready' = TRUE
      /\ UNCHANGED <<table, anchors, plugAnchor, plugList, lpa, session, devMode, parms, walk, todo, plugins,
                     installed, caller, calls>>
  BY DEF SetReady, common, clients
<1>2. TypeOK'
  BY <1>0, <1>1 DEF TypeOK, Phases
<1>3. PlugOK' /\ PluginsOK'
  BY <1>0, <1>1 DEF PlugOK, PluginsOK, Deployed
<1>4. AnchorsOK' /\ WalkOK'
  BY <1>0, <1>1 DEF AnchorsOK, WalkOK
<1>5. ActiveOK'
  BY <1>0, <1>1 DEF ActiveOK, Seen, Deployed
<1>6. InstalledOK'
  BY <1>0, <1>1 DEF InstalledOK, HasAnchor, Deployed
<1>7. InstallOK' /\ SessionOK'
  BY <1>0, <1>1 DEF InstallOK, SessionOK, Installing, Storing, Bound
<1>8. \A c \in Callers : CallOK(caller[c])'
  BY <1>0, <1>1, CallsKept
<1> QED
  BY <1>2, <1>3, <1>4, <1>5, <1>6, <1>7, <1>8 DEF ZisInv, StoreInv, TableInv

\* closes;
LEMMA CleanupKeeps == ASSUME ZisInv, cleanupServer PROVE ZisInv'
<1>0. /\ TypeOK /\ PlugOK /\ AnchorsOK /\ ActiveOK /\ InstalledOK /\ SessionOK
      /\ phase = "up" /\ Len(anchors) \in Nat
  BY DEF ZisInv, StoreInv, TableInv, TypeOK, cleanupServer
<1>1. /\ phase' = "cleanup" /\ ready' = FALSE /\ walk' = walkAt(1)
      /\ UNCHANGED <<table, anchors, plugAnchor, plugList, lpa, session, devMode, parms, todo, plugins, installed,
                     caller, calls>>
  BY DEF cleanupServer, cleanPlugins, common, clients
<1>2. walk' \in Walks /\ walk'.anchors \subseteq 1..Len(anchors) /\ walk'.current = NULL
      /\ (walk' = NoWalk \/ walk'.at \in 1..Len(plugList))
  <2>1. Len(plugList) \in Nat
    BY <1>0 DEF TypeOK
  <2> QED
    BY <1>0, <1>1, <2>1, WalkAtIs
<1>3. TypeOK'
  BY <1>0, <1>1, <1>2 DEF TypeOK, Phases
<1>4. PlugOK' /\ PluginsOK'
  BY <1>0, <1>1 DEF PlugOK, PluginsOK, Deployed, Installing, Storing
<1>5. AnchorsOK' /\ WalkOK'
  BY <1>0, <1>1, <1>2 DEF AnchorsOK, WalkOK, NULL
<1>6. ActiveOK'
  BY <1>0, <1>1 DEF ActiveOK, Seen, Deployed
<1>7. InstalledOK'
  BY <1>0, <1>1 DEF InstalledOK, HasAnchor, Deployed, Installing
<1>8. InstallOK' /\ SessionOK'
  BY <1>0, <1>1 DEF InstallOK, SessionOK, Installing, Storing, Bound
<1>9. \A c \in Callers : CallOK(caller[c])'
  BY <1>0, <1>1, CallsKept
<1> QED
  BY <1>3, <1>4, <1>5, <1>6, <1>7, <1>8, <1>9 DEF ZisInv, StoreInv, TableInv

\* ends its space switch callers with itself;
LEMMA SwitchEnds ==
  ASSUME TypeOK, endSpaceSwitch
  PROVE  /\ caller' \in [Callers -> CallRecords]
         /\ \A c \in Callers : \/ caller'[c] = caller[c]
                               \/ /\ caller'[c].step = "idle" /\ caller'[c].session = 0 /\ caller'[c].found = 0
                                  /\ caller'[c].rc = "ended"
<1>1. PICK k \in CallRecords : /\ k = [Idle EXCEPT !.rc = "ended"] /\ k.step = "idle" /\ k.session = 0
                               /\ k.found = 0 /\ k.rc = "ended"
  BY IdleIsCall
<1>2. caller' = [c \in Callers |->
        IF caller[c].ss /\ caller[c].step \in {"route", "version", "state", "auth", "serve", "serving"}
        THEN k ELSE caller[c]]
  BY <1>1 DEF endSpaceSwitch
<1>3. caller \in [Callers -> CallRecords]
  BY DEF TypeOK
<1> QED
  BY <1>1, <1>2, <1>3

\* and leaves common storage as it is.
LEMMA DownKeeps ==
  ASSUME ZisInv, phase # "down", phase' = "down", ready' = FALSE, endSpaceSwitch, plugins' = <<>>, walk' = NoWalk,
         parms' \subseteq parms, todo' \in Seq(Services), UNCHANGED <<common, session, devMode, installed, calls>>
  PROVE  ZisInv'
<1> USE DEF common
<1>0. /\ TypeOK /\ PlugOK /\ AnchorsOK /\ ActiveOK /\ InstalledOK /\ SessionOK /\ Len(anchors) \in Nat
      /\ caller \in [Callers -> CallRecords] /\ session \in Nat
  BY DEF ZisInv, StoreInv, TableInv, TypeOK
<1>1. /\ caller' \in [Callers -> CallRecords]
      /\ \A c \in Callers : \/ caller'[c] = caller[c]
                            \/ caller'[c].step = "idle" /\ caller'[c].session = 0 /\ caller'[c].found = 0
  BY <1>0, SwitchEnds
<1>2. TypeOK'
  <2>1. walk' \in Walks
    BY NoWalkIsWalk
  <2>2. plugins' \in Seq(Modules) /\ phase' \in Phases /\ ready' \in BOOLEAN /\ parms' \subseteq Nat \X Modules
    <3>1. parms \subseteq Nat \X Modules /\ phase' \in Phases
      BY <1>0 DEF TypeOK, Phases
    <3>2. parms' \subseteq Nat \X Modules
      BY <3>1, Zenon
    <3>3. <<>> \in Seq(Modules)
      OBVIOUS
    <3> QED
      BY <3>1, <3>2, <3>3, Zenon
  <2>3. /\ anchors' \in Seq(AnchorRecords) /\ (table' = <<>> \/ table' \in [Paths -> 0..Len(anchors')])
        /\ plugList' \in Seq(Names) /\ plugAnchor' \in [Names -> PlugAnchors] /\ lpa' \subseteq Copies
    BY <1>0 DEF TypeOK
  <2>4. session' \in Nat /\ devMode' \in BOOLEAN /\ installed' \subseteq Installs /\ calls' \in Nat
    BY <1>0 DEF TypeOK
  <2> QED
    BY <1>1, <2>1, <2>2, <2>3, <2>4, Zenon DEF TypeOK
<1>3. PlugOK' /\ PluginsOK'
  BY <1>0 DEF PlugOK, PluginsOK, Deployed, Installing, Storing
<1>4. AnchorsOK'
  BY <1>0 DEF AnchorsOK
<1>5. WalkOK'
  BY <1>0, NoWalkIsWalk DEF WalkOK, NULL
<1>6. ActiveOK'
  <2>1. Seen' => Seen
    <3>1. session > 0
      BY <1>0 DEF SessionOK
    <3> QED
      BY <1>0, <1>1, <3>1 DEF Seen, Deployed, Installing, Storing
  <2> QED
    BY <1>0, <2>1 DEF ActiveOK
<1>7. InstalledOK'
  BY <1>0 DEF InstalledOK, HasAnchor, Deployed, Installing, Storing
<1>8. InstallOK'
  BY DEF InstallOK, Installing, Storing, Bound
<1>9. SessionOK'
  BY <1>0, <1>1 DEF SessionOK, Installing, Storing
<1>10. \A c \in Callers : CallOK(caller[c])'
  BY <1>0, <1>1, CallsKept
<1> QED
  BY <1>2, <1>3, <1>4, <1>5, <1>6, <1>7, <1>8, <1>9, <1>10 DEF ZisInv, StoreInv, TableInv

\* Both ways for the server to end do that.
LEMMA EndsKeeps == ASSUME ZisInv, ServerEnds \/ ServerAbends PROVE ZisInv'
<1>0. SessionOK /\ todo \in Seq(Services)
  BY DEF ZisInv, StoreInv, TableInv, TypeOK
<1>1. CASE ServerEnds
  <2>1. /\ phase = "cleanup" /\ walk = NoWalk /\ phase' = "down" /\ endSpaceSwitch /\ plugins' = <<>>
        /\ UNCHANGED <<common, ready, session, devMode, parms, walk, todo, installed, calls>>
    BY <1>1 DEF ServerEnds
  <2>2. ready = FALSE
    BY <1>0, <2>1 DEF SessionOK, ZisInv, StoreInv, TypeOK
  <2> QED
    BY <1>0, <2>1, <2>2, DownKeeps
<1>2. CASE ServerAbends
  <2>1. /\ phase # "down" /\ phase' = "down" /\ ready' = FALSE /\ endSpaceSwitch
        /\ plugins' = <<>> /\ todo' = <<>> /\ parms' = {} /\ walk' = NoWalk
        /\ UNCHANGED <<common, session, devMode, installed, calls>>
    BY <1>2 DEF ServerAbends
  <2>2. todo' \in Seq(Services) /\ parms' \subseteq parms
    BY <2>1
  <2> QED
    BY <2>1, <2>2, DownKeeps
<1> QED
  BY <1>1, <1>2

\* Every step of the server keeps the invariant,
LEMMA ServerKeeps == ASSUME ZisInv, ServerNext PROVE ZisInv'
<1>1. CASE initServer \/ ClearActive \/ ClearServe \/ removePluginFromLPAIfNeeded \/ deployPlugins
  BY <1>1, InitServerKeeps, ClearActiveKeeps, ClearServeKeeps, RemoveKeeps, DeployKeeps
<1>2. CASE PluginSkipped \/ visitPluginParm \/ BindService \/ zisUpdateServiceAnchor \/ callServiceInit \/ PutService
           \/ ActivateService
  BY <1>2, SkippedKeeps, VisitKeeps, BindKeeps, UpdateKeeps, ServiceInitKeeps, PutKeeps, ActivateKeeps
<1>3. CASE SetReady \/ cleanupServer \/ ServerEnds \/ ServerAbends
  BY <1>3, ReadyKeeps, CleanupKeeps, EndsKeeps
<1> QED
  BY <1>1, <1>2, <1>3 DEF ServerNext

\* and so does a step that changes nothing.
LEMMA StutterKeeps == ASSUME ZisInv, UNCHANGED vars PROVE ZisInv'
<1>0. UNCHANGED <<table, anchors, plugAnchor, plugList, lpa, ready, phase, session, devMode, parms, walk, todo,
                  plugins, installed, caller, calls>>
  BY DEF vars, common, server, clients
<1>1. StoreInv'
  BY <1>0 DEF ZisInv, StoreInv, TypeOK, PlugOK, PluginsOK
<1>2. AnchorsOK' /\ WalkOK' /\ ActiveOK' /\ SessionOK'
  BY <1>0 DEF ZisInv, TableInv, AnchorsOK, WalkOK, ActiveOK, Seen, SessionOK
<1>3. InstalledOK' /\ InstallOK'
  BY <1>0 DEF ZisInv, TableInv, InstalledOK, HasAnchor, InstallOK, BoundTo, PartlyBound, path, plugin, service, code
<1>4. \A c \in Callers : CallOK(caller[c])'
  BY <1>0 DEF ZisInv, CallOK
<1> QED
  BY <1>1, <1>2, <1>3, <1>4 DEF ZisInv, TableInv

\* The anchors, the table, the plug-ins in LPA and the calls in progress agree
\* in every state, over any number of starts, ends and ABENDs of the server
\* (c/zis/server.c).
THEOREM ServerConsistent == Spec => []ZisInv
<1>1. Init => ZisInv
  BY InitInv
<1>2. ZisInv /\ [Next]_vars => ZisInv'
  BY ServerKeeps, CallersKeep, StutterKeeps DEF Next
<1> QED
  BY <1>1, <1>2, PTL DEF Spec

-----------------------------------------------------------------------------
\* A call that zisRouteService accepted in this session, or that found a service
\* of this session ACTIVE, runs the routine of a service that this session
\* installed, under the path that was asked for.
THEOREM CallsRunInstalled == Spec => []ServesInstalled
<1>1. ZisInv => ServesInstalled
  <2> SUFFICES ASSUME ZisInv, NEW c \in Callers, caller[c].step = "serving",
                      session \in {caller[c].session, caller[c].found}
               PROVE  caller[c].code.path = caller[c].path /\ \E i \in installed : i.code = caller[c].code
    BY DEF ServesInstalled
  <2>1. CallOK(caller[c]) /\ InstalledOK
    BY DEF ZisInv, TableInv
  <2>2. PICK s \in installed : s.path = caller[c].path /\ s.code = caller[c].code
    BY <2>1 DEF CallOK, RouterSteps
  <2> QED
    BY <2>1, <2>2 DEF InstalledOK
<1> QED
  BY <1>1, ServerConsistent, PTL

\* A call that found a service of this session ACTIVE (zisRouteService) runs a
\* routine with a specific SAF check only with access to the profile that this
\* session's descriptor names, whichever release made the anchor and whichever
\* session accepted the call (isServiceAnchorCompatible, zisUpdateServiceAnchor).  Nothing is said of a call that passed the state
\* test in an earlier session.
THEOREM CallsAuthorized == Spec => []SpecificAuthEnforced
<1>1. ZisInv => SpecificAuthEnforced
  BY DEF ZisInv, CallOK, RouterSteps, SpecificAuthEnforced
<1> QED
  BY <1>1, ServerConsistent, PTL

\* While the server is ready, what is ACTIVE in its table is what this session
\* installed, and a plug-in in LPA runs from a copy of its own version
\* (installServices, relocatePluginToLPAIfNeeded).
THEOREM TableAlwaysExact == Spec => []ReadyTableExact
<1>1. ZisInv => ReadyTableExact
  <2> SUFFICES ASSUME ZisInv, ready PROVE ReadyTableExact
    BY DEF ReadyTableExact
  <2>0. TypeOK /\ PlugOK /\ PluginsOK /\ AnchorsOK /\ ActiveOK /\ InstalledOK /\ phase \in Deployed
        /\ plugins \in Seq(Modules)
    BY DEF ZisInv, StoreInv, TableInv, TypeOK, SessionOK, Deployed
  <2>1. ASSUME NEW m \in Range(plugins), m.lpa
        PROVE  plugAnchor[m.name].copy \in lpa /\ plugAnchor[m.name].copy.version = m.version
    <3>1. m.name \in Names
      <4>1. m \in Modules
        BY <2>0, <2>1 DEF Range
      <4> QED
        BY <4>1 DEF Names
    <3>2. plugAnchor[m.name].lpa /\ plugAnchor[m.name].version = m.version
      BY <2>0, <2>1 DEF PluginsOK
    <3> QED
      BY <2>0, <3>1, <3>2 DEF PlugOK
  <2> DEFINE Entry(p) ==
               [path |-> p, code |-> anchors[table[p]].serve, ss |-> anchors[table[p]].ss,
                saf |-> IF anchors[table[p]].auth THEN anchors[table[p]].saf ELSE NoSaf,
                version |-> anchors[table[p]].serviceVersion]
             Says(i) == [path |-> i.path, code |-> i.code, ss |-> i.ss, saf |-> i.saf, version |-> i.version]
             Active == {q \in Paths : table[q] # NULL /\ anchors[table[q]].active}
  <2>2. ASSUME NEW s \in installed
        PROVE  s.path \in Paths /\ table # <<>> /\ table[s.path] # NULL /\ anchors[table[s.path]].active
               /\ Entry(s.path) = Says(s)
    <3>1. HasAnchor(s) /\ s.path \in Paths
      BY <2>0 DEF InstalledOK, TypeOK, Installs
    <3>2. PICK a : a = anchors[table[s.path]]
      OBVIOUS
    <3>3. /\ table # <<>> /\ table[s.path] # NULL /\ a.active /\ a.serve = s.code /\ a.ss = s.ss
          /\ a.serviceVersion = s.version /\ (a.auth <=> s.saf # NoSaf) /\ (s.saf # NoSaf => a.saf = s.saf)
      BY <2>0, <3>1, <3>2 DEF HasAnchor
    <3>4. (IF a.auth THEN a.saf ELSE NoSaf) = s.saf
      BY <3>3
    <3> QED
      BY <3>1, <3>2, <3>3, <3>4
  <2>3. ASSUME table # <<>>, NEW p \in Active PROVE \E s \in installed : s.path = p
    <3>1. table[p] \in 1..Len(anchors) /\ anchors[table[p]].path = p /\ anchors[table[p]].active
      BY <2>0, <2>3, EntryIs
    <3>2. Seen
      BY <2>0 DEF Seen
    <3> QED
      BY <2>0, <3>1, <3>2 DEF ActiveOK
  <2>4. table # <<>> => {Entry(p) : p \in Active} = {Says(i) : i \in installed}
    <3> SUFFICES ASSUME table # <<>> PROVE {Entry(p) : p \in Active} = {Says(i) : i \in installed}
      OBVIOUS
    <3>1. \A s \in installed : s.path \in Active /\ Entry(s.path) = Says(s)
      BY <2>2
    <3>2. \A p \in Active : \E s \in installed : s.path = p
      BY <2>3
    <3> HIDE DEF Entry, Says, Active
    <3> QED
      BY <3>1, <3>2
  <2> QED
    BY <2>1, <2>4 DEF ReadyTableExact
<1> QED
  BY <1>1, ServerConsistent, PTL

\* Only dev mode takes a copy out of LPA: the steps that could are
\* removePluginFromLPAIfNeeded and relocatePluginToLPAIfNeeded.
LEMMA CopiesStay == ASSUME [Next]_vars, ~devMode' PROVE lpa \subseteq lpa'
<1>1. CASE removePluginFromLPAIfNeeded
  BY <1>1 DEF removePluginFromLPAIfNeeded
<1>2. CASE visitPluginParm
  <2>1. PICK x \in parms : \E r \in relocatePluginToLPAIfNeeded(x[2]) : installPlugin(x[2], r)
    BY <1>2, Zenon DEF visitPluginParm
  <2>2. PICK m : m = x[2]
    OBVIOUS
  <2>3. PICK r \in relocatePluginToLPAIfNeeded(m) : lpa' = r.lpa
    BY <2>1, <2>2, Zenon DEF installPlugin
  <2>4. UNCHANGED devMode
    BY <1>2, Zenon DEF visitPluginParm
  <2>5. deletedCopies(m) = {}
    BY <2>4 DEF deletedCopies
  <2>6. lpa \subseteq r.lpa
    <3> DEFINE kept == IF devMode \/ versionChanged(m) THEN forgotten(pluginAnchor(m)) ELSE pluginAnchor(m)
               copy == [name |-> m.name, version |-> m.version, session |-> session]
               there == lpa \ deletedCopies(m)
    <3>1. \/ r = [ok |-> TRUE, anchor |-> [kept EXCEPT !.lpa = TRUE, !.copy = copy], lpa |-> there \cup {copy}]
          \/ r = [ok |-> TRUE, anchor |-> kept, lpa |-> there]
          \/ r = [ok |-> FALSE, anchor |-> pluginAnchor(m), lpa |-> lpa]
          \/ r = [ok |-> FALSE, anchor |-> kept, lpa |-> there]
      BY <2>3 DEF relocatePluginToLPAIfNeeded
    <3>2. there = lpa
      BY <2>5
    <3> HIDE DEF kept, copy, there
    <3>3. r.lpa \in {there, there \cup {copy}, lpa}
      BY <3>1
    <3> QED
      BY <3>2, <3>3
  <2> QED
    BY <2>3, <2>6
<1>3. CASE initServer \/ ClearActive \/ ClearServe \/ deployPlugins \/ PluginSkipped
  BY <1>3, Zenon DEF initServer, ClearActive, ClearServe, deployPlugins, PluginSkipped, common
<1>4. CASE BindService \/ zisUpdateServiceAnchor \/ callServiceInit \/ PutService \/ ActivateService \/ SetReady
  BY <1>4, Zenon DEF BindService, zisUpdateServiceAnchor, callServiceInit, PutService, ActivateService, SetReady, common
<1>5. CASE cleanupServer \/ ServerEnds \/ ServerAbends
  BY <1>5, Zenon DEF cleanupServer, ServerEnds, ServerAbends, common
<1>6. CASE \E c \in Callers : CallerNext(c)
  <2>1. PICK c \in Callers : CallerNext(c)
    BY <1>6
  <2>2. CASE zisCallService(c) \/ CallRouter(c) \/ RouteLookup(c) \/ RouteVersion(c)
    BY <2>2, Zenon DEF zisCallService, CallRouter, RouteLookup, RouteVersion, common
  <2>3. CASE RouteState(c) \/ RouteAuth(c) \/ Serve(c) \/ ServeReturns(c)
    BY <2>3, Zenon DEF RouteState, RouteAuth, Serve, ServeReturns, common
  <2> QED
    BY <2>1, <2>2, <2>3 DEF CallerNext
<1>7. CASE UNCHANGED vars
  BY <1>7 DEF vars, common
<1> QED
  BY <1>1, <1>2, <1>3, <1>4, <1>5, <1>6, <1>7 DEF Next, ServerNext

\* Outside dev mode, LPA code that a caller runs stays in LPA until the call
\* returns, whatever the server does (relocatePluginToLPAIfNeeded forgets the
\* copy of another version and does not delete it).
THEOREM LpaCodeStays == Spec => RunningLpaCodeStays
<1>1. ASSUME [Next]_vars
      PROVE  [\A c \in Callers :
                caller[c].step = "serving" /\ caller[c].code.lpa /\ Present(caller[c].code, lpa) /\ ~devMode'
                  => Present(caller[c].code, lpa')]_vars
  BY <1>1, CopiesStay DEF Present
<1> QED
  BY <1>1, PTL DEF Spec, RunningLpaCodeStays

-----------------------------------------------------------------------------
\* A step of the server leaves a call alone or ends it with the server.
LEMMA ServerAndCalls ==
  ASSUME TypeOK, ServerNext, NEW c \in Callers
  PROVE  caller'[c] = caller[c] \/ caller'[c].rc = "ended"
<1>1. CASE initServer \/ ClearActive \/ ClearServe \/ removePluginFromLPAIfNeeded \/ deployPlugins \/ PluginSkipped
  BY <1>1, Zenon DEF initServer, ClearActive, ClearServe, removePluginFromLPAIfNeeded, deployPlugins, PluginSkipped,
                     clients
<1>2. CASE visitPluginParm \/ BindService \/ zisUpdateServiceAnchor \/ callServiceInit \/ PutService \/ ActivateService
  BY <1>2, Zenon DEF visitPluginParm, BindService, zisUpdateServiceAnchor, callServiceInit, PutService, ActivateService, clients
<1>3. CASE SetReady \/ cleanupServer
  BY <1>3, Zenon DEF SetReady, cleanupServer, clients
<1>4. CASE ServerEnds \/ ServerAbends
  BY <1>4, SwitchEnds DEF ServerEnds, ServerAbends
<1> QED
  BY <1>1, <1>2, <1>3, <1>4 DEF ServerNext

\* A step of a caller ends its own call at most, and says why.
LEMMA CallerEnds ==
  ASSUME ZisInv, NEW d \in Callers, CallerNext(d), NEW c \in Callers, caller[c].step # "idle",
         caller'[c].rc \in {"ABEND", "SERVICE_INACTIVE"}
  PROVE  \/ RouteState(c) /\ ~routed(c).active
         \/ Serve(c) /\ routed(c).serve = NoCode
<1>0. caller \in [Callers -> CallRecords] /\ caller[c].rc = "none"
  BY DEF ZisInv, StoreInv, TypeOK, CallOK
<1>1. ASSUME NEW k, caller' = [caller EXCEPT ![d] = k] PROVE d = c /\ caller'[c] = k
  BY <1>0, <1>1
<1>2. ASSUME NEW rc \in {"CMS_FAILED", "SERVICE_TABLE_NULL", "SERVICE_NOT_FOUND", "BAD_SERVICE_VERSION",
                         "SPECIFIC_AUTH_FAILED", "OK"}
      PROVE  ~Ends(d, rc)
  <2> SUFFICES ASSUME Ends(d, rc) PROVE FALSE
    OBVIOUS
  <2>1. PICK k : k = [Idle EXCEPT !.rc = rc] /\ k.rc = rc
    <3>1. [Idle EXCEPT !.rc = rc].rc = rc
      BY IdleIsCall
    <3> QED
      BY <3>1, Zenon
  <2>2. caller' = [caller EXCEPT ![d] = k]
    BY <2>1 DEF Ends
  <2> QED
    BY <1>1, <2>1, <2>2
<1>3. ASSUME NEW step \in CallerSteps PROVE ~Goes(d, step)
  <2> SUFFICES ASSUME Goes(d, step) PROVE FALSE
    OBVIOUS
  <2>1. PICK k \in CallRecords : caller' = [caller EXCEPT ![d] = k] /\ k.rc = caller[d].rc
    BY <1>0, CallGoes
  <2> QED
    BY <1>0, <1>1, <2>1
<1>4. CASE zisCallService(d)
  <2>1. caller[d].step = "idle"
    BY <1>4, Zenon DEF zisCallService
  <2>2. PICK k : caller' = [caller EXCEPT ![d] = k]
    BY <1>4, Zenon DEF zisCallService, Ends
  <2> QED
    BY <1>1, <2>1, <2>2
<1>5. CASE CallRouter(d)
  <2>1. PICK k : k = [caller[d] EXCEPT !.step = "route", !.session = session]
    OBVIOUS
  <2>2. k.rc = caller[d].rc
    BY <1>0, <2>1 DEF CallRecords
  <2>3. caller' = [caller EXCEPT ![d] = k]
    BY <1>0, <1>2, <1>5, <2>1 DEF CallRouter
  <2> QED
    BY <1>0, <1>1, <2>2, <2>3
<1>6. CASE RouteLookup(d)
  <2>1. PICK k : k = [caller[d] EXCEPT !.step = "version", !.anchor = table[caller[d].path]]
    OBVIOUS
  <2>2. k.rc = caller[d].rc
    BY <1>0, <2>1 DEF CallRecords
  <2>3. caller' = [caller EXCEPT ![d] = k]
    BY <1>0, <1>2, <1>6, <2>1 DEF RouteLookup
  <2> QED
    BY <1>0, <1>1, <2>2, <2>3
<1>7. CASE RouteVersion(d)
  BY <1>2, <1>3, <1>7 DEF RouteVersion, CallerSteps, RouterSteps
<1>8. CASE RouteState(d)
  <2>0. caller' # [caller EXCEPT ![d].step = "auth", ![d].found = foundIn(d)]
    <3>1. PICK k : k = [caller[d] EXCEPT !.step = "auth", !.found = foundIn(d)]
      OBVIOUS
    <3>2. k.rc = caller[d].rc
      BY <1>0, <3>1 DEF CallRecords
    <3>3. caller' # [caller EXCEPT ![d] = k]
      BY <1>0, <1>1, <3>2
    <3> QED
      BY <1>0, <3>1, <3>3
  <2>1. Ends(d, "SERVICE_INACTIVE") /\ ~routed(d).active
    BY <1>8, <2>0 DEF RouteState
  <2>2. d = c
    BY <1>1, <2>1 DEF Ends
  <2> QED
    BY <1>8, <2>1, <2>2
<1>9. CASE RouteAuth(d)
  BY <1>2, <1>3, <1>9 DEF RouteAuth, CallerSteps, RouterSteps
<1>10. CASE Serve(d)
  <2>1. PICK k : k = [caller[d] EXCEPT !.step = "serving", !.code = routed(d).serve]
    OBVIOUS
  <2>2. k.rc = caller[d].rc
    BY <1>0, <2>1 DEF CallRecords
  <2>3. caller' # [caller EXCEPT ![d] = k]
    BY <1>0, <1>1, <2>2
  <2>4. Ends(d, "ABEND") /\ routed(d).serve = NoCode
    BY <1>0, <1>10, <2>1, <2>3 DEF Serve
  <2>5. d = c
    BY <1>1, <2>4 DEF Ends
  <2> QED
    BY <1>10, <2>4, <2>5
<1>11. CASE ServeReturns(d)
  BY <1>2, <1>11 DEF ServeReturns
<1> QED
  BY <1>4, <1>5, <1>6, <1>7, <1>8, <1>9, <1>10, <1>11 DEF CallerNext

\* As long as READY is on, zisRouteService does not turn a call away from an
\* installed service as inactive and does not call a null routine: nothing
\* takes the anchor from under it.
THEOREM StableCalls == Spec => StableWhileReady
<1>1. ASSUME ZisInv, [Next]_vars
      PROVE  [\A c \in Callers :
                ready /\ caller[c].session = session /\ caller'[c].rc \in {"ABEND", "SERVICE_INACTIVE"}
                  /\ caller[c].step # "idle" =>
                    ~\E i \in installed : i.path = caller[c].path]_vars
  <2> SUFFICES ASSUME NEW c \in Callers, ready, caller[c].session = session, caller[c].step # "idle",
                      caller'[c].rc \in {"ABEND", "SERVICE_INACTIVE"},
                      NEW s \in installed, s.path = caller[c].path, Next
               PROVE  FALSE
    BY <1>1
  <2>0. TypeOK /\ InstalledOK /\ CallOK(caller[c]) /\ phase \in Deployed /\ caller[c].rc = "none"
    BY <1>1 DEF ZisInv, StoreInv, TableInv, SessionOK, Deployed, CallOK
  <2>1. ~ServerNext
    BY <2>0, ServerAndCalls
  <2>2. PICK d \in Callers : CallerNext(d)
    BY <2>1 DEF Next
  <2>3. \/ RouteState(c) /\ ~routed(c).active
        \/ Serve(c) /\ routed(c).serve = NoCode
    BY <1>1, <2>2, CallerEnds
  <2>4. routed(c) = anchors[table[s.path]]
    <3>1. caller[c].step \in {"state", "serve"}
      BY <2>3 DEF RouteState, Serve
    <3> QED
      BY <2>0, <3>1 DEF CallOK, RouterSteps, routed
  <2>5. routed(c).active /\ routed(c).serve = s.code /\ s.code.path = s.path /\ s.path # <<>>
    BY <2>0, <2>4 DEF InstalledOK, HasAnchor
  <2> QED
    BY <2>3, <2>5, NoCodeIsCode
<1> QED
  BY <1>1, ServerConsistent, PTL DEF Spec, StableWhileReady
=============================================================================

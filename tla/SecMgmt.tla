------------------------------ MODULE SecMgmt -------------------------------
(***************************************************************************)
(* Security management: the REST service (c/securityService.c), the client *)
(* of the cross-memory server (c/zis/client.c) and the services behind it, *)
(* for RACF (c/zis/services/secmgmt.c) and for Top Secret (secmgmttss.c).  *)
(*                                                                         *)
(* Requests run in subtasks, so the commands of several requests reach the *)
(* security manager (external) interleaved.  Classes and groups are        *)
(* administered alike: a resource is a profile of the class or a group, an *)
(* access list says which user has which access to it.  Profiles, groups   *)
(* and users are numbers in the order of their names.                      *)
(*                                                                         *)
(* RACF answers access checks from a copy of the class in storage, which   *)
(* SETROPTS REFRESH makes again; Top Secret has no such copy.  A permission *)
(* replaces the user's earlier one in RACF and is added to it in Top       *)
(* Secret.  respondWithAccessInfo asks for the access of each user to each *)
(* profile; those calls change nothing and are left out.                   *)
(***************************************************************************)
EXTENDS Integers, FiniteSets, SequencesExt

CONSTANTS
  Tasks,        \* subtasks that serve requests
  Profiles,     \* profiles of the class
  Groups,       \* groups
  Users,        \* users
  UserTypes,    \* the users of each type of Top Secret (USER, DCA, VCA, ...)
  Supported,    \* resources of the products that may be administered
  Prefixed,     \* profiles with the prefix that access requests ask for
  DefaultSize,  \* entries that fit in the first buffer for a list
  MaxSize,      \* entries that the largest buffer may have
  PageSize,     \* profiles extracted at a time by an access request
  Count,        \* names that a client asks for at a time
  PerLine,      \* users on a line of Top Secret's output
  Managers,     \* security managers
  Databases,    \* bound: contents of the database at the start
  Requests,     \* bound: requests that clients make
  MaxRequests   \* bound: number of requests

Resources == Profiles \cup Groups
None      == 0        \* no name in the request
NoUser    == 0
Lists     == [Users -> SUBSET {"READ", "ALTER", "ALL", "USE", "JOIN"}]
Nobody    == [u \in Users |-> {}]

ASSUME SecMgmtAssumption ==
  /\ Profiles \subseteq Nat \ {None} /\ Groups \subseteq Nat \ {None} /\ Profiles \cap Groups = {}
  /\ Users \subseteq Nat \ {NoUser} /\ UserTypes \in Seq(SUBSET Users) /\ Users = UNION ToSet(UserTypes)
  /\ Supported \subseteq Resources /\ Prefixed \subseteq Profiles /\ Prefixed # {}
  /\ DefaultSize \in Nat \ {0} /\ MaxSize \in Nat /\ PerLine \in Nat \ {0} /\ PageSize \in Nat \ {0, 1} /\ Count \in Nat \ {0, 1}
  /\ Managers \subseteq {"RACF", "TSS"} /\ MaxRequests \in Nat
  /\ IsFiniteSet(Profiles) /\ IsFiniteSet(Groups) /\ IsFiniteSet(Users)

ASSUME DatabasesAssumption ==
  \A d \in Databases : d.exists \subseteq Resources /\ d.acl \in [Resources -> Lists]

\* The URL of a request has a profile, a group or no name, and a class only where
\* classes are managed; a body without an access is bad.
ASSUME RequestsAssumption ==
  /\ Requests \subseteq [mgmt : {"classes", "groups", "users", "access"},
                         kind : {"define", "delete", "give", "revoke", "list", "page", "access"},
                         res : Resources \cup {None}, user : Users \cup {NoUser},
                         access : {"READ", "ALTER", "USE", "JOIN", "none"},
                         class : {"default", "other"}, body : {"good", "bad"}, dryRun : BOOLEAN]
  /\ \A r \in Requests :
       /\ r.res \in {None} \cup IF r.mgmt = "classes" THEN Profiles ELSE Groups
       /\ r.kind = "access" <=> r.mgmt = "access"
       /\ r.mgmt = "users" => r.kind = "page"
       /\ r.mgmt # "classes" => r.class = "default"
       /\ r.kind = "give" /\ r.body = "good" => r.access # "none"

VARIABLES
  esm,          \* getExternalSecurityManager
  autoRefresh,  \* ZWES.SECMGMT.AUTOREFRESH=YES
  exists,       \* resources that are defined
  acl,          \* access list of each resource
  raclist,      \* RACF's copy of the class: <<profiles, access lists>>
  task,         \* what each subtask is doing
  requests      \* requests made so far

db     == <<exists, acl>>
config == <<esm, autoRefresh>>
vars   == <<config, db, raclist, task, requests>>

NoRequest == [mgmt |-> "none", kind |-> "none", res |-> None, user |-> NoUser, access |-> "none",
              class |-> "default", body |-> "good", dryRun |-> TRUE]
Idle == [step |-> "idle", req |-> NoRequest, status |-> 0,
         cap |-> 0, tries |-> 0,        \* extraction of a list
         rows |-> {}, junk |-> FALSE,   \* what its buffer holds; that it was never filled
         start |-> 0, found |-> <<>>,   \* extraction of names, what the client has of them
         more |-> FALSE,                \* hasMore of the response
         late |-> FALSE,                \* ghost: a page started in a later block of the output
         whole |-> {}, grown |-> FALSE, \* ghost: the list when last extracted; that it grew
         stay |-> {},                   \* ghost: profiles to be found, defined all the time
         contested |-> FALSE]           \* ghost: others have changed the resource since

Failed == [Idle EXCEPT !.step = "done", !.status = 500]

Init ==
  /\ esm \in Managers /\ autoRefresh \in BOOLEAN
  /\ \E d \in Databases : exists = d.exists /\ acl = d.acl
  /\ raclist = <<exists, acl>>
  /\ task = [t \in Tasks |-> Idle] /\ requests = 0

-----------------------------------------------------------------------------
At(t, step) == task[t].step = step
Req(t)      == task[t].req
Goes(t, step) == task' = [task EXCEPT ![t].step = step]
Respond(t, status) == task' = [task EXCEPT ![t].step = "done", ![t].status = status]

\* The tests of a handler, each with the status that a request which fails it is
\* refused with, in their order, and the first call for one that passes them.
Checked(tests, step) ==
  LET failed == {i \in DOMAIN tests : tests[i][1]} IN
  IF failed = {} THEN [step |-> step, status |-> 0]
  ELSE [step |-> "done", status |-> tests[Min(failed)][2]]

\* A request for a class is allowed only if it leaves the name of the class out.
Forbidden(r) == <<r.class # "default", 403>>
NoName(r)    == <<r.res = None, 400>>
NoEntry(r)   == <<r.user = NoUser, 400>>
BadBody(r)   == <<r.body = "bad", 400>>     \* or a count out of range

\* Top Secret's service for profiles asks something first.
PermitFirst(r) == IF esm = "TSS" THEN "permitted" ELSE "change"
OwnerFirst(r)  == IF esm = "TSS" THEN "owner" ELSE "change"

respondToProfileGET(r)    == Checked(<<Forbidden(r), <<r.res # None, 501>>, BadBody(r)>>, "page")
respondToProfilePOST(r)   == Checked(<<Forbidden(r), NoName(r)>>, "change")
respondToProfileDELETE(r) == Checked(<<Forbidden(r), NoName(r)>>, OwnerFirst(r))
respondToProfileAccessListPUT(r) ==
  Checked(<<Forbidden(r), NoName(r), NoEntry(r), BadBody(r)>>, PermitFirst(r))
respondToProfileAccessListGET(r)    == Checked(<<Forbidden(r), <<r.user # NoUser, 501>>>>, "list")
respondToProfileAccessListDELETE(r) == Checked(<<Forbidden(r), NoName(r), NoEntry(r)>>, "change")

respondToGroupGET(r)              == Checked(<<BadBody(r)>>, "page")
respondToGroupPOST(r)             == Checked(<<NoName(r), BadBody(r)>>, "change")
respondToGroupDELETE(r)           == Checked(<<NoName(r)>>, "change")
respondToGroupAccessListPUT(r)    == Checked(<<NoName(r), NoEntry(r), BadBody(r)>>, "change")
respondToGroupAccessListGET(r)    == Checked(<<<<r.user # NoUser, 501>>>>, "list")
respondToGroupAccessListDELETE(r) == Checked(<<NoName(r), NoEntry(r)>>, "change")

serveClassManagement(r) ==
  CASE r.kind = "page"   -> respondToProfileGET(r)
    [] r.kind = "define" -> respondToProfilePOST(r)
    [] r.kind = "delete" -> respondToProfileDELETE(r)
    [] r.kind = "give"   -> respondToProfileAccessListPUT(r)
    [] r.kind = "list"   -> respondToProfileAccessListGET(r)
    [] r.kind = "revoke" -> respondToProfileAccessListDELETE(r)

serveGroupManagement(r) ==
  CASE r.kind = "page"   -> respondToGroupGET(r)
    [] r.kind = "define" -> respondToGroupPOST(r)
    [] r.kind = "delete" -> respondToGroupDELETE(r)
    [] r.kind = "give"   -> respondToGroupAccessListPUT(r)
    [] r.kind = "list"   -> respondToGroupAccessListGET(r)
    [] r.kind = "revoke" -> respondToGroupAccessListDELETE(r)

serveUserProfile(r) == Checked(<<BadBody(r)>>, "page")
serveAccessInfo(r)  == Checked(<<NoName(r)>>, "members")

\* What the pages that a request begins are to show.
Listed(r) == CASE r.mgmt = "classes" -> exists \cap Profiles [] r.mgmt = "groups" -> exists \cap Groups
               [] r.mgmt = "users" -> Users

Serve(t) ==
  /\ task[t].step \in {"idle", "done"} /\ requests < MaxRequests /\ requests' = requests + 1
  /\ \E r \in Requests :
       LET first == CASE r.mgmt = "classes" -> serveClassManagement(r)
                      [] r.mgmt = "groups"  -> serveGroupManagement(r)
                      [] r.mgmt = "users"   -> serveUserProfile(r)
                      [] r.mgmt = "access"  -> serveAccessInfo(r) IN
       task' = [task EXCEPT ![t] = [Idle EXCEPT !.step = first.step, !.status = first.status,
                  !.stay = IF first.step = "page" THEN Listed(r) ELSE {},
                  !.req = IF first.step = "done" THEN NoRequest ELSE r, !.cap = IF first.step = "done" THEN 0 ELSE DefaultSize]]
  /\ UNCHANGED <<config, db, raclist>>

\* A call fails: no server, no impersonation, no class, no storage, a resource
\* of another product, or the security manager refuses.
respondWithZISError(t) ==
  /\ task[t].step \notin {"idle", "done"}
  /\ task' = [task EXCEPT ![t] = Failed] /\ UNCHANGED <<config, db, raclist, requests>>

-----------------------------------------------------------------------------
(* Commands of the security manager (external) *)

Stored(a) == IF esm = "TSS" THEN CASE a = "ALTER" -> "ALL" [] a = "JOIN" -> "USE" [] OTHER -> a ELSE a
Shown(a)  == IF a = "ALL" THEN "ALTER" ELSE a

Possible(r) ==
  CASE r.kind = "define" -> r.res \notin exists
    [] r.kind = "delete" -> r.res \in exists
    [] r.kind = "give"   -> r.res \in exists
    [] r.kind = "revoke" -> r.res \in exists /\ acl[r.res][r.user] # {}

\* The user's entry when the access has been given.
Given(r) == IF esm = "TSS" /\ r.res \in Profiles THEN acl[r.res][r.user] \cup {Stored(r.access)}
            ELSE {Stored(r.access)}

Revoked(r) == acl' = [acl EXCEPT ![r.res][r.user] = {}] /\ UNCHANGED exists

Applied(r) ==
  CASE r.kind = "define" -> exists' = exists \cup {r.res} /\ acl' = [acl EXCEPT ![r.res] = Nobody]
    [] r.kind = "delete" -> exists' = exists \ {r.res} /\ acl' = [acl EXCEPT ![r.res] = Nobody]
    [] r.kind = "give"   -> acl' = [acl EXCEPT ![r.res][r.user] = Given(r)] /\ UNCHANGED exists
    [] r.kind = "revoke" -> Revoked(r)

\* What the others' ghosts learn of a change that t makes, and t's next step.  For
\* a permission in Top Secret the user's list counts from when it was looked at.
Changed(t, step, status) ==
  LET r == Req(t) IN
  task' = [o \in Tasks |->
    IF o = t THEN [task[t] EXCEPT !.step = step, !.status = status,
                               !.contested = @ /\ esm = "TSS" /\ r.kind = "give" /\ r.res \in Profiles]
    ELSE [task[o] EXCEPT !.contested = @ \/ Req(o).res = r.res,
                         !.grown = @ \/ (r.kind = "give" /\ Req(o).res = r.res),
                         !.stay = IF r.kind = "delete" THEN @ \ {r.res} ELSE @]]

OkStatus(r) == IF r.dryRun THEN 200 ELSE IF r.kind = "define" THEN 201 ELSE 204

-----------------------------------------------------------------------------
(* Administration *)

validateGenresParmList(r) == r.res \in Supported
validateGroupParmList(r)  == r.res \in Supported

executeAdminCommand_DryRunIgnored(t, step) ==
  LET r == Req(t) IN
  Possible(r) /\ Applied(r) /\ Changed(t, step, IF step = "done" THEN OkStatus(r) ELSE 0)
\* A dry run only returns the text of the command.
executeAdminCommand(t, step) ==
  LET r == Req(t) IN
  IF r.dryRun THEN Respond(t, OkStatus(r)) /\ UNCHANGED db
  ELSE Possible(r) /\ Applied(r) /\ Changed(t, step, IF step = "done" THEN OkStatus(r) ELSE 0)

zisGenresProfileAdminServiceFunctionRACF(t) ==
  /\ esm = "RACF" /\ validateGenresParmList(Req(t))
  /\ executeAdminCommand(t, "refresh") /\ UNCHANGED <<config, raclist, requests>>

zisGenresProfileAdminServiceFunctionTSS(t) ==
  /\ esm = "TSS" /\ validateGenresParmList(Req(t))
  /\ executeAdminCommand(t, "done") /\ UNCHANGED <<config, raclist, requests>>

zisGroupAdminServiceFunctionRACF(t) ==
  /\ esm = "RACF" /\ validateGroupParmList(Req(t))
  /\ executeAdminCommand(t, "done") /\ UNCHANGED <<config, raclist, requests>>

zisGroupAdminServiceFunctionTSS(t) ==
  /\ esm = "TSS" /\ validateGroupParmList(Req(t))
  /\ executeAdminCommand(t, "done") /\ UNCHANGED <<config, raclist, requests>>

\* The client's part of a change; the service is that of the security manager.
handleProfileFunction(t) ==
  /\ At(t, "change") /\ Req(t).mgmt = "classes"
  /\ zisGenresProfileAdminServiceFunctionRACF(t) \/ zisGenresProfileAdminServiceFunctionTSS(t)

handleGroupAdminFunction(t) ==
  /\ At(t, "change") /\ Req(t).mgmt = "groups"
  /\ zisGroupAdminServiceFunctionRACF(t) \/ zisGroupAdminServiceFunctionTSS(t)

performRefreshIfNeeded(t) ==
  /\ At(t, "refresh")
  /\ raclist' = IF autoRefresh THEN <<exists, acl>> ELSE raclist
  /\ Respond(t, OkStatus(Req(t))) /\ UNCHANGED <<config, db, requests>>

isUserAlreadyPermitted_NotRevoked(t) ==
  /\ At(t, "permitted") /\ Req(t).res \in Supported
  /\ task' = [task EXCEPT ![t].step = "change", ![t].contested = FALSE]
  /\ UNCHANGED <<config, db, raclist, requests>>
\* Top Secret: a user who is permitted already is revoked first.
isUserAlreadyPermitted(t) ==
  LET r == Req(t) IN
  /\ At(t, "permitted") /\ validateGenresParmList(r)
  /\ task' = [task EXCEPT ![t].step = IF r.dryRun \/ acl[r.res][r.user] = {} THEN "change" ELSE "revokeFirst",
                          ![t].contested = FALSE]
  /\ UNCHANGED <<config, db, raclist, requests>>

\* The other requests see a revocation like any other.
handleRevokeAccess(t) ==
  LET r == Req(t) IN
  /\ At(t, "revokeFirst") /\ Possible([r EXCEPT !.kind = "revoke"]) /\ Revoked(r)
  /\ task' = [o \in Tasks |->
       IF o = t THEN [task[t] EXCEPT !.step = "change"]
       ELSE [task[o] EXCEPT !.contested = @ \/ Req(o).res = r.res]]
  /\ UNCHANGED <<config, raclist, requests>>

\* Top Secret: the owner is needed to delete a profile.
getGenresProfileOwner(t) ==
  /\ At(t, "owner") /\ Req(t).res \in exists \cap Supported
  /\ Goes(t, "change") /\ UNCHANGED <<config, db, raclist, requests>>

-----------------------------------------------------------------------------
(* Access lists *)

Entries(res) == UNION {{<<u, Shown(a)>> : a \in acl[res][u]} : u \in Users}
Lines(n) == (n + PerLine - 1) \div PerLine
Least(a, b) == IF a < b THEN a ELSE b

\* The services for lists: of n entries, those put into a buffer of a size, and
\* the entries reported as found if the buffer is too small, 0 if it is not.
zisGenresAccessListServiceFunctionRACF(n, cap) ==
  IF n <= cap THEN [taken |-> n, short |-> 0] ELSE [taken |-> 0, short |-> n]
zisGroupAccessListServiceFunctionRACF(n, cap) ==
  IF n <= cap THEN [taken |-> n, short |-> 0] ELSE [taken |-> 0, short |-> n]

\* The branch for a buffer that is too small is never reached.
zisGenresAccessListServiceFunctionTSS(n, cap) == [taken |-> Least(n, cap), short |-> 0]

\* groupAccessListHandler counts lines; up to a line may be missing unnoticed.
groupAccessListHandler(n, cap) == Least(n, PerLine * Lines(cap))
zisGroupAccessListServiceFunctionTSS(n, cap) ==
  LET taken == groupAccessListHandler(n, cap) IN
  IF PerLine * Lines(n) - taken > PerLine THEN [taken |-> 0, short |-> PerLine * Lines(n)]
  ELSE [taken |-> taken, short |-> 0]

zisExtractGenresAccessList(n, cap) ==
  IF esm = "RACF" THEN zisGenresAccessListServiceFunctionRACF(n, cap)
  ELSE zisGenresAccessListServiceFunctionTSS(n, cap)
zisExtractGroupAccessList(n, cap) ==
  IF esm = "RACF" THEN zisGroupAccessListServiceFunctionRACF(n, cap)
  ELSE zisGroupAccessListServiceFunctionTSS(n, cap)
Extract(res, cap) ==
  LET n == Cardinality(Entries(res)) IN
  IF res \in Profiles THEN zisExtractGenresAccessList(n, cap) ELSE zisExtractGroupAccessList(n, cap)

\* Top Secret's output without a permission is taken for an error.
Extractable(res) == res \in exists /\ (esm = "TSS" /\ res \in Profiles => Entries(res) # {})

\* respondToProfileAccessListGET, respondToGroupAccessListGET: one round of two.
AccessListGET(t) ==
  LET r == Req(t)
      x == Extract(r.res, task[t].cap)
      s == task[t] IN
  /\ At(t, "list") /\ Extractable(r.res)
  /\ \E rows \in SUBSET Entries(r.res) :
       /\ Cardinality(rows) = x.taken
       /\ task' = [task EXCEPT ![t] =
            CASE x.short = 0 -> [s EXCEPT !.step = "done", !.status = 200, !.rows = rows, !.whole = Entries(r.res)]
              [] x.short > MaxSize \/ s.tries = 1 -> Failed
              [] OTHER -> [s EXCEPT !.cap = x.short, !.tries = 1]]
  /\ UNCHANGED <<config, db, raclist, requests>>

\* The users to report: all, or the one asked for.
Asked(r, rows) == IF r.user = NoUser THEN rows ELSE {e \in rows : e[1] = r.user}

PrefixStart == CHOOSE p \in Prefixed : \A q \in Prefixed : p <= q

\* findAccessListEntryByUserID; what it finds in a buffer that was never filled
\* is anybody's guess (hit).
AfterMembers(s, rows, junk, hit, whole) ==
  LET asked == Asked(s.req, rows)
      next == [s EXCEPT !.rows = asked, !.junk = junk, !.whole = Asked(s.req, whole), !.tries = 2] IN
  IF asked = {} /\ (junk => s.req.user # NoUser /\ ~hit) THEN [next EXCEPT !.step = "done", !.status = 200]
  ELSE [next EXCEPT !.step = "scan", !.start = PrefixStart, !.stay = exists \cap Prefixed]

getAccessListByGroup_SameSize(t) ==
  LET r == Req(t)
      x == Extract(r.res, task[t].cap)
      s == task[t] IN
  /\ At(t, "members") /\ Extractable(r.res)
  /\ \E rows \in SUBSET Entries(r.res) :
       /\ Cardinality(rows) = x.taken
       /\ task' = [task EXCEPT ![t] =
            CASE x.short > MaxSize -> Failed
              [] x.short <= MaxSize /\ s.tries = 0 -> [s EXCEPT !.tries = 1]
              [] OTHER -> AfterMembers(s, rows, x.short > 0, TRUE, Entries(r.res))]
  /\ UNCHANGED <<config, db, raclist, requests>>
getAccessListByGroup_CountReset(t) ==
  LET r == Req(t)
      x == Extract(r.res, task[t].cap)
      s == task[t] IN
  /\ At(t, "members") /\ Extractable(r.res)
  /\ task' = [task EXCEPT ![t] =
       CASE x.short > MaxSize -> Failed
         [] x.short > 0 /\ x.short <= MaxSize -> [s EXCEPT !.tries = 1, !.cap = x.short]
         [] OTHER -> [s EXCEPT !.tries = 0, !.cap = DefaultSize]]
  /\ UNCHANGED <<config, db, raclist, requests>>
\* getAccessListByGroupOrFail.  Both rounds are always made, each with a new
\* buffer, and a second one that is too small is not an error.
getAccessListByGroup(t) ==
  LET r == Req(t)
      x == Extract(r.res, task[t].cap)
      s == task[t] IN
  /\ At(t, "members") /\ Extractable(r.res)
  /\ \E rows \in SUBSET Entries(r.res), hit \in BOOLEAN :
       /\ Cardinality(rows) = x.taken
       /\ task' = [task EXCEPT ![t] =
            CASE x.short > MaxSize -> Failed
              [] x.short <= MaxSize /\ s.tries = 0 -> [s EXCEPT !.tries = 1, !.cap = IF x.short > 0 THEN x.short ELSE @]
              [] OTHER -> AfterMembers(s, rows, x.short > 0, hit, Entries(r.res))]
  /\ UNCHANGED <<config, db, raclist, requests>>

-----------------------------------------------------------------------------
(* Profiles, groups and users *)

\* Names in their order, each once.
Ascending(set) ==
  CHOOSE s \in [1..Cardinality(set) -> set] : \A i, j \in DOMAIN s : i < j => s[i] < s[j]
From(start, set) == Ascending({p \in set : p >= start})
Page(seq, n) == SubSeq(seq, 1, Least(n, Len(seq)))

\* RACF starts with the first name that is not before the one asked for.
zisGenresProfilesServiceFunctionRACF(start, n) == Page(From(start, exists \cap Profiles), n)
zisGroupProfilesServiceFunctionRACF(start, n)  == Page(From(start, exists \cap Groups), n)
zisUserProfilesServiceFunctionRACF(start, n)   == Page(From(start, Users), n)

\* Top Secret lists everything, and the name to start with is looked for in the
\* list: there is nothing if it is not there.
findStartProfile(start, set) == IF start \in set \cup {None} THEN From(start, set) ELSE <<>>

genresProfileHandler(start, n) == Page(findStartProfile(start, exists \cap Profiles), n)

\* Groups and users are looked for in the blocks of the output.  In a block behind
\* the first one the place in the block still counts from the blocks before it
\* (offsetInBlock), so that the block seems to end early: its last names, from
\* some name behind j on up to the last one, e, are missing.  If the start or
\* the end of the list is among them, nothing is extracted.
Skipped(list, i, n) ==
  {<<>>} \cup {Page(SubSeq(list, i, cut[1]) \o SubSeq(list, cut[2] + 1, Len(list)), n) :
                  cut \in {c \in ((i - 1)..Len(list)) \X (i..Len(list)) : c[1] < c[2]}}

\* A page, and whether its start is in a later block; the first name never is.
InOrder(page) == [page |-> page, late |-> FALSE]
findLineOfStart(start, set, n) ==
  LET list == Ascending(set)
      later == {i \in DOMAIN list : i > 1 /\ list[i] = start} IN
  {InOrder(Page(findStartProfile(start, set), n))}
    \cup [page : UNION {Skipped(list, i, n) : i \in later}, late : {TRUE}]

groupProfilesHandler(start, n) == findLineOfStart(start, exists \cap Groups, n)

\* A name that ends in a dot is looked for as a prefix.
zisGenresProfilesServiceFunctionTSS(start, n, isPrefix) ==
  IF isPrefix THEN Page(From(start, exists \cap Prefixed), n) ELSE genresProfileHandler(start, n)

\* The users of the next type, behind those extracted already.
userProfilesHandler(start, n, got, type) ==
  {[page |-> got.page \o x.page, late |-> got.late \/ x.late] : x \in findLineOfStart(start, type, n - Len(got.page))}

\* One command for each type until the buffer is full.
getAllUsers(start, n) ==
  FoldLeft(LAMBDA all, type : UNION {userProfilesHandler(start, n, got, type) : got \in all}, {InOrder(<<>>)}, UserTypes)

\* A list of users or groups that is empty is an error.
zisGroupProfilesServiceFunctionTSS(start, n) == {x \in groupProfilesHandler(start, n) : x.page # <<>>}
zisUserProfilesServiceFunctionTSS(start, n)  == {x \in getAllUsers(start, n) : x.page # <<>>}

\* One name more than asked for tells whether there are more.  The client asks on
\* from the last name it got, which it does not take twice (external).
Paged(s, page, late) ==
  LET more == Len(page) > Count
      rows == IF more THEN Front(page) ELSE page
      news == IF rows # <<>> /\ Head(rows) = s.start THEN Tail(rows) ELSE rows IN
  [s EXCEPT !.step = "done", !.status = 200, !.more = more, !.found = @ \o news, !.late = @ \/ late,
            !.start = IF more THEN Last(rows) ELSE None]

respondWithGenresProfiles(s, page) == Paged(s, page, FALSE)
respondWithGroupProfiles(s, x)     == Paged(s, x.page, x.late)
respondWithUserProfiles(s, x)      == Paged(s, x.page, x.late)

zisExtractGenresProfiles(t) ==
  LET s == task[t]
      page == IF esm = "RACF" THEN zisGenresProfilesServiceFunctionRACF(s.start, Count + 1)
              ELSE zisGenresProfilesServiceFunctionTSS(s.start, Count + 1, FALSE) IN
  /\ At(t, "page") /\ Req(t).mgmt = "classes"
  /\ task' = [task EXCEPT ![t] = respondWithGenresProfiles(s, page)]
  /\ UNCHANGED <<config, db, raclist, requests>>

zisExtractGroupProfiles(t) ==
  LET s == task[t] IN
  /\ At(t, "page") /\ Req(t).mgmt = "groups"
  /\ \E x \in IF esm = "RACF" THEN {InOrder(zisGroupProfilesServiceFunctionRACF(s.start, Count + 1))}
              ELSE zisGroupProfilesServiceFunctionTSS(s.start, Count + 1) :
       task' = [task EXCEPT ![t] = respondWithGroupProfiles(s, x)]
  /\ UNCHANGED <<config, db, raclist, requests>>

zisExtractUserProfiles(t) ==
  LET s == task[t] IN
  /\ At(t, "page") /\ Req(t).mgmt = "users"
  /\ \E x \in IF esm = "RACF" THEN {InOrder(zisUserProfilesServiceFunctionRACF(s.start, Count + 1))}
              ELSE zisUserProfilesServiceFunctionTSS(s.start, Count + 1) :
       task' = [task EXCEPT ![t] = respondWithUserProfiles(s, x)]
  /\ UNCHANGED <<config, db, raclist, requests>>

\* The client asks for the next page.
NextPage(t) ==
  /\ At(t, "done") /\ task[t].more /\ requests < MaxRequests /\ requests' = requests + 1
  /\ task' = [task EXCEPT ![t].step = "page", ![t].more = FALSE]
  /\ UNCHANGED <<config, db, raclist>>

\* The pages of an access report: only the first one is looked for by the prefix.
Extracted(s) ==
  IF esm = "RACF" THEN zisGenresProfilesServiceFunctionRACF(s.start, PageSize)
  ELSE zisGenresProfilesServiceFunctionTSS(s.start, PageSize, s.found = <<>> /\ s.tries = 2)

\* The entries of a page that have the prefix, in the order of the page.
Matching(page) == Ascending(ToSet(page) \cap Prefixed)

getProfilesByPrefix_WholePage(t) ==
  LET s == task[t]
      page == Extracted(s)
      kept == Matching(page) IN
  /\ At(t, "scan")
  /\ task' = [task EXCEPT ![t] =
       IF Len(page) = PageSize THEN [s EXCEPT !.found = @ \o kept, !.start = Last(page), !.tries = 3]
       ELSE [s EXCEPT !.found = @ \o kept, !.step = "done", !.status = 200]]
  /\ UNCHANGED <<config, db, raclist, requests>>
\* getProfilesByPrefixOrFail: the last entry of a full page starts the next one.
getProfilesByPrefix(t) ==
  LET s == task[t]
      page == Extracted(s)
      full == Len(page) = PageSize
      kept == Matching(IF full THEN Front(page) ELSE page) IN
  /\ At(t, "scan")
  /\ task' = [task EXCEPT ![t] =
       IF full THEN [s EXCEPT !.found = @ \o kept, !.start = Last(page), !.tries = 3]
       ELSE [s EXCEPT !.found = @ \o kept, !.step = "done", !.status = 200]]
  /\ UNCHANGED <<config, db, raclist, requests>>

-----------------------------------------------------------------------------
Step(t) ==
  \/ respondWithZISError(t) \/ performRefreshIfNeeded(t)
  \/ handleProfileFunction(t) \/ handleGroupAdminFunction(t)
  \/ isUserAlreadyPermitted(t) \/ handleRevokeAccess(t) \/ getGenresProfileOwner(t)
  \/ AccessListGET(t) \/ getAccessListByGroup(t) \/ getProfilesByPrefix(t)
  \/ zisExtractGenresProfiles(t) \/ zisExtractGroupProfiles(t) \/ zisExtractUserProfiles(t)

Next == \E t \in Tasks : Serve(t) \/ NextPage(t) \/ Step(t)
Spec == Init /\ [][Next]_vars
FairSpec == Spec /\ \A t \in Tasks : WF_vars(Step(t))

-----------------------------------------------------------------------------
(* Properties *)

Answered(t, kinds) == At(t, "done") /\ Req(t).kind \in kinds
Done(t) == Answered(t, {"define", "delete", "give", "revoke"}) /\ task[t].status \in {201, 204}

\* What a request asks for, in a database or in RACF's copy of it.
Effect(r, e, a) ==
  CASE r.kind = "define" -> r.res \in e
    [] r.kind = "delete" -> r.res \notin e
    [] r.kind = "give"   -> r.res \in e /\ a[r.res][r.user] = {Stored(r.access)}
    [] r.kind = "revoke" -> a[r.res][r.user] = {}

\* A change that was answered with success is in effect, unless another request
\* changed the same resource since (in Top Secret, since the permissions of the
\* user were looked at): in the database, with no older permission left
\* beside it, and with automatic refresh also where RACF checks access
\* (performRefreshIfNeeded after the change; Top Secret's revocation first).
ChangeEffective ==
  \A t \in Tasks : Done(t) /\ ~task[t].contested =>
    /\ Effect(Req(t), exists, acl)
    /\ esm = "RACF" /\ autoRefresh /\ Req(t).mgmt = "classes" => Effect(Req(t), raclist[1], raclist[2])

\* The database changes only on behalf of a request that is not a dry run, was
\* not refused and is for a supported product, only in the resource it names,
\* and a user's entry only to what is asked or to nothing.
ChangeAsAsked ==
  [][\A res \in Resources :
       \/ acl'[res] = acl[res] /\ (res \in exists' <=> res \in exists)
       \/ \E t \in Tasks : LET r == Req(t) IN
            /\ task'[t] # task[t] /\ task[t].step \in {"change", "revokeFirst"}
            /\ r.res = res /\ ~r.dryRun /\ res \in Supported /\ r.class = "default"
            /\ r.kind \in {"give", "revoke"} =>
                 \A u \in Users : acl'[res][u] = acl[res][u] \/ (u = r.user /\ acl'[res][u] \in {{}, Given(r)})]_vars

\* RACF: a list, or the users of an access report, that is answered with success
\* is the list as it was when it was extracted last, unless it grew while the
\* request was served (buffer of the default size, then of the size found).
RowsWhole ==
  \A t \in Tasks :
    esm = "RACF" /\ At(t, "done") /\ task[t].status = 200 /\ (Answered(t, {"list"}) \/ Req(t).mgmt = "access")
      /\ ~task[t].grown =>
      ~task[t].junk /\ task[t].rows = task[t].whole

\* An access report has every profile with the prefix that was defined all the
\* time, and the pages of profiles, groups or users that a client reads until
\* hasMore is false have every name that was there all the time, none twice,
\* whatever others define and delete between two pages.  For RACF, and for the
\* groups of Top Secret as long as the start of every page is in the first block
\* of the output: behind it groupProfilesHandler leaves names out
\* (getProfilesByPrefixOrFail, respondWithGroupProfiles).
ScanComplete ==
  \A t \in Tasks :
    /\ At(t, "done") /\ task[t].status = 200 /\ ~task[t].more
    /\ \/ esm = "RACF" /\ (Req(t).mgmt = "access" \/ Req(t).kind = "page")
       \/ Req(t).mgmt = "groups" /\ Req(t).kind = "page" /\ ~task[t].late
    => task[t].stay \subseteq ToSet(task[t].found) /\ IsInjective(task[t].found)

\* Every request is answered: the rounds for a list are bounded and every page
\* starts further on.
RequestsAnswered == \A t \in Tasks : ~At(t, "done") /\ ~At(t, "idle") ~> At(t, "done")
=============================================================================

---------------------------- MODULE CoreServices ----------------------------
(***************************************************************************)
(* The core services of the cross-memory server (c/zis/services/auth.c,    *)
(* snarfer.c, nwm.c), their client routines (c/zis/client.c) and the REST  *)
(* services that ask for authentication (c/authService.c, safIdtService.c, *)
(* passTicketService.c).                                                   *)
(*                                                                         *)
(* AUTH and NWM are current-primary services: their code is in common      *)
(* storage and a call outlives the server.  SNARFER switches to the        *)
(* server's address space and ends with it.  Each pushes entries on the    *)
(* caller's recovery stack, on top of the entry of the PC routine.         *)
(*                                                                         *)
(* SAF, the recovery facility, IEAMSCHD and EZBNMIFR are external: a call  *)
(* to one of them may work, fail, or ABEND.                                *)
(***************************************************************************)
EXTENDS DynLink

CONSTANTS
  Requests,     \* what a caller asks for, with what SAF knows about the user
  Classes,      \* values of the AUTH.CLASS parameter; NotRead and TooLong are the failures
  LastCalled    \* bound: the last session in which calls are made

\* ghost part of a request: known, right, level are what SAF has for the user:
\* the user exists, the password, token or pass ticket application is right,
\* the access level to the entity.
NotRead == "notRead"
TooLong == "tooLong"
TokenFunctions == {"token", "verify"}   \* one function code, with a password or with a token
AuthFunctions == {"password", "user", "entity", "access"} \cup TokenFunctions

ASSUME CoreServicesAssumption ==
  /\ LastCalled \in Nat
  /\ \A r \in Requests : r.fc \in AuthFunctions \cup {"copy", "nwm", "ticket", "reset"} /\ r.level \in Nat /\ r.access \in Nat

\* A call: where it is, what it holds and what it was told.
VARIABLES call

vars == <<sessionVars, dynVars, call>>

Idle == [step |-> "idle", req |-> [fc |-> "none", known |-> FALSE, right |-> FALSE, level |-> 0, access |-> 0, class |-> "", valid |-> TRUE],
         rc |-> "OK", safRC |-> 0, refused |-> FALSE, level |-> 0, acee |-> FALSE, buffer |-> FALSE, depth |-> 0, pushFailed |-> FALSE,
         deleteFailed |-> FALSE, result |-> "none", answer |-> "none"]

CoreInit == call = Idle

Init == SessionInit /\ DynLinkInit /\ CoreInit

-----------------------------------------------------------------------------
fc == call.req.fc
becomes(c) == call' = c /\ UNCHANGED <<sessionVars, dynVars>>
goes(step) == [call EXCEPT !.step = step]

\* The service routine returns.
returns(c, rc) == [c EXCEPT !.step = "returned", !.rc = rc]

\* What the REST services say: respond (authService.c), authenticate and verify
\* (safIdtService.c).
respond(c) ==
  IF c.result = "OK" THEN "authorized"
  ELSE IF c.result = "SERVICE_FAILED" /\ c.safRC # 0 THEN "notAuthorized" ELSE "error"

authenticate(c) ==
  IF c.result = "OK" THEN "authenticated"
  ELSE IF c.rc = "SAF_ERROR" THEN "notAuthenticated" ELSE "error"

verify(c) ==
  IF c.result = "OK" THEN "authenticated"
  ELSE IF c.rc = "SAF_ERROR" THEN "notAuthenticated" ELSE "error"

answered(c) ==
  [c EXCEPT !.answer = CASE c.req.fc = "entity" -> respond(c) [] c.req.fc = "token" -> authenticate(c)
                         [] c.req.fc = "verify" -> verify(c) [] OTHER -> "none"]

\* The service routine ends in an ABEND, which the recovery of the PC routine
\* reports to the client; what it held stays behind.
percolates == becomes(answered([goes("done") EXCEPT !.result = "CMS_FAILED", !.rc = "OK"]))

\* A client routine: lengths are checked, the parameter list is filled, and
\* cmsCallService makes the PC.  Only a ready server accepts it.
callService ==
  /\ call.step = "idle" /\ session <= LastCalled
  /\ \E r \in {q \in Requests : q.fc \in AuthFunctions \cup {"copy", "nwm"}} :
       LET c == [Idle EXCEPT !.req = r]
       IN  \/ ~r.valid /\ becomes(answered([c EXCEPT !.step = "done", !.result = "SERVICE_FAILED", !.rc = "BAD_INPUT"]))
           \/ r.valid /\ ~ready /\ becomes(answered([c EXCEPT !.step = "done", !.result = "CMS_FAILED"]))
           \/ r.valid /\ ready /\ becomes([c EXCEPT !.step = "service"])

-----------------------------------------------------------------------------
\* handleEntityCheck and handleAccessRetrieval: the class is the configured
\* one, and a request may only name that one.
getDefaultClassValue == Classes

classRC(class) ==
  IF class = NotRead THEN "USER_CLASS_NOT_READ"
  ELSE IF class = TooLong THEN "USER_CLASS_TOO_LONG"
  ELSE IF call.req.class \notin {"", class} THEN "CUSTOM_CLASS_NOT_ALLOWED" ELSE "OK"

checkClass ==
  /\ call.step = "service" /\ fc \in {"entity", "access"}
  /\ \E class \in getDefaultClassValue :
       becomes(IF classRC(class) = "OK" THEN goes("create") ELSE returns(call, classRC(class)))

\* safVerify(VERIFY_CREATE): SAF makes an ACEE only for a user it knows and,
\* where one is given, the right password or token; it may fail for any.
\* On failure the SAF status is in the parameter list.  Before that, a request
\* of a version that the service does not know is refused.
mayCreate == call.req.known /\ (fc \in {"password"} \cup TokenFunctions => call.req.right)
createRC  == IF fc \in {"entity", "access"} THEN "CREATE_FAILED" ELSE "SAF_ERROR"

safVerifyCreate ==
  /\ call.step = "create" \/ (call.step = "service" /\ fc \in {"password", "user"} \cup TokenFunctions)
  /\ \/ /\ mayCreate
        /\ becomes([goes(IF fc \in {"entity", "access"} THEN "push" ELSE "delete") EXCEPT !.acee = TRUE])
     \/ becomes(returns([call EXCEPT !.safRC = 1, !.refused = TRUE], createRC))
     \/ call.step = "service" /\ becomes(returns(call, "BAD_SAF_SERVICE_VERSION"))
     \/ percolates

pushCheck_Returns ==
  /\ call.step = "push"
  /\ \/ becomes([goes("check") EXCEPT !.depth = @ + 1])
     \/ becomes(returns([call EXCEPT !.pushFailed = TRUE], "INSTALL_RECOVERY_FAILED"))

\* recoveryPush for safAuth: the check is skipped when it fails.
pushCheck ==
  /\ call.step = "push"
  /\ \/ becomes([goes("check") EXCEPT !.depth = @ + 1])
     \/ becomes([goes("delete") EXCEPT !.rc = "INSTALL_RECOVERY_FAILED", !.pushFailed = TRUE])

\* safAuth, or safAuthStatus for the access level; the status is filled in
\* and the recovery popped.  After an ABEND the entry was deleted on retry.
safAuth ==
  /\ call.step = "check"
  /\ LET c == [goes("delete") EXCEPT !.depth = @ - 1]
     IN  \/ fc = "entity" /\ call.req.level >= call.req.access /\ becomes([c EXCEPT !.safRC = 0])
         \/ fc = "access" /\ becomes([c EXCEPT !.safRC = 0, !.level = call.req.level])
         \/ becomes([c EXCEPT !.safRC = 1, !.rc = "SAF_ERROR", !.refused = TRUE])
         \/ becomes([c EXCEPT !.rc = "SAF_ABENDED"])

deleteFails_Refilled(c) == [c EXCEPT !.rc = "DELETE_FAILED", !.safRC = 1]

\* The end of each handler when the ACEE is not deleted: getAccessType reports
\* it only if there is nothing else to report, and then with its own status.
deleteFails(c) ==
  IF fc # "access" THEN [c EXCEPT !.rc = "DELETE_FAILED"]
  ELSE IF c.rc = "OK" THEN [c EXCEPT !.rc = "DELETE_FAILED", !.safRC = 1] ELSE c

safVerifyDelete ==
  /\ call.step = "delete"
  /\ \/ becomes(returns([call EXCEPT !.acee = FALSE], call.rc))
     \/ becomes([deleteFails(call) EXCEPT !.step = "returned", !.deleteFailed = TRUE])
     \/ percolates

-----------------------------------------------------------------------------
\* zisSnarferServiceFunction: the request is checked and the global recovery
\* established, which percolates every ABEND.
snarferBegins ==
  /\ call.step = "service" /\ fc = "copy"
  /\ \/ \E rc \in {"BAD_DEST", "BAD_ASCB", "BAD_SIZE"} : becomes(returns(call, rc))
     \/ becomes(returns([call EXCEPT !.pushFailed = TRUE], "RECOVERY_ERROR"))
     \/ becomes([goes("assb") EXCEPT !.depth = 1])

\* getASSB and the SRB have a recovery of their own, which is popped in the end
\* whether it was pushed or not.
pushFails(c) == [c EXCEPT !.rc = "RECOVERY_ERROR", !.pushFailed = TRUE, !.depth = @ - 1]

getASSB ==
  /\ call.step = "assb"
  /\ \/ becomes(goes("alloc"))
     \/ becomes([goes("free") EXCEPT !.rc = "SRC_ASSB_ABEND"])
     \/ becomes(pushFails(goes("free")))

allocateTransferBuffer ==
  /\ call.step = "alloc"
  /\ \/ becomes([goes("srb") EXCEPT !.buffer = TRUE])
     \/ becomes([goes("free") EXCEPT !.rc = "ECSA_ALLOC_FAILED"])

\* scheduleSynchSRB waits for the SRB.  Whether it was scheduled is tested, how
\* it ended is not (compCode, srbRC): getSRBSnarfer may have copied nothing, or
\* the storage of another address space that has the ASCB by now.
scheduleSynchSRB ==
  /\ call.step = "srb"
  /\ \/ becomes(goes("copyOut"))
     \/ becomes([goes("free") EXCEPT !.rc = "SRC_IEAMSCHD_FAILED"])
     \/ becomes([goes("free") EXCEPT !.rc = "SRC_IEAMSCHD_ABEND"])
     \/ becomes(pushFails(goes("free")))

\* The copy to the caller has no recovery that retries.
copyToCaller ==
  /\ call.step = "copyOut"
  /\ \/ becomes(goes("free"))
     \/ percolates

\* freeTransferBuffer if there is one, and the pop of the global recovery.
snarferEnds ==
  /\ call.step = "free" /\ fc = "copy"
  /\ becomes(returns([call EXCEPT !.buffer = FALSE, !.depth = @ - 1], call.rc))

\* The caller is cancelled while SNARFER runs: cleanupSnarfer frees the buffer,
\* if the entry that names it is still on the stack.
cleanupSnarfer ==
  /\ call.step \in {"assb", "alloc", "srb", "copyOut", "free"} /\ fc = "copy"
  /\ becomes([goes("done") EXCEPT !.result = "CANCELLED", !.buffer = @ /\ call.depth <= 0])

-----------------------------------------------------------------------------
\* zisNWMServiceFunction: a local buffer, a recovery that does not retry, the
\* call of EZBNMIFR, and the copy back.
nwmBegins ==
  /\ call.step = "service" /\ fc = "nwm"
  /\ \/ \E rc \in {"BUFFER_NULL", "BUFFER_NOT_ALLOCATED"} : becomes(returns(call, rc))
     \/ becomes([goes("nwm") EXCEPT !.buffer = TRUE, !.depth = 1])
     \/ becomes([goes("nwmFree") EXCEPT !.buffer = TRUE, !.rc = "RECOVERY_ERROR", !.pushFailed = TRUE])

callNWMService ==
  /\ call.step = "nwm"
  /\ \/ \E rc \in {"OK", "NWM_FAILED"} : becomes([goes("nwmFree") EXCEPT !.depth = @ - 1, !.rc = rc])
     \/ percolates

nwmEnds ==
  /\ call.step = "nwmFree"
  /\ \/ becomes(returns([call EXCEPT !.buffer = FALSE], call.rc))
     \/ call.rc \in {"OK", "NWM_FAILED"} /\ percolates

-----------------------------------------------------------------------------
\* authRequest, and the ends of zisCopyDataFromAddressSpace and
\* zisCallNWMService: which part of the status the caller sees.
statusCopied(rc) == rc \in {"DELETE_FAILED", "CREATE_FAILED", "SAF_ERROR"}

authRequest ==
  /\ call.step = "returned"
  /\ becomes(answered([goes("done") EXCEPT
                 !.result = IF call.rc = "OK" THEN "OK" ELSE "SERVICE_FAILED",
                 !.safRC = IF statusCopied(call.rc) THEN @ ELSE 0]))

\* servePassTicket and resetPassword call SAF from ZSS itself, once: a bad
\* request, success, or one of the answers to a refusal.
servedBySaf(f, refusals) ==
  /\ call.step = "idle" /\ session <= LastCalled
  /\ \E r \in {q \in Requests : q.fc = f} :
       LET c == [Idle EXCEPT !.step = "done", !.req = r]
       IN  \/ ~r.valid /\ becomes([c EXCEPT !.answer = "badRequest"])
           \/ r.valid /\ r.known /\ r.right /\ becomes([c EXCEPT !.answer = "authenticated"])
           \/ r.valid /\ \E a \in refusals : becomes([c EXCEPT !.answer = a, !.refused = TRUE])

servePassTicket == servedBySaf("ticket", {"error"})
resetPassword   == servedBySaf("reset", {"notAuthenticated", "badRequest", "tooMany"})

\* The caller goes on.
forget == call.step = "done" /\ becomes(Idle)

-----------------------------------------------------------------------------
\* registerCoreServices: SNARFER is the one that switches to the server's space.
isSpaceSwitch(f) == f = "copy"

\* The server's address space goes, and with it a call that runs in it.
endSpaceSwitch ==
  call' = IF isSpaceSwitch(fc) /\ call.step \notin {"idle", "returned", "done"}
          THEN [goes("done") EXCEPT !.result = "ENDED"] ELSE call

ServerEnds == (serverAbends \/ cleanupServer) /\ endSpaceSwitch

CallNext ==
  \/ callService \/ checkClass \/ safVerifyCreate \/ pushCheck \/ safAuth \/ safVerifyDelete
  \/ snarferBegins \/ getASSB \/ allocateTransferBuffer \/ scheduleSynchSRB \/ copyToCaller
  \/ snarferEnds \/ cleanupSnarfer \/ nwmBegins \/ callNWMService \/ nwmEnds
  \/ authRequest \/ servePassTicket \/ resetPassword \/ forget

Next ==
  \/ (ServerNext \/ termZISDynamic) /\ UNCHANGED call
  \/ ServerEnds \/ CallNext

Spec == Init /\ [][Next]_vars

-----------------------------------------------------------------------------
\* What a client or a browser is told about a user is what SAF said: nobody is
\* authorized or authenticated, and no access level is reported, that SAF does
\* not grant, and nobody is told "not authorized" or "not authenticated"
\* unless SAF refused - not because a recovery was not established, SAF
\* ABENDed, the ACEE could not be deleted or the server was away.
VerdictFromSAF ==
  call.step = "done" =>
    /\ call.answer = "authorized" => call.req.known /\ call.req.level >= call.req.access
    /\ call.answer = "authenticated" => call.req.known /\ call.req.right
    /\ call.answer \in {"notAuthorized", "notAuthenticated"} => call.refused
    /\ call.result = "OK" => (fc \in AuthFunctions => mayCreate) /\ (fc = "access" => call.level = call.req.level)

\* A core service that returns has deleted its ACEE, unless SAF refused to, and
\* freed its buffer, and it leaves the recovery stack as it found it, unless a
\* push failed; a cancelled copy leaves no transfer buffer in ECSA.
ResourcesReturned ==
  /\ call.step = "done" /\ call.result \in {"OK", "SERVICE_FAILED"} =>
       (call.acee => call.deleteFailed) /\ ~call.buffer /\ (call.depth # 0 => call.pushFailed)
  /\ call.step = "done" /\ call.result = "CANCELLED" /\ ~call.pushFailed => ~call.buffer
=============================================================================

----------------------------- MODULE AuxCommand -----------------------------
(***************************************************************************)
(* Commands to an AUX guest (zis-aux/src/aux-host.c).  The operator's      *)
(* MODIFY commands arrive on the console task (handleModifyCommand), those *)
(* of zisauxMgrSendCommand on worker tasks (handleCommandRequest); both go *)
(* through handleAUXCommand, which sets the log level of the host or calls *)
(* the guest's command handler, and the tasks share the log level.  The    *)
(* console task runs before the guest's module is loaded.                  *)
(***************************************************************************)
EXTENDS Naturals

CONSTANTS
  Workers,      \* worker tasks with command requests
  Levels,       \* log levels that handleCommandVerbLog knows
  StartLevel,   \* the level the host starts with
  MaxCommands   \* bound: commands taken

Console == "console"
Tasks   == Workers \cup {Console}
NA      == "NA"      \* ZOWE_LOG_NA
Bad     == "bad"     \* a level, component or verb that is not known

\* What handleAUXCommand tells apart in a tokenised command: its verb, the
\* number of arguments of LOG, the component and the level.  A command may be
\* longer than ZISAUXCommand.text, or blank.
Commands ==
  [verb : {"LOG"}, argc : {1}, comp : {"STC"}, level : {NA}]
    \cup [verb : {"LOG"}, argc : {2}, comp : {"STC", Bad}, level : Levels \cup {Bad}]
    \cup [verb : {"guest", "blank", "tooLong"}, argc : {0}, comp : {Bad}, level : {NA}]

NoCommand == [verb |-> "none", argc |-> 0, comp |-> Bad, level |-> NA]

VARIABLES
  userModule,  \* context->userModuleDescriptor: none, or with or without a handler
  logLevel,    \* level of LOG_COMP_STCBASE
  task,        \* what each task is doing
  taken        \* number of commands taken

vars == <<userModule, logLevel, task, taken>>

\* status is response->status.
Idle == [step |-> "idle", cmd |-> NoCommand, status |-> "UNKNOWN", rc |-> "OK"]

Init ==
  /\ userModule = "none" /\ logLevel = StartLevel /\ taken = 0
  /\ task = [t \in Tasks |-> Idle]

loadUserModule ==
  /\ userModule = "none" /\ userModule' \in {"handler", "noHandler"}
  /\ UNCHANGED <<logLevel, task, taken>>

-----------------------------------------------------------------------------
Take(t, cmd) ==
  /\ task[t].step = "idle" /\ taken < MaxCommands /\ taken' = taken + 1
  /\ task' = [task EXCEPT ![t] = [Idle EXCEPT !.step = "taken", !.cmd = cmd]]
  /\ UNCHANGED <<userModule, logLevel>>

\* A command that does not fit is dropped with return code 8.
handleModifyCommand(cmd) ==
  IF cmd.verb = "tooLong"
  THEN /\ task[Console].step = "idle" /\ taken < MaxCommands /\ taken' = taken + 1
       /\ UNCHANGED <<userModule, logLevel, task>>
  ELSE Take(Console, cmd)

\* Requests come when the host is ready, that is after the load.
handleCommandRequest(t, cmd) ==
  userModule # "none" /\ cmd.verb # "tooLong" /\ Take(t, cmd)

-----------------------------------------------------------------------------
Handled(t, status, rc) ==
  task' = [task EXCEPT ![t].step = "handled", ![t].status = status, ![t].rc = rc]

\* An unknown level draws the warning and the status REJECTED, and then falls
\* through: the level becomes NA and the status CONSUMED.
levelOf(cmd) == IF cmd.level \in Levels THEN cmd.level ELSE NA

handleCommandVerbLog(t) ==
  LET cmd == task[t].cmd IN
  IF cmd.argc # 2 \/ cmd.comp # "STC"
  THEN Handled(t, "REJECTED", "OK") /\ UNCHANGED logLevel
  ELSE Handled(t, "CONSUMED", "OK") /\ logLevel' = levelOf(cmd)

\* The guest's handler sets the status, or leaves it; it may fail or abend.
handleUserModuleCommand(t) ==
  /\ \E status \in {"UNKNOWN", "REJECTED", "CONSUMED", "PROCESSED"},
        rc \in {"OK", "USER_HANDLER_ERROR", "HANDLER_ERROR"} : Handled(t, status, rc)
  /\ UNCHANGED logLevel

\* No short-lived heap; or no tokens for want of storage, which is not
\* reported to the caller.
commandNotParsed(t) ==
  \E rc \in {"ALLOC_FAILED", "OK"} : Handled(t, "UNKNOWN", rc) /\ UNCHANGED logLevel

\* Without a handler of the guest nothing is looked at, LOG included.
handleAUXCommand(t) ==
  /\ task[t].step = "taken" /\ userModule # "none"
  /\ \/ commandNotParsed(t)
     \/ IF task[t].cmd.verb = "blank" \/ userModule = "noHandler"
        THEN Handled(t, "UNKNOWN", "OK") /\ UNCHANGED logLevel
        ELSE IF task[t].cmd.verb = "LOG" THEN handleCommandVerbLog(t)
        ELSE handleUserModuleCommand(t)
  /\ UNCHANGED <<userModule, taken>>

\* userModuleDescriptor is still NULL: what the console task reads as the
\* handler's address is whatever storage 0 holds.  It abends or goes on.
handleTooEarly ==
  /\ task[Console].step = "taken" /\ userModule = "none"
  /\ \/ commandNotParsed(Console)
     \/ /\ \E rc \in {"OK", "HANDLER_ERROR"} : Handled(Console, "UNKNOWN", rc)
        /\ UNCHANGED logLevel
     \/ task[Console].cmd.verb = "LOG" /\ handleCommandVerbLog(Console)
     \/ task' = [task EXCEPT ![Console] = [Idle EXCEPT !.step = "abended"]] /\ UNCHANGED logLevel
  /\ UNCHANGED <<userModule, taken>>

\* reportCommandStatus, or the response that goes back to the caller.
reportCommandStatus(t) ==
  /\ task[t].step = "handled" /\ task' = [task EXCEPT ![t] = Idle]
  /\ UNCHANGED <<userModule, logLevel, taken>>

-----------------------------------------------------------------------------
Next ==
  \/ loadUserModule \/ handleTooEarly
  \/ \E cmd \in Commands : \/ handleModifyCommand(cmd)
                           \/ \E t \in Workers : handleCommandRequest(t, cmd)
  \/ \E t \in Tasks : handleAUXCommand(t) \/ reportCommandStatus(t)

Spec == Init /\ [][Next]_vars

-----------------------------------------------------------------------------
JustHandled(t) == task[t].step = "taken" /\ task'[t].step = "handled"

\* The LOG commands that are answered with "command ignored" (0075W, 0076W and
\* 0077W in h/zis/message.h): the wrong number of arguments, an unknown
\* component, an unknown level.
SaidIgnored(cmd) ==
  cmd.verb = "LOG" /\ (cmd.argc # 2 \/ cmd.comp # "STC" \/ cmd.level \notin Levels)

\* A LOG command of which the operator or the caller is told that it was
\* ignored leaves the log level of the host as it was.
IgnoredLeavesLevel ==
  [][\A t \in Tasks : JustHandled(t) /\ SaidIgnored(task[t].cmd) => logLevel' = logLevel]_vars
=============================================================================

--------------------------- MODULE UploadSession ---------------------------
(***************************************************************************)
(* Upload sessions of the Unix file service (c/unixFileService.c).         *)
(*                                                                         *)
(* PUT requests run in subtasks (Threads).  A request without a session    *)
(* identifier opens a file for writing and gets one; the later requests    *)
(* bring the chunks.  Two hash tables remember the sessions, by file (the  *)
(* inode and device of FileID) and by identifier.  One mutex protects each *)
(* single table operation, not the sequences of them that a request makes. *)
(* Every PUT first removes the sessions that timed out.                    *)
(*                                                                         *)
(* A session and its FileID are allocated together: heap[i] is both.  The  *)
(* hash table (external) replaces the value and keeps the old key when it  *)
(* has an equal one; htRemove frees key and value, htPrune the value.      *)
(* Both close the file of the session under the mutex.  When the session   *)
(* has no file pointer yet, that call may end the subtask with an ABEND,   *)
(* the mutex stays held, and every later operation on a table waits.       *)
(***************************************************************************)
EXTENDS Integers, Sequences

CONSTANTS
  Threads,      \* subtasks of the HTTP server
  Users,        \* users that upload
  Names,        \* path names
  TIMEOUT_TIME, \* seconds of inactivity that end a session
  UINT_RANGE,   \* number of values of an unsigned int
  MaxTime,      \* bound: seconds that pass
  OverlapFrom,  \* bound: requests overlap from this second on
  MaxSessions,  \* bound: sessions allocated
  MaxChunks     \* bound: chunks in a file

None   == 0        \* no file, no session, no identifier
NoUser == "noUser" \* a userName that is not set yet

ASSUME UploadSessionAssumption ==
  /\ NoUser \notin Users
  /\ TIMEOUT_TIME \in Nat \ {0} /\ MaxTime \in Nat /\ OverlapFrom \in Nat
  /\ UINT_RANGE \in Nat /\ UINT_RANGE > MaxTime + TIMEOUT_TIME
  /\ MaxSessions \in Nat /\ MaxChunks \in Nat

VARIABLES
  now,                 \* time(NULL)
  fileOf,              \* inode of each name, None if there is no such file
  content,             \* of each inode: the sessions whose chunks it holds
  openFiles,           \* sessions whose file handle is open
  heap,                \* sessions with their FileIDs, in order of allocation, and a
                       \* ghost: when their user was heard of last
  sessionsByFileID,    \* inode -> [key, value], indices of the heap
  fileIDsBySessionID,  \* identifier -> index of the FileID, None if removed
  lockHeld,            \* fileHashLock is left held by a subtask that ABENDed
  thread,              \* what each subtask is doing
  given,               \* ghost: <<user, identifier, session>> of the responses
  leaked,              \* ghost: handles that a failed tagging left open
  overlapped           \* ghost: two requests have been in progress at the same time

files   == <<fileOf, content, openFiles>>
tables  == <<sessionsByFileID, fileIDsBySessionID, lockHeld>>
ghosts  == <<leaked, overlapped>>
vars    == <<now, files, heap, tables, thread, given, ghosts>>

NoEntry == [key |-> None, value |-> None]
Idle == [step |-> "idle", user |-> NoUser, name |-> "none", time |-> 0, id |-> None,
         i |-> None, sid |-> None, last |-> FALSE]
Inodes == DOMAIN content

Init ==
  /\ now = 0 /\ fileOf = [n \in Names |-> None] /\ content = <<>> /\ openFiles = {}
  /\ heap = <<>> /\ sessionsByFileID = <<>> /\ fileIDsBySessionID = <<>> /\ lockHeld = FALSE
  /\ thread = [t \in Threads |-> Idle] /\ given = {} /\ leaked = {} /\ overlapped = FALSE

Tick == now < MaxTime /\ now' = now + 1 /\ UNCHANGED <<files, heap, tables, thread, given, ghosts>>

-----------------------------------------------------------------------------
At(t, step)   == thread[t].step = step
Goes(t, step) == thread' = [thread EXCEPT ![t].step = step]
Ends(t)       == thread' = [thread EXCEPT ![t] = Idle]

Entry(id)     == sessionsByFileID[id]

\* Sessions whose storage goes: their files are closed, if they have one.  A
\* session without one has no file pointer yet, and closing it is undefined:
\* the close fails, or the subtask ABENDs and the mutex stays held.
closeFiles(S) ==
  /\ openFiles' = openFiles \ {i \in S : heap[i].file # None}
  /\ lockHeld' \in {FALSE, \E i \in S : heap[i].file = None}
freeSessions(S, keys) ==
  heap' = [i \in DOMAIN heap |-> [heap[i] EXCEPT !.freed = @ \/ i \in S,
                                                 !.keyFreed = @ \/ i \in keys]]

\* htRemove(sessionsByFileID, FileID of inode id).  What an ABEND leaves of
\* the entry is of no account: nobody gets at the table any more.
removeFromTable(id) ==
  LET e == Entry(id) IN
  /\ ~lockHeld /\ sessionsByFileID' = [sessionsByFileID EXCEPT ![id] = NoEntry]
  /\ closeFiles({e.value} \ {None}) /\ freeSessions({e.value}, {e.key})

-----------------------------------------------------------------------------
\* Another request begins.
Overlaps ==
  /\ now >= OverlapFrom \/ \A o \in Threads : At(o, "idle")
  /\ overlapped' = (overlapped \/ \E o \in Threads : ~At(o, "idle")) /\ UNCHANGED leaked

\* serveUnixFileContents, PUT: the time is taken, then the request goes on.
\* A client sends the chunks of a session one after the other; any user may
\* send an identifier.
Begin(t) ==
  /\ At(t, "idle") /\ Overlaps
  /\ \/ \E u \in Users, n \in Names :
          thread' = [thread EXCEPT ![t] = [Idle EXCEPT !.step = "prune", !.user = u, !.name = n,
                                                       !.time = now]]
     \/ \E u \in Users, g \in given, last \in BOOLEAN :
          /\ \A o \in Threads : thread[o].sid # g[2]
          /\ thread' = [thread EXCEPT ![t] = [Idle EXCEPT !.step = "prune", !.user = u,
                                                 !.sid = g[2], !.last = last, !.time = now]]
  /\ UNCHANGED <<now, files, heap, tables, given>>

\* timeOutMatcher subtracts unsigned numbers.
timeOutMatcher(time, s) == (time - s.time) % UINT_RANGE >= TIMEOUT_TIME

\* An ABEND in the middle leaves the entries that come after it.
removeSessionTimeOuts(t) ==
  LET old == {id \in Inodes : /\ Entry(id) # NoEntry
                              /\ timeOutMatcher(thread[t].time, heap[Entry(id).value])} IN
  /\ At(t, "prune") /\ ~lockHeld
  /\ \E D \in SUBSET old :
       /\ sessionsByFileID' = [id \in Inodes |-> IF id \in D THEN NoEntry ELSE Entry(id)]
       /\ closeFiles({Entry(id).value : id \in D}) /\ freeSessions({Entry(id).value : id \in D}, {})
       /\ lockHeld' \/ D = old
  /\ IF lockHeld' THEN Ends(t) ELSE Goes(t, IF thread[t].sid = None THEN "info" ELSE "lookup")
  /\ UNCHANGED <<now, fileOf, content, fileIDsBySessionID, given, ghosts>>

-----------------------------------------------------------------------------
(* assignSessionIDToCaller *)

\* Parameters and fileInfo.  Bad encodings, and a file that exists and may
\* not be overwritten, end the request.
fileInfo(t) ==
  /\ At(t, "info") /\ Len(heap) < MaxSessions
  /\ \/ Ends(t)
     \/ thread' = [thread EXCEPT ![t].id = fileOf[thread[t].name],
                                 ![t].step = IF fileOf[thread[t].name] = None THEN "create" ELSE "check"]
  /\ UNCHANGED <<now, files, heap, tables, given, ghosts>>

\* Opens with CREATE; the file may have come into being meanwhile.
Created(n) ==
  IF fileOf[n] = None
  THEN /\ fileOf' = [fileOf EXCEPT ![n] = Len(content) + 1] /\ content' = Append(content, <<>>)
       /\ sessionsByFileID' = Append(sessionsByFileID, NoEntry)
  ELSE UNCHANGED <<fileOf, content, sessionsByFileID>>

handleNewFileCase(t) ==
  /\ At(t, "create") /\ Created(thread[t].name)
  /\ thread' = [thread EXCEPT ![t].id = fileOf'[thread[t].name], ![t].step = "check"]
  /\ UNCHANGED <<now, openFiles, heap, fileIDsBySessionID, lockHeld, given, ghosts>>

\* The open fails, or the close or fileInfo that follow, and the file stays.
createFails(t) ==
  /\ At(t, "create") /\ Ends(t)
  /\ Created(thread[t].name) \/ UNCHANGED <<fileOf, content, sessionsByFileID>>
  /\ UNCHANGED <<now, openFiles, heap, fileIDsBySessionID, lockHeld, given, ghosts>>

checkForDuplicatesInTable_Skipped(t) ==
  /\ At(t, "check") /\ ~lockHeld /\ Goes(t, "add")
  /\ UNCHANGED <<now, files, heap, tables, given, ghosts>>
checkForDuplicatesInTable(t) ==
  /\ At(t, "check") /\ ~lockHeld /\ IF Entry(thread[t].id) = NoEntry THEN Goes(t, "add") ELSE Ends(t)
  /\ UNCHANGED <<now, files, heap, tables, given, ghosts>>

addToTable(t) ==
  LET id == thread[t].id
      i  == Len(heap) + 1 IN
  /\ At(t, "add") /\ ~lockHeld /\ i <= MaxSessions
  /\ heap' = Append(heap, [id |-> id, file |-> None, user |-> NoUser, time |-> thread[t].time,
                           heard |-> thread[t].time, sid |-> None, freed |-> FALSE, keyFreed |-> FALSE])
  /\ sessionsByFileID' = [sessionsByFileID EXCEPT ![id] =
                            [key |-> IF @ = NoEntry THEN i ELSE @.key, value |-> i]]
  /\ thread' = [thread EXCEPT ![t].i = i, ![t].step = "open"]
  /\ UNCHANGED <<now, files, fileIDsBySessionID, lockHeld, given, ghosts>>

\* checkIfFileIsBusy opens the name, which truncates the file; without a file
\* of that name, or if the system refuses, the table entry goes.
checkIfFileIsBusy(t) ==
  LET f == fileOf[thread[t].name] IN
  /\ At(t, "open")
  /\ \/ /\ f # None /\ openFiles' = openFiles \cup {thread[t].i}
        /\ content' = [content EXCEPT ![f] = <<>>]
        /\ thread' = [thread EXCEPT ![t].step = "tag", ![t].id = f]
        /\ UNCHANGED <<heap, sessionsByFileID, lockHeld>>
     \/ removeFromTable(heap[thread[t].i].id) /\ Ends(t) /\ UNCHANGED content
  /\ UNCHANGED <<now, fileOf, fileIDsBySessionID, given, ghosts>>

\* A failure to tag the file leaves the handle open.
tagFileForUploading(t) ==
  LET i == thread[t].i IN
  /\ At(t, "tag")
  /\ \/ /\ heap' = [heap EXCEPT ![i].file = thread[t].id] /\ Goes(t, "number")
        /\ UNCHANGED <<openFiles, sessionsByFileID, lockHeld, ghosts>>
     \/ removeFromTable(heap[i].id) /\ Ends(t) /\ leaked' = leaked \cup {i} /\ UNCHANGED overlapped
  /\ UNCHANGED <<now, fileOf, content, fileIDsBySessionID, given>>

addSessionIDToTableAndIncrementCounter(t) ==
  LET i == thread[t].i IN
  /\ At(t, "number") /\ ~lockHeld /\ Goes(t, "name")
  /\ fileIDsBySessionID' = Append(fileIDsBySessionID, i)   \* sessionCounter is its length + 1
  /\ heap' = [heap EXCEPT ![i].sid = Len(fileIDsBySessionID) + 1]
  /\ UNCHANGED <<now, files, sessionsByFileID, lockHeld, given, ghosts>>

\* The user name is set and the caller gets its identifier.
respondWithSessionID(t) ==
  LET i == thread[t].i IN
  /\ At(t, "name") /\ Ends(t)
  /\ heap' = [heap EXCEPT ![i].user = thread[t].user]
  /\ given' = given \cup {<<thread[t].user, heap[i].sid, i>>}
  /\ UNCHANGED <<now, files, tables, ghosts>>

-----------------------------------------------------------------------------
(* doChunking *)

\* The two look-ups, each under the lock.  An identifier that is not known
\* gives no FileID, and that no session.  A FileID that was freed may still
\* read as before, or not.
getFileID(t) ==
  /\ At(t, "lookup") /\ ~lockHeld
  /\ thread' = [thread EXCEPT ![t].i = fileIDsBySessionID[thread[t].sid], ![t].step = "session"]
  /\ UNCHANGED <<now, files, heap, tables, given, ghosts>>

getSession(t) ==
  LET k == thread[t].i IN
  /\ At(t, "session") /\ ~lockHeld
  /\ IF k = None \/ Entry(heap[k].id) = NoEntry THEN Ends(t)
     ELSE \/ thread' = [thread EXCEPT ![t].i = Entry(heap[k].id).value, ![t].id = k,
                                      ![t].step = "validate"]
          \/ heap[k].keyFreed /\ Ends(t)
  /\ UNCHANGED <<now, files, heap, tables, given, ghosts>>

\* The time of the last request, whoever sent it, then the user and lastChunk.
\* A user name that is not set yet may look like any.
Stamped(t, time) ==
  LET s == heap[thread[t].i] IN
  [heap EXCEPT ![thread[t].i].time = time,
               ![thread[t].i].heard = IF s.user = thread[t].user THEN thread[t].time ELSE @]
validateSessionWithUserName_Stale(t) ==
  LET s == heap[thread[t].i] IN
  /\ At(t, "validate") /\ heap' = Stamped(t, s.time)
  /\ \/ Ends(t)
     \/ s.user \in {thread[t].user, NoUser} /\ Goes(t, "write")
  /\ UNCHANGED <<now, files, tables, given, ghosts>>
validateSessionWithUserName(t) ==
  LET s == heap[thread[t].i] IN
  /\ At(t, "validate") /\ heap' = Stamped(t, thread[t].time)
  /\ \/ Ends(t)
     \/ s.user \in {thread[t].user, NoUser} /\ Goes(t, "write")
  /\ UNCHANGED <<now, files, tables, given, ghosts>>

\* The chunk goes to the file of the session.  A session that was freed, or
\* whose file is closed or not set, gives an error, or worse.
writeChunk(t) ==
  LET s  == heap[thread[t].i]
      ok == IF thread[t].last THEN Goes(t, "remove") ELSE Ends(t) IN
  /\ At(t, "write")
  /\ \/ /\ thread[t].i \in openFiles /\ s.file # None /\ Len(content[s.file]) < MaxChunks
        /\ content' = [content EXCEPT ![s.file] = Append(@, thread[t].i)] /\ ok
     \/ thread[t].i \in openFiles /\ ok /\ UNCHANGED content      \* an empty chunk
     \/ Goes(t, "remove") /\ UNCHANGED content                    \* a failed write
  /\ UNCHANGED <<now, fileOf, openFiles, heap, tables, given, ghosts>>

\* cleanupSession: the tables forget the session, one after the other.
cleanupSession_NotClosed(t) ==
  /\ At(t, "remove") /\ ~lockHeld /\ Goes(t, "removeID")
  /\ sessionsByFileID' = [sessionsByFileID EXCEPT ![heap[thread[t].id].id] = NoEntry]
  /\ UNCHANGED <<now, files, heap, fileIDsBySessionID, lockHeld, given, ghosts>>
cleanupSession(t) ==
  /\ At(t, "remove") /\ ~lockHeld
  /\ \/ removeFromTable(heap[thread[t].id].id)
     \/ heap[thread[t].id].keyFreed /\ UNCHANGED <<openFiles, heap, sessionsByFileID, lockHeld>>
  /\ IF lockHeld' THEN Ends(t) ELSE Goes(t, "removeID")
  /\ UNCHANGED <<now, fileOf, content, fileIDsBySessionID, given, ghosts>>

removeFromTableUInt(t) ==
  /\ At(t, "removeID") /\ ~lockHeld /\ Ends(t)
  /\ fileIDsBySessionID' = [fileIDsBySessionID EXCEPT ![thread[t].sid] = None]
  /\ UNCHANGED <<now, files, heap, sessionsByFileID, lockHeld, given, ghosts>>

-----------------------------------------------------------------------------
\* serveUnixFileContents, DELETE: the name goes, an open file stays.
deleteUnixFile(n) ==
  /\ fileOf[n] # None /\ Len(content) < MaxSessions /\ fileOf' = [fileOf EXCEPT ![n] = None]
  /\ Overlaps
  /\ UNCHANGED <<now, content, openFiles, heap, tables, thread, given>>

Assign(t) ==
  \/ fileInfo(t) \/ handleNewFileCase(t) \/ createFails(t) \/ checkForDuplicatesInTable(t)
  \/ addToTable(t) \/ checkIfFileIsBusy(t) \/ tagFileForUploading(t)
  \/ addSessionIDToTableAndIncrementCounter(t) \/ respondWithSessionID(t)

Chunk(t) ==
  \/ getFileID(t) \/ getSession(t) \/ validateSessionWithUserName(t) \/ writeChunk(t)
  \/ cleanupSession(t) \/ removeFromTableUInt(t)

Next ==
  \/ Tick
  \/ \E t \in Threads : Begin(t) \/ removeSessionTimeOuts(t) \/ Assign(t) \/ Chunk(t)
  \/ \E n \in Names : deleteUnixFile(n)

Spec == Init /\ [][Next]_vars

-----------------------------------------------------------------------------
Sessions == 1..Len(heap)
Live(i)  == ~heap[i].freed /\ heap[i].file # None

\* A file that is active in an upload session is in no other one: the table
\* of active files turns a second upload away ("Requested resource is busy").
OneUploadPerFile ==
  \A i, j \in Sessions : Live(i) /\ Live(j) /\ heap[i].file = heap[j].file => i = j

\* As long as requests come one after the other: what a session that is still
\* there has written is what its file holds, no chunk of another session is
\* between its own, whoever comes and goes.
UploadIntact ==
  ~overlapped => \A i \in Sessions : Live(i) =>
    \A k \in DOMAIN content[heap[i].file] : content[heap[i].file][k] = i

\* As long as requests come one after the other: an upload is left to the user
\* that got its identifier.  Its file changes, and its session goes, only
\* through a request of that user, unless that user sent no chunk for
\* TIMEOUT_TIME; whoever else sends the identifier, uploads to the same name,
\* deletes it or lets sessions time out.
UploadLeftToOwner ==
  [][~overlapped' => \A g \in given : Live(g[3]) =>
       LET i    == g[3]
           mine == \E t \in Threads : /\ thread[t].step \in {"write", "remove"}
                                      /\ thread[t].user = g[1] /\ thread[t].i = i
       IN  /\ content'[heap[i].file] # content[heap[i].file] => mine
           /\ heap'[i].freed => mine \/ now - heap[i].heard >= TIMEOUT_TIME]_vars

\* As long as requests come one after the other: no file handle is forgotten.
\* An open one belongs to a session in the table or to a request that is still
\* at it, or its tagging failed.
HandlesAccounted ==
  ~overlapped => \A i \in openFiles :
    \/ i \in leaked \/ \E t \in Threads : thread[t].i = i
    \/ \E id \in Inodes : Entry(id).value = i
=============================================================================

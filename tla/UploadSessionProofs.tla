------------------------ MODULE UploadSessionProofs ------------------------
(***************************************************************************)
(* Proofs about the upload sessions of the Unix file service, for any      *)
(* number of subtasks, users, names, sessions and chunks.                  *)
(*                                                                         *)
(* What the properties promise holds as long as requests come one after    *)
(* the other, and so does the inductive invariant: a run in which two      *)
(* requests pass the search for the same file shows that it cannot do      *)
(* without (OneUploadPerFile).                                             *)
(***************************************************************************)
EXTENDS UploadSession, TLAPS

AssignSteps == {"info", "create", "check", "add", "open", "tag", "number", "name"}
ChunkSteps  == {"lookup", "session", "validate", "write", "remove", "removeID"}
Steps       == {"idle", "prune"} \cup AssignSteps \cup ChunkSteps

ThreadRecords ==
  [step : Steps, user : Users \cup {NoUser}, name : Names \cup {"none"}, time : Nat, id : Nat, i : Nat, sid : Nat,
   last : BOOLEAN]
SessionRecords ==
  [id : Nat, file : Nat, user : Users \cup {NoUser}, time : Nat, heard : Nat, sid : Nat,
   freed : BOOLEAN, keyFreed : BOOLEAN]
Entries == [key : Nat, value : Nat]

\* The shape of the state; the table has a place for every inode.
ShapeOK ==
  /\ now \in Nat /\ content \in Seq(Seq(Nat)) /\ fileOf \in [Names -> 0..Len(content)]
  /\ openFiles \subseteq 1..Len(heap) /\ heap \in Seq(SessionRecords)
  /\ sessionsByFileID \in Seq(Entries) /\ Len(sessionsByFileID) = Len(content)
  /\ fileIDsBySessionID \in Seq(0..Len(heap))
  /\ thread \in [Threads -> ThreadRecords]
  /\ \A g \in given : g[2] \in 1..Len(fileIDsBySessionID)

\* Requests come one after the other.
OneRequest == \A t, u \in Threads : ~At(t, "idle") /\ ~At(u, "idle") => t = u

\* The request that makes session v.
Making(t, v) == thread[t].step \in {"open", "tag", "number", "name"} /\ thread[t].i = v

\* The table knows sessions that are there, under the inode of their file;
\* unless the request that makes one is not done, its file and user are set.
TableOK ==
  \A id \in 1..Len(content) : Entry(id) # NoEntry =>
    LET v == Entry(id).value
    IN  /\ v \in Sessions /\ heap[v].id = id /\ ~heap[v].freed /\ heap[v].file \in {None, id}
        /\ (heap[v].file = id /\ heap[v].user # NoUser) \/ \E t \in Threads : Making(t, v)

\* A session with a file is the one in the table under its inode.
LiveOK ==
  \A i \in Sessions : Live(i) => heap[i].file \in 1..Len(content) /\ Entry(heap[i].file).value = i

\* An open file handle belongs to a session in the table, or was leaked.
HandlesOK ==
  \A i \in openFiles : i \in leaked \/ \E id \in 1..Len(content) : Entry(id).value = i

\* What a request has found out is still so when it uses it.
AssignOK(t) ==
  LET r == thread[t]
  IN  /\ r.step \in AssignSteps => r.name \in Names /\ r.user # NoUser
      /\ r.step \in {"check", "add"} => r.id = fileOf[r.name] /\ r.id # None
      /\ r.step = "add" => Entry(r.id) = NoEntry
      /\ r.step \in {"open", "tag", "number", "name"} =>
           /\ r.i \in Sessions /\ r.id \in 1..Len(content) /\ heap[r.i].id = r.id
           /\ Entry(r.id).value = r.i
      /\ r.step = "open" => r.id = fileOf[r.name] /\ r.i \notin openFiles
      /\ r.step \in {"open", "tag"} => heap[r.i].file = None
      /\ r.step = "tag" => content[r.id] = <<>>
      /\ r.step \in {"number", "name"} => heap[r.i].file = r.id
      /\ r.step = "name" => heap[r.i].sid \in 1..Len(fileIDsBySessionID)

ChunkOK(t) ==
  LET r == thread[t]
  IN  /\ r.step = "prune" => r.user # NoUser /\ (r.sid = None => r.name \in Names)
      /\ (r.step = "prune" /\ r.sid # None) \/ r.step \in ChunkSteps => r.sid \in 1..Len(fileIDsBySessionID)
      /\ r.step = "session" => r.i \in 0..Len(heap)
      /\ r.step \in {"validate", "write", "remove"} =>
           /\ r.id \in Sessions /\ heap[r.id].id \in 1..Len(content)
           /\ r.i # None /\ Entry(heap[r.id].id).value = r.i
      /\ r.step \in {"write", "remove"} => heap[r.i].user = r.user

\* FileIDs name inodes.
IdsOK == \A i \in Sessions : heap[i].id \in 1..Len(content)

IntactOK ==
  \A i \in Sessions : Live(i) => \A k \in DOMAIN content[heap[i].file] : content[heap[i].file][k] = i

SeqInv ==
  /\ ShapeOK /\ OneRequest /\ IdsOK /\ TableOK /\ LiveOK /\ HandlesOK /\ IntactOK
  /\ \A t \in Threads : AssignOK(t) /\ ChunkOK(t)

UploadInv == ~overlapped => SeqInv

-----------------------------------------------------------------------------
USE DEF None

\* An idle thread has no session, file or user.
LEMMA IdleIsThread ==
  /\ Idle \in ThreadRecords /\ Idle.step = "idle" /\ Idle.user = NoUser /\ Idle.sid = None /\ Idle.i = None
  /\ Idle.id = None
BY DEF Idle, ThreadRecords, Steps

\* The invariant holds initially.
LEMMA UploadInit == Init => UploadInv
<1> SUFFICES ASSUME Init PROVE SeqInv
  BY DEF UploadInv
<1> USE DEF Init
<1>1. /\ content \in Seq(Seq(Nat)) /\ Len(content) = 0 /\ heap \in Seq(SessionRecords) /\ Len(heap) = 0
      /\ sessionsByFileID \in Seq(Entries) /\ Len(sessionsByFileID) = 0
      /\ fileIDsBySessionID \in Seq(0..Len(heap))
  OBVIOUS
<1>2. \A t \in Threads : thread[t] = Idle
  OBVIOUS
<1>3. thread \in [Threads -> ThreadRecords]
  BY IdleIsThread
<1>4. ShapeOK
  BY <1>1, <1>3 DEF ShapeOK
<1>5. OneRequest
  BY <1>2, IdleIsThread DEF OneRequest, At
<1>6. IdsOK /\ TableOK /\ LiveOK /\ HandlesOK /\ IntactOK
  BY <1>1 DEF IdsOK, TableOK, LiveOK, HandlesOK, IntactOK, Sessions
<1>7. \A t \in Threads : AssignOK(t) /\ ChunkOK(t)
  BY <1>2, IdleIsThread DEF AssignOK, ChunkOK, AssignSteps, ChunkSteps
<1> QED
  BY <1>4, <1>5, <1>6, <1>7 DEF SeqInv

\* The requests of the other subtasks, of which there is none.
ThreadStep(t) ==
  /\ thread' \in [Threads -> ThreadRecords]
  /\ \A u \in Threads : u # t => thread'[u] = thread[u]

\* While one request runs, the other threads stay idle.
LEMMA OthersIdle ==
  ASSUME SeqInv, NEW t \in Threads, ~At(t, "idle") \/ \A u \in Threads : At(u, "idle"), ThreadStep(t)
  PROVE  /\ OneRequest'
         /\ \A u \in Threads : u # t => AssignOK(u)' /\ ChunkOK(u)'
<1>1. \A u \in Threads : u # t => thread'[u].step = "idle" /\ thread[u].step = "idle"
  BY DEF SeqInv, OneRequest, At, ThreadStep
<1>2. OneRequest'
  BY <1>1 DEF OneRequest, At
<1>3. \A u \in Threads : u # t => AssignOK(u)' /\ ChunkOK(u)'
  BY <1>1 DEF AssignOK, ChunkOK, AssignSteps, ChunkSteps
<1> QED
  BY <1>2, <1>3

\* A request ends.
LEMMA EndsOK ==
  ASSUME SeqInv, NEW t \in Threads, Ends(t)
  PROVE  ThreadStep(t) /\ thread'[t].step = "idle" /\ AssignOK(t)' /\ ChunkOK(t)'
<1>1. ThreadStep(t) /\ thread'[t] = Idle
  BY IdleIsThread DEF SeqInv, ShapeOK, Ends, ThreadStep
<1> QED
  BY <1>1, IdleIsThread DEF AssignOK, ChunkOK, AssignSteps, ChunkSteps

\* Going to another step leaves the request alone.
LEMMA GoesOK ==
  ASSUME SeqInv, NEW t \in Threads, NEW step \in Steps, Goes(t, step)
  PROVE  /\ ThreadStep(t) /\ thread'[t].step = step /\ thread'[t].user = thread[t].user
         /\ thread'[t].name = thread[t].name /\ thread'[t].time = thread[t].time
         /\ thread'[t].id = thread[t].id /\ thread'[t].i = thread[t].i /\ thread'[t].sid = thread[t].sid
<1>1. thread \in [Threads -> ThreadRecords] /\ thread[t] \in ThreadRecords
  BY DEF SeqInv, ShapeOK
<1>2. PICK r : r = [thread[t] EXCEPT !.step = step]
  OBVIOUS
<1>3. /\ r \in ThreadRecords /\ r.step = step /\ r.user = thread[t].user /\ r.name = thread[t].name
      /\ r.time = thread[t].time /\ r.id = thread[t].id /\ r.i = thread[t].i /\ r.sid = thread[t].sid
  BY <1>1, <1>2 DEF ThreadRecords
<1>4. thread' = [thread EXCEPT ![t] = r]
  BY <1>1, <1>2 DEF Goes
<1> QED
  BY <1>1, <1>3, <1>4 DEF ThreadStep

\* A step that changes nothing but its own request, which makes no session.
LEMMA ThreadOnly ==
  ASSUME SeqInv, NEW t \in Threads, ~At(t, "idle") \/ \A u \in Threads : At(u, "idle"), ThreadStep(t),
         UNCHANGED <<now, content, fileOf, openFiles, heap, tables, given, leaked>>,
         thread[t].step \notin {"open", "tag", "number", "name"}, AssignOK(t)', ChunkOK(t)'
  PROVE  SeqInv'
<1> USE DEF tables
<1>1. ShapeOK'
  BY DEF SeqInv, ShapeOK, ThreadStep
<1>2. OneRequest' /\ \A u \in Threads : AssignOK(u)' /\ ChunkOK(u)'
  BY OthersIdle
<1>3. \A u \in Threads : \A v : Making(u, v) => Making(u, v)'
  BY DEF Making, ThreadStep
<1>4. TableOK'
  BY <1>3 DEF SeqInv, TableOK, Entry, Sessions
<1>5. IdsOK' /\ LiveOK' /\ HandlesOK' /\ IntactOK'
  BY DEF SeqInv, IdsOK, LiveOK, HandlesOK, IntactOK, Live, Entry, Sessions
<1> QED
  BY <1>1, <1>2, <1>4, <1>5 DEF SeqInv

\* The clock keeps the invariant;
LEMMA TickKeeps == ASSUME SeqInv, Tick PROVE SeqInv'
<1> USE DEF Tick, files, tables, ghosts
<1>1. ShapeOK'
  BY DEF SeqInv, ShapeOK
<1>2. OneRequest' /\ IdsOK' /\ LiveOK' /\ HandlesOK' /\ IntactOK'
  BY DEF SeqInv, OneRequest, At, IdsOK, LiveOK, HandlesOK, IntactOK, Live, Entry, Sessions
<1>3. TableOK'
  BY DEF SeqInv, TableOK, Making, Entry, Sessions
<1>4. \A t \in Threads : AssignOK(t)' /\ ChunkOK(t)'
  BY DEF SeqInv, AssignOK, ChunkOK, Entry, Sessions
<1> QED
  BY <1>1, <1>2, <1>3, <1>4 DEF SeqInv

\* Nothing else goes on when a file is deleted, so nobody has looked it up.
LEMMA DeleteKeeps ==
  ASSUME SeqInv, NEW n \in Names, deleteUnixFile(n), ~overlapped' PROVE SeqInv'
<1> USE DEF deleteUnixFile, tables
<1>1. \A o \in Threads : At(o, "idle")
  BY DEF Overlaps
<1>2. ShapeOK'
  BY DEF SeqInv, ShapeOK
<1>3. OneRequest' /\ IdsOK' /\ LiveOK' /\ HandlesOK' /\ IntactOK'
  BY DEF Overlaps, SeqInv, OneRequest, At, IdsOK, LiveOK, HandlesOK, IntactOK, Live, Entry, Sessions
<1>4. TableOK'
  BY DEF SeqInv, TableOK, Making, Entry, Sessions
<1>5. \A t \in Threads : AssignOK(t)' /\ ChunkOK(t)'
  BY <1>1 DEF At, AssignOK, ChunkOK, AssignSteps, ChunkSteps
<1> QED
  BY <1>2, <1>3, <1>4, <1>5 DEF SeqInv

\* so does a request that comes when the others are idle.
LEMMA BeginKeeps == ASSUME SeqInv, NEW t \in Threads, Begin(t), ~overlapped' PROVE SeqInv'
<1>0. thread \in [Threads -> ThreadRecords] /\ now \in Nat
  BY DEF SeqInv, ShapeOK
<1>1. (\A o \in Threads : At(o, "idle")) /\ UNCHANGED <<now, files, heap, tables, given, leaked>>
  BY DEF Begin, Overlaps
<1>2. PICK r \in ThreadRecords :
        /\ thread' = [thread EXCEPT ![t] = r] /\ r.step = "prune" /\ r.user # NoUser
        /\ r.sid = None => r.name \in Names
        /\ r.sid # None => r.sid \in 1..Len(fileIDsBySessionID)
  <2>1. ASSUME NEW u \in Users, NEW n \in Names,
               thread' = [thread EXCEPT ![t] = [Idle EXCEPT !.step = "prune", !.user = u, !.name = n, !.time = now]]
        PROVE  \E r \in ThreadRecords :
                 /\ thread' = [thread EXCEPT ![t] = r] /\ r.step = "prune" /\ r.user # NoUser
                 /\ r.sid = None => r.name \in Names
                 /\ r.sid # None => r.sid \in 1..Len(fileIDsBySessionID)
    <3>1. PICK r : r = [Idle EXCEPT !.step = "prune", !.user = u, !.name = n, !.time = now]
      OBVIOUS
    <3>2. r \in ThreadRecords /\ r.step = "prune" /\ r.user = u /\ r.sid = None /\ r.name = n
      BY <1>0, <3>1, IdleIsThread DEF ThreadRecords, Steps
    <3> QED
      BY <2>1, <3>1, <3>2, UploadSessionAssumption
  <2>2. ASSUME NEW u \in Users, NEW g \in given, NEW last \in BOOLEAN,
               thread' = [thread EXCEPT ![t] = [Idle EXCEPT !.step = "prune", !.user = u, !.sid = g[2], !.last = last,
                                                            !.time = now]]
        PROVE  \E r \in ThreadRecords :
                 /\ thread' = [thread EXCEPT ![t] = r] /\ r.step = "prune" /\ r.user # NoUser
                 /\ r.sid = None => r.name \in Names
                 /\ r.sid # None => r.sid \in 1..Len(fileIDsBySessionID)
    <3>1. PICK sid : sid = g[2]
      OBVIOUS
    <3>2. sid \in 1..Len(fileIDsBySessionID) /\ sid \in Nat
      BY <3>1 DEF SeqInv, ShapeOK
    <3>3. PICK r : r = [Idle EXCEPT !.step = "prune", !.user = u, !.sid = sid, !.last = last, !.time = now]
      OBVIOUS
    <3>4. r \in ThreadRecords /\ r.step = "prune" /\ r.user = u /\ r.sid = sid
      BY <1>0, <3>2, <3>3, IdleIsThread DEF ThreadRecords, Steps
    <3>5. thread' = [thread EXCEPT ![t] = r]
      BY <2>2, <3>1, <3>3
    <3>6. r.sid # None /\ r.user # NoUser
      BY <3>2, <3>4, UploadSessionAssumption
    <3> QED
      BY <3>2, <3>4, <3>5, <3>6
  <2> QED
    BY <2>1, <2>2, Zenon DEF Begin
<1>3. ThreadStep(t) /\ thread'[t] = r
  BY <1>0, <1>2 DEF ThreadStep
<1>4. AssignOK(t)' /\ ChunkOK(t)'
  BY <1>1, <1>2, <1>3 DEF AssignOK, ChunkOK, AssignSteps, ChunkSteps, tables
<1> QED
  BY <1>1, <1>3, <1>4, ThreadOnly DEF At, files


-----------------------------------------------------------------------------
(* Sessions that go. *)

\* Freeing a session and its FileID changes nothing else in the heap.
Frees(S) ==
  /\ heap' \in Seq(SessionRecords) /\ Len(heap') = Len(heap)
  /\ \A i \in Sessions : /\ heap'[i].id = heap[i].id /\ heap'[i].file = heap[i].file /\ heap'[i].user = heap[i].user
                         /\ heap'[i].freed <=> heap[i].freed \/ i \in S

\* What freeing sessions does to the heap.
LEMMA FreesOK ==
  ASSUME heap \in Seq(SessionRecords), NEW S, NEW K, freeSessions(S, K) PROVE Frees(S)
<1>1. Len(heap) \in Nat /\ DOMAIN heap = 1..Len(heap) /\ \A i \in 1..Len(heap) : heap[i] \in SessionRecords
  OBVIOUS
<1>2. \A i \in DOMAIN heap : heap'[i] = [heap[i] EXCEPT !.freed = heap[i].freed \/ i \in S,
                                                    !.keyFreed = heap[i].keyFreed \/ i \in K]
  BY <1>1 DEF freeSessions, SessionRecords
<1>3. ASSUME NEW i \in 1..Len(heap)
      PROVE  /\ heap'[i] \in SessionRecords /\ heap'[i].id = heap[i].id /\ heap'[i].file = heap[i].file
             /\ heap'[i].user = heap[i].user /\ (heap'[i].freed <=> heap[i].freed \/ i \in S)
  <2>1. PICK b \in BOOLEAN : b = (heap[i].freed \/ i \in S)
    OBVIOUS
  <2>2. PICK k \in BOOLEAN : k = (heap[i].keyFreed \/ i \in K)
    OBVIOUS
  <2>3. heap'[i] = [heap[i] EXCEPT !.freed = b, !.keyFreed = k] /\ heap[i] \in SessionRecords
    BY <1>1, <1>2, <2>1, <2>2
  <2>4. /\ heap'[i] \in SessionRecords /\ heap'[i].id = heap[i].id /\ heap'[i].file = heap[i].file
        /\ heap'[i].user = heap[i].user /\ heap'[i].freed = b
    BY <2>3 DEF SessionRecords
  <2> QED
    BY <2>1, <2>4
<1>4. PICK h : h = [i \in 1..Len(heap) |-> heap'[i]]
  OBVIOUS
<1>5. heap' = h
  BY <1>1, <1>4 DEF freeSessions
<1>6. h \in Seq(SessionRecords) /\ Len(h) = Len(heap)
  BY <1>1, <1>3, <1>4
<1> QED
  BY <1>3, <1>5, <1>6 DEF Frees, Sessions

\* The entries of the inodes in D leave the table, their sessions are freed
\* and their files closed; no other request is at work on one of them.
LEMMA RemovesOK ==
  ASSUME SeqInv, NEW t \in Threads, ~At(t, "idle"), ThreadStep(t), NEW D \in SUBSET (1..Len(content)), NEW S,
         S \ {None} = {Entry(d).value : d \in {e \in D : Entry(e) # NoEntry}} \ {None},
         sessionsByFileID' \in Seq(Entries), Len(sessionsByFileID') = Len(sessionsByFileID),
         \A d \in 1..Len(content) : sessionsByFileID'[d] = IF d \in D THEN NoEntry ELSE sessionsByFileID[d],
         Frees(S), openFiles' = openFiles \ {i \in S \ {None} : heap[i].file # None},
         \A i \in openFiles : i \in S /\ heap[i].file = None => i \in leaked',
         leaked \subseteq leaked',
         \A v : Making(t, v) => v \in S,
         UNCHANGED <<now, fileOf, content, given>>, fileIDsBySessionID' \in Seq(0..Len(heap)),
         Len(fileIDsBySessionID') = Len(fileIDsBySessionID),
         AssignOK(t)', ChunkOK(t)'
  PROVE  SeqInv'
<1> USE DEF Frees, Sessions
<1>0. /\ Len(heap) \in Nat /\ Len(content) \in Nat /\ openFiles \subseteq 1..Len(heap)
      /\ \A d \in 1..Len(content) : Entry(d) \in Entries
  BY DEF SeqInv, ShapeOK, Entry
<1>1. ShapeOK'
  BY <1>0 DEF SeqInv, ShapeOK, ThreadStep
<1>2. OneRequest' /\ \A u \in Threads : AssignOK(u)' /\ ChunkOK(u)'
  BY OthersIdle
<1>3. IdsOK'
  BY DEF SeqInv, IdsOK
<1>4. \A d \in 1..Len(content) : d \notin D => Entry(d)' = Entry(d)
  BY DEF Entry
<1>5. \A d \in 1..Len(content) : d \in D => Entry(d)' = NoEntry
  BY DEF Entry
<1>6. \A u \in Threads : \A v : Making(u, v) => v \in S
  BY DEF SeqInv, OneRequest, At, Making
<1>7. ASSUME NEW d \in 1..Len(content), d \notin D, Entry(d) # NoEntry PROVE Entry(d).value \notin S
  <2>1. Entry(d).value \in 1..Len(heap) /\ heap[Entry(d).value].id = d
    BY <1>7 DEF SeqInv, TableOK
  <2>2. ASSUME NEW e \in D, Entry(e) # NoEntry PROVE Entry(d).value # Entry(e).value
    BY <1>7, <2>1, <2>2 DEF SeqInv, TableOK
  <2>3. Entry(d).value \notin S \ {None}
    BY <2>2
  <2>4. Entry(d).value # None
    BY <2>1
  <2> QED
    BY <2>3, <2>4
<1>8. TableOK'
  <2> SUFFICES ASSUME NEW d \in 1..Len(content), Entry(d)' # NoEntry
               PROVE  LET v == Entry(d)'.value
                      IN  /\ v \in 1..Len(heap) /\ heap'[v].id = d /\ ~heap'[v].freed
                          /\ heap'[v].file = d /\ heap'[v].user # NoUser
    BY DEF TableOK
  <2>1. d \notin D /\ Entry(d)' = Entry(d) /\ Entry(d) # NoEntry
    BY <1>4, <1>5
  <2>2. PICK v : v = Entry(d).value
    OBVIOUS
  <2>3. v \notin S /\ ~\E u \in Threads : Making(u, v)
    BY <1>6, <1>7, <2>1, <2>2
  <2>4. /\ v \in 1..Len(heap) /\ heap[v].id = d /\ ~heap[v].freed /\ heap[v].file = d /\ heap[v].user # NoUser
    BY <2>1, <2>2, <2>3 DEF SeqInv, TableOK
  <2> QED
    BY <2>1, <2>2, <2>3, <2>4
<1>9. ASSUME NEW i \in 1..Len(heap), ~heap[i].freed, heap[i].file # None, i \notin S
      PROVE  heap[i].file \in 1..Len(content) /\ heap[i].file \notin D /\ Entry(heap[i].file).value = i
  <2>1. heap[i].file \in 1..Len(content) /\ Entry(heap[i].file).value = i
    BY <1>9 DEF SeqInv, LiveOK, Live
  <2>2. Entry(heap[i].file) # NoEntry
    BY <1>9, <2>1 DEF NoEntry
  <2>3. ASSUME heap[i].file \in D PROVE i \in S
    <3>1. PICK d \in D : d = heap[i].file
      BY <2>3
    <3>2. Entry(d).value = i /\ Entry(d) # NoEntry /\ i # None
      BY <1>9, <2>1, <2>2, <3>1 DEF None
    <3>3. i \in {Entry(e).value : e \in {f \in D : Entry(f) # NoEntry}} \ {None}
      BY <3>2
    <3> QED
      BY <3>3
  <2> QED
    BY <1>9, <2>1, <2>3
<1>10. LiveOK'
  <2> SUFFICES ASSUME NEW i \in 1..Len(heap'), Live(i)'
               PROVE  (heap[i].file \in 1..Len(content) /\ Entry(heap[i].file).value = i)'
    BY DEF LiveOK
  <2>1. i \in 1..Len(heap) /\ i \notin S /\ ~heap[i].freed /\ heap[i].file # None /\ heap'[i].file = heap[i].file
    BY DEF Live
  <2>2. PICK f \in 1..Len(content) : f = heap[i].file /\ f \notin D /\ Entry(f).value = i
    BY <1>9, <2>1
  <2>3. Entry(f)'.value = i
    BY <1>4, <2>2
  <2> QED
    BY <2>1, <2>2, <2>3 DEF Entry
<1>11. IntactOK'
  <2>1. \A i \in 1..Len(heap) : Live(i)' => Live(i) /\ heap'[i].file = heap[i].file
    BY DEF Live
  <2> SUFFICES ASSUME NEW i \in 1..Len(heap), Live(i)', NEW k \in DOMAIN content[heap'[i].file]
               PROVE  content[heap'[i].file][k] = i
    BY DEF IntactOK
  <2>2. Live(i) /\ heap'[i].file = heap[i].file
    BY <2>1
  <2>3. \A j \in DOMAIN content[heap[i].file] : content[heap[i].file][j] = i
    <3>1. IntactOK
      BY DEF SeqInv
    <3> QED
      BY <2>2, <3>1, Zenon DEF IntactOK
  <2> QED
    BY <2>2, <2>3, Zenon
<1>12. HandlesOK'
  <2> SUFFICES ASSUME NEW i \in openFiles', i \notin leaked'
               PROVE  \E id \in 1..Len(content) : Entry(id)'.value = i
    BY DEF HandlesOK
  <2>1. i \in openFiles /\ i \in 1..Len(heap) /\ i \notin leaked
    BY <1>0
  <2>2. PICK id \in 1..Len(content) : Entry(id).value = i
    BY <2>1 DEF SeqInv, HandlesOK
  <2>3. i \notin S
    BY <2>1
  <2>4. Entry(id) # NoEntry
    BY <2>1, <2>2 DEF NoEntry
  <2>5. id \notin D
    BY <2>1, <2>2, <2>3, <2>4
  <2> QED
    BY <1>4, <2>2, <2>5
<1> QED
  BY <1>1, <1>2, <1>3, <1>8, <1>10, <1>11, <1>12 DEF SeqInv


\* removeSessionTimeOuts: the sessions that timed out are all in order.
LEMMA PruneKeeps == ASSUME SeqInv, NEW t \in Threads, removeSessionTimeOuts(t), UNCHANGED leaked PROVE SeqInv'
<1>0. /\ heap \in Seq(SessionRecords) /\ content \in Seq(Seq(Nat)) /\ sessionsByFileID \in Seq(Entries)
      /\ Len(sessionsByFileID) = Len(content) /\ Inodes = 1..Len(content) /\ NoEntry \in Entries
      /\ fileIDsBySessionID \in Seq(0..Len(heap))
  BY DEF SeqInv, ShapeOK, Inodes, NoEntry, Entries
<1>1. PICK D : /\ D \in SUBSET {id \in Inodes : /\ Entry(id) # NoEntry
                                               /\ timeOutMatcher(thread[t].time, heap[Entry(id).value])}
               /\ sessionsByFileID' = [id \in Inodes |-> IF id \in D THEN NoEntry ELSE Entry(id)]
               /\ closeFiles({Entry(id).value : id \in D}) /\ freeSessions({Entry(id).value : id \in D}, {})
  BY DEF removeSessionTimeOuts
<1>2. PICK S : S = {Entry(id).value : id \in D}
  OBVIOUS
<1>3. /\ At(t, "prune") /\ (Ends(t) \/ Goes(t, IF thread[t].sid = None THEN "info" ELSE "lookup"))
      /\ sessionsByFileID' = [id \in Inodes |-> IF id \in D THEN NoEntry ELSE Entry(id)]
      /\ closeFiles(S) /\ freeSessions(S, {})
      /\ UNCHANGED <<now, fileOf, content, fileIDsBySessionID, given, ghosts>>
  BY <1>1, <1>2 DEF removeSessionTimeOuts
<1>4. D \in SUBSET (1..Len(content)) /\ \A d \in D : Entry(d) # NoEntry
  BY <1>0, <1>1
<1>5. S = {Entry(d).value : d \in {e \in D : Entry(e) # NoEntry}}
  BY <1>2, <1>4
<1>6. /\ sessionsByFileID' \in Seq(Entries) /\ Len(sessionsByFileID') = Len(sessionsByFileID)
      /\ \A d \in 1..Len(content) : sessionsByFileID'[d] = IF d \in D THEN NoEntry ELSE sessionsByFileID[d]
  <2>1. \A d \in 1..Len(content) : sessionsByFileID[d] \in Entries
    BY <1>0
  <2>2. PICK n \in Nat : n = Len(content)
    BY <1>0
  <2>3. sessionsByFileID' = [d \in 1..n |-> IF d \in D THEN NoEntry ELSE sessionsByFileID[d]]
    BY <1>0, <1>3, <2>2 DEF Entry
  <2> QED
    BY <1>0, <2>1, <2>2, <2>3
<1>7. Frees(S)
  BY <1>0, <1>3, FreesOK
<1>8. \A u \in Threads : \A v : ~Making(u, v)
  BY <1>3 DEF SeqInv, OneRequest, At, Making
<1>9. \A i \in S : i # None /\ heap[i].file # None
  BY <1>2, <1>4, <1>8 DEF SeqInv, TableOK, Sessions
<1>10. openFiles' = openFiles \ {i \in S \ {None} : heap[i].file # None}
  BY <1>3, <1>9 DEF closeFiles
<1>12. thread[t].user # NoUser /\ (thread[t].sid = None => thread[t].name \in Names)
       /\ (thread[t].sid # None => thread[t].sid \in 1..Len(fileIDsBySessionID))
  BY <1>3 DEF SeqInv, ChunkOK, At
<1>13. ThreadStep(t) /\ AssignOK(t)' /\ ChunkOK(t)'
  <2>1. CASE Ends(t)
    BY <2>1, EndsOK
  <2>2. CASE Goes(t, IF thread[t].sid = None THEN "info" ELSE "lookup")
    <3>1. /\ ThreadStep(t) /\ thread'[t].step = (IF thread[t].sid = None THEN "info" ELSE "lookup")
          /\ thread'[t].user = thread[t].user /\ thread'[t].name = thread[t].name /\ thread'[t].sid = thread[t].sid
      BY <2>2, GoesOK DEF Steps, AssignSteps, ChunkSteps
    <3>2. AssignOK(t)'
      BY <1>12, <3>1 DEF AssignOK, AssignSteps
    <3>3. ChunkOK(t)'
      BY <1>3, <1>12, <3>1 DEF ChunkOK, ChunkSteps
    <3> QED
      BY <3>1, <3>2, <3>3
  <2> QED
    BY <1>3, <2>1, <2>2
<1>15. \A v : Making(t, v) => v \in S
  BY <1>8
<1>16. ~At(t, "idle")
  BY <1>3 DEF At
<1>17. S \ {None} = {Entry(d).value : d \in {e \in D : Entry(e) # NoEntry}} \ {None}
  BY <1>5
<1>18. \A i \in openFiles : i \in S /\ heap[i].file = None => i \in leaked'
  BY <1>9
<1> HIDE DEF ThreadStep, Frees
<1> QED
  BY <1>0, <1>3, <1>4, <1>6, <1>7, <1>10, <1>13, <1>15, <1>16, <1>17, <1>18, RemovesOK

\* removeFromTable, in the steps that undo or end a session.
LEMMA RemoveKeeps ==
  ASSUME SeqInv, NEW t \in Threads, ~At(t, "idle"), ThreadStep(t), NEW id \in 1..Len(content), removeFromTable(id),
         \A v : Making(t, v) => v = Entry(id).value,
         Entry(id).value \in openFiles /\ heap[Entry(id).value].file = None => Entry(id).value \in leaked',
         leaked \subseteq leaked', UNCHANGED <<now, fileOf, content, fileIDsBySessionID, given>>,
         AssignOK(t)', ChunkOK(t)'
  PROVE  SeqInv'
<1>0. /\ heap \in Seq(SessionRecords) /\ content \in Seq(Seq(Nat)) /\ sessionsByFileID \in Seq(Entries)
      /\ Len(sessionsByFileID) = Len(content) /\ NoEntry \in Entries /\ openFiles \subseteq 1..Len(heap)
      /\ fileIDsBySessionID \in Seq(0..Len(heap))
  BY DEF SeqInv, ShapeOK, NoEntry, Entries
<1>1. PICK D : D = {id}
  OBVIOUS
<1>2. PICK S : S = {Entry(id).value}
  OBVIOUS
<1>3. /\ sessionsByFileID' = [sessionsByFileID EXCEPT ![id] = NoEntry]
      /\ closeFiles(S \ {None}) /\ freeSessions(S, {Entry(id).key})
  BY <1>2 DEF removeFromTable
<1>4. D \in SUBSET (1..Len(content))
  BY <1>1
<1>5. S \ {None} = {Entry(d).value : d \in {e \in D : Entry(e) # NoEntry}} \ {None}
  <2>1. CASE Entry(id) = NoEntry
    BY <1>1, <1>2, <2>1 DEF NoEntry
  <2>2. CASE Entry(id) # NoEntry
    BY <1>1, <1>2, <2>2
  <2> QED
    BY <2>1, <2>2
<1>6. /\ sessionsByFileID' \in Seq(Entries) /\ Len(sessionsByFileID') = Len(sessionsByFileID)
      /\ \A d \in 1..Len(content) : sessionsByFileID'[d] = IF d \in D THEN NoEntry ELSE sessionsByFileID[d]
  BY <1>0, <1>1, <1>3
<1>7. Frees(S)
  BY <1>0, <1>3, FreesOK
<1>8. openFiles' = openFiles \ {i \in S \ {None} : heap[i].file # None}
  BY <1>3 DEF closeFiles
<1>9. \A v : Making(t, v) => v \in S
  BY <1>2
<1>10. \A i \in openFiles : i \in S /\ heap[i].file = None => i \in leaked'
  BY <1>2
<1> QED
  BY <1>0, <1>4, <1>5, <1>6, <1>7, <1>8, <1>9, <1>10, RemovesOK


-----------------------------------------------------------------------------
(* assignSessionIDToCaller *)

\* A step that changes the request and its file or session.
LEMMA ThreadSet ==
  ASSUME SeqInv, NEW t \in Threads, NEW r \in ThreadRecords, thread' = [thread EXCEPT ![t] = r]
  PROVE  ThreadStep(t) /\ thread'[t] = r
BY DEF SeqInv, ShapeOK, ThreadStep

\* Looking at the file keeps the invariant;
LEMMA InfoKeeps == ASSUME SeqInv, NEW t \in Threads, fileInfo(t) PROVE SeqInv'
<1>0. /\ At(t, "info") /\ thread[t] \in ThreadRecords /\ thread \in [Threads -> ThreadRecords]
      /\ UNCHANGED <<now, content, fileOf, openFiles, heap, tables, given, leaked>>
  BY DEF fileInfo, files, ghosts, SeqInv, ShapeOK
<1>1. thread[t].name \in Names /\ thread[t].user # NoUser /\ fileOf[thread[t].name] \in 0..Len(content)
  BY <1>0 DEF At, SeqInv, AssignOK, AssignSteps, ShapeOK
<1>2. CASE Ends(t)
  BY <1>0, <1>2, EndsOK, ThreadOnly DEF At
<1>3. CASE thread' = [thread EXCEPT ![t].id = fileOf[thread[t].name],
                                    ![t].step = IF fileOf[thread[t].name] = None THEN "create" ELSE "check"]
  <2>1. PICK id \in Nat : id = fileOf[thread[t].name]
    BY <1>1 DEF SeqInv, ShapeOK
  <2>2. PICK step \in {"create", "check"} : step = IF id = None THEN "create" ELSE "check"
    OBVIOUS
  <2>3. PICK r : r = [thread[t] EXCEPT !.id = id, !.step = step]
    OBVIOUS
  <2>4. r \in ThreadRecords /\ r.id = id /\ r.step = step /\ r.name = thread[t].name /\ r.user = thread[t].user
    BY <1>0, <2>1, <2>2, <2>3 DEF ThreadRecords, Steps, AssignSteps
  <2>5. thread' = [thread EXCEPT ![t] = r]
    BY <1>0, <1>3, <2>1, <2>2, <2>3
  <2>6. ThreadStep(t) /\ thread'[t] = r
    BY <2>4, <2>5, ThreadSet
  <2>7. AssignOK(t)' /\ ChunkOK(t)'
    BY <1>0, <1>1, <2>1, <2>2, <2>4, <2>6 DEF AssignOK, ChunkOK, AssignSteps, ChunkSteps, Entry, tables
  <2> QED
    BY <1>0, <2>6, <2>7, ThreadOnly DEF At
<1> QED
  BY <1>2, <1>3 DEF fileInfo

\* so does the search for a duplicate.
LEMMA CheckKeeps == ASSUME SeqInv, NEW t \in Threads, checkForDuplicatesInTable(t) PROVE SeqInv'
<1>0. /\ At(t, "check") /\ UNCHANGED <<now, content, fileOf, openFiles, heap, tables, given, leaked>>
  BY DEF checkForDuplicatesInTable, files, ghosts
<1>1. /\ thread[t].name \in Names /\ thread[t].user # NoUser /\ thread[t].id = fileOf[thread[t].name]
      /\ thread[t].id # None
  BY <1>0 DEF At, SeqInv, AssignOK, AssignSteps
<1>2. CASE Ends(t)
  BY <1>0, <1>2, EndsOK, ThreadOnly DEF At
<1>3. CASE Entry(thread[t].id) = NoEntry /\ Goes(t, "add")
  <2>1. /\ ThreadStep(t) /\ thread'[t].step = "add" /\ thread'[t].user = thread[t].user
        /\ thread'[t].name = thread[t].name /\ thread'[t].id = thread[t].id
    BY <1>3, GoesOK DEF Steps, AssignSteps
  <2>2. AssignOK(t)' /\ ChunkOK(t)'
    BY <1>0, <1>1, <1>3, <2>1 DEF AssignOK, ChunkOK, AssignSteps, ChunkSteps, Entry, tables
  <2> QED
    BY <1>0, <2>1, <2>2, ThreadOnly DEF At
<1> QED
  BY <1>2, <1>3 DEF checkForDuplicatesInTable

\* A new file has no chunk and no session.
FileMade(n) ==
  /\ content' \in Seq(Seq(Nat)) /\ sessionsByFileID' \in Seq(Entries) /\ Len(sessionsByFileID') = Len(content')
  /\ fileOf' \in [Names -> 0..Len(content')] /\ Len(content) <= Len(content')
  /\ \A d \in 1..Len(content) : content'[d] = content[d] /\ sessionsByFileID'[d] = sessionsByFileID[d]
  /\ \A d \in 1..Len(content') : d \notin 1..Len(content) => sessionsByFileID'[d] = NoEntry

\* What creating a file does to the tables.
LEMMA FileMadeOK ==
  ASSUME SeqInv, NEW n \in Names, Created(n) \/ UNCHANGED <<fileOf, content, sessionsByFileID>>
  PROVE  FileMade(n) /\ (Created(n) => fileOf'[n] # None)
<1>0. /\ content \in Seq(Seq(Nat)) /\ fileOf \in [Names -> 0..Len(content)] /\ sessionsByFileID \in Seq(Entries)
      /\ Len(sessionsByFileID) = Len(content) /\ Len(content) \in Nat /\ NoEntry \in Entries
  BY DEF SeqInv, ShapeOK, NoEntry, Entries
<1>1. CASE UNCHANGED <<fileOf, content, sessionsByFileID>>
  BY <1>0, <1>1 DEF FileMade, Created
<1>2. CASE /\ fileOf[n] = None /\ fileOf' = [fileOf EXCEPT ![n] = Len(content) + 1]
           /\ content' = Append(content, <<>>) /\ sessionsByFileID' = Append(sessionsByFileID, NoEntry)
  <2>1. /\ content' \in Seq(Seq(Nat)) /\ Len(content') = Len(content) + 1
        /\ \A d \in 1..Len(content) : content'[d] = content[d]
    BY <1>0, <1>2
  <2>2. /\ sessionsByFileID' \in Seq(Entries) /\ Len(sessionsByFileID') = Len(content) + 1
        /\ \A d \in 1..Len(content) : sessionsByFileID'[d] = sessionsByFileID[d]
        /\ sessionsByFileID'[Len(content) + 1] = NoEntry
    BY <1>0, <1>2
  <2>3. fileOf' \in [Names -> 0..Len(content')] /\ fileOf'[n] # None
    BY <1>0, <1>2, <2>1
  <2> QED
    BY <1>0, <2>1, <2>2, <2>3 DEF FileMade
<1> QED
  BY <1>1, <1>2 DEF Created

\* Creating the file keeps the invariant;
LEMMA CreateKeeps ==
  ASSUME SeqInv, NEW t \in Threads, At(t, "create"), FileMade(thread[t].name), ThreadStep(t),
         UNCHANGED <<now, openFiles, heap, fileIDsBySessionID, given, leaked>>, AssignOK(t)', ChunkOK(t)'
  PROVE  SeqInv'
<1> USE DEF FileMade
<1>0. Len(content) \in Nat /\ Len(content') \in Nat
  BY DEF SeqInv, ShapeOK
<1>1. ShapeOK'
  BY <1>0 DEF SeqInv, ShapeOK, ThreadStep
<1>2. OneRequest' /\ \A u \in Threads : AssignOK(u)' /\ ChunkOK(u)'
  BY OthersIdle DEF At
<1>3. IdsOK'
  BY <1>0 DEF SeqInv, IdsOK, Sessions
<1>4. \A d \in 1..Len(content') : Entry(d)' # NoEntry => d \in 1..Len(content) /\ Entry(d)' = Entry(d)
  BY DEF Entry
<1>5. \A u \in Threads : \A v : ~Making(u, v)
  BY DEF SeqInv, OneRequest, At, Making
<1>10. \A d \in 1..Len(content) : d \in 1..Len(content') /\ Entry(d)' = Entry(d) /\ content'[d] = content[d]
  BY <1>0 DEF Entry
<1> HIDE DEF FileMade
<1>6. TableOK'
  <2> SUFFICES ASSUME NEW d \in 1..Len(content'), Entry(d)' # NoEntry
               PROVE  LET v == Entry(d)'.value
                      IN  /\ v \in 1..Len(heap) /\ heap[v].id = d /\ ~heap[v].freed
                          /\ heap[v].file = d /\ heap[v].user # NoUser
    BY DEF TableOK, Sessions
  <2>1. d \in 1..Len(content) /\ Entry(d)' = Entry(d)
    BY <1>4
  <2> QED
    BY <1>5, <2>1 DEF SeqInv, TableOK, Sessions
<1>7. LiveOK'
  <2>1. \A i \in Sessions : Live(i) => heap[i].file \in 1..Len(content) /\ Entry(heap[i].file).value = i
    BY DEF SeqInv, LiveOK
  <2>2. ASSUME NEW i \in Sessions,
  Live(i) PROVE heap[i].file \in 1..Len(content') /\ Entry(heap[i].file)'.value = i
    <3>1. PICK f : f = heap[i].file
      OBVIOUS
    <3>2. f \in 1..Len(content) /\ Entry(f).value = i
      BY <2>1, <2>2, <3>1
    <3>3. f \in 1..Len(content') /\ Entry(f)'.value = i
      BY <1>10, <3>2
    <3> QED
      BY <3>1, <3>3 DEF Entry
  <2> QED
    BY <2>2 DEF LiveOK, Live, Sessions, Entry
<1>8. HandlesOK'
  <2> SUFFICES ASSUME NEW i \in openFiles, i \notin leaked
               PROVE  \E id \in 1..Len(content') : Entry(id)'.value = i
    BY DEF HandlesOK
  <2>1. PICK id \in 1..Len(content) : Entry(id).value = i
    BY DEF SeqInv, HandlesOK
  <2> QED
    BY <1>10, <2>1
<1>9. IntactOK'
  <2>1. \A i \in Sessions : Live(i) => heap[i].file \in 1..Len(content)
    BY DEF SeqInv, LiveOK
  <2>2. \A i \in Sessions : Live(i) => content'[heap[i].file] = content[heap[i].file]
    BY <1>10, <2>1
  <2>3. IntactOK
    BY DEF SeqInv
  <2> QED
    BY <2>2, <2>3 DEF IntactOK, Live, Sessions
<1> QED
  BY <1>1, <1>2, <1>3, <1>6, <1>7, <1>8, <1>9 DEF SeqInv

\* in either outcome of the request.
LEMMA NewFileKeeps == ASSUME SeqInv, NEW t \in Threads, handleNewFileCase(t) \/ createFails(t) PROVE SeqInv'
<1>0. /\ At(t, "create") /\ thread[t] \in ThreadRecords /\ thread \in [Threads -> ThreadRecords]
      /\ UNCHANGED <<now, openFiles, heap, fileIDsBySessionID, given, leaked>>
  BY DEF handleNewFileCase, createFails, ghosts, SeqInv, ShapeOK
<1>1. thread[t].name \in Names /\ thread[t].user # NoUser
  BY <1>0 DEF At, SeqInv, AssignOK, AssignSteps
<1>2. FileMade(thread[t].name) /\ (Created(thread[t].name) => fileOf'[thread[t].name] # None)
  BY <1>1, FileMadeOK DEF handleNewFileCase, createFails
<1>3. CASE createFails(t)
  <2>1. Ends(t)
    BY <1>3 DEF createFails
  <2>2. ThreadStep(t) /\ AssignOK(t)' /\ ChunkOK(t)'
    BY <2>1, EndsOK
  <2> QED
    BY <1>0, <1>2, <2>2, CreateKeeps
<1>4. CASE handleNewFileCase(t)
  <2>1. PICK id \in Nat : id = fileOf'[thread[t].name]
    BY <1>1, <1>2 DEF FileMade
  <2>2. PICK r : r = [thread[t] EXCEPT !.id = id, !.step = "check"]
    OBVIOUS
  <2>3. r \in ThreadRecords /\ r.id = id /\ r.step = "check" /\ r.name = thread[t].name /\ r.user = thread[t].user
    BY <1>0, <2>1, <2>2 DEF ThreadRecords, Steps, AssignSteps
  <2>4. thread' = [thread EXCEPT ![t] = r]
    BY <1>0, <1>4, <2>1, <2>2 DEF handleNewFileCase
  <2>5. ThreadStep(t) /\ thread'[t] = r
    BY <2>3, <2>4, ThreadSet
  <2>6. id # None
    BY <1>2, <1>4, <2>1 DEF handleNewFileCase
  <2>7. AssignOK(t)' /\ ChunkOK(t)'
    BY <1>1, <2>1, <2>3, <2>5, <2>6 DEF AssignOK, ChunkOK, AssignSteps, ChunkSteps
  <2> QED
    BY <1>0, <1>2, <2>5, <2>7, CreateKeeps
<1> QED
  BY <1>3, <1>4


\* The new session takes a place that is free.
LEMMA AddKeeps == ASSUME SeqInv, NEW t \in Threads, addToTable(t) PROVE SeqInv'
<1>0. /\ heap \in Seq(SessionRecords) /\ content \in Seq(Seq(Nat)) /\ sessionsByFileID \in Seq(Entries)
      /\ Len(sessionsByFileID) = Len(content) /\ Len(heap) \in Nat /\ Len(content) \in Nat
      /\ thread[t] \in ThreadRecords /\ thread \in [Threads -> ThreadRecords]
  BY DEF SeqInv, ShapeOK
<1>1. PICK id \in Nat : id = thread[t].id
  BY <1>0 DEF ThreadRecords
<1>2. PICK n \in Nat : n = Len(heap) + 1
  BY <1>0
<1>3. PICK time \in Nat : time = thread[t].time
  BY <1>0 DEF ThreadRecords
<1>4. PICK e : e = [id |-> id, file |-> None, user |-> NoUser, time |-> time, heard |-> time, sid |-> None,
                    freed |-> FALSE, keyFreed |-> FALSE]
  OBVIOUS
<1>5. e \in SessionRecords /\ e.id = id /\ e.file = None /\ ~e.freed
  BY <1>4 DEF SessionRecords
<1>6. /\ At(t, "add") /\ heap' = Append(heap, e)
      /\ sessionsByFileID' = [sessionsByFileID EXCEPT ![id] = [key |-> IF @ = NoEntry THEN n ELSE @.key, value |-> n]]
      /\ thread' = [thread EXCEPT ![t].i = n, ![t].step = "open"]
      /\ UNCHANGED <<now, content, fileOf, openFiles, fileIDsBySessionID, given, leaked>>
  BY <1>1, <1>2, <1>3, <1>4 DEF addToTable, files, ghosts
<1>7. /\ thread[t].name \in Names /\ thread[t].user # NoUser /\ id = fileOf[thread[t].name] /\ id # None
      /\ Entry(id) = NoEntry
  BY <1>1, <1>6 DEF At, SeqInv, AssignOK, AssignSteps
<1>8. id \in 1..Len(content)
  BY <1>7 DEF SeqInv, ShapeOK
<1>9. /\ heap' \in Seq(SessionRecords) /\ Len(heap') = n /\ heap'[n] = e
      /\ \A i \in 1..Len(heap) : heap'[i] = heap[i]
  BY <1>0, <1>2, <1>5, <1>6
<1>10. PICK k : k = [key |-> n, value |-> n]
  OBVIOUS
<1>11. k \in Entries /\ k.value = n /\ k # NoEntry
  BY <1>2, <1>10 DEF Entries, NoEntry
<1>12. /\ sessionsByFileID' \in Seq(Entries) /\ Len(sessionsByFileID') = Len(content)
       /\ sessionsByFileID'[id] = k /\ \A d \in 1..Len(content) : d # id => sessionsByFileID'[d] = sessionsByFileID[d]
  <2>1. sessionsByFileID' = [sessionsByFileID EXCEPT ![id] = k]
    BY <1>0, <1>6, <1>7, <1>8, <1>10 DEF Entry
  <2> QED
    BY <1>0, <1>8, <1>11, <2>1
<1>13. PICK r : r = [thread[t] EXCEPT !.i = n, !.step = "open"]
  OBVIOUS
<1>14. /\ r \in ThreadRecords /\ r.i = n /\ r.step = "open" /\ r.id = id /\ r.name = thread[t].name
       /\ r.user = thread[t].user
  BY <1>0, <1>1, <1>13 DEF ThreadRecords, Steps, AssignSteps
<1>15. ThreadStep(t) /\ thread'[t] = r
  <2>1. thread' = [thread EXCEPT ![t] = r]
    BY <1>0, <1>6, <1>13
  <2> QED
    BY <1>14, <2>1, ThreadSet
<1>16. /\ Entry(id)' = k /\ \A d \in 1..Len(content) : d # id => Entry(d)' = Entry(d)
  BY <1>12 DEF Entry
<1>17. ShapeOK'
  <2>1. fileIDsBySessionID' \in Seq(0..Len(heap'))
    <3>1. fileIDsBySessionID \in Seq(0..Len(heap)) /\ 0..Len(heap) \subseteq 0..n
      BY <1>0, <1>2 DEF SeqInv, ShapeOK
    <3> QED
      BY <1>6, <1>9, <3>1
  <2>2. openFiles' \subseteq 1..Len(heap')
    BY <1>0, <1>2, <1>6, <1>9 DEF SeqInv, ShapeOK
  <2> QED
    BY <1>6, <1>9, <1>12, <1>15, <2>1, <2>2 DEF SeqInv, ShapeOK, ThreadStep
<1>18. AssignOK(t)' /\ ChunkOK(t)'
  <2>1. n \notin openFiles
    BY <1>0, <1>2 DEF SeqInv, ShapeOK
  <2>2. Entry(thread[t].id)' = k
    BY <1>12, <1>14, <1>15 DEF Entry
  <2>3. thread'[t].step = "open" /\ thread'[t].i = n /\ thread'[t].id = id /\ thread'[t].name = thread[t].name
        /\ thread'[t].user = thread[t].user
    BY <1>14, <1>15
  <2>4. n \in 1..Len(heap') /\ heap'[n].id = id /\ heap'[n].file = None
    BY <1>2, <1>5, <1>9
  <2>5. ChunkOK(t)'
    BY <2>3 DEF ChunkOK, ChunkSteps
  <2>6. AssignOK(t)'
    <3>1. Entry(thread[t].id)'.value = thread'[t].i
      BY <1>11, <2>2, <2>3
    <3> QED
      BY <1>6, <1>7, <1>8, <2>1, <2>3, <2>4, <3>1 DEF AssignOK, AssignSteps, Sessions
  <2> QED
    BY <2>5, <2>6
<1>19. OneRequest' /\ \A u \in Threads : AssignOK(u)' /\ ChunkOK(u)'
  BY <1>6, <1>15, <1>18, OthersIdle DEF At
<1>20. \A u \in Threads : \A v : ~Making(u, v)
  BY <1>6 DEF SeqInv, OneRequest, At, Making
<1>21. Making(t, n)'
  BY <1>14, <1>15 DEF Making
<1>22. TableOK'
  <2> SUFFICES ASSUME NEW d \in 1..Len(content), Entry(d)' # NoEntry
               PROVE  LET v == Entry(d)'.value
                      IN  /\ v \in 1..Len(heap') /\ heap'[v].id = d /\ ~heap'[v].freed /\ heap'[v].file \in {None, d}
                          /\ (heap'[v].file = d /\ heap'[v].user # NoUser) \/ v = n
    BY <1>6, <1>21 DEF TableOK, Sessions
  <2>1. CASE d = id
    BY <1>2, <1>5, <1>9, <1>11, <1>16, <2>1
  <2>2. CASE d # id
    <3>1. PICK v : v = Entry(d).value
      OBVIOUS
    <3>2. /\ v \in 1..Len(heap) /\ heap[v].id = d /\ ~heap[v].freed /\ heap[v].file = d /\ heap[v].user # NoUser
      BY <1>16, <1>20, <2>2, <3>1 DEF SeqInv, TableOK, Sessions
    <3>3. Entry(d)'.value = v /\ v \in 1..Len(heap') /\ heap'[v] = heap[v]
      BY <1>0, <1>2, <1>9, <1>16, <2>2, <3>1, <3>2
    <3> QED
      BY <3>2, <3>3
  <2> QED
    BY <2>1, <2>2
<1>23. \A i \in 1..Len(heap') : Live(i)' => i \in 1..Len(heap) /\ heap'[i] = heap[i] /\ Live(i)
  BY <1>0, <1>2, <1>5, <1>9 DEF Live
<1>24. LiveOK'
  <2> SUFFICES ASSUME NEW i \in 1..Len(heap'), Live(i)'
               PROVE  heap'[i].file \in 1..Len(content) /\ Entry(heap[i].file)'.value = i
    BY <1>6 DEF LiveOK, Sessions
  <2>1. PICK f : f = heap[i].file
    OBVIOUS
  <2>2. i \in 1..Len(heap) /\ f \in 1..Len(content) /\ Entry(f).value = i /\ heap'[i].file = f
    BY <1>23, <2>1 DEF SeqInv, LiveOK, Sessions
  <2>3. f # id
    BY <1>7, <2>2 DEF NoEntry
  <2>4. sessionsByFileID'[f].value = i
    BY <1>12, <2>2, <2>3 DEF Entry
  <2> QED
    BY <2>2, <2>4 DEF Entry
<1>25. HandlesOK'
  <2> SUFFICES ASSUME NEW i \in openFiles, i \notin leaked
               PROVE  \E d \in 1..Len(content) : Entry(d)'.value = i
    BY <1>6 DEF HandlesOK
  <2>1. PICK d \in 1..Len(content) : Entry(d).value = i
    BY DEF SeqInv, HandlesOK
  <2>2. d # id
    BY <1>7, <2>1 DEF NoEntry, SeqInv, ShapeOK
  <2> QED
    BY <1>16, <2>1, <2>2
<1>26. IntactOK'
  <2> SUFFICES ASSUME NEW i \in 1..Len(heap'), Live(i)', NEW j \in DOMAIN content[heap'[i].file]
               PROVE  content[heap'[i].file][j] = i
    BY <1>6 DEF IntactOK, Sessions
  <2>1. i \in 1..Len(heap) /\ Live(i) /\ heap'[i] = heap[i]
    BY <1>23
  <2>2. \A m \in DOMAIN content[heap[i].file] : content[heap[i].file][m] = i
    <3>1. IntactOK
      BY DEF SeqInv
    <3> QED
      BY <2>1, <3>1, Zenon DEF IntactOK, Sessions
  <2> QED
    BY <2>1, <2>2, Zenon
<1>27. IdsOK'
  <2>1. \A i \in 1..Len(heap') : i \in 1..Len(heap) \/ i = n
    BY <1>0, <1>2, <1>9
  <2> QED
    BY <1>5, <1>6, <1>8, <1>9, <2>1 DEF SeqInv, IdsOK, Sessions
<1> QED
  BY <1>17, <1>19, <1>22, <1>24, <1>25, <1>26, <1>27 DEF SeqInv

-----------------------------------------------------------------------------
(* Steps that change one session, or one file. *)

\* Session i changes to e.  A file it gets is the empty one that the table
\* has it under.
SessionStep(t, i, e) ==
  /\ heap' = [heap EXCEPT ![i] = e] /\ e.id = heap[i].id /\ (e.freed <=> heap[i].freed)
  /\ e.file = heap[i].file \/ (/\ e.file = e.id /\ Entry(e.id).value = i /\ content[e.id] = <<>>)
  /\ e.user = heap[i].user \/ e.user # NoUser
  /\ \A v : Making(t, v) => v = i
  /\ Making(t, i) => Making(t, i)' \/ (e.file = e.id /\ e.user # NoUser)
  /\ UNCHANGED <<now, fileOf, content, openFiles, sessionsByFileID, leaked>>
  /\ fileIDsBySessionID' \in Seq(0..Len(heap)) /\ \A g \in given' : g[2] \in 1..Len(fileIDsBySessionID')

\* A step that changes one session keeps the invariant;
LEMMA SessionKeeps ==
  ASSUME SeqInv, NEW t \in Threads, ~At(t, "idle"), ThreadStep(t), NEW i \in Sessions, NEW e \in SessionRecords,
         SessionStep(t, i, e), AssignOK(t)', ChunkOK(t)'
  PROVE  SeqInv'
<1> USE DEF SessionStep, Sessions
<1>0. heap \in Seq(SessionRecords) /\ Len(heap) \in Nat /\ heap[i] \in SessionRecords
  BY DEF SeqInv, ShapeOK
<1>1. /\ heap' \in Seq(SessionRecords) /\ Len(heap') = Len(heap) /\ heap'[i] = e
      /\ \A j \in 1..Len(heap) : j # i => heap'[j] = heap[j]
  BY <1>0
<1>2. \A j \in 1..Len(heap) : heap'[j].id = heap[j].id /\ (heap'[j].freed <=> heap[j].freed)
  BY <1>1
<1>3. ShapeOK'
  BY <1>1 DEF SeqInv, ShapeOK, ThreadStep
<1>4. OneRequest' /\ \A u \in Threads : AssignOK(u)' /\ ChunkOK(u)'
  BY OthersIdle
<1>5. IdsOK'
  BY <1>1, <1>2 DEF SeqInv, IdsOK
<1>6. \A d : Entry(d)' = Entry(d)
  BY DEF Entry
<1>7. \A u \in Threads : \A v : Making(u, v) => u = t /\ v = i
  BY DEF SeqInv, OneRequest, At, Making
<1>8. \A j \in 1..Len(heap) : heap'[j].file = heap[j].file \/
                               (j = i /\ e.file = e.id /\ Entry(e.id).value = i /\ content[e.id] = <<>>)
  BY <1>1
<1>9. TableOK'
  <2> SUFFICES ASSUME NEW d \in 1..Len(content), Entry(d) # NoEntry, NEW v, v = Entry(d).value
               PROVE  /\ v \in 1..Len(heap) /\ heap'[v].id = d /\ ~heap'[v].freed /\ heap'[v].file \in {None, d}
                      /\ (heap'[v].file = d /\ heap'[v].user # NoUser) \/ \E u \in Threads : Making(u, v)'
    BY <1>1, <1>6 DEF TableOK
  <2>2. /\ v \in 1..Len(heap) /\ heap[v].id = d /\ ~heap[v].freed /\ heap[v].file \in {None, d}
        /\ (heap[v].file = d /\ heap[v].user # NoUser) \/ \E u \in Threads : Making(u, v)
    BY DEF SeqInv, TableOK
  <2>3. heap'[v].id = d /\ ~heap'[v].freed
    BY <1>2, <2>2
  <2>4. heap'[v].file \in {None, d}
    BY <1>1, <2>2
  <2>5. (heap'[v].file = d /\ heap'[v].user # NoUser) \/ \E u \in Threads : Making(u, v)'
    <3>1. CASE v # i
      BY <1>1, <1>7, <2>2, <3>1
    <3>2. CASE v = i
      <4>1. CASE heap[v].file = d /\ heap[v].user # NoUser
        BY <1>1, <2>2, <3>2, <4>1
      <4>2. CASE \E u \in Threads : Making(u, v)
        BY <1>1, <1>7, <2>2, <3>2, <4>2
      <4> QED
        BY <2>2, <4>1, <4>2
    <3> QED
      BY <3>1, <3>2
  <2> QED
    BY <2>2, <2>3, <2>4, <2>5
<1>10. LiveOK'
  <2> SUFFICES ASSUME NEW j \in 1..Len(heap), Live(j)'
               PROVE  heap'[j].file \in 1..Len(content) /\ Entry(heap'[j].file).value = j
    BY <1>1, <1>6 DEF LiveOK
  <2>1. CASE heap'[j].file = heap[j].file
    BY <1>2, <2>1 DEF SeqInv, LiveOK, Live
  <2>2. CASE j = i /\ e.file = e.id /\ Entry(e.id).value = i
    BY <1>1, <2>2 DEF SeqInv, IdsOK
  <2> QED
    BY <1>8, <2>1, <2>2
<1>11. HandlesOK'
  BY <1>6 DEF SeqInv, HandlesOK
<1>12. IntactOK'
  <2> SUFFICES ASSUME NEW j \in 1..Len(heap), Live(j)', NEW k \in DOMAIN content[heap'[j].file]
               PROVE  content[heap'[j].file][k] = j
    BY <1>1 DEF IntactOK
  <2>1. CASE heap'[j].file = heap[j].file
    <3>1. Live(j)
      BY <1>2, <2>1 DEF Live
    <3>2. \A m \in DOMAIN content[heap[j].file] : content[heap[j].file][m] = j
      <4>1. IntactOK
        BY DEF SeqInv
      <4> QED
        BY <3>1, <4>1, Zenon DEF IntactOK
    <3> QED
      BY <2>1, <3>2, Zenon
  <2>2. CASE j = i /\ e.file = e.id /\ content[e.id] = <<>>
    <3>1. content[heap'[j].file] = <<>>
      BY <1>1, <2>2
    <3> QED
      BY <3>1
  <2> QED
    BY <1>8, <2>1, <2>2
<1> QED
  BY <1>3, <1>4, <1>5, <1>9, <1>10, <1>11, <1>12 DEF SeqInv

\* The file f gets the content c, all of it from the session in the table.
FileStep(t, f, c) ==
  /\ content' = [content EXCEPT ![f] = c] /\ \A k \in DOMAIN c : c[k] = Entry(f).value
  /\ openFiles' \in {openFiles, openFiles \cup {Entry(f).value}} /\ Entry(f).value \in Sessions
  /\ \A v : Making(t, v) => Making(t, v)'
  /\ UNCHANGED <<now, fileOf, heap, sessionsByFileID, fileIDsBySessionID, given, leaked>>

\* so does one that changes the contents of one file.
LEMMA FileKeeps ==
  ASSUME SeqInv, NEW t \in Threads, ~At(t, "idle"), ThreadStep(t), NEW f \in 1..Len(content), NEW c \in Seq(Nat),
         FileStep(t, f, c), AssignOK(t)', ChunkOK(t)'
  PROVE  SeqInv'
<1> USE DEF FileStep, Sessions
<1>1. /\ content' \in Seq(Seq(Nat)) /\ Len(content') = Len(content) /\ content'[f] = c
      /\ \A d \in 1..Len(content) : d # f => content'[d] = content[d]
  BY DEF SeqInv, ShapeOK
<1>2. ShapeOK'
  BY <1>1 DEF SeqInv, ShapeOK, ThreadStep
<1>3. OneRequest' /\ \A u \in Threads : AssignOK(u)' /\ ChunkOK(u)'
  BY OthersIdle
<1>4. \A d : Entry(d)' = Entry(d)
  BY DEF Entry
<1>5. \A u \in Threads : \A v : Making(u, v) => Making(u, v)'
  BY DEF SeqInv, OneRequest, At, Making
<1>6. IdsOK' /\ LiveOK'
  BY <1>1, <1>4 DEF SeqInv, IdsOK, LiveOK, Live
<1>7. TableOK'
  <2> SUFFICES ASSUME NEW d \in 1..Len(content), Entry(d) # NoEntry, NEW v, v = Entry(d).value
               PROVE  /\ v \in 1..Len(heap) /\ heap[v].id = d /\ ~heap[v].freed /\ heap[v].file \in {None, d}
                      /\ (heap[v].file = d /\ heap[v].user # NoUser) \/ \E u \in Threads : Making(u, v)'
    BY <1>1, <1>4 DEF TableOK
  <2> QED
    BY <1>5 DEF SeqInv, TableOK
<1>8. HandlesOK'
  BY <1>1, <1>4 DEF SeqInv, HandlesOK
<1>9. IntactOK'
  <2> SUFFICES ASSUME NEW j \in 1..Len(heap), Live(j), NEW k \in DOMAIN content'[heap[j].file]
               PROVE  content'[heap[j].file][k] = j
    BY DEF IntactOK, Live
  <2>1. heap[j].file \in 1..Len(content) /\ Entry(heap[j].file).value = j
    BY DEF SeqInv, LiveOK
  <2>2. CASE heap[j].file = f
    BY <1>1, <2>1, <2>2
  <2>3. CASE heap[j].file # f
    <3>1. content'[heap[j].file] = content[heap[j].file]
      BY <1>1, <2>1, <2>3
    <3>2. \A m \in DOMAIN content[heap[j].file] : content[heap[j].file][m] = j
      <4>1. IntactOK
        BY DEF SeqInv
      <4> QED
        BY <4>1, Zenon DEF IntactOK
    <3> QED
      BY <3>1, <3>2, Zenon
  <2> QED
    BY <2>2, <2>3
<1> QED
  BY <1>2, <1>3, <1>6, <1>7, <1>8, <1>9 DEF SeqInv

-----------------------------------------------------------------------------
\* What a request knows that makes a session.
LEMMA MakerOK ==
  ASSUME SeqInv, NEW t \in Threads, thread[t].step \in {"open", "tag", "number", "name"}
  PROVE  /\ ~At(t, "idle") /\ thread[t] \in ThreadRecords /\ thread[t].name \in Names /\ thread[t].user # NoUser
         /\ thread[t].i \in Sessions /\ thread[t].id \in 1..Len(content) /\ heap[thread[t].i].id = thread[t].id
         /\ Entry(thread[t].id).value = thread[t].i
         /\ \A v : Making(t, v) => v = thread[t].i
         /\ heap[thread[t].i] \in SessionRecords
<1>1. AssignOK(t) /\ thread[t] \in ThreadRecords /\ heap \in Seq(SessionRecords)
  BY DEF SeqInv, ShapeOK
<1>2. thread[t].i \in Sessions
  BY <1>1 DEF AssignOK
<1>3. heap[thread[t].i] \in SessionRecords
  BY <1>1, <1>2 DEF Sessions
<1> QED
  BY <1>1, <1>2, <1>3 DEF AssignOK, AssignSteps, At, Making

\* The check for a busy file keeps the invariant;
LEMMA BusyKeeps == ASSUME SeqInv, NEW t \in Threads, checkIfFileIsBusy(t), UNCHANGED leaked PROVE SeqInv'
<1>0. At(t, "open") /\ UNCHANGED <<now, fileOf, fileIDsBySessionID, given>>
  BY DEF checkIfFileIsBusy
<1>1. thread[t].step \in {"open", "tag", "number", "name"} /\ thread \in [Threads -> ThreadRecords]
  BY <1>0 DEF At, SeqInv, ShapeOK
<1>2. PICK f : f = fileOf[thread[t].name]
  OBVIOUS
<1>3. PICK i : i = thread[t].i
  OBVIOUS
<1>4. /\ f = thread[t].id /\ f \in 1..Len(content) /\ f \in Nat /\ i \in Sessions /\ i \notin openFiles /\ heap[i].id = f
      /\ heap[i].file = None /\ Entry(f).value = i
  BY <1>0, <1>1, <1>2, <1>3, MakerOK DEF At, SeqInv, AssignOK
<1>5. CASE removeFromTable(heap[i].id) /\ Ends(t) /\ UNCHANGED content
  <2>1. ThreadStep(t) /\ AssignOK(t)' /\ ChunkOK(t)'
    BY <1>5, EndsOK
  <2>2. removeFromTable(f) /\ \A v : Making(t, v) => v = Entry(f).value
    BY <1>1, <1>3, <1>4, <1>5, MakerOK
  <2>3. Entry(f).value \notin openFiles
    BY <1>4
  <2>4. ~At(t, "idle")
    BY <1>0 DEF At
  <2> QED
    BY <1>0, <1>4, <1>5, <2>1, <2>2, <2>3, <2>4, RemoveKeeps
<1>6. CASE /\ openFiles' = openFiles \cup {i} /\ content' = [content EXCEPT ![f] = <<>>]
           /\ thread' = [thread EXCEPT ![t].step = "tag", ![t].id = f] /\ UNCHANGED <<heap, sessionsByFileID>>
  <2>1. PICK r : r = [thread[t] EXCEPT !.step = "tag", !.id = f]
    OBVIOUS
  <2>2. /\ r \in ThreadRecords /\ r.step = "tag" /\ r.id = f /\ r.i = i /\ r.name = thread[t].name
        /\ r.user = thread[t].user
    BY <1>1, <1>3, <1>4, <2>1, MakerOK DEF ThreadRecords, Steps, AssignSteps
  <2>3. ThreadStep(t) /\ thread'[t] = r
    <3>1. thread' = [thread EXCEPT ![t] = r]
      BY <1>1, <1>6, <2>1
    <3> QED
      BY <2>2, <3>1, ThreadSet
  <2>4. PICK c : c = <<>>
    OBVIOUS
  <2>5. content' = [content EXCEPT ![f] = c] /\ c \in Seq(Nat) /\ \A k \in DOMAIN c : c[k] = Entry(f).value
    BY <1>6, <2>4
  <2>6. \A v : Making(t, v) => Making(t, v)'
    BY <1>3, <2>2, <2>3 DEF Making
  <2>7. FileStep(t, f, c)
    BY <1>0, <1>4, <1>6, <2>5, <2>6 DEF FileStep
  <2>8. Len(content') = Len(content) /\ content'[f] = <<>>
    BY <1>4, <1>6 DEF SeqInv, ShapeOK
  <2>9. Entry(f)'.value = i
    BY <1>4, <1>6 DEF Entry
  <2>10. AssignOK(t)'
    <3>1. /\ thread'[t].step = "tag" /\ thread'[t].i = i /\ thread'[t].id = f /\ thread'[t].name \in Names
          /\ thread'[t].user # NoUser
      BY <1>1, <2>2, <2>3, MakerOK
    <3>2. Entry(thread[t].id)'.value = thread'[t].i
      BY <2>9, <3>1 DEF Entry
    <3> QED
      BY <1>4, <1>6, <2>8, <3>1, <3>2 DEF AssignOK, AssignSteps, Sessions
  <2>11. ChunkOK(t)'
    BY <2>2, <2>3 DEF ChunkOK, ChunkSteps
  <2> QED
    BY <1>1, <1>4, <2>3, <2>5, <2>7, <2>10, <2>11, MakerOK, FileKeeps
<1> QED
  BY <1>2, <1>3, <1>5, <1>6 DEF checkIfFileIsBusy

\* A handle that a failed tagging leaves open is counted as leaked.
LEMMA TagKeeps == ASSUME SeqInv, NEW t \in Threads, tagFileForUploading(t) PROVE SeqInv'
<1>0. At(t, "tag") /\ UNCHANGED <<now, fileOf, content, fileIDsBySessionID, given>>
  BY DEF tagFileForUploading
<1>1. thread[t].step \in {"open", "tag", "number", "name"}
  BY <1>0 DEF At
<1>2. PICK f : f = thread[t].id
  OBVIOUS
<1>3. PICK i : i = thread[t].i
  OBVIOUS
<1>4. /\ f \in 1..Len(content) /\ f \in Nat /\ i \in Sessions /\ heap[i].id = f /\ content[f] = <<>>
      /\ heap[i].file = None /\ Entry(f).value = i /\ heap[i] \in SessionRecords
  BY <1>0, <1>1, <1>2, <1>3, MakerOK DEF At, SeqInv, AssignOK
<1>5. CASE removeFromTable(heap[i].id) /\ Ends(t) /\ leaked' = leaked \cup {i}
  <2>1. ThreadStep(t) /\ AssignOK(t)' /\ ChunkOK(t)'
    BY <1>5, EndsOK
  <2>2. removeFromTable(f) /\ \A v : Making(t, v) => v = Entry(f).value
    BY <1>1, <1>3, <1>4, <1>5, MakerOK
  <2>3. Entry(f).value \in leaked' /\ leaked \subseteq leaked'
    BY <1>4, <1>5
  <2>4. ~At(t, "idle")
    BY <1>0 DEF At
  <2> QED
    BY <1>0, <1>4, <2>1, <2>2, <2>3, <2>4, RemoveKeeps
<1>6. CASE heap' = [heap EXCEPT ![i].file = f] /\ Goes(t, "number") /\ UNCHANGED <<openFiles, sessionsByFileID, ghosts>>
  <2>1. /\ ThreadStep(t) /\ thread'[t].step = "number" /\ thread'[t].user = thread[t].user
        /\ thread'[t].name = thread[t].name /\ thread'[t].id = f /\ thread'[t].i = i
    BY <1>2, <1>3, <1>6, GoesOK DEF Steps, AssignSteps
  <2>2. PICK e : e = [heap[i] EXCEPT !.file = f]
    OBVIOUS
  <2>3. e \in SessionRecords /\ e.id = f /\ e.file = f /\ e.user = heap[i].user /\ e.freed = heap[i].freed
    BY <1>4, <2>2 DEF SessionRecords
  <2>4. heap' = [heap EXCEPT ![i] = e] /\ heap'[i] = e /\ Len(heap') = Len(heap)
    <3>1. heap \in Seq(SessionRecords) /\ i \in 1..Len(heap)
      BY <1>4 DEF SeqInv, ShapeOK, Sessions
    <3>2. heap' = [heap EXCEPT ![i] = e]
      BY <1>6, <2>2, <3>1
    <3> QED
      BY <2>3, <3>1, <3>2
  <2>5. Making(t, i)' /\ \A v : Making(t, v) => v = i
    BY <1>3, <2>1 DEF Making
  <2>6. SessionStep(t, i, e)
    BY <1>0, <1>4, <1>6, <2>3, <2>4, <2>5 DEF SessionStep, ghosts, SeqInv, ShapeOK
  <2>7. AssignOK(t)'
    <3>1. Entry(thread[t].id)'.value = thread'[t].i
      BY <1>4, <1>6, <2>1 DEF Entry
    <3>2. thread'[t].name \in Names /\ thread'[t].user # NoUser /\ i \in 1..Len(heap') /\ heap'[i].file = f
          /\ heap'[i].id = f
      BY <1>1, <1>4, <2>1, <2>3, <2>4, MakerOK DEF Sessions
    <3> QED
      BY <1>0, <1>4, <2>1, <3>1, <3>2 DEF AssignOK, AssignSteps, Sessions
  <2>8. ChunkOK(t)'
    BY <2>1 DEF ChunkOK, ChunkSteps
  <2> QED
    BY <1>1, <1>4, <2>1, <2>3, <2>6, <2>7, <2>8, MakerOK, SessionKeeps
<1> QED
  BY <1>2, <1>3, <1>5, <1>6 DEF tagFileForUploading

\* so does giving out a session number;
LEMMA NumberKeeps ==
  ASSUME SeqInv, NEW t \in Threads, addSessionIDToTableAndIncrementCounter(t) PROVE SeqInv'
<1>0. At(t, "number") /\ UNCHANGED <<now, fileOf, content, openFiles, sessionsByFileID, given, leaked>> /\ Goes(t, "name")
  BY DEF addSessionIDToTableAndIncrementCounter, files, ghosts
<1>1. thread[t].step \in {"open", "tag", "number", "name"}
  BY <1>0 DEF At
<1>2. PICK f : f = thread[t].id
  OBVIOUS
<1>3. PICK i : i = thread[t].i
  OBVIOUS
<1>4. /\ f \in 1..Len(content) /\ i \in Sessions /\ heap[i].id = f
      /\ heap[i].file = f /\ Entry(f).value = i /\ heap[i] \in SessionRecords
  BY <1>0, <1>1, <1>2, <1>3, MakerOK DEF At, SeqInv, AssignOK
<1>5. PICK n \in Nat : n = Len(fileIDsBySessionID) + 1
  BY DEF SeqInv, ShapeOK
<1>6. fileIDsBySessionID' = Append(fileIDsBySessionID, i) /\ heap' = [heap EXCEPT ![i].sid = n]
  BY <1>3, <1>5 DEF addSessionIDToTableAndIncrementCounter
<1>7. /\ ThreadStep(t) /\ thread'[t].step = "name" /\ thread'[t].user = thread[t].user
      /\ thread'[t].name = thread[t].name /\ thread'[t].id = f /\ thread'[t].i = i
  BY <1>0, <1>2, <1>3, GoesOK DEF Steps, AssignSteps
<1>8. PICK e : e = [heap[i] EXCEPT !.sid = n]
  OBVIOUS
<1>9. e \in SessionRecords /\ e.id = f /\ e.file = f /\ e.user = heap[i].user /\ e.freed = heap[i].freed /\ e.sid = n
  BY <1>4, <1>5, <1>8 DEF SessionRecords
<1>10. heap' = [heap EXCEPT ![i] = e] /\ heap'[i] = e /\ Len(heap') = Len(heap)
  <2>1. heap \in Seq(SessionRecords) /\ i \in 1..Len(heap)
    BY <1>4 DEF SeqInv, ShapeOK, Sessions
  <2>2. heap' = [heap EXCEPT ![i] = e]
    BY <1>6, <1>8, <2>1
  <2> QED
    BY <1>9, <2>1, <2>2
<1>11. Making(t, i)' /\ \A v : Making(t, v) => v = i
  BY <1>3, <1>7 DEF Making
<1>12. /\ fileIDsBySessionID' \in Seq(0..Len(heap)) /\ Len(fileIDsBySessionID') = n
       /\ \A g \in given' : g[2] \in 1..Len(fileIDsBySessionID')
  <2>1. fileIDsBySessionID \in Seq(0..Len(heap)) /\ i \in 0..Len(heap) /\ Len(fileIDsBySessionID) \in Nat
    BY <1>4 DEF SeqInv, ShapeOK, Sessions
  <2>2. fileIDsBySessionID' \in Seq(0..Len(heap)) /\ Len(fileIDsBySessionID') = n
    BY <1>5, <1>6, <2>1
  <2>3. \A g \in given : g[2] \in 1..Len(fileIDsBySessionID)
    BY DEF SeqInv, ShapeOK
  <2> QED
    BY <1>0, <1>5, <2>1, <2>2, <2>3
<1>13. SessionStep(t, i, e)
  BY <1>0, <1>4, <1>9, <1>10, <1>11, <1>12 DEF SessionStep
<1>14. AssignOK(t)'
  <2>1. Entry(thread[t].id)'.value = thread'[t].i
    BY <1>0, <1>4, <1>7 DEF Entry
  <2>2. thread'[t].name \in Names /\ thread'[t].user # NoUser
    BY <1>1, <1>7, MakerOK
  <2>3. i \in 1..Len(heap') /\ heap'[i].file = f /\ heap'[i].id = f
    BY <1>4, <1>9, <1>10 DEF Sessions
  <2>4. heap'[i].sid \in 1..Len(fileIDsBySessionID')
    BY <1>5, <1>9, <1>10, <1>12
  <2> QED
    BY <1>0, <1>4, <1>7, <2>1, <2>2, <2>3, <2>4 DEF AssignOK, AssignSteps, Sessions
<1>15. ChunkOK(t)'
  BY <1>7 DEF ChunkOK, ChunkSteps
<1> QED
  BY <1>1, <1>4, <1>7, <1>9, <1>13, <1>14, <1>15, MakerOK, SessionKeeps

\* so does the response;
LEMMA RespondKeeps == ASSUME SeqInv, NEW t \in Threads, respondWithSessionID(t) PROVE SeqInv'
<1>0. At(t, "name") /\ UNCHANGED <<now, fileOf, content, openFiles, tables, leaked>> /\ Ends(t)
  BY DEF respondWithSessionID, files, ghosts
<1>1. thread[t].step \in {"open", "tag", "number", "name"}
  BY <1>0 DEF At
<1>2. PICK user : user = thread[t].user
  OBVIOUS
<1>3. PICK i : i = thread[t].i
  OBVIOUS
<1>4. /\ i \in Sessions /\ heap[i].file = heap[i].id /\ heap[i] \in SessionRecords
      /\ heap[i].sid \in 1..Len(fileIDsBySessionID) /\ user # NoUser /\ user \in Users \cup {NoUser}
  BY <1>0, <1>1, <1>2, <1>3, MakerOK DEF At, SeqInv, AssignOK, ThreadRecords
<1>5. heap' = [heap EXCEPT ![i].user = user] /\ given' = given \cup {<<user, heap[i].sid, i>>}
  BY <1>2, <1>3 DEF respondWithSessionID
<1>6. PICK e : e = [heap[i] EXCEPT !.user = user]
  OBVIOUS
<1>7. e \in SessionRecords /\ e.id = heap[i].id /\ e.file = e.id /\ e.file = heap[i].file /\ e.user = user /\ e.freed = heap[i].freed
  BY <1>4, <1>6 DEF SessionRecords
<1>8. heap' = [heap EXCEPT ![i] = e]
  BY <1>4, <1>5, <1>6 DEF SeqInv, ShapeOK, Sessions
<1>9. \A v : Making(t, v) => v = i
  BY <1>3 DEF Making
<1>10. \A g \in given' : g[2] \in 1..Len(fileIDsBySessionID)
  BY <1>4, <1>5 DEF SeqInv, ShapeOK
<1>11. SessionStep(t, i, e)
  BY <1>0, <1>4, <1>7, <1>8, <1>9, <1>10 DEF SessionStep, tables, SeqInv, ShapeOK
<1>12. ThreadStep(t) /\ AssignOK(t)' /\ ChunkOK(t)'
  BY <1>0, EndsOK
<1> QED
  BY <1>1, <1>4, <1>7, <1>11, <1>12, MakerOK, SessionKeeps

-----------------------------------------------------------------------------
(* doChunking *)

\* so do looking up the file;
LEMMA FindFileKeeps == ASSUME SeqInv, NEW t \in Threads, getFileID(t) PROVE SeqInv'
<1>0. /\ At(t, "lookup") /\ UNCHANGED <<now, content, fileOf, openFiles, heap, tables, given, leaked>>
      /\ thread \in [Threads -> ThreadRecords] /\ thread[t] \in ThreadRecords
  BY DEF getFileID, files, ghosts, SeqInv, ShapeOK
<1>1. thread[t].sid \in 1..Len(fileIDsBySessionID)
  BY <1>0 DEF At, SeqInv, ChunkOK, ChunkSteps
<1>2. PICK k : k = fileIDsBySessionID[thread[t].sid]
  OBVIOUS
<1>3. k \in 0..Len(heap) /\ k \in Nat
  BY <1>1, <1>2 DEF SeqInv, ShapeOK
<1>4. PICK r : r = [thread[t] EXCEPT !.i = k, !.step = "session"]
  OBVIOUS
<1>5. r \in ThreadRecords /\ r.i = k /\ r.step = "session" /\ r.sid = thread[t].sid
  BY <1>0, <1>3, <1>4 DEF ThreadRecords, Steps, ChunkSteps
<1>6. thread' = [thread EXCEPT ![t] = r]
  BY <1>0, <1>2, <1>4 DEF getFileID
<1>7. ThreadStep(t) /\ thread'[t] = r
  BY <1>5, <1>6, ThreadSet
<1>8. AssignOK(t)' /\ ChunkOK(t)'
  BY <1>0, <1>1, <1>3, <1>5, <1>7 DEF AssignOK, ChunkOK, AssignSteps, ChunkSteps, tables
<1> QED
  BY <1>0, <1>7, <1>8, ThreadOnly DEF At

\* looking up the session;
LEMMA FindSessionKeeps == ASSUME SeqInv, NEW t \in Threads, getSession(t) PROVE SeqInv'
<1>0. /\ At(t, "session") /\ UNCHANGED <<now, content, fileOf, openFiles, heap, tables, given, leaked>>
      /\ thread \in [Threads -> ThreadRecords] /\ thread[t] \in ThreadRecords
  BY DEF getSession, files, ghosts, SeqInv, ShapeOK
<1>1. PICK k : k = thread[t].i
  OBVIOUS
<1>2. k \in 0..Len(heap) /\ k \in Nat /\ thread[t].sid \in 1..Len(fileIDsBySessionID)
  BY <1>0, <1>1 DEF At, SeqInv, ChunkOK, ChunkSteps, ThreadRecords
<1>3. CASE Ends(t)
  BY <1>0, <1>3, EndsOK, ThreadOnly DEF At
<1>4. CASE /\ k # None /\ Entry(heap[k].id) # NoEntry
           /\ thread' = [thread EXCEPT ![t].i = Entry(heap[k].id).value, ![t].id = k, ![t].step = "validate"]
  <2>1. PICK d : d = heap[k].id
    OBVIOUS
  <2>2. k \in Sessions /\ d \in 1..Len(content)
    BY <1>2, <1>4, <2>1 DEF Sessions, SeqInv, ShapeOK, IdsOK
  <2>3. PICK v : v = Entry(d).value
    OBVIOUS
  <2>4. v \in Sessions /\ v \in Nat /\ v # None
    <3>1. v \in Sessions
      BY <1>4, <2>1, <2>2, <2>3 DEF SeqInv, TableOK
    <3> QED
      BY <3>1 DEF Sessions, SeqInv, ShapeOK
  <2>5. PICK r : r = [thread[t] EXCEPT !.i = v, !.id = k, !.step = "validate"]
    OBVIOUS
  <2>6. r \in ThreadRecords /\ r.i = v /\ r.id = k /\ r.step = "validate" /\ r.sid = thread[t].sid
    BY <1>0, <1>2, <2>4, <2>5 DEF ThreadRecords, Steps, ChunkSteps
  <2>7. thread' = [thread EXCEPT ![t] = r]
    BY <1>0, <1>4, <2>1, <2>3, <2>5
  <2>8. ThreadStep(t) /\ thread'[t] = r
    BY <2>6, <2>7, ThreadSet
  <2>9. AssignOK(t)'
    BY <2>6, <2>8 DEF AssignOK, AssignSteps
  <2>10. ChunkOK(t)'
    <3>1. Entry(heap[thread[t].id].id)'.value = thread'[t].i
      BY <1>0, <2>1, <2>3, <2>6, <2>8 DEF Entry, tables
    <3> QED
      BY <1>0, <1>2, <2>1, <2>2, <2>4, <2>6, <2>8, <3>1 DEF ChunkOK, ChunkSteps, Sessions, tables
  <2> QED
    BY <1>0, <2>8, <2>9, <2>10, ThreadOnly DEF At
<1> QED
  BY <1>1, <1>3, <1>4 DEF getSession

\* The session a chunk goes to is in the table, with its file and its user.
LEMMA SettledOK ==
  ASSUME SeqInv, NEW t \in Threads, thread[t].step \in {"validate", "write", "remove"}
  PROVE  /\ ~At(t, "idle") /\ thread[t].id \in Sessions /\ thread[t].i \in Sessions
         /\ thread[t].sid \in 1..Len(fileIDsBySessionID)
         /\ heap[thread[t].id].id \in 1..Len(content) /\ Entry(heap[thread[t].id].id).value = thread[t].i
         /\ heap[thread[t].i].id = heap[thread[t].id].id /\ heap[thread[t].i].file = heap[thread[t].id].id
         /\ heap[thread[t].i].user # NoUser /\ heap[thread[t].i] \in SessionRecords
         /\ \A v : ~Making(t, v)
<1>1. PICK i : i = thread[t].i
  OBVIOUS
<1>2. PICK d : d = heap[thread[t].id].id
  OBVIOUS
<1>3. /\ thread[t].id \in Sessions /\ d \in 1..Len(content) /\ i # None /\ Entry(d).value = i
      /\ thread[t].sid \in 1..Len(fileIDsBySessionID)
  BY <1>1, <1>2 DEF SeqInv, ChunkOK, ChunkSteps
<1>4. Entry(d) # NoEntry
  BY <1>3 DEF NoEntry
<1>5. \A u \in Threads : \A v : ~Making(u, v)
  BY DEF SeqInv, OneRequest, At, Making
<1>6. i \in Sessions /\ heap[i].id = d /\ heap[i].file = d /\ heap[i].user # NoUser
  BY <1>3, <1>4, <1>5 DEF SeqInv, TableOK
<1>7. heap[i] \in SessionRecords
  BY <1>6 DEF SeqInv, ShapeOK, Sessions
<1> QED
  BY <1>1, <1>2, <1>3, <1>5, <1>6, <1>7 DEF At

\* comparing its user;
LEMMA ValidateKeeps == ASSUME SeqInv, NEW t \in Threads, validateSessionWithUserName(t) PROVE SeqInv'
<1>0. At(t, "validate") /\ UNCHANGED <<now, content, fileOf, openFiles, tables, given, leaked>>
  BY DEF validateSessionWithUserName, files, ghosts
<1>1. thread[t].step \in {"validate", "write", "remove"} /\ thread[t] \in ThreadRecords
  BY <1>0 DEF At, SeqInv, ShapeOK
<1>2. PICK i : i = thread[t].i
  OBVIOUS
<1>3. PICK d : d = heap[thread[t].id].id
  OBVIOUS
<1>4. /\ i \in Sessions /\ heap[i].user # NoUser /\ heap[i] \in SessionRecords /\ d \in 1..Len(content)
      /\ Entry(d).value = i /\ thread[t].id \in Sessions /\ thread[t].sid \in 1..Len(fileIDsBySessionID)
      /\ heap[i].id = d /\ heap[i].file = d
  BY <1>1, <1>2, <1>3, SettledOK
<1>5. PICK time \in Nat : time = thread[t].time
  BY <1>1 DEF ThreadRecords
<1>15. PICK heard \in Nat : heard = IF heap[i].user = thread[t].user THEN time ELSE heap[i].heard
  BY <1>4 DEF SessionRecords
<1>6. PICK e : e = [heap[i] EXCEPT !.time = time, !.heard = heard]
  OBVIOUS
<1>7. e \in SessionRecords /\ e.id = heap[i].id /\ e.file = heap[i].file /\ e.user = heap[i].user /\ e.freed = heap[i].freed
  BY <1>4, <1>5, <1>6, <1>15 DEF SessionRecords
<1>8. heap \in Seq(SessionRecords) /\ i \in 1..Len(heap) /\ Len(heap) \in Nat
  BY <1>4 DEF SeqInv, ShapeOK, Sessions
<1>9. heap' = [heap EXCEPT ![i] = e]
  BY <1>2, <1>4, <1>5, <1>6, <1>8, <1>15 DEF validateSessionWithUserName, Stamped, SessionRecords
<1>10. heap'[i] = e /\ Len(heap') = Len(heap) /\ \A j \in 1..Len(heap) : heap'[j].id = heap[j].id
  BY <1>7, <1>8, <1>9
<1>11. \A v : ~Making(t, v)
  BY <1>1, SettledOK
<1>12. SessionStep(t, i, e)
  BY <1>0, <1>7, <1>9, <1>11 DEF SessionStep, tables, SeqInv, ShapeOK
<1>13. CASE Ends(t)
  <2>1. ThreadStep(t) /\ AssignOK(t)' /\ ChunkOK(t)'
    BY <1>13, EndsOK
  <2> QED
    BY <1>1, <1>4, <1>7, <1>12, <2>1, SettledOK, SessionKeeps
<1>14. CASE heap[i].user \in {thread[t].user, NoUser} /\ Goes(t, "write")
  <2>1. /\ ThreadStep(t) /\ thread'[t].step = "write" /\ thread'[t].user = thread[t].user
        /\ thread'[t].id = thread[t].id /\ thread'[t].i = i /\ thread'[t].sid = thread[t].sid
    BY <1>2, <1>14, GoesOK DEF Steps, ChunkSteps
  <2>2. AssignOK(t)'
    BY <2>1 DEF AssignOK, AssignSteps
  <2>3. ChunkOK(t)'
    <3>1. thread'[t].id \in 1..Len(heap') /\ heap'[thread'[t].id].id = d
      BY <1>3, <1>4, <1>10, <2>1 DEF Sessions
    <3>2. Entry(heap[thread[t].id].id)'.value = thread'[t].i
      BY <1>0, <1>4, <2>1, <3>1 DEF Entry, tables
    <3>3. heap'[thread'[t].i].user = thread'[t].user /\ thread'[t].i # None
      BY <1>4, <1>7, <1>8, <1>10, <1>14, <2>1
    <3> QED
      BY <1>0, <1>4, <2>1, <3>1, <3>2, <3>3 DEF ChunkOK, ChunkSteps, Sessions, tables
  <2> QED
    BY <1>1, <1>4, <1>7, <1>12, <2>1, <2>2, <2>3, SettledOK, SessionKeeps
<1> QED
  BY <1>2, <1>13, <1>14 DEF validateSessionWithUserName

\* A chunk goes to the end of the file of its own session.
LEMMA WriteKeeps == ASSUME SeqInv, NEW t \in Threads, writeChunk(t) PROVE SeqInv'
<1>0. At(t, "write") /\ UNCHANGED <<now, fileOf, openFiles, heap, tables, given, leaked>>
  BY DEF writeChunk, ghosts
<1>1. thread[t].step \in {"validate", "write", "remove"}
  BY <1>0 DEF At
<1>2. PICK i : i = thread[t].i
  OBVIOUS
<1>3. PICK d : d = heap[thread[t].id].id
  OBVIOUS
<1>4. /\ i \in Sessions /\ d \in 1..Len(content) /\ Entry(d).value = i /\ thread[t].id \in Sessions
      /\ thread[t].sid \in 1..Len(fileIDsBySessionID) /\ heap[i].file = d
  BY <1>1, <1>2, <1>3, SettledOK
<1>5. i \in Nat /\ i # None /\ content[d] \in Seq(Nat)
  BY <1>4 DEF Sessions, SeqInv, ShapeOK
<1>6. content' = content \/ content' = [content EXCEPT ![d] = Append(content[d], i)]
  BY <1>2, <1>4 DEF writeChunk
<1>7. Ends(t) \/ Goes(t, "remove")
  BY DEF writeChunk
<1>8. Len(content') = Len(content)
  BY <1>6 DEF SeqInv, ShapeOK
<1>9. ThreadStep(t) /\ AssignOK(t)' /\ ChunkOK(t)'
  <2>1. CASE Ends(t)
    BY <2>1, EndsOK
  <2>2. CASE Goes(t, "remove")
    <3>1. /\ ThreadStep(t) /\ thread'[t].step = "remove" /\ thread'[t].id = thread[t].id /\ thread'[t].i = i
          /\ thread'[t].sid = thread[t].sid /\ thread'[t].user = thread[t].user
      BY <1>2, <2>2, GoesOK DEF Steps, ChunkSteps
    <3>2. AssignOK(t)'
      BY <3>1 DEF AssignOK, AssignSteps
    <3>3. Entry(heap[thread[t].id].id)'.value = thread'[t].i
      BY <1>0, <1>3, <1>4, <3>1 DEF Entry, tables
    <3>5. heap[i].user = thread[t].user
      BY <1>0, <1>2 DEF At, SeqInv, ChunkOK
    <3>4. ChunkOK(t)'
      BY <1>0, <1>3, <1>4, <1>5, <1>8, <3>1, <3>3, <3>5 DEF ChunkOK, ChunkSteps, Sessions, tables
    <3> QED
      BY <3>1, <3>2, <3>4
  <2> QED
    BY <1>7, <2>1, <2>2
<1>10. CASE content' = content
  BY <1>0, <1>9, <1>10, ThreadOnly DEF At
<1>11. CASE content' = [content EXCEPT ![d] = Append(content[d], i)]
  <2>1. PICK c : c = Append(content[d], i)
    OBVIOUS
  <2>2. c \in Seq(Nat)
    BY <1>5, <2>1
  <2>3. \A k \in DOMAIN content[d] : content[d][k] = i
    <3>1. Live(i)
      <4>1. Entry(d) # NoEntry
        BY <1>4, <1>5 DEF NoEntry
      <4>2. ~heap[i].freed
        BY <1>4, <4>1 DEF SeqInv, TableOK
      <4> QED
        BY <1>4, <4>2 DEF Live
    <3>2. IntactOK
      BY DEF SeqInv
    <3> QED
      BY <1>4, <3>1, <3>2, Zenon DEF IntactOK
  <2>4. \A k \in DOMAIN c : c[k] = i
    BY <1>5, <2>1, <2>3
  <2>5. FileStep(t, d, c)
    BY <1>0, <1>1, <1>4, <1>11, <2>1, <2>4, SettledOK DEF FileStep, tables
  <2> QED
    BY <1>1, <1>4, <1>9, <2>2, <2>5, SettledOK, FileKeeps
<1> QED
  BY <1>6, <1>10, <1>11

\* cleaning the session up;
LEMMA CleanupKeeps == ASSUME SeqInv, NEW t \in Threads, cleanupSession(t) PROVE SeqInv'
<1>0. /\ At(t, "remove") /\ UNCHANGED <<now, fileOf, content, fileIDsBySessionID, given, leaked>>
      /\ Ends(t) \/ Goes(t, "removeID")
  BY DEF cleanupSession, ghosts
<1>1. thread[t].step \in {"validate", "write", "remove"}
  BY <1>0 DEF At
<1>2. PICK d : d = heap[thread[t].id].id
  OBVIOUS
<1>3. /\ d \in 1..Len(content) /\ Entry(d).value = thread[t].i /\ thread[t].i \in Sessions
      /\ heap[thread[t].i].file = d /\ thread[t].sid \in 1..Len(fileIDsBySessionID)
  BY <1>1, <1>2, SettledOK
<1>5. ThreadStep(t) /\ AssignOK(t)' /\ ChunkOK(t)'
  <2>1. CASE Ends(t)
    BY <2>1, EndsOK
  <2>2. CASE Goes(t, "removeID")
    <3>1. ThreadStep(t) /\ thread'[t].step = "removeID" /\ thread'[t].sid = thread[t].sid
      BY <2>2, GoesOK DEF Steps, ChunkSteps
    <3>2. AssignOK(t)' /\ ChunkOK(t)'
      BY <1>0, <1>3, <3>1 DEF AssignOK, ChunkOK, AssignSteps, ChunkSteps
    <3> QED
      BY <3>1, <3>2
  <2> QED
    BY <1>0, <2>1, <2>2
<1>6. CASE removeFromTable(d)
  <2>1. Entry(d).value \in openFiles /\ heap[Entry(d).value].file = None => Entry(d).value \in leaked'
    BY <1>3
  <2> QED
    BY <1>0, <1>1, <1>3, <1>5, <1>6, <2>1, SettledOK, RemoveKeeps
<1>7. CASE UNCHANGED <<openFiles, heap, sessionsByFileID, lockHeld>>
  BY <1>0, <1>5, <1>7, ThreadOnly DEF At, tables
<1> QED
  BY <1>2, <1>6, <1>7 DEF cleanupSession

\* and removing it from its table.
LEMMA ForgetKeeps == ASSUME SeqInv, NEW t \in Threads, removeFromTableUInt(t) PROVE SeqInv'
<1>0. /\ At(t, "removeID") /\ Ends(t)
      /\ UNCHANGED <<now, fileOf, content, openFiles, heap, sessionsByFileID, given, leaked>>
      /\ fileIDsBySessionID' = [fileIDsBySessionID EXCEPT ![thread[t].sid] = None]
  BY DEF removeFromTableUInt, files, ghosts
<1>1. ThreadStep(t) /\ AssignOK(t)' /\ ChunkOK(t)' /\ ~At(t, "idle")
  BY <1>0, EndsOK DEF At
<1>2. fileIDsBySessionID' \in Seq(0..Len(heap)) /\ Len(fileIDsBySessionID') = Len(fileIDsBySessionID)
  <2>1. fileIDsBySessionID \in Seq(0..Len(heap)) /\ None \in 0..Len(heap)
    BY DEF SeqInv, ShapeOK
  <2>2. PICK sid : sid = thread[t].sid
    OBVIOUS
  <2>3. sid \in 1..Len(fileIDsBySessionID)
    BY <1>0, <2>2 DEF At, SeqInv, ChunkOK, ChunkSteps
  <2>4. PICK S : S = 0..Len(heap)
    OBVIOUS
  <2>5. fileIDsBySessionID' = [fileIDsBySessionID EXCEPT ![sid] = None]
    BY <1>0, <2>2
  <2>6. fileIDsBySessionID \in Seq(S) /\ None \in S
    BY <2>1, <2>4
  <2>7. fileIDsBySessionID' \in Seq(S) /\ Len(fileIDsBySessionID') = Len(fileIDsBySessionID)
    BY <2>3, <2>5, <2>6
  <2> QED
    BY <2>4, <2>7
<1>3. ShapeOK'
  BY <1>0, <1>1, <1>2 DEF SeqInv, ShapeOK, ThreadStep
<1>4. OneRequest' /\ \A u \in Threads : AssignOK(u)' /\ ChunkOK(u)'
  BY <1>1, OthersIdle
<1>5. \A u \in Threads : \A v : ~Making(u, v)
  BY <1>0 DEF SeqInv, OneRequest, At, Making
<1>6. TableOK'
  BY <1>0, <1>5 DEF SeqInv, TableOK, Entry, Sessions
<1>7. IdsOK' /\ LiveOK' /\ HandlesOK' /\ IntactOK'
  BY <1>0 DEF SeqInv, IdsOK, LiveOK, HandlesOK, IntactOK, Live, Entry, Sessions
<1> QED
  BY <1>3, <1>4, <1>6, <1>7 DEF SeqInv

-----------------------------------------------------------------------------
\* Every step preserves the invariant.
LEMMA UploadStep == ASSUME UploadInv, [Next]_vars PROVE UploadInv'
<1> SUFFICES ASSUME ~overlapped' PROVE SeqInv'
  BY DEF UploadInv
<1>1. CASE UNCHANGED vars
  <2>1. SeqInv /\ UNCHANGED <<now, fileOf, content, openFiles, heap, tables, thread, given, ghosts>>
    BY <1>1 DEF UploadInv, vars, files, ghosts
  <2> USE DEF tables, ghosts
  <2>2. ShapeOK' /\ OneRequest'
    BY <2>1 DEF SeqInv, ShapeOK, OneRequest, At
  <2>3. IdsOK' /\ LiveOK' /\ HandlesOK' /\ IntactOK'
    BY <2>1 DEF SeqInv, IdsOK, LiveOK, HandlesOK, IntactOK, Live, Entry, Sessions
  <2>4. TableOK'
    BY <2>1 DEF SeqInv, TableOK, Making, Entry, Sessions
  <2>5. \A t \in Threads : AssignOK(t)' /\ ChunkOK(t)'
    BY <2>1 DEF SeqInv, AssignOK, ChunkOK, Entry, Sessions
  <2> QED
    BY <2>2, <2>3, <2>4, <2>5 DEF SeqInv
<1>2. CASE Tick
  BY <1>2, TickKeeps DEF UploadInv, Tick, ghosts
<1>3. ASSUME NEW n \in Names, deleteUnixFile(n) PROVE SeqInv'
  <2>1. SeqInv
    BY <1>3 DEF UploadInv, deleteUnixFile, Overlaps
  <2> QED
    BY <1>3, <2>1, DeleteKeeps
<1>4. ASSUME NEW t \in Threads, Begin(t) PROVE SeqInv'
  <2>1. SeqInv
    BY <1>4 DEF UploadInv, Begin, Overlaps
  <2> QED
    BY <1>4, <2>1, BeginKeeps
<1>5. ASSUME NEW t \in Threads, removeSessionTimeOuts(t) PROVE SeqInv'
  <2>1. SeqInv /\ UNCHANGED leaked
    BY <1>5 DEF UploadInv, removeSessionTimeOuts, ghosts
  <2> QED
    BY <1>5, <2>1, PruneKeeps
<1>6. ASSUME NEW t \in Threads, Assign(t) PROVE SeqInv'
  <2>1. CASE tagFileForUploading(t)
    <3>1. UNCHANGED overlapped
      BY <2>1 DEF tagFileForUploading, ghosts
    <3> QED
      BY <2>1, <3>1, TagKeeps DEF UploadInv
  <2>2. CASE checkIfFileIsBusy(t)
    <3>1. UNCHANGED <<leaked, overlapped>>
      BY <2>2 DEF checkIfFileIsBusy, ghosts
    <3> QED
      BY <2>2, <3>1, BusyKeeps DEF UploadInv
  <2>3. CASE fileInfo(t)
    BY <2>3, InfoKeeps DEF UploadInv, fileInfo, ghosts
  <2>4. CASE handleNewFileCase(t) \/ createFails(t)
    <3>1. UNCHANGED overlapped
      BY <2>4 DEF handleNewFileCase, createFails, ghosts
    <3> QED
      BY <2>4, <3>1, NewFileKeeps DEF UploadInv
  <2>5. CASE checkForDuplicatesInTable(t)
    BY <2>5, CheckKeeps DEF UploadInv, checkForDuplicatesInTable, ghosts
  <2>6. CASE addToTable(t)
    BY <2>6, AddKeeps DEF UploadInv, addToTable, ghosts
  <2>7. CASE addSessionIDToTableAndIncrementCounter(t)
    BY <2>7, NumberKeeps DEF UploadInv, addSessionIDToTableAndIncrementCounter, ghosts
  <2>8. CASE respondWithSessionID(t)
    BY <2>8, RespondKeeps DEF UploadInv, respondWithSessionID, ghosts
  <2> QED
    BY <1>6, <2>1, <2>2, <2>3, <2>4, <2>5, <2>6, <2>7, <2>8 DEF Assign
<1>7. ASSUME NEW t \in Threads, Chunk(t) PROVE SeqInv'
  <2>1. CASE getFileID(t)
    BY <2>1, FindFileKeeps DEF UploadInv, getFileID, ghosts
  <2>2. CASE getSession(t)
    BY <2>2, FindSessionKeeps DEF UploadInv, getSession, ghosts
  <2>3. CASE validateSessionWithUserName(t)
    BY <2>3, ValidateKeeps DEF UploadInv, validateSessionWithUserName, ghosts
  <2>4. CASE writeChunk(t)
    BY <2>4, WriteKeeps DEF UploadInv, writeChunk, ghosts
  <2>5. CASE cleanupSession(t)
    BY <2>5, CleanupKeeps DEF UploadInv, cleanupSession, ghosts
  <2>6. CASE removeFromTableUInt(t)
    BY <2>6, ForgetKeeps DEF UploadInv, removeFromTableUInt, ghosts
  <2> QED
    BY <1>7, <2>1, <2>2, <2>3, <2>4, <2>5, <2>6 DEF Chunk
<1> QED
  BY <1>1, <1>2, <1>3, <1>4, <1>5, <1>6, <1>7 DEF Next

\* Requests that have overlapped have done so for ever.
LEMMA OverlappedStays == ASSUME [Next]_vars, ~overlapped' PROVE ~overlapped
<1>1. CASE UNCHANGED vars
  BY <1>1 DEF vars, ghosts
<1>2. CASE Tick \/ \E n \in Names : deleteUnixFile(n)
  BY <1>2 DEF Tick, deleteUnixFile, Overlaps, ghosts
<1>3. ASSUME NEW t \in Threads, Begin(t) \/ removeSessionTimeOuts(t) PROVE ~overlapped
  BY <1>3 DEF Begin, removeSessionTimeOuts, Overlaps, ghosts
<1>4. ASSUME NEW t \in Threads, Assign(t) PROVE ~overlapped
  BY <1>4 DEF Assign, fileInfo, handleNewFileCase, createFails, checkForDuplicatesInTable, addToTable,
              checkIfFileIsBusy, tagFileForUploading, addSessionIDToTableAndIncrementCounter,
              respondWithSessionID, ghosts
<1>5. ASSUME NEW t \in Threads, Chunk(t) PROVE ~overlapped
  BY <1>5 DEF Chunk, getFileID, getSession, validateSessionWithUserName, writeChunk, cleanupSession,
              removeFromTableUInt, ghosts
<1> QED
  BY <1>1, <1>2, <1>3, <1>4, <1>5 DEF Next

-----------------------------------------------------------------------------
(* Whose a session is, and when its user was heard of. *)

MakingSteps == {"open", "tag", "number", "name"}

\* The clock is not ahead of its bound, no session is from the future of a
\* request, and the user of a session was not heard of after its last request.
TimesOK ==
  /\ now <= MaxTime
  /\ \A t \in Threads : ~At(t, "idle") =>
       thread[t].time <= now /\ \A i \in Sessions : heap[i].time <= thread[t].time
  /\ \A i \in Sessions : heap[i].heard <= heap[i].time /\ heap[i].time <= now

\* A session has the user that got its identifier, and none before that.
OwnersOK ==
  /\ \A g \in given : g[3] \in Sessions /\ heap[g[3]].user = g[1] /\ g[1] # NoUser
  /\ \A t \in Threads : \A i \in Sessions : Making(t, i) => heap[i].user = NoUser

OwnerInv == ~overlapped => TimesOK /\ OwnersOK

\* No request begins, and none gets a session of its own.
QuietThreads ==
  \A u \in Threads : /\ ~At(u, "idle")' => ~At(u, "idle") /\ thread'[u].time = thread[u].time
                     /\ \A i : Making(u, i)' => Making(u, i)

\* A step that gives no session a time or a user, and starts no request.
Quiet ==
  /\ UNCHANGED <<now, given>> /\ Len(heap') = Len(heap)
  /\ \A i \in Sessions : /\ heap'[i].time = heap[i].time /\ heap'[i].heard = heap[i].heard
                         /\ heap'[i].user = heap[i].user
  /\ QuietThreads

\* Such a step keeps the invariant.
LEMMA QuietKeeps == ASSUME TimesOK, OwnersOK, Quiet PROVE TimesOK' /\ OwnersOK'
<1>1. TimesOK'
  BY DEF TimesOK, Quiet, QuietThreads, Sessions
<1>2. OwnersOK'
  BY DEF OwnersOK, Quiet, QuietThreads, Sessions, Making
<1> QED
  BY <1>1, <1>2

\* The request goes on, with its time, and with the session it made if any.
Continues(t) ==
  \E r : /\ thread' = [thread EXCEPT ![t] = r] /\ r.time = thread[t].time
         /\ r.step \in MakingSteps => thread[t].step \in MakingSteps /\ r.i = thread[t].i

\* A request that ends, or goes on without a session of its own.
LEMMA QuietThread ==
  ASSUME SeqInv, NEW t \in Threads, ~At(t, "idle"), Ends(t) \/ Continues(t)
  PROVE  QuietThreads
<1>1. thread \in [Threads -> ThreadRecords]
  BY DEF SeqInv, ShapeOK
<1>2. CASE Ends(t)
  BY <1>1, <1>2, IdleIsThread DEF QuietThreads, Ends, At, Making
<1>4. CASE Continues(t)
  <2>1. PICK r : /\ thread' = [thread EXCEPT ![t] = r] /\ r.time = thread[t].time
                 /\ r.step \in MakingSteps => thread[t].step \in MakingSteps /\ r.i = thread[t].i
    BY <1>4 DEF Continues
  <2> QED
    BY <1>1, <2>1 DEF QuietThreads, At, Making, MakingSteps
<1> QED
  BY <1>2, <1>4

\* Going to another step does not give a request a session.
LEMMA QuietGoes ==
  ASSUME SeqInv, NEW t \in Threads, NEW step, Goes(t, step), step \in MakingSteps => thread[t].step \in MakingSteps
  PROVE  Continues(t)
<1>1. thread \in [Threads -> ThreadRecords] /\ thread[t] \in ThreadRecords
  BY DEF SeqInv, ShapeOK
<1>2. PICK r : r = [thread[t] EXCEPT !.step = step]
  OBVIOUS
<1>3. r.time = thread[t].time /\ r.step = step /\ r.i = thread[t].i
  BY <1>1, <1>2 DEF ThreadRecords
<1>4. thread' = [thread EXCEPT ![t] = r]
  BY <1>1, <1>2 DEF Goes
<1> QED
  BY <1>3, <1>4 DEF Continues

\* Nor does freeing a session, or setting its file or number, set its user.
LEMMA QuietHeap ==
  ASSUME SeqInv,
         \/ heap' = heap \/ \E S, K : freeSessions(S, K)
         \/ \E i \in Sessions : \E f : heap' = [heap EXCEPT ![i].file = f] \/ heap' = [heap EXCEPT ![i].sid = f]
  PROVE  /\ Len(heap') = Len(heap)
         /\ \A i \in Sessions : /\ heap'[i].time = heap[i].time /\ heap'[i].heard = heap[i].heard
                                /\ heap'[i].user = heap[i].user
<1> USE DEF Sessions
<1>1. heap \in Seq(SessionRecords) /\ Len(heap) \in Nat /\ DOMAIN heap = 1..Len(heap)
      /\ \A i \in Sessions : heap[i] \in SessionRecords
  BY DEF SeqInv, ShapeOK
<1>2. CASE heap' = heap
  BY <1>2
<1>3. ASSUME NEW S, NEW K, freeSessions(S, K)
      PROVE  /\ Len(heap') = Len(heap)
             /\ \A i \in Sessions : /\ heap'[i].time = heap[i].time /\ heap'[i].heard = heap[i].heard
                                    /\ heap'[i].user = heap[i].user
  <2>1. Len(heap') = Len(heap)
    BY <1>1, <1>3, FreesOK DEF Frees
  <2>2. ASSUME NEW i \in Sessions
        PROVE  heap'[i].time = heap[i].time /\ heap'[i].heard = heap[i].heard /\ heap'[i].user = heap[i].user
    <3>1. PICK b \in BOOLEAN : b = (heap[i].freed \/ i \in S)
      OBVIOUS
    <3>2. PICK k \in BOOLEAN : k = (heap[i].keyFreed \/ i \in K)
      OBVIOUS
    <3>3. heap'[i] = [heap[i] EXCEPT !.freed = b, !.keyFreed = k]
      BY <1>1, <1>3, <3>1, <3>2 DEF freeSessions, SessionRecords
    <3> QED
      BY <1>1, <3>3 DEF SessionRecords
  <2> QED
    BY <2>1, <2>2
<1>4. ASSUME NEW i \in Sessions, NEW f, heap' = [heap EXCEPT ![i].file = f] \/ heap' = [heap EXCEPT ![i].sid = f]
      PROVE  /\ Len(heap') = Len(heap)
             /\ \A j \in Sessions : /\ heap'[j].time = heap[j].time /\ heap'[j].heard = heap[j].heard
                                    /\ heap'[j].user = heap[j].user
  <2>1. PICK e : /\ e.time = heap[i].time /\ e.heard = heap[i].heard /\ e.user = heap[i].user
                 /\ heap' = [heap EXCEPT ![i] = e]
    <3>1. CASE heap' = [heap EXCEPT ![i].file = f]
      <4>1. PICK e : e = [heap[i] EXCEPT !.file = f]
        OBVIOUS
      <4>2. e.time = heap[i].time /\ e.heard = heap[i].heard /\ e.user = heap[i].user
        BY <1>1, <4>1 DEF SessionRecords
      <4> QED
        BY <1>1, <3>1, <4>1, <4>2
    <3>2. CASE heap' = [heap EXCEPT ![i].sid = f]
      <4>1. PICK e : e = [heap[i] EXCEPT !.sid = f]
        OBVIOUS
      <4>2. e.time = heap[i].time /\ e.heard = heap[i].heard /\ e.user = heap[i].user
        BY <1>1, <4>1 DEF SessionRecords
      <4> QED
        BY <1>1, <3>2, <4>1, <4>2
    <3> QED
      BY <1>4, <3>1, <3>2
  <2> QED
    BY <1>1, <2>1
<1> QED
  BY <1>2, <1>3, <1>4

\* The steps that look for a file and a session are such steps;
LEMMA QuietSearch ==
  ASSUME SeqInv, NEW t \in Threads,
         \/ removeSessionTimeOuts(t) \/ fileInfo(t) \/ handleNewFileCase(t) \/ createFails(t)
         \/ checkForDuplicatesInTable(t) \/ getFileID(t) \/ getSession(t)
  PROVE  Quiet
<1>0. thread \in [Threads -> ThreadRecords] /\ thread[t] \in ThreadRecords
  BY DEF SeqInv, ShapeOK
<1>1. UNCHANGED <<now, given>> /\ (heap' = heap \/ \E S, K : freeSessions(S, K)) /\ ~At(t, "idle")
  BY DEF removeSessionTimeOuts, fileInfo, handleNewFileCase, createFails, checkForDuplicatesInTable, getFileID,
         getSession, At
<1>2. Ends(t) \/ Continues(t)
  <2>1. ASSUME NEW step \in {"info", "lookup", "add"}, Goes(t, step) PROVE Continues(t)
    BY <2>1, QuietGoes DEF MakingSteps
  <2>2. CASE removeSessionTimeOuts(t) \/ checkForDuplicatesInTable(t) \/ createFails(t)
    BY <2>1, <2>2 DEF removeSessionTimeOuts, checkForDuplicatesInTable, createFails
  <2>3. CASE fileInfo(t) /\ ~Ends(t)
    <3>1. PICK r : r = [thread[t] EXCEPT !.id = fileOf[thread[t].name], !.step = IF fileOf[thread[t].name] = None THEN "create" ELSE "check"]
      OBVIOUS
    <3>2. r.time = thread[t].time /\ r.step \in {"create", "check"}
      BY <1>0, <3>1 DEF ThreadRecords
    <3>3. thread' = [thread EXCEPT ![t] = r]
      BY <1>0, <2>3, <3>1 DEF fileInfo
    <3> QED
      BY <3>2, <3>3 DEF Continues, MakingSteps
  <2>4. CASE handleNewFileCase(t) /\ ~Ends(t)
    <3>1. PICK r : r = [thread[t] EXCEPT !.id = fileOf'[thread[t].name], !.step = "check"]
      OBVIOUS
    <3>2. r.time = thread[t].time /\ r.step \in {"check"}
      BY <1>0, <3>1 DEF ThreadRecords
    <3>3. thread' = [thread EXCEPT ![t] = r]
      BY <1>0, <2>4, <3>1 DEF handleNewFileCase
    <3> QED
      BY <3>2, <3>3 DEF Continues, MakingSteps
  <2>5. CASE getFileID(t) /\ ~Ends(t)
    <3>1. PICK r : r = [thread[t] EXCEPT !.i = fileIDsBySessionID[thread[t].sid], !.step = "session"]
      OBVIOUS
    <3>2. r.time = thread[t].time /\ r.step \in {"session"}
      BY <1>0, <3>1 DEF ThreadRecords
    <3>3. thread' = [thread EXCEPT ![t] = r]
      BY <1>0, <2>5, <3>1 DEF getFileID
    <3> QED
      BY <3>2, <3>3 DEF Continues, MakingSteps
  <2>6. CASE getSession(t) /\ ~Ends(t)
    <3>1. PICK r : r = [thread[t] EXCEPT !.i = Entry(heap[thread[t].i].id).value, !.id = thread[t].i, !.step = "validate"]
      OBVIOUS
    <3>2. r.time = thread[t].time /\ r.step \in {"validate"}
      BY <1>0, <3>1 DEF ThreadRecords
    <3>3. thread' = [thread EXCEPT ![t] = r]
      BY <1>0, <2>6, <3>1 DEF getSession
    <3> QED
      BY <3>2, <3>3 DEF Continues, MakingSteps
  <2> QED
    BY <2>2, <2>3, <2>4, <2>5, <2>6
<1> QED
  BY <1>1, <1>2, QuietThread, QuietHeap DEF Quiet

\* so are those that open, tag and number the file of a session that is made,
LEMMA QuietMaking ==
  ASSUME SeqInv, NEW t \in Threads,
         checkIfFileIsBusy(t) \/ tagFileForUploading(t) \/ addSessionIDToTableAndIncrementCounter(t)
  PROVE  Quiet
<1>0. thread \in [Threads -> ThreadRecords] /\ thread[t] \in ThreadRecords
  BY DEF SeqInv, ShapeOK
<1>1. thread[t].step \in MakingSteps /\ ~At(t, "idle") /\ UNCHANGED <<now, given>>
  BY DEF checkIfFileIsBusy, tagFileForUploading, addSessionIDToTableAndIncrementCounter, At, MakingSteps
<1>2. thread[t].i \in Sessions
  BY <1>1, MakerOK DEF MakingSteps
<1>3. \/ heap' = heap \/ \E S, K : freeSessions(S, K)
      \/ \E i \in Sessions : \E f : heap' = [heap EXCEPT ![i].file = f] \/ heap' = [heap EXCEPT ![i].sid = f]
  <2>1. CASE checkIfFileIsBusy(t)
    BY <2>1 DEF checkIfFileIsBusy, removeFromTable
  <2>2. CASE tagFileForUploading(t)
    BY <1>2, <2>2 DEF tagFileForUploading, removeFromTable
  <2>3. CASE addSessionIDToTableAndIncrementCounter(t)
    BY <1>2, <2>3 DEF addSessionIDToTableAndIncrementCounter
  <2> QED
    BY <2>1, <2>2, <2>3
<1>4. Ends(t) \/ Continues(t)
  <2>1. ASSUME NEW step, Goes(t, step) PROVE Continues(t)
    BY <1>1, <2>1, QuietGoes
  <2>2. CASE tagFileForUploading(t) \/ addSessionIDToTableAndIncrementCounter(t)
    BY <2>1, <2>2 DEF tagFileForUploading, addSessionIDToTableAndIncrementCounter
  <2>3. CASE checkIfFileIsBusy(t) /\ ~Ends(t)
    <3>1. PICK r : r = [thread[t] EXCEPT !.step = "tag", !.id = fileOf[thread[t].name]]
      OBVIOUS
    <3>2. r.time = thread[t].time /\ r.i = thread[t].i
      BY <1>0, <3>1 DEF ThreadRecords
    <3>3. thread' = [thread EXCEPT ![t] = r]
      BY <1>0, <2>3, <3>1 DEF checkIfFileIsBusy
    <3> QED
      BY <1>1, <3>2, <3>3 DEF Continues
  <2> QED
    BY <2>2, <2>3
<1> QED
  BY <1>1, <1>3, <1>4, QuietThread, QuietHeap DEF Quiet

\* and those that write a chunk and end a session.
LEMMA QuietWriting ==
  ASSUME SeqInv, NEW t \in Threads, writeChunk(t) \/ cleanupSession(t) \/ removeFromTableUInt(t)
  PROVE  Quiet
<1>1. UNCHANGED <<now, given>> /\ (heap' = heap \/ \E S, K : freeSessions(S, K)) /\ ~At(t, "idle")
  BY DEF writeChunk, cleanupSession, removeFromTableUInt, removeFromTable, At
<1>2. Ends(t) \/ Continues(t)
  <2>1. ASSUME NEW step \in {"remove", "removeID"}, Goes(t, step) PROVE Continues(t)
    BY <2>1, QuietGoes DEF MakingSteps
  <2> QED
    BY <2>1 DEF writeChunk, cleanupSession, removeFromTableUInt
<1> QED
  BY <1>1, <1>2, QuietThread, QuietHeap DEF Quiet

\* A request begins with the time that it is.
LEMMA OwnerBegin == ASSUME SeqInv, TimesOK, OwnersOK, NEW t \in Threads, Begin(t), ~overlapped' PROVE TimesOK' /\ OwnersOK'
<1>0. thread \in [Threads -> ThreadRecords] /\ now \in Nat
  BY DEF SeqInv, ShapeOK
<1>1. (\A o \in Threads : At(o, "idle")) /\ UNCHANGED <<now, heap, given>>
  BY DEF Begin, Overlaps
<1>2. PICK r : thread' = [thread EXCEPT ![t] = r] /\ r.time = now /\ r.step = "prune"
  <2>1. ASSUME NEW u \in Users, NEW n \in Names,
               thread' = [thread EXCEPT ![t] = [Idle EXCEPT !.step = "prune", !.user = u, !.name = n, !.time = now]]
        PROVE  \E r : thread' = [thread EXCEPT ![t] = r] /\ r.time = now /\ r.step = "prune"
    <3>1. PICK r : r = [Idle EXCEPT !.step = "prune", !.user = u, !.name = n, !.time = now]
      OBVIOUS
    <3>2. r.time = now /\ r.step = "prune"
      BY <3>1, IdleIsThread DEF ThreadRecords
    <3> QED
      BY <2>1, <3>1, <3>2
  <2>2. ASSUME NEW u \in Users, NEW g \in given, NEW last \in BOOLEAN,
               thread' = [thread EXCEPT ![t] = [Idle EXCEPT !.step = "prune", !.user = u, !.sid = g[2], !.last = last,
                                                            !.time = now]]
        PROVE  \E r : thread' = [thread EXCEPT ![t] = r] /\ r.time = now /\ r.step = "prune"
    <3>1. PICK r : r = [Idle EXCEPT !.step = "prune", !.user = u, !.sid = g[2], !.last = last, !.time = now]
      OBVIOUS
    <3>2. r.time = now /\ r.step = "prune"
      BY <3>1, IdleIsThread DEF ThreadRecords
    <3> QED
      BY <2>2, <3>1, <3>2
  <2> QED
    BY <2>1, <2>2, Zenon DEF Begin
<1>3. \A u \in Threads : ~At(u, "idle")' => thread'[u].time = now
  BY <1>0, <1>1, <1>2 DEF At
<1>4. \A u \in Threads : \A i : ~Making(u, i)'
  BY <1>0, <1>1, <1>2 DEF At, Making
<1>5. TimesOK'
  BY <1>0, <1>1, <1>3 DEF TimesOK, Sessions
<1>6. OwnersOK'
  BY <1>1, <1>4 DEF OwnersOK, Sessions
<1> QED
  BY <1>5, <1>6

\* A new session has the time of its request and no user yet.
LEMMA OwnerAdd == ASSUME SeqInv, TimesOK, OwnersOK, NEW t \in Threads, addToTable(t) PROVE TimesOK' /\ OwnersOK'
<1> USE DEF Sessions
<1>0. /\ thread \in [Threads -> ThreadRecords] /\ thread[t] \in ThreadRecords /\ heap \in Seq(SessionRecords)
      /\ Len(heap) \in Nat /\ thread[t].time \in Nat
  BY DEF SeqInv, ShapeOK, ThreadRecords
<1>1. PICK e : /\ heap' = Append(heap, e) /\ e.time = thread[t].time /\ e.heard = thread[t].time /\ e.user = NoUser
  BY DEF addToTable
<1>2. /\ Len(heap') = Len(heap) + 1 /\ heap'[Len(heap) + 1] = e
      /\ \A i \in 1..Len(heap) : heap'[i] = heap[i]
  BY <1>0, <1>1
<1>3. \A i \in 1..Len(heap') : i \in 1..Len(heap) \/ i = Len(heap) + 1
  BY <1>0, <1>2
<1>4. At(t, "add") /\ UNCHANGED <<now, given>>
  BY DEF addToTable
<1>5. PICK r : thread' = [thread EXCEPT ![t] = r] /\ r.time = thread[t].time /\ r.i = Len(heap) + 1 /\ r.step = "open"
  <2>1. PICK r : r = [thread[t] EXCEPT !.i = Len(heap) + 1, !.step = "open"]
    OBVIOUS
  <2>2. r.time = thread[t].time /\ r.i = Len(heap) + 1 /\ r.step = "open"
    BY <1>0, <2>1 DEF ThreadRecords
  <2>3. thread' = [thread EXCEPT ![t] = r]
    BY <1>0, <2>1 DEF addToTable
  <2> QED
    BY <2>2, <2>3
<1>6. \A u \in Threads : u # t => thread'[u].step = "idle"
  BY <1>0, <1>4, <1>5 DEF SeqInv, OneRequest, At
<1>7. thread[t].time <= now /\ \A i \in 1..Len(heap) : heap[i].time <= thread[t].time
  BY <1>4 DEF TimesOK, At
<1>8. thread'[t].time = thread[t].time /\ thread'[t].i = Len(heap) + 1
  BY <1>0, <1>5
<1>9. \A i \in 1..Len(heap') : /\ heap'[i].heard <= heap'[i].time /\ heap'[i].time <= now
                              /\ heap'[i].time <= thread[t].time
  BY <1>0, <1>1, <1>2, <1>3, <1>7 DEF TimesOK
<1>10. TimesOK'
  BY <1>4, <1>6, <1>7, <1>8, <1>9 DEF TimesOK, At
<1>11. OwnersOK'
  <2>1. \A g \in given : g[3] \in 1..Len(heap') /\ heap'[g[3]].user = g[1] /\ g[1] # NoUser
    BY <1>0, <1>2 DEF OwnersOK
  <2>2. \A u \in Threads : \A i : Making(u, i)' => heap'[i].user = NoUser
    BY <1>1, <1>2, <1>6, <1>8 DEF Making
  <2> QED
    BY <1>4, <2>1, <2>2 DEF OwnersOK
<1> QED
  BY <1>10, <1>11

\* A session that is done is its user's, and nobody else had it.
LEMMA OwnerRespond ==
  ASSUME SeqInv, TimesOK, OwnersOK, NEW t \in Threads, respondWithSessionID(t) PROVE TimesOK' /\ OwnersOK'
<1> USE DEF Sessions
<1>0. /\ thread \in [Threads -> ThreadRecords] /\ heap \in Seq(SessionRecords) /\ Len(heap) \in Nat
      /\ thread[t].step = "name"
  BY DEF SeqInv, ShapeOK, respondWithSessionID, At
<1>1. PICK i : i = thread[t].i
  OBVIOUS
<1>2. PICK u : u = thread[t].user
  OBVIOUS
<1>3. i \in 1..Len(heap) /\ u # NoUser /\ heap[i] \in SessionRecords
  BY <1>0, <1>1, <1>2, MakerOK
<1>4. heap[i].user = NoUser
  BY <1>0, <1>1, <1>3 DEF OwnersOK, Making
<1>5. PICK e : e = [heap[i] EXCEPT !.user = u]
  OBVIOUS
<1>6. e.user = u /\ e.time = heap[i].time /\ e.heard = heap[i].heard
  BY <1>3, <1>5 DEF SessionRecords
<1>7. heap' = [heap EXCEPT ![i] = e] /\ UNCHANGED now /\ Ends(t)
  BY <1>0, <1>1, <1>2, <1>3, <1>5 DEF respondWithSessionID
<1>8. Len(heap') = Len(heap) /\ heap'[i] = e /\ \A j \in 1..Len(heap) : j # i => heap'[j] = heap[j]
  BY <1>0, <1>3, <1>7
<1>9. \A o \in Threads : At(o, "idle")'
  BY <1>0, <1>7, IdleIsThread DEF SeqInv, OneRequest, Ends, At
<1>10. TimesOK'
  BY <1>6, <1>7, <1>8, <1>9 DEF TimesOK
<1>11. ASSUME NEW g \in given' PROVE g[3] \in 1..Len(heap') /\ heap'[g[3]].user = g[1] /\ g[1] # NoUser
  <2>1. CASE g \in given
    BY <1>3, <1>4, <1>8, <2>1 DEF OwnersOK
  <2>2. CASE g \notin given
    <3>1. g[1] = u /\ g[3] = i
      BY <1>1, <1>2, <2>2 DEF respondWithSessionID
    <3> QED
      BY <1>3, <1>6, <1>8, <3>1
  <2> QED
    BY <2>1, <2>2
<1>12. OwnersOK'
  BY <1>9, <1>11 DEF OwnersOK, Making, At
<1> QED
  BY <1>10, <1>12

\* A session gets the time of the request, its user's too if it is that.
LEMMA OwnerValidate ==
  ASSUME SeqInv, TimesOK, OwnersOK, NEW t \in Threads, validateSessionWithUserName(t) PROVE TimesOK' /\ OwnersOK'
<1> USE DEF Sessions
<1>0. /\ thread \in [Threads -> ThreadRecords] /\ heap \in Seq(SessionRecords) /\ Len(heap) \in Nat
      /\ thread[t].step = "validate" /\ thread[t] \in ThreadRecords
  BY DEF SeqInv, ShapeOK, validateSessionWithUserName, At
<1>1. PICK i : i = thread[t].i
  OBVIOUS
<1>2. PICK time \in Nat : time = thread[t].time
  BY <1>0 DEF ThreadRecords
<1>3. i \in 1..Len(heap) /\ heap[i] \in SessionRecords
  BY <1>0, <1>1, SettledOK
<1>4. PICK heard : heard = IF heap[i].user = thread[t].user THEN time ELSE heap[i].heard
  OBVIOUS
<1>5. PICK e : e = [heap[i] EXCEPT !.time = time, !.heard = heard]
  OBVIOUS
<1>6. e.time = time /\ e.heard = heard /\ e.user = heap[i].user
  BY <1>3, <1>5 DEF SessionRecords
<1>7. heap' = [heap EXCEPT ![i] = e] /\ UNCHANGED <<now, given>>
  BY <1>0, <1>1, <1>2, <1>3, <1>4, <1>5 DEF validateSessionWithUserName, Stamped, SessionRecords
<1>8. Len(heap') = Len(heap) /\ heap'[i] = e /\ \A j \in 1..Len(heap) : j # i => heap'[j] = heap[j]
  BY <1>0, <1>3, <1>7
<1>9. time <= now /\ heap[i].heard <= heap[i].time /\ \A j \in 1..Len(heap) : heap[j].time <= time
  BY <1>0, <1>2, <1>3 DEF TimesOK, At
<1>10. heard <= time
  BY <1>2, <1>3, <1>4, <1>9 DEF SessionRecords
<1>11. Ends(t) \/ Continues(t)
  BY QuietGoes DEF validateSessionWithUserName, MakingSteps
<1>12. QuietThreads
  BY <1>0, <1>11, QuietThread DEF At
<1>13. TimesOK'
  <2>1. \A j \in 1..Len(heap) : /\ heap'[j].heard <= heap'[j].time /\ heap'[j].time <= now /\ heap'[j].time <= time
    BY <1>2, <1>6, <1>8, <1>9, <1>10 DEF TimesOK
  <2>2. \A o \in Threads : ~At(o, "idle")' => thread'[o].time = time
    BY <1>0, <1>2, <1>12 DEF QuietThreads, SeqInv, OneRequest, At
  <2> QED
    BY <1>7, <1>8, <1>9, <2>1, <2>2 DEF TimesOK
<1>14. OwnersOK'
  BY <1>3, <1>6, <1>7, <1>8, <1>12 DEF OwnersOK, QuietThreads, Making
<1> QED
  BY <1>13, <1>14

\* Every step keeps the owners.
LEMMA OwnerStep == ASSUME UploadInv, OwnerInv, [Next]_vars PROVE OwnerInv'
<1> SUFFICES ASSUME ~overlapped' PROVE TimesOK' /\ OwnersOK'
  BY DEF OwnerInv
<1>0. SeqInv /\ TimesOK /\ OwnersOK
  BY OverlappedStays DEF UploadInv, OwnerInv
<1>1. CASE UNCHANGED <<now, heap, thread, given>>
  BY <1>0, <1>1 DEF TimesOK, OwnersOK, Making, At, Sessions
<1>2. CASE Tick
  <2>1. now \in Nat /\ now' = now + 1 /\ now' <= MaxTime /\ UNCHANGED <<heap, thread, given>>
    BY <1>0, <1>2, UploadSessionAssumption DEF Tick, SeqInv, ShapeOK
  <2>2. /\ \A t \in Threads : thread[t].time \in Nat
        /\ \A i \in Sessions : heap[i].time \in Nat
    <3>1. /\ \A t \in Threads : thread[t] \in ThreadRecords
          /\ \A i \in Sessions : heap[i] \in SessionRecords
      BY <1>0 DEF SeqInv, ShapeOK, Sessions
    <3> QED
      BY <3>1 DEF ThreadRecords, SessionRecords
  <2> QED
    BY <1>0, <2>1, <2>2 DEF TimesOK, OwnersOK, Making, At, Sessions
<1>3. ASSUME NEW n \in Names, deleteUnixFile(n) PROVE TimesOK' /\ OwnersOK'
  BY <1>1, <1>3 DEF deleteUnixFile
<1>4. ASSUME NEW t \in Threads, Begin(t) PROVE TimesOK' /\ OwnersOK'
  BY <1>0, <1>4, OwnerBegin
<1>5. ASSUME NEW t \in Threads, removeSessionTimeOuts(t) PROVE TimesOK' /\ OwnersOK'
  BY <1>0, <1>5, QuietSearch, QuietKeeps
<1>6. ASSUME NEW t \in Threads, Assign(t) PROVE TimesOK' /\ OwnersOK'
  <2>1. CASE addToTable(t)
    BY <1>0, <2>1, OwnerAdd
  <2>2. CASE respondWithSessionID(t)
    BY <1>0, <2>2, OwnerRespond
  <2>3. CASE ~addToTable(t) /\ ~respondWithSessionID(t)
    BY <1>0, <1>6, <2>3, QuietSearch, QuietMaking, QuietKeeps DEF Assign
  <2> QED
    BY <2>1, <2>2, <2>3
<1>7. ASSUME NEW t \in Threads, Chunk(t) PROVE TimesOK' /\ OwnersOK'
  <2>1. CASE validateSessionWithUserName(t)
    BY <1>0, <2>1, OwnerValidate
  <2>2. CASE ~validateSessionWithUserName(t)
    BY <1>0, <1>7, <2>2, QuietSearch, QuietWriting, QuietKeeps DEF Chunk
  <2> QED
    BY <2>1, <2>2
<1> QED
  BY <1>1, <1>2, <1>3, <1>4, <1>5, <1>6, <1>7 DEF Next, vars

-----------------------------------------------------------------------------
(* Who changes an upload. *)

\* The request of the session's own user, in the midst of a chunk.
Mine(u, i) == \E t \in Threads : thread[t].step \in {"write", "remove"} /\ thread[t].user = u /\ thread[t].i = i

\* A session with a file, and the file it is in the table under.
LEMMA LiveIs ==
  ASSUME SeqInv, OwnersOK, NEW g \in given, Live(g[3])
  PROVE  /\ g[3] \in Sessions /\ ~heap[g[3]].freed /\ heap[g[3]].user = g[1] /\ g[1] # NoUser
         /\ heap[g[3]].file # None /\ heap[g[3]].file \in 1..Len(content)
         /\ Entry(heap[g[3]].file).value = g[3]
<1>1. g[3] \in Sessions /\ heap[g[3]].user = g[1] /\ g[1] # NoUser
  BY DEF OwnersOK
<1> QED
  BY <1>1 DEF SeqInv, LiveOK, Live

\* A session is not under way once its identifier was given.
LEMMA NotMaking ==
  ASSUME SeqInv, OwnersOK, NEW g \in given, NEW t \in Threads, thread[t].step \in MakingSteps
  PROVE  thread[t].i # g[3]
BY DEF OwnersOK, Making, MakingSteps

\* The chunks of a session come from its user.
LEMMA ChunkIsMine ==
  ASSUME SeqInv, OwnersOK, NEW g \in given, NEW t \in Threads, thread[t].step \in {"write", "remove"},
         thread[t].i = g[3]
  PROVE  Mine(g[1], g[3])
<1>1. heap[thread[t].i].user = thread[t].user
  BY DEF SeqInv, ChunkOK
<1> QED
  BY <1>1 DEF OwnersOK, Mine

\* What a request that makes a session truncates is not the file of another.
LEMMA ContentStep ==
  ASSUME SeqInv, OwnersOK, [Next]_vars, NEW g \in given, Live(g[3]),
         content'[heap[g[3]].file] # content[heap[g[3]].file]
  PROVE  Mine(g[1], g[3])
<1>1. PICK f : f = heap[g[3]].file
  OBVIOUS
<1>2. f \in 1..Len(content) /\ Entry(f).value = g[3] /\ content \in Seq(Seq(Nat))
  BY <1>1, LiveIs DEF SeqInv, ShapeOK
<1>3. content'[f] # content[f]
  BY <1>1
<1>4. ASSUME NEW n \in Names, Created(n) \/ UNCHANGED <<fileOf, content, sessionsByFileID>> PROVE FALSE
  BY <1>2, <1>3, <1>4, FileMadeOK DEF FileMade
<1>5. ASSUME NEW t \in Threads, handleNewFileCase(t) \/ createFails(t) PROVE FALSE
  <2>1. thread[t].name \in Names
    BY <1>5 DEF handleNewFileCase, createFails, At, SeqInv, AssignOK, AssignSteps
  <2> QED
    BY <1>4, <1>5, <2>1 DEF handleNewFileCase, createFails
<1>6. ASSUME NEW t \in Threads, checkIfFileIsBusy(t) PROVE FALSE
  <2>1. thread[t].step = "open" /\ thread[t].step \in MakingSteps
    BY <1>6 DEF checkIfFileIsBusy, At, MakingSteps
  <2>2. thread[t].id = fileOf[thread[t].name] /\ Entry(thread[t].id).value = thread[t].i
    BY <2>1 DEF SeqInv, AssignOK
  <2>3. fileOf[thread[t].name] # f
    BY <1>2, <2>1, <2>2, NotMaking
  <2> QED
    BY <1>2, <1>3, <1>6, <2>3 DEF checkIfFileIsBusy
<1>7. ASSUME NEW t \in Threads, writeChunk(t) PROVE Mine(g[1], g[3])
  <2>1. thread[t].step \in {"validate", "write", "remove"} /\ thread[t].step \in {"write", "remove"}
    BY <1>7 DEF writeChunk, At
  <2>2. heap[thread[t].i].file = heap[thread[t].id].id /\ Entry(heap[thread[t].id].id).value = thread[t].i
    BY <2>1, SettledOK
  <2>3. f = heap[thread[t].i].file
    <3>1. PICK h : h = heap[thread[t].i].file
      OBVIOUS
    <3>2. content' = content \/ content' = [content EXCEPT ![h] = Append(content[h], thread[t].i)]
      BY <1>7, <3>1 DEF writeChunk
    <3>3. PICK c : c = Append(content[h], thread[t].i)
      OBVIOUS
    <3>4. content' = content \/ content' = [content EXCEPT ![h] = c]
      BY <3>2, <3>3, Zenon
    <3>5. DOMAIN content = 1..Len(content)
      BY <1>2
    <3>6. h # f => content'[f] = content[f]
      BY <1>2, <3>4, <3>5
    <3> QED
      BY <1>3, <3>1, <3>6
  <2>4. thread[t].i = g[3]
    BY <1>2, <2>2, <2>3
  <2> QED
    BY <2>1, <2>4, ChunkIsMine
<1>8. CASE UNCHANGED content
  BY <1>3, <1>8
<1>9. ASSUME NEW t \in Threads, Assign(t) PROVE Mine(g[1], g[3])
  BY <1>5, <1>6, <1>8, <1>9 DEF Assign, fileInfo, checkForDuplicatesInTable, addToTable, tagFileForUploading,
                            addSessionIDToTableAndIncrementCounter, respondWithSessionID, files
<1>10. ASSUME NEW t \in Threads, Chunk(t) PROVE Mine(g[1], g[3])
  BY <1>7, <1>8, <1>10 DEF Chunk, getFileID, getSession, validateSessionWithUserName, cleanupSession,
                           removeFromTableUInt, files
<1> QED
  BY <1>8, <1>9, <1>10 DEF Next, vars, files, Tick, Begin, removeSessionTimeOuts, deleteUnixFile

\* What is removed from the table is the session of the request that does it.
LEMMA RemovedIs ==
  ASSUME SeqInv, OwnersOK, NEW g \in given, Live(g[3]), NEW d \in 1..Len(content), removeFromTable(d), heap'[g[3]].freed
  PROVE  Entry(d).value = g[3]
<1>1. freeSessions({Entry(d).value}, {Entry(d).key}) /\ heap \in Seq(SessionRecords)
  BY DEF removeFromTable, SeqInv, ShapeOK
<1>2. Frees({Entry(d).value})
  BY <1>1, FreesOK
<1> QED
  BY <1>2, LiveIs DEF Frees

\* A difference of times that do not go back is what it seems.
LEMMA UnsignedDifference ==
  ASSUME NEW a \in Nat, NEW b \in Nat, b <= a, a <= MaxTime PROVE (a - b) % UINT_RANGE = a - b
BY UploadSessionAssumption

\* A session that timed out is one whose user was not heard of for that long.
LEMMA TimedOutIs ==
  ASSUME SeqInv, TimesOK, OwnersOK, NEW g \in given, Live(g[3]), NEW t \in Threads, removeSessionTimeOuts(t),
         heap'[g[3]].freed
  PROVE  now - heap[g[3]].heard >= TIMEOUT_TIME
<1> USE DEF Sessions
<1>1. PICK D : /\ D \in SUBSET {id \in Inodes : /\ Entry(id) # NoEntry
                                               /\ timeOutMatcher(thread[t].time, heap[Entry(id).value])}
               /\ freeSessions({Entry(id).value : id \in D}, {})
  BY DEF removeSessionTimeOuts
<1>2. PICK S : S = {Entry(id).value : id \in D}
  OBVIOUS
<1>3. heap \in Seq(SessionRecords) /\ g[3] \in 1..Len(heap) /\ ~heap[g[3]].freed /\ thread[t] \in ThreadRecords
  BY LiveIs DEF SeqInv, ShapeOK
<1>4. Frees(S)
  BY <1>1, <1>2, <1>3, FreesOK
<1>5. g[3] \in S
  BY <1>3, <1>4 DEF Frees
<1>6. timeOutMatcher(thread[t].time, heap[g[3]])
  BY <1>1, <1>2, <1>5
<1>7. PICK i \in 1..Len(heap) : i = g[3]
  BY <1>3
<1>8. heap[i] \in SessionRecords
  BY <1>3
<1>9. heap[i].time \in Nat /\ heap[i].heard \in Nat /\ thread[t].time \in Nat /\ now \in Nat
  BY <1>3, <1>8 DEF SessionRecords, ThreadRecords, SeqInv, ShapeOK
<1>10. ~At(t, "idle")
  BY DEF removeSessionTimeOuts, At
<1>11. heap[i].time <= thread[t].time /\ thread[t].time <= now /\ now <= MaxTime /\ heap[i].heard <= heap[i].time
  <2>1. thread[t].time <= now /\ \A j \in Sessions : heap[j].time <= thread[t].time
    BY <1>10, Zenon DEF TimesOK
  <2>2. now <= MaxTime /\ \A j \in Sessions : heap[j].heard <= heap[j].time
    BY Zenon DEF TimesOK
  <2> QED
    BY <1>7, <2>1, <2>2
<1>12. PICK a \in Nat, b \in Nat, c \in Nat : a = thread[t].time /\ b = heap[i].time /\ c = heap[i].heard
  BY <1>9
<1>13. (a - b) % UINT_RANGE >= TIMEOUT_TIME
  <2>1. timeOutMatcher(thread[t].time, heap[i])
    BY <1>6, <1>7
  <2> QED
    BY <1>12, <2>1, Zenon DEF timeOutMatcher
<1>14. b <= a /\ a <= now /\ a <= MaxTime /\ c <= b
  BY <1>9, <1>11, <1>12, UploadSessionAssumption
<1>15. a - b >= TIMEOUT_TIME
  BY <1>13, <1>14, UnsignedDifference
<1>16. now - c >= TIMEOUT_TIME
  BY <1>9, <1>14, <1>15, UploadSessionAssumption
<1> QED
  BY <1>7, <1>12, <1>16

\* A session goes when it timed out, or when its user's request ends it.
LEMMA FreedStep ==
  ASSUME SeqInv, TimesOK, OwnersOK, [Next]_vars, NEW g \in given, Live(g[3]), heap'[g[3]].freed
  PROVE  Mine(g[1], g[3]) \/ now - heap[g[3]].heard >= TIMEOUT_TIME
<1>0. g[3] \in 1..Len(heap) /\ ~heap[g[3]].freed /\ heap \in Seq(SessionRecords) /\ heap[g[3]] \in SessionRecords
  BY LiveIs DEF Sessions, SeqInv, ShapeOK
<1>1. heap' # heap
  BY <1>0
<1>2. ASSUME NEW t \in Threads, checkIfFileIsBusy(t) \/ tagFileForUploading(t) PROVE FALSE
  <2>1. thread[t].step \in MakingSteps /\ thread[t].step \in {"open", "tag", "number", "name"}
    BY <1>2 DEF checkIfFileIsBusy, tagFileForUploading, At, MakingSteps
  <2>2. /\ thread[t].i # g[3] /\ thread[t].i \in 1..Len(heap) /\ heap[thread[t].i].id \in 1..Len(content)
        /\ Entry(heap[thread[t].i].id).value = thread[t].i
    BY <2>1, MakerOK, NotMaking DEF Sessions
  <2>3. ~removeFromTable(heap[thread[t].i].id)
    BY <2>2, RemovedIs
  <2>4. heap' = heap \/ heap' = [heap EXCEPT ![thread[t].i].file = thread[t].id]
    BY <1>2, <2>3 DEF checkIfFileIsBusy, tagFileForUploading
  <2> QED
    BY <1>0, <1>1, <2>2, <2>4
<1>3. ASSUME NEW t \in Threads, addToTable(t) PROVE FALSE
  <2>1. PICK e : heap' = Append(heap, e)
    BY <1>3 DEF addToTable
  <2> QED
    BY <1>0, <2>1
<1>4. ASSUME NEW i, NEW e, heap' = [heap EXCEPT ![i] = e], i = g[3] => e.freed = heap[i].freed PROVE FALSE
  BY <1>0, <1>4
<1>5. ASSUME NEW t \in Threads, addSessionIDToTableAndIncrementCounter(t) \/ respondWithSessionID(t) PROVE FALSE
  <2>1. PICK i : i = thread[t].i
    OBVIOUS
  <2>2. CASE addSessionIDToTableAndIncrementCounter(t)
    <3>1. PICK e : e = [heap[i] EXCEPT !.sid = Len(fileIDsBySessionID) + 1]
      OBVIOUS
    <3>2. heap' = [heap EXCEPT ![i] = e]
      BY <2>1, <2>2, <3>1 DEF addSessionIDToTableAndIncrementCounter
    <3> QED
      BY <1>0, <1>4, <3>1, <3>2 DEF SessionRecords
  <2>3. CASE respondWithSessionID(t)
    <3>1. PICK e : e = [heap[i] EXCEPT !.user = thread[t].user]
      OBVIOUS
    <3>2. heap' = [heap EXCEPT ![i] = e]
      BY <2>1, <2>3, <3>1 DEF respondWithSessionID
    <3> QED
      BY <1>0, <1>4, <3>1, <3>2 DEF SessionRecords
  <2> QED
    BY <1>5, <2>2, <2>3
<1>6. ASSUME NEW t \in Threads, validateSessionWithUserName(t) PROVE FALSE
  <2>1. PICK i : i = thread[t].i
    OBVIOUS
  <2>2. PICK heard : heard = IF heap[i].user = thread[t].user THEN thread[t].time ELSE heap[i].heard
    OBVIOUS
  <2>3. PICK e : e = [heap[i] EXCEPT !.time = thread[t].time, !.heard = heard]
    OBVIOUS
  <2>4. thread[t].step \in {"validate", "write", "remove"}
    BY <1>6 DEF validateSessionWithUserName, At
  <2>5. i \in 1..Len(heap) /\ heap[i] \in SessionRecords
    BY <2>1, <2>4, SettledOK DEF Sessions
  <2>6. heap' = [heap EXCEPT ![i] = e]
    BY <1>0, <1>6, <2>1, <2>2, <2>3, <2>5 DEF validateSessionWithUserName, Stamped, SessionRecords
  <2> QED
    BY <1>4, <2>3, <2>5, <2>6 DEF SessionRecords
<1>7. ASSUME NEW t \in Threads, cleanupSession(t) PROVE Mine(g[1], g[3])
  <2>1. thread[t].step \in {"validate", "write", "remove"} /\ thread[t].step \in {"write", "remove"}
    BY <1>7 DEF cleanupSession, At
  <2>2. heap[thread[t].id].id \in 1..Len(content) /\ Entry(heap[thread[t].id].id).value = thread[t].i
    BY <2>1, SettledOK
  <2>3. removeFromTable(heap[thread[t].id].id)
    BY <1>1, <1>7 DEF cleanupSession
  <2>4. thread[t].i = g[3]
    BY <2>2, <2>3, RemovedIs
  <2> QED
    BY <2>1, <2>4, ChunkIsMine
<1>8. ASSUME NEW t \in Threads, removeSessionTimeOuts(t) PROVE now - heap[g[3]].heard >= TIMEOUT_TIME
  BY <1>8, TimedOutIs
<1>9. ASSUME NEW t \in Threads, Assign(t) PROVE FALSE
  BY <1>1, <1>2, <1>3, <1>5, <1>9 DEF Assign, fileInfo, handleNewFileCase, createFails, checkForDuplicatesInTable
<1>10. ASSUME NEW t \in Threads, Chunk(t) PROVE Mine(g[1], g[3])
  BY <1>1, <1>6, <1>7, <1>10 DEF Chunk, getFileID, getSession, writeChunk, removeFromTableUInt
<1> QED
  BY <1>1, <1>8, <1>9, <1>10 DEF Next, vars, Tick, Begin, deleteUnixFile

\* The tables, the sessions and the files agree as long as requests come one
\* after the other (the two hash tables of c/unixFileService.c).
THEOREM UploadsConsistent == Spec => []UploadInv
<1>1. Init => UploadInv
  BY UploadInit
<1>2. UploadInv /\ [Next]_vars => UploadInv'
  BY UploadStep
<1> QED
  BY <1>1, <1>2, PTL DEF Spec

\* As long as requests come one after the other, the file of a session holds
\* the chunks of that session only, whatever was created, deleted, timed out
\* or failed before (writeChunk, checkIfFileIsBusy, removeSessionTimeOuts).
THEOREM UploadsIntact == Spec => []UploadIntact
<1>1. UploadInv => UploadIntact
  <2> SUFFICES ASSUME UploadInv, ~overlapped PROVE IntactOK
    BY Zenon DEF UploadIntact, IntactOK
  <2> QED
    BY DEF UploadInv, SeqInv
<1> QED
  BY <1>1, UploadsConsistent, PTL

\* As long as requests come one after the other, the file of an upload changes
\* (writeChunk, checkIfFileIsBusy) and its session goes (removeSessionTimeOuts,
\* cleanupSession) only through a request of the user that got the identifier,
\* unless that user was not heard of for TIMEOUT_TIME.
THEOREM UploadsLeftToOwners == Spec => UploadLeftToOwner
<1>1. Init => OwnerInv
  <2> SUFFICES ASSUME Init PROVE TimesOK /\ OwnersOK
    BY DEF OwnerInv
  <2>1. now = 0 /\ Len(heap) = 0 /\ given = {} /\ \A t \in Threads : thread[t].step = "idle"
    BY IdleIsThread DEF Init
  <2>2. TimesOK
    BY <2>1, UploadSessionAssumption DEF TimesOK, At, Sessions
  <2>3. OwnersOK
    BY <2>1 DEF OwnersOK, Making
  <2> QED
    BY <2>2, <2>3
<1>2. UploadInv /\ OwnerInv /\ [Next]_vars => OwnerInv'
  BY OwnerStep
<1>3. UploadInv /\ OwnerInv /\ [Next]_vars =>
        [~overlapped' => \A g \in given : Live(g[3]) =>
           LET i    == g[3]
               mine == \E t \in Threads : /\ thread[t].step \in {"write", "remove"}
                                          /\ thread[t].user = g[1] /\ thread[t].i = i
           IN  /\ content'[heap[i].file] # content[heap[i].file] => mine
               /\ heap'[i].freed => mine \/ now - heap[i].heard >= TIMEOUT_TIME]_vars
  <2> SUFFICES ASSUME UploadInv, OwnerInv, [Next]_vars, ~overlapped', NEW g \in given, Live(g[3])
               PROVE  /\ content'[heap[g[3]].file] # content[heap[g[3]].file] => Mine(g[1], g[3])
                      /\ heap'[g[3]].freed => Mine(g[1], g[3]) \/ now - heap[g[3]].heard >= TIMEOUT_TIME
    BY DEF Mine
  <2>1. SeqInv /\ TimesOK /\ OwnersOK
    BY OverlappedStays DEF UploadInv, OwnerInv
  <2> QED
    BY <2>1, ContentStep, FreedStep
<1> QED
  BY <1>1, <1>2, <1>3, UploadsConsistent, PTL DEF Spec, UploadLeftToOwner

\* As long as requests come one after the other, an open file handle is that
\* of a session in the table, or tagFileForUploading failed with it open.
THEOREM HandlesAlwaysAccounted == Spec => []HandlesAccounted
<1>1. UploadInv => HandlesAccounted
  <2> SUFFICES ASSUME UploadInv, ~overlapped, NEW i \in openFiles, i \notin leaked
               PROVE  \E id \in Inodes : Entry(id).value = i
    BY DEF HandlesAccounted
  <2>1. Inodes = 1..Len(content)
    BY DEF UploadInv, SeqInv, ShapeOK, Inodes
  <2> QED
    BY <2>1 DEF UploadInv, SeqInv, HandlesOK
<1> QED
  BY <1>1, UploadsConsistent, PTL
=============================================================================

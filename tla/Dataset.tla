------------------------------ MODULE Dataset ------------------------------
(***************************************************************************)
(* The dataset service (c/datasetjson.c): read, update, delete, create and *)
(* copy.  Requests run in subtasks (Tasks), possibly of several address    *)
(* spaces (other instances of the server).                                 *)
(*                                                                         *)
(* A path is <<dataset, member>>, the member NoMember for a whole dataset. *)
(* The contents of a path are abstract, and stand for their own ETag (the  *)
(* SHA1 of the records).  Dynamic allocation (external) holds the dataset  *)
(* name, shared or exclusively, for the address space: it turns other      *)
(* address spaces away, not other subtasks of the same one.  fopen         *)
(* allocates by name in the same way for as long as the file is open.      *)
(***************************************************************************)
EXTENDS Integers, FiniteSets

CONSTANTS
  Tasks,       \* subtasks that serve requests
  SpaceOf,     \* address space of each task
  Datasets,    \* dataset names
  Members,     \* member names
  Texts,       \* what clients write
  Kinds,       \* bound: initial organizations of each dataset
  Ops,         \* bound: requests that clients make
  MaxRequests  \* bound: number of requests

ASSUME DatasetAssumption ==
  /\ MaxRequests \in Nat /\ Kinds \in [Datasets -> SUBSET {"none", "PS", "PO", "VSAM"}]
  /\ Ops \subseteq {"read", "update", "delete", "create", "copy"}

NoMember == "noMember"
Absent   == "absent"   \* no such member, or no sequential data
Empty    == "empty"    \* no records
Part     == "part"     \* some of the records: a write that was cut short
NoText   == "noText"

Paths    == Datasets \X (Members \cup {NoMember})
Contents == Texts \cup {Empty, Part}

VARIABLES
  kind,       \* organization of each dataset, "none" if not catalogued
  content,    \* of each path
  allocated,  \* <<task, dataset, disposition>>
  leaked,     \* ghost: allocations that no task will free any more
  task,       \* what each subtask is doing
  requests,   \* requests made so far
  before,     \* ghost: the contents when the last request came
  overlapped  \* ghost: two requests have been in progress at the same time

data == <<kind, content>>
count == <<requests, before, overlapped>>
vars == <<data, allocated, leaked, task, count>>

NoPath == <<"noDataset", NoMember>>
Done(op, reply) ==
  [step |-> "idle", op |-> op, p |-> NoPath, q |-> NoPath, src |-> NoPath, dst |-> NoPath,
   text |-> NoText, etag |-> NoText, force |-> FALSE, read |-> TRUE, pds |-> FALSE, rest |-> {},
   reply |-> reply]
Idle == Done("none", "none")

Initial(d, m) ==
  CASE kind[d] = "PS" /\ m = NoMember -> Contents
    [] kind[d] = "PO" /\ m # NoMember -> {Absent} \cup Contents
    [] OTHER -> {Absent}

Init ==
  /\ kind \in [Datasets -> {"none", "PS", "PO", "VSAM"}] /\ \A d \in Datasets : kind[d] \in Kinds[d]
  /\ content \in [Paths -> {Absent, Empty} \cup Texts]
  /\ \A x \in Paths : content[x] \in Initial(x[1], x[2])
  /\ allocated = {} /\ leaked = {} /\ task = [t \in Tasks |-> Idle]
  /\ requests = 0 /\ before = content /\ overlapped = FALSE

-----------------------------------------------------------------------------
At(t, step)   == task[t].step = step
Goes(t, step) == task' = [task EXCEPT ![t].step = step]
\* The response is sent and the task goes on with a step.
Reply(t, r, step) == task' = [task EXCEPT ![t].step = step, ![t].reply = r]
Ends(t, r)    == task' = [task EXCEPT ![t] = Done(task[t].op, r)]

Grants(t, d, disp) ==
  \A a \in allocated : SpaceOf[a[1]] # SpaceOf[t] /\ a[2] = d => a[3] = "SHR" /\ disp = "SHR"

dynallocAllocDataset(t, d, disp) ==
  kind[d] # "none" /\ Grants(t, d, disp) /\ allocated' = allocated \cup {<<t, d, disp>>}

Without(t, d, disp) == allocated \ ({<<t, d, disp>>} \ leaked)

\* An unallocation that fails is only logged.
dynallocUnalloc(t, d, disp) ==
  \/ allocated' = Without(t, d, disp) /\ UNCHANGED leaked
  \/ leaked' = leaked \cup {<<t, d, disp>>} /\ UNCHANGED allocated

Readable(t, x) == Grants(t, x[1], "SHR") /\ content[x] # Absent
Writable(t, x) ==
  /\ Grants(t, x[1], "OLD")
  /\ kind[x[1]] = IF x[2] = NoMember THEN "PS" ELSE "PO"

MemberExists(t, x) == Readable(t, x)
InCatalog(x)       == kind[x[1]] # "none"

-----------------------------------------------------------------------------
\* A request with valid paths; the others are refused at once.
Begin(t) ==
  /\ At(t, "idle") /\ requests < MaxRequests /\ requests' = requests + 1 /\ before' = content
  /\ overlapped' = (overlapped \/ \E o \in Tasks : ~At(o, "idle"))
  /\ \E op \in Ops, p \in Paths, q \in Paths, text \in Texts, etag \in Contents, force \in BOOLEAN :
       /\ op # "copy" => q = p
       /\ op # "update" => text = CHOOSE x \in Texts : TRUE
       /\ (op = "update" /\ ~force) \/ etag = Empty
       /\ force => op \in {"update", "create", "copy"}
       /\ task' = [task EXCEPT ![t] =
            [step |-> op, op |-> op, p |-> p, q |-> q, src |-> p,
             dst |-> IF op = "copy" THEN q ELSE p, text |-> text, etag |-> etag, force |-> force,
             read |-> TRUE, pds |-> FALSE, rest |-> {}, reply |-> "none"]]
  /\ UNCHANGED <<data, allocated, leaked>>

-----------------------------------------------------------------------------
(* respondWithDataset *)

readAlloc(t) ==
  /\ At(t, "read")
  /\ \/ dynallocAllocDataset(t, task[t].p[1], "SHR") /\ Goes(t, "readStream")
     \/ Ends(t, "fail") /\ UNCHANGED allocated
  /\ UNCHANGED <<data, leaked, count>>

\* getLreclOrRespondError and streamDataset.  A record length of 0 ends the
\* request without a response.
respondWithDatasetInternal(t) ==
  /\ At(t, "readStream")
  /\ \/ content[task[t].p] # Absent /\ Reply(t, "ok", "free")
     \/ \E r \in {"fail", "none"} : Reply(t, r, "free")
  /\ UNCHANGED <<data, allocated, leaked, count>>

\* The dataset is unallocated at the end of a read or an update.
free(t) ==
  /\ At(t, "free") /\ Ends(t, task[t].reply) /\ dynallocUnalloc(t, task[t].p[1], IF task[t].op = "read" THEN "SHR" ELSE "OLD")
  /\ UNCHANGED <<data, count>>

-----------------------------------------------------------------------------
(* updateDatasetWithJSON *)

updateAlloc_Shared(t) ==
  /\ At(t, "update")
  /\ \/ /\ dynallocAllocDataset(t, task[t].p[1], "SHR")
        /\ Goes(t, IF task[t].force THEN "type" ELSE "etag")
     \/ Ends(t, "fail") /\ UNCHANGED allocated
  /\ UNCHANGED <<data, leaked, count>>
updateAlloc(t) ==
  /\ At(t, "update")
  /\ \/ /\ dynallocAllocDataset(t, task[t].p[1], "OLD")
        /\ Goes(t, IF task[t].force THEN "type" ELSE "etag")
     \/ Ends(t, "fail") /\ UNCHANGED allocated
  /\ UNCHANGED <<data, leaked, count>>

\* The ETag of what is there must be the one the client has.  If the file
\* cannot be opened for it the ETag is whatever lies on the stack.
getDatasetETag(t) ==
  /\ At(t, "etag")
  /\ \/ content[task[t].p] = task[t].etag /\ Goes(t, "type")
     \/ \E r \in {"bad", "fail", "none"} : Reply(t, r, "free")
     \/ task' = [task EXCEPT ![t].step = "type", ![t].read = FALSE]
  /\ UNCHANGED <<data, allocated, leaked, count>>

\* Organization, record format and record lengths.  Whether a member was
\* named is looked up behind the dataset name: a partitioned dataset may be
\* refused with a member, and may pass without one.
checkType(t) ==
  /\ At(t, "type")
  /\ \/ kind[task[t].p[1]] # "VSAM" /\ Goes(t, "open")
     \/ \E r \in {"bad", "fail"} : Reply(t, r, "free")
  /\ UNCHANGED <<data, allocated, leaked, count>>

openForUpdate(t) ==
  /\ At(t, "open")
  /\ \/ Writable(t, task[t].p) /\ content' = [content EXCEPT ![task[t].p] = Empty] /\ Goes(t, "write")
     \/ Reply(t, "fail", "free") /\ UNCHANGED content
  /\ UNCHANGED <<kind, allocated, leaked, count>>

\* fwrite does not return a negative number, so that a short write is not
\* noticed: the response is the same.
writeRecords(t) ==
  /\ At(t, "write") /\ Reply(t, "ok", "free")
  /\ \E c \in {task[t].text, Part} : content' = [content EXCEPT ![task[t].p] = c]
  /\ UNCHANGED <<kind, allocated, leaked, count>>

-----------------------------------------------------------------------------
(* deleteDatasetOrMember, for a request or for the target of a copy *)

\* For a copy the outcome does not matter.
Deleted(t, r) == IF task[t].op = "delete" THEN Ends(t, r) ELSE Goes(t, "copyFailed")

getCSIType(t) ==
  /\ At(t, "delete")
  /\ IF kind[task[t].dst[1]] \in {"PS", "PO"} THEN Goes(t, "deleteAlloc")
     ELSE \E r \in {"bad", "fail"} : Deleted(t, r)
  /\ UNCHANGED <<data, allocated, leaked, count>>

deleteAlloc(t) ==
  /\ At(t, "deleteAlloc")
  /\ \/ /\ dynallocAllocDataset(t, task[t].dst[1], "OLD")
        /\ Goes(t, IF task[t].dst[2] = NoMember THEN "deleteDataset" ELSE "deleteMember")
     \/ Deleted(t, "fail") /\ UNCHANGED allocated
  /\ UNCHANGED <<data, leaked, count>>

\* Unallocation with the disposition DELETE.  A failure leaves the dataset
\* allocated.
deleteDataset(t) ==
  LET d == task[t].dst[1] IN
  /\ At(t, "deleteDataset")
  /\ \/ /\ kind' = [kind EXCEPT ![d] = "none"]
        /\ content' = [x \in Paths |-> IF x[1] = d THEN Absent ELSE content[x]]
        /\ allocated' = Without(t, d, "OLD") /\ Deleted(t, "ok") /\ UNCHANGED leaked
     \/ leaked' = leaked \cup {<<t, d, "OLD">>} /\ Deleted(t, "fail") /\ UNCHANGED <<data, allocated>>
  /\ UNCHANGED count

\* Open, search and STOW.  If the open or the storage for the name fails,
\* the dataset stays allocated.
deleteMember(t) ==
  LET x == task[t].dst IN
  /\ At(t, "deleteMember")
  /\ \/ /\ content[x] # Absent /\ content' = [content EXCEPT ![x] = Absent]
        /\ Reply(t, "ok", "deleteFree") /\ UNCHANGED leaked
     \/ Reply(t, "fail", "deleteFree") /\ UNCHANGED <<content, leaked>>
     \/ /\ leaked' = leaked \cup {<<t, x[1], "OLD">>} /\ Deleted(t, "fail")
        /\ UNCHANGED content
  /\ UNCHANGED <<kind, allocated, count>>

\* After a deletion that worked, a failure to unallocate is reported.
deleteFree(t) ==
  /\ At(t, "deleteFree")
  /\ \/ allocated' = Without(t, task[t].dst[1], "OLD") /\ Deleted(t, task[t].reply) /\ UNCHANGED leaked
     \/ leaked' = leaked \cup {<<t, task[t].dst[1], "OLD">>} /\ Deleted(t, "fail") /\ UNCHANGED allocated
  /\ UNCHANGED <<data, count>>
-----------------------------------------------------------------------------
(* createDataset, for a request or for the target of a copy *)

\* After a creation that worked, a copy goes on.
Created(t) ==
  IF task[t].op = "create" THEN Ends(t, "ok")
  ELSE Goes(t, IF task[t].pds /\ task[t].dst = task[t].q THEN "members" ELSE "sourceAlloc")

createStep(t) == IF task[t].dst[2] = NoMember THEN "createDataset" ELSE "createMember"

create(t) ==
  /\ At(t, "create") /\ Goes(t, createStep(t))
  /\ UNCHANGED <<data, allocated, leaked, count>>

\* createDatasetMember: the dataset is partitioned, and the member is not
\* there or may be overwritten.
createMember(t) ==
  LET x == task[t].dst IN
  /\ At(t, "createMember")
  /\ \/ kind[x[1]] = "PO" /\ (MemberExists(t, x) => task[t].force) /\ Goes(t, "openNew")
     \/ \E r \in {"bad", "fail"} : Ends(t, r)
  /\ UNCHANGED <<data, allocated, leaked, count>>

\* fopen for writing, and fclose, which may fail after it.
openNew(t) ==
  LET x == task[t].dst IN
  /\ At(t, "openNew")
  /\ \/ Writable(t, x) /\ content' = [content EXCEPT ![x] = Empty] /\ (Created(t) \/ Ends(t, "fail"))
     \/ Ends(t, "bad") /\ UNCHANGED content
  /\ UNCHANGED <<kind, allocated, leaked, count>>

\* dynallocNewDataset, under the first DD name that is free.
createDataset(t) ==
  LET d == task[t].dst[1] IN
  /\ At(t, "createDataset")
  /\ \/ /\ kind[d] = "none" /\ Grants(t, d, "OLD") /\ allocated' = allocated \cup {<<t, d, "OLD">>}
        /\ \E k \in IF task[t].op = "create" THEN {"PS", "PO"} ELSE {IF task[t].pds THEN "PO" ELSE "PS"} :
             /\ kind' = [kind EXCEPT ![d] = k]
             /\ content' = [content EXCEPT ![<<d, NoMember>>] = IF k = "PS" THEN Empty ELSE Absent]
        /\ Goes(t, "createFree")
     \/ (\E r \in {"bad", "fail"} : Ends(t, r)) /\ UNCHANGED <<data, allocated>>
  /\ UNCHANGED <<leaked, count>>

createFree(t) ==
  LET d == task[t].dst[1] IN
  /\ At(t, "createFree")
  /\ \/ allocated' = Without(t, d, "OLD") /\ Created(t) /\ UNCHANGED leaked
     \/ leaked' = leaked \cup {<<t, d, "OLD">>} /\ Ends(t, "fail") /\ UNCHANGED allocated
  /\ UNCHANGED <<data, count>>

-----------------------------------------------------------------------------
(* copyDatasetAndRespond *)

Exists(t, x) == IF x[2] = NoMember THEN InCatalog(x) ELSE MemberExists(t, x)

checkSource(t) ==
  /\ At(t, "copy")
  /\ IF kind[task[t].p[1]] = "VSAM" \/ ~Exists(t, task[t].p) THEN Ends(t, "bad") ELSE Goes(t, "target")
  /\ UNCHANGED <<data, allocated, leaked, count>>

checkTarget_Skipped(t) ==
  /\ At(t, "target") /\ Goes(t, "attributes")
  /\ UNCHANGED <<data, allocated, leaked, count>>
checkTarget(t) ==
  /\ At(t, "target") /\ IF Exists(t, task[t].q) THEN Ends(t, "bad") ELSE Goes(t, "attributes")
  /\ UNCHANGED <<data, allocated, leaked, count>>

\* setAttrForDSCopyAndRespondIfError; the members are listed here.  A member
\* is pasted only into a dataset that is there.
setAttributes(t) ==
  LET p == task[t].p
      q == task[t].q
      isPDS == kind[p[1]] = "PO" /\ p[2] = NoMember
      member == q[2] # NoMember /\ ~isPDS IN
  /\ At(t, "attributes")
  /\ \/ /\ InCatalog(p) /\ (member => InCatalog(q))
        /\ task' = [task EXCEPT ![t].step = createStep(t), ![t].pds = isPDS,
                                ![t].rest = IF isPDS THEN {m \in Members : content[<<p[1], m>>] # Absent} ELSE {}]
     \/ Ends(t, "bad")
  /\ UNCHANGED <<data, allocated, leaked, count>>

\* pastePDSDirectory: a member is created, then copied.
nextMember(t) ==
  LET a == task[t] IN
  /\ At(t, "members")
  /\ CASE a.q[2] # NoMember -> Ends(t, "bad")
       [] a.q[2] = NoMember /\ a.rest = {} -> Ends(t, "ok")
       [] OTHER -> \E m \in a.rest :
            task' = [task EXCEPT ![t].step = "createMember", ![t].rest = @ \ {m},
                                 ![t].src = <<a.p[1], m>>, ![t].dst = <<a.q[1], m>>]
  /\ UNCHANGED <<data, allocated, leaked, count>>

\* readWriteToDatasetAndRespond.  Whatever goes wrong, the target is deleted.
sourceAlloc(t) ==
  /\ At(t, "sourceAlloc")
  /\ \/ dynallocAllocDataset(t, task[t].src[1], "SHR") /\ Goes(t, "sourceOpen")
     \/ Goes(t, "delete") /\ UNCHANGED allocated
  /\ UNCHANGED <<data, leaked, count>>

\* The record length, then both files are opened.
sourceOpen_NotFreed(t) ==
  /\ At(t, "sourceOpen")
  /\ \/ Readable(t, task[t].src) /\ task' = [task EXCEPT ![t].step = "paste", ![t].text = content[task[t].src]]
     \/ task' = [task EXCEPT ![t].step = "delete", ![t].src = NoPath]
  /\ UNCHANGED <<data, allocated, leaked, count>>
sourceOpen(t) ==
  /\ At(t, "sourceOpen")
  /\ \/ /\ Readable(t, task[t].src)
        /\ task' = [task EXCEPT ![t].step = "paste", ![t].text = content[task[t].src]]
        /\ UNCHANGED <<allocated, leaked>>
     \/ dynallocUnalloc(t, task[t].src[1], "SHR") /\ Goes(t, "delete")
     \/ Goes(t, "delete") /\ UNCHANGED <<allocated, leaked>>
  /\ UNCHANGED <<data, count>>

\* Short writes are noticed, except with records of variable length.
paste(t) ==
  LET x == task[t].dst IN
  /\ At(t, "paste")
  /\ \/ /\ Writable(t, x) /\ Goes(t, "sourceFree")
        /\ \E c \in {task[t].text, Part} : content' = [content EXCEPT ![x] = c]
     \/ Goes(t, "delete") /\ \E c \in {content[x], Part} : 
          content' = IF Writable(t, x) THEN [content EXCEPT ![x] = c] ELSE content
  /\ UNCHANGED <<kind, allocated, leaked, count>>

sourceFree(t) ==
  /\ At(t, "sourceFree") /\ dynallocUnalloc(t, task[t].src[1], "SHR")
  /\ IF task[t].pds THEN Goes(t, "members") ELSE Ends(t, "ok")
  /\ UNCHANGED <<data, count>>

copyFailed(t) ==
  LET a == <<t, task[t].src[1], "SHR">> IN
  /\ At(t, "copyFailed") /\ Ends(t, "fail")
  /\ IF a \in allocated \ leaked THEN dynallocUnalloc(t, a[2], "SHR") ELSE UNCHANGED <<allocated, leaked>>
  /\ UNCHANGED <<data, count>>

-----------------------------------------------------------------------------
Read(t)   == readAlloc(t) \/ respondWithDatasetInternal(t) \/ free(t)
Update(t) == updateAlloc(t) \/ getDatasetETag(t) \/ checkType(t) \/ openForUpdate(t) \/ writeRecords(t)
Delete(t) == getCSIType(t) \/ deleteAlloc(t) \/ deleteDataset(t) \/ deleteMember(t) \/ deleteFree(t)
Create(t) == create(t) \/ createMember(t) \/ openNew(t) \/ createDataset(t) \/ createFree(t)
Copy(t)   ==
  \/ checkSource(t) \/ checkTarget(t) \/ setAttributes(t) \/ nextMember(t) \/ sourceAlloc(t)
  \/ sourceOpen(t) \/ paste(t) \/ sourceFree(t) \/ copyFailed(t)

Next == \E t \in Tasks : Begin(t) \/ Read(t) \/ Update(t) \/ Delete(t) \/ Create(t) \/ Copy(t)

Spec == Init /\ [][Next]_vars

-----------------------------------------------------------------------------
\* An update without force replaces the very contents whose ETag the client
\* gave: nobody changes them between the comparison and the write.  (Unless
\* the comparison could not read the dataset.)  And what a copy is about to
\* write is what its source holds at that time.
NoStaleWrite ==
  \A t \in Tasks :
    /\ At(t, "open") /\ ~task[t].force /\ task[t].read => content[task[t].p] = task[t].etag
    /\ At(t, "paste") => content[task[t].src] = task[t].text

\* A copy never changes or deletes anything that was there before it, not
\* even when it fails half way and deletes its target, as long as requests
\* come one after the other.
CopyKeepsExisting ==
  ~overlapped => \A t \in Tasks : task[t].op = "copy" /\ ~At(t, "idle") =>
    \A x \in Paths : before[x] # Absent => content[x] = before[x]

\* A task that is done with a request holds no allocation, except those that
\* the system or an error path of the deletion left behind.
AllocationsReleased == \A a \in allocated \ leaked : ~At(a[1], "idle")
=============================================================================

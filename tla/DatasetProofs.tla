---------------------------- MODULE DatasetProofs ----------------------------
(***************************************************************************)
(* Safety of the dataset service for any number of subtasks, datasets,     *)
(* members and requests: allocations are released, nothing stale is        *)
(* written by servers that do not share an address space, and a copy keeps *)
(* what was there.                                                         *)
(***************************************************************************)
EXTENDS Dataset, TLAPS

-----------------------------------------------------------------------------
(***************************************************************************)
(* Types, and what a request holds at each of its steps.                   *)
(***************************************************************************)
Organizations == {"none", "PS", "PO", "VSAM"}
OpNames == {"read", "update", "delete", "create", "copy"}
UpdateSteps == {"etag", "type", "open", "write"}
DeleteSteps == {"delete", "deleteAlloc", "deleteDataset", "deleteMember", "deleteFree"}
CreateSteps == {"createDataset", "createMember", "openNew", "createFree"}
CopySteps   == {"copy", "target", "attributes", "members", "sourceAlloc", "sourceOpen", "paste",
                "sourceFree", "copyFailed"}
Steps == {"idle", "read", "readStream", "free", "update", "create"}
           \cup UpdateSteps \cup DeleteSteps \cup CreateSteps \cup CopySteps

Places == Paths \cup {NoPath}
Stored == Contents \cup {Absent}
Words  == Contents \cup {NoText}
TaskRecords ==
  [step : Steps, op : OpNames \cup {"none"}, p : Places, q : Places, src : Places, dst : Places,
   text : Words, etag : Words, force : BOOLEAN, read : BOOLEAN, pds : BOOLEAN,
   rest : SUBSET Members, reply : {"none", "ok", "bad", "fail"}]
Allocations == Tasks \X Datasets \X {"SHR", "OLD"}

TypeOK ==
  /\ kind \in [Datasets -> Organizations]
  /\ content \in [Paths -> Stored] /\ before \in [Paths -> Stored]
  /\ allocated \subseteq Allocations /\ leaked \subseteq Allocations
  /\ task \in [Tasks -> TaskRecords]
  /\ requests \in Nat /\ overlapped \in BOOLEAN

\* The step of a request tells what was asked for.
RequestOK(tk) ==
  /\ tk.step # "idle" => /\ tk.p \in Paths /\ tk.q \in Paths /\ tk.src \in Paths /\ tk.dst \in Paths
                         /\ tk.text \in Contents
  /\ tk.step \in {"read", "readStream"} => tk.op = "read"
  /\ tk.step \in {"update"} \cup UpdateSteps => tk.op = "update"
  /\ tk.step = "free" => tk.op \in {"read", "update"}
  /\ tk.step \in DeleteSteps => tk.op \in {"delete", "copy"}
  /\ tk.step = "create" => tk.op = "create"
  /\ tk.step \in CreateSteps => tk.op \in {"create", "copy"}
  /\ tk.step \in CopySteps => tk.op = "copy"

\* The allocation that a request needs at its step, and the one that a failed
\* copy may still have while it deletes its target.
Holds(tk, d, disp) ==
  \/ /\ disp = "SHR" /\ d = tk.p[1]
     /\ tk.step = "readStream" \/ (tk.step = "free" /\ tk.op = "read")
  \/ /\ disp = "OLD" /\ d = tk.p[1]
     /\ tk.step \in UpdateSteps \/ (tk.step = "free" /\ tk.op # "read")
  \/ /\ disp = "OLD" /\ d = tk.dst[1]
     /\ tk.step \in {"deleteDataset", "deleteMember", "deleteFree", "createFree"}
  \/ disp = "SHR" /\ d = tk.src[1] /\ tk.step \in {"sourceOpen", "paste", "sourceFree"}
MayHold(tk, d, disp) ==
  /\ disp = "SHR" /\ d = tk.src[1] /\ tk.op = "copy"
  /\ tk.step \in DeleteSteps \cup {"copyFailed"}

HeldOK(t) ==
  \A d \in Datasets, disp \in {"SHR", "OLD"} :
    /\ Holds(task[t], d, disp) => <<t, d, disp>> \in allocated
    /\ <<t, d, disp>> \in allocated \ leaked => Holds(task[t], d, disp) \/ MayHold(task[t], d, disp)

ServiceInv == TypeOK /\ \A t \in Tasks : RequestOK(task[t]) /\ HeldOK(t)

\* Steps of one task.  Its request goes on with a step,
SameRequest(t, step) ==
  /\ task'[t].step = step /\ task'[t] \in TaskRecords
  /\ task'[t].op = task[t].op /\ task'[t].p = task[t].p /\ task'[t].q = task[t].q
  /\ task'[t].src = task[t].src /\ task'[t].dst = task[t].dst /\ task'[t].text = task[t].text
  /\ task'[t].etag = task[t].etag /\ task'[t].force = task[t].force /\ task'[t].read = task[t].read
  /\ task'[t].pds = task[t].pds /\ task'[t].rest = task[t].rest
OnlyTask(t) == task' \in [Tasks -> TaskRecords] /\ \A u \in Tasks \ {t} : task'[u] = task[u]

\* or it ends;
IsDone(t) == task'[t].step = "idle" /\ task'[t] \in TaskRecords

\* and it changes one allocation of its own, or none.
Allocates(t, d, disp) == allocated' = allocated \cup {<<t, d, disp>>} /\ leaked' = leaked
Releases(t, d, disp) ==
  \/ allocated' = Without(t, d, disp) /\ leaked' = leaked
  \/ leaked' = leaked \cup {<<t, d, disp>>} /\ allocated' = allocated

\* Going to another step changes the step of one task only;
LEMMA GoesOn ==
  ASSUME TypeOK, NEW t \in Tasks, NEW step \in Steps, Goes(t, step)
  PROVE  SameRequest(t, step) /\ OnlyTask(t)
BY DEF TypeOK, Goes, SameRequest, OnlyTask, TaskRecords

\* so does replying on the way;
LEMMA RepliesAndGoesOn ==
  ASSUME TypeOK, NEW t \in Tasks, NEW step \in Steps, NEW r \in {"none", "ok", "bad", "fail"},
         Reply(t, r, step)
  PROVE  SameRequest(t, step) /\ OnlyTask(t)
<1>1. task[t] \in TaskRecords
  BY DEF TypeOK
<1>2. PICK tk \in TaskRecords : tk = [task[t] EXCEPT !.step = step]
  BY <1>1 DEF TaskRecords
<1>3. task' = [task EXCEPT ![t] = [tk EXCEPT !.reply = r]]
  BY <1>2 DEF Reply, TypeOK
<1>4. task'[t] = [tk EXCEPT !.reply = r] /\ task' \in [Tasks -> TaskRecords]
  BY <1>3 DEF TypeOK, TaskRecords
<1> QED
  BY <1>1, <1>2, <1>3, <1>4 DEF SameRequest, OnlyTask, TaskRecords, TypeOK

\* a request that ends leaves its task idle.
LEMMA EndsIt ==
  ASSUME TypeOK, NEW t \in Tasks, NEW r \in {"none", "ok", "bad", "fail"}, Ends(t, r)
  PROVE  IsDone(t) /\ OnlyTask(t)
<1>1. task[t].op \in OpNames \cup {"none"}
  BY DEF TypeOK, TaskRecords
<1>2. Done(task[t].op, r) \in TaskRecords /\ Done(task[t].op, r).step = "idle"
  BY <1>1 DEF Done, TaskRecords, Steps, Places, Words
<1> QED
  BY <1>2 DEF TypeOK, Ends, IsDone, OnlyTask

OwnAllocations(t) ==
  \/ UNCHANGED <<allocated, leaked>>
  \/ \E d \in Datasets, disp \in {"SHR", "OLD"} : Allocates(t, d, disp) \/ Releases(t, d, disp)

\* What each step of a task keeps.
StepOK(t) == OnlyTask(t) /\ OwnAllocations(t) /\ RequestOK(task'[t]) /\ HeldOK(t)'

\* A task does not touch the allocations of the others.
LEMMA OthersKeep ==
  ASSUME ServiceInv, NEW t \in Tasks, StepOK(t)
  PROVE  /\ \A u \in Tasks : RequestOK(task[u])' /\ HeldOK(u)'
         /\ allocated' \subseteq Allocations /\ leaked' \subseteq Allocations
         /\ \A u \in Tasks \ {t}, d \in Datasets, disp \in {"SHR", "OLD"} :
              <<u, d, disp>> \in allocated' <=> <<u, d, disp>> \in allocated
<1>1. /\ allocated' \subseteq Allocations /\ leaked' \subseteq Allocations
      /\ \A u \in Tasks \ {t}, d \in Datasets, disp \in {"SHR", "OLD"} :
           /\ <<u, d, disp>> \in allocated' <=> <<u, d, disp>> \in allocated
           /\ <<u, d, disp>> \in leaked' <=> <<u, d, disp>> \in leaked
  <2>1. CASE UNCHANGED <<allocated, leaked>>
    BY <2>1 DEF ServiceInv, TypeOK
  <2>2. ASSUME NEW d \in Datasets, NEW disp \in {"SHR", "OLD"}, Allocates(t, d, disp) \/ Releases(t, d, disp)
        PROVE  /\ allocated' \subseteq Allocations /\ leaked' \subseteq Allocations
               /\ \A u \in Tasks \ {t}, e \in Datasets, f \in {"SHR", "OLD"} :
                    /\ <<u, e, f>> \in allocated' <=> <<u, e, f>> \in allocated
                    /\ <<u, e, f>> \in leaked' <=> <<u, e, f>> \in leaked
    BY <2>2 DEF Allocates, Releases, Without, ServiceInv, TypeOK, Allocations
  <2> QED
    BY <2>1, <2>2 DEF StepOK, OwnAllocations
<1>2. ASSUME NEW u \in Tasks \ {t} PROVE RequestOK(task[u])' /\ HeldOK(u)'
  BY <1>1, <1>2 DEF StepOK, OnlyTask, ServiceInv, RequestOK, HeldOK, Holds, MayHold
<1> QED
  BY <1>1, <1>2 DEF StepOK, RequestOK

\* The step of a request that ends holds nothing.
LEMMA DoneOK ==
  ASSUME NEW t \in Tasks, IsDone(t), OnlyTask(t), OwnAllocations(t),
         \A d \in Datasets, disp \in {"SHR", "OLD"} : <<t, d, disp>> \notin allocated' \ leaked'
  PROVE  StepOK(t)
BY DEF StepOK, IsDone, RequestOK, HeldOK, Holds, MayHold, UpdateSteps, DeleteSteps, CreateSteps, CopySteps

\* A request that holds nothing may end, may go on with a step that needs
\* nothing, and may allocate a dataset for a step that needs it.
FreeSteps == {"read", "update", "create", "createDataset", "createMember", "openNew", "copy", "target",
              "attributes", "members", "sourceAlloc"}

\* A request that has released everything holds nothing.
LEMMA FreeHolds ==
  ASSUME ServiceInv, NEW t \in Tasks,
         task[t].step \in FreeSteps \cup {"idle"} \/ (task[t].step \in {"delete", "deleteAlloc"} /\ task[t].op # "copy")
  PROVE  \A d \in Datasets, disp \in {"SHR", "OLD"} : <<t, d, disp>> \notin allocated \ leaked
BY DEF ServiceInv, HeldOK, Holds, MayHold, FreeSteps, UpdateSteps, DeleteSteps

\* It may end there;
LEMMA FreeEnds ==
  ASSUME ServiceInv, NEW t \in Tasks, UNCHANGED <<allocated, leaked>>,
         NEW r \in {"none", "ok", "bad", "fail"}, Ends(t, r),
         task[t].step \in FreeSteps \/ (task[t].step \in {"delete", "deleteAlloc"} /\ task[t].op # "copy")
  PROVE  StepOK(t)
BY FreeHolds, EndsIt, DoneOK DEF ServiceInv, OwnAllocations

\* or go on to a step that needs no allocation.
LEMMA FreeGoes ==
  ASSUME ServiceInv, NEW t \in Tasks, UNCHANGED <<allocated, leaked>>, OnlyTask(t),
         task[t].step \in FreeSteps \cup {"idle"}, RequestOK(task'[t]),
         task'[t].step \in FreeSteps \cup {"delete"}
  PROVE  StepOK(t)
<1>1. \A d \in Datasets, disp \in {"SHR", "OLD"} : ~Holds(task'[t], d, disp)
  BY DEF Holds, FreeSteps, UpdateSteps
<1>2. \A d \in Datasets, disp \in {"SHR", "OLD"} : <<t, d, disp>> \notin allocated' \ leaked'
  BY FreeHolds
<1> QED
  BY <1>1, <1>2 DEF StepOK, HeldOK, OwnAllocations

\* A request goes on with the same allocations,
LEMMA KeepGoes ==
  ASSUME ServiceInv, NEW t \in Tasks, UNCHANGED <<allocated, leaked>>, OnlyTask(t), RequestOK(task'[t]),
         \A d \in Datasets, disp \in {"SHR", "OLD"} :
           /\ Holds(task'[t], d, disp) => Holds(task[t], d, disp)
           /\ Holds(task[t], d, disp) => Holds(task'[t], d, disp) \/ MayHold(task'[t], d, disp)
           /\ MayHold(task[t], d, disp) => MayHold(task'[t], d, disp)
  PROVE  StepOK(t)
BY DEF ServiceInv, StepOK, HeldOK, OwnAllocations

\* with one more,
LEMMA AllocGoes ==
  ASSUME ServiceInv, NEW t \in Tasks, NEW d \in Datasets, NEW disp \in {"SHR", "OLD"},
         Allocates(t, d, disp), OnlyTask(t), RequestOK(task'[t]),
         \A e \in Datasets, f \in {"SHR", "OLD"} :
           /\ Holds(task'[t], e, f) <=> e = d /\ f = disp
           /\ ~Holds(task[t], e, f) /\ (MayHold(task[t], e, f) => MayHold(task'[t], e, f))
  PROVE  StepOK(t)
<1>1. HeldOK(t)'
  BY DEF ServiceInv, HeldOK, Allocates
<1> QED
  BY <1>1 DEF StepOK, OwnAllocations

\* or after it has released, or left behind, the one that it needed.
LEMMA ReleaseGoes ==
  ASSUME ServiceInv, NEW t \in Tasks, NEW d \in Datasets, NEW disp \in {"SHR", "OLD"},
         Releases(t, d, disp), OnlyTask(t), RequestOK(task'[t]),
         \A e \in Datasets, f \in {"SHR", "OLD"} :
           /\ ~Holds(task'[t], e, f)
           /\ Holds(task[t], e, f) => e = d /\ f = disp
           /\ MayHold(task[t], e, f) => MayHold(task'[t], e, f) \/ (e = d /\ f = disp)
  PROVE  StepOK(t)
<1>1. \A e \in Datasets, f \in {"SHR", "OLD"} :
        <<t, e, f>> \in allocated' \ leaked' => <<t, e, f>> \in allocated \ leaked /\ ~(e = d /\ f = disp)
  BY DEF Releases, Without
<1>2. HeldOK(t)'
  BY <1>1 DEF ServiceInv, HeldOK
<1> QED
  BY <1>2 DEF StepOK, OwnAllocations

\* Requests begin,
LEMMA BeginOK ==
  ASSUME ServiceInv, NEW t \in Tasks, Begin(t)
  PROVE  StepOK(t) /\ task'[t].step = task'[t].op /\ task'[t].step \in OpNames
         /\ task'[t].dst = task'[t].q
<1>1. PICK op \in Ops, p \in Paths, q \in Paths, text \in Texts, etag \in Contents, force \in BOOLEAN :
        /\ op # "copy" => q = p
        /\ op # "update" => text = CHOOSE x \in Texts : TRUE
        /\ (op = "update" /\ ~force) \/ etag = Empty
        /\ force => op \in {"update", "create", "copy"}
        /\ task' = [task EXCEPT ![t] =
            [step |-> op, op |-> op, p |-> p, q |-> q, src |-> p,
             dst |-> IF op = "copy" THEN q ELSE p, text |-> text, etag |-> etag, force |-> force,
             read |-> TRUE, pds |-> FALSE, rest |-> {}, reply |-> "none"]]
  BY Zenon DEF Begin
<1>2. op \in OpNames /\ op \in Steps /\ op \in FreeSteps \cup {"delete"}
  BY DatasetAssumption DEF OpNames, Steps, FreeSteps, DeleteSteps, CopySteps
<1>3. (IF op = "copy" THEN q ELSE p) = q
  BY <1>1
<1>4. task'[t] = [step |-> op, op |-> op, p |-> p, q |-> q, src |-> p, dst |-> q, text |-> text,
                  etag |-> etag, force |-> force, read |-> TRUE, pds |-> FALSE, rest |-> {},
                  reply |-> "none"]
  BY <1>1, <1>3 DEF ServiceInv, TypeOK
<1>5. task'[t] \in TaskRecords
  BY <1>2, <1>4 DEF TaskRecords, Places, Words, Contents
<1>6. OnlyTask(t)
  BY <1>1, <1>5 DEF OnlyTask, ServiceInv, TypeOK
<1>7. task'[t].step = op /\ task'[t].op = op /\ task'[t].p = p /\ task'[t].q = q
      /\ task'[t].src = p /\ task'[t].dst = q /\ task'[t].text \in Contents
  BY <1>4 DEF Contents
<1>8. RequestOK(task'[t])
  BY <1>2, <1>7 DEF RequestOK, OpNames, UpdateSteps, DeleteSteps, CreateSteps, CopySteps
<1>9. UNCHANGED <<allocated, leaked>> /\ task[t].step = "idle"
  BY DEF Begin, At
<1> QED
  BY <1>2, <1>6, <1>7, <1>8, <1>9, FreeGoes

\* read,
LEMMA ReadOK ==
  ASSUME ServiceInv, NEW t \in Tasks, Read(t)
  PROVE  StepOK(t)
<1> USE DEF ServiceInv
<1>1. CASE readAlloc(t) /\ Ends(t, "fail") /\ UNCHANGED allocated
  BY <1>1, FreeEnds DEF readAlloc, At, FreeSteps
<1>2. CASE readAlloc(t) /\ dynallocAllocDataset(t, task[t].p[1], "SHR") /\ Goes(t, "readStream")
  <2>1. SameRequest(t, "readStream") /\ OnlyTask(t)
    BY <1>2, GoesOn DEF Steps
  <2>2. task[t].step = "read" /\ task[t].p \in Paths /\ task[t].p[1] \in Datasets
    BY <1>2 DEF readAlloc, At, RequestOK, Paths
  <2>3. Allocates(t, task[t].p[1], "SHR")
    BY <1>2 DEF readAlloc, dynallocAllocDataset, Allocates
  <2>4. RequestOK(task'[t])
    BY <2>1, <2>2 DEF SameRequest, RequestOK, UpdateSteps, DeleteSteps, CreateSteps, CopySteps
  <2> QED
    BY <2>1, <2>2, <2>3, <2>4, AllocGoes DEF SameRequest, Holds, MayHold, UpdateSteps, DeleteSteps
<1>3. CASE respondWithDatasetInternal(t)
  <2>1. SameRequest(t, "free") /\ OnlyTask(t)
    BY <1>3, RepliesAndGoesOn DEF respondWithDatasetInternal, Steps
  <2>2. task[t].step = "readStream" /\ UNCHANGED <<allocated, leaked>>
    BY <1>3 DEF respondWithDatasetInternal, At
  <2>3. RequestOK(task'[t])
    BY <2>1, <2>2 DEF SameRequest, RequestOK, UpdateSteps, DeleteSteps, CreateSteps, CopySteps
  <2> QED
    BY <2>1, <2>2, <2>3, KeepGoes DEF SameRequest, Holds, MayHold, RequestOK, UpdateSteps, DeleteSteps
<1>4. CASE free(t)
  <2> DEFINE disp == IF task[t].op = "read" THEN "SHR" ELSE "OLD"
  <2>1. IsDone(t) /\ OnlyTask(t)
    <3>1. task[t].reply \in {"none", "ok", "bad", "fail"}
      BY DEF TypeOK, TaskRecords
    <3> QED
      BY <1>4, <3>1, EndsIt DEF free
  <2>2. task[t].step = "free" /\ task[t].p[1] \in Datasets
    BY <1>4 DEF free, At, RequestOK, Paths
  <2>3. Releases(t, task[t].p[1], disp)
    BY <1>4 DEF free, dynallocUnalloc, Releases
  <2>4. RequestOK(task'[t])
    BY <2>1 DEF IsDone, RequestOK, UpdateSteps, DeleteSteps, CreateSteps, CopySteps
  <2> QED
    BY <2>1, <2>2, <2>3, <2>4, ReleaseGoes DEF IsDone, Holds, MayHold, UpdateSteps, DeleteSteps
<1> QED
  BY <1>1, <1>2, <1>3, <1>4 DEF Read, readAlloc

\* update,
LEMMA UpdateOK ==
  ASSUME ServiceInv, NEW t \in Tasks, Update(t)
  PROVE  StepOK(t)
<1> USE DEF ServiceInv
<1>1. CASE updateAlloc(t) /\ Ends(t, "fail") /\ UNCHANGED allocated
  BY <1>1, FreeEnds DEF updateAlloc, At, FreeSteps
<1>2. ASSUME updateAlloc(t), dynallocAllocDataset(t, task[t].p[1], "OLD"),
             NEW step \in {"type", "etag"}, Goes(t, step)
      PROVE  StepOK(t)
  <2>1. SameRequest(t, step) /\ OnlyTask(t)
    BY <1>2, GoesOn DEF Steps, UpdateSteps
  <2>2. task[t].step = "update" /\ task[t].p[1] \in Datasets
    BY <1>2 DEF updateAlloc, At, RequestOK, Paths
  <2>3. Allocates(t, task[t].p[1], "OLD")
    BY <1>2 DEF updateAlloc, dynallocAllocDataset, Allocates
  <2>4. RequestOK(task'[t])
    BY <2>1, <2>2 DEF SameRequest, RequestOK, UpdateSteps, DeleteSteps, CreateSteps, CopySteps
  <2> QED
    BY <2>1, <2>2, <2>3, <2>4, AllocGoes DEF SameRequest, Holds, MayHold, UpdateSteps, DeleteSteps
<1>3. ASSUME UNCHANGED <<allocated, leaked>>, task[t].step \in UpdateSteps,
             NEW step \in UpdateSteps \cup {"free"}, task'[t].step = step, OnlyTask(t),
             task'[t].op = task[t].op, task'[t].p = task[t].p, task'[t].q = task[t].q,
             task'[t].src = task[t].src, task'[t].dst = task[t].dst, task'[t].text \in Contents
      PROVE  StepOK(t)
  <2>1. RequestOK(task'[t])
    BY <1>3 DEF RequestOK, UpdateSteps, DeleteSteps, CreateSteps, CopySteps
  <2>2. task[t].op = "update"
    BY <1>3 DEF RequestOK
  <2> QED
    BY <1>3, <2>1, <2>2, KeepGoes DEF Holds, MayHold, UpdateSteps, DeleteSteps
<1>4. ASSUME UNCHANGED <<allocated, leaked>>, task[t].step \in UpdateSteps,
             NEW step \in UpdateSteps \cup {"free"}, SameRequest(t, step), OnlyTask(t)
      PROVE  StepOK(t)
  BY <1>3, <1>4 DEF SameRequest, RequestOK, UpdateSteps
<1>5. CASE getDatasetETag(t) /\ task' = [task EXCEPT ![t].step = "type", ![t].read = FALSE]
  <2>1. /\ OnlyTask(t) /\ task'[t].step = "type" /\ task'[t].op = task[t].op /\ task'[t].p = task[t].p
        /\ task'[t].q = task[t].q /\ task'[t].src = task[t].src /\ task'[t].dst = task[t].dst
        /\ task'[t].text = task[t].text
    <3>0. task[t] \in TaskRecords
      BY DEF TypeOK
    <3>1. PICK tk \in TaskRecords : tk = [task[t] EXCEPT !.step = "type"]
      BY <3>0 DEF TaskRecords, Steps, UpdateSteps
    <3>2. task' = [task EXCEPT ![t] = [tk EXCEPT !.read = FALSE]]
      BY <1>5, <3>1 DEF TypeOK
    <3>3. task'[t] = [tk EXCEPT !.read = FALSE] /\ task' \in [Tasks -> TaskRecords]
      BY <3>2 DEF TypeOK, TaskRecords
    <3> QED
      BY <3>1, <3>2, <3>3 DEF OnlyTask, TypeOK, TaskRecords
  <2> QED
    BY <1>3, <1>5, <2>1 DEF getDatasetETag, At, RequestOK, UpdateSteps
<1>6. CASE getDatasetETag(t) /\ ~(task' = [task EXCEPT ![t].step = "type", ![t].read = FALSE])
  <2>1. SameRequest(t, "type") \/ SameRequest(t, "free")
    BY <1>6, GoesOn, RepliesAndGoesOn DEF getDatasetETag, Steps, UpdateSteps
  <2>2. OnlyTask(t)
    BY <1>6, GoesOn, RepliesAndGoesOn DEF getDatasetETag, Steps, UpdateSteps
  <2> QED
    BY <1>4, <1>6, <2>1, <2>2 DEF getDatasetETag, At, UpdateSteps
<1>7. CASE checkType(t)
  <2>1. SameRequest(t, "open") \/ SameRequest(t, "free")
    BY <1>7, GoesOn, RepliesAndGoesOn DEF checkType, Steps, UpdateSteps
  <2>2. OnlyTask(t)
    BY <1>7, GoesOn, RepliesAndGoesOn DEF checkType, Steps, UpdateSteps
  <2> QED
    BY <1>4, <1>7, <2>1, <2>2 DEF checkType, At, UpdateSteps
<1>8. CASE openForUpdate(t)
  <2>1. SameRequest(t, "write") \/ SameRequest(t, "free")
    BY <1>8, GoesOn, RepliesAndGoesOn DEF openForUpdate, Steps, UpdateSteps
  <2>2. OnlyTask(t)
    BY <1>8, GoesOn, RepliesAndGoesOn DEF openForUpdate, Steps, UpdateSteps
  <2> QED
    BY <1>4, <1>8, <2>1, <2>2 DEF openForUpdate, At, UpdateSteps
<1>9. CASE writeRecords(t)
  <2>1. SameRequest(t, "free") /\ OnlyTask(t)
    BY <1>9, RepliesAndGoesOn DEF writeRecords, Steps
  <2> QED
    BY <1>4, <1>9, <2>1 DEF writeRecords, At, UpdateSteps
<1> QED
  BY <1>1, <1>2, <1>5, <1>6, <1>7, <1>8, <1>9 DEF Update, updateAlloc

\* delete,
LEMMA DeletedGoes ==
  ASSUME ServiceInv, NEW t \in Tasks, task[t].step \in DeleteSteps,
         NEW r \in {"none", "ok", "bad", "fail"}, Deleted(t, r)
  PROVE  /\ OnlyTask(t) /\ RequestOK(task'[t])
         /\ \A e \in Datasets, f \in {"SHR", "OLD"} :
              ~Holds(task'[t], e, f) /\ (MayHold(task[t], e, f) => MayHold(task'[t], e, f))
<1> USE DEF ServiceInv
<1>1. CASE task[t].op = "delete"
  <2>1. IsDone(t) /\ OnlyTask(t)
    BY <1>1, EndsIt DEF Deleted
  <2> QED
    BY <1>1, <2>1 DEF IsDone, RequestOK, Holds, MayHold, UpdateSteps, DeleteSteps, CreateSteps, CopySteps
<1>2. CASE task[t].op # "delete"
  <2>1. SameRequest(t, "copyFailed") /\ OnlyTask(t)
    BY <1>2, GoesOn DEF Deleted, Steps, CopySteps
  <2>2. task[t].op = "copy"
    BY <1>2 DEF RequestOK
  <2> QED
    BY <2>1, <2>2 DEF SameRequest, RequestOK, Holds, MayHold, UpdateSteps, DeleteSteps, CreateSteps, CopySteps
<1> QED
  BY <1>1, <1>2

\* The steps of a deletion keep the account of the allocations;
LEMMA DeleteOK ==
  ASSUME ServiceInv, NEW t \in Tasks, Delete(t)
  PROVE  StepOK(t)
<1> USE DEF ServiceInv
<1>0. task[t].step \in DeleteSteps /\ task[t].dst[1] \in Datasets
  BY DEF Delete, getCSIType, deleteAlloc, deleteDataset, deleteMember, deleteFree, At, DeleteSteps,
         RequestOK, Paths
<1>1. ASSUME UNCHANGED <<allocated, leaked>>, task[t].step \in {"delete", "deleteAlloc"},
             NEW r \in {"bad", "fail"}, Deleted(t, r)
      PROVE  StepOK(t)
  <2>1. \A e \in Datasets, f \in {"SHR", "OLD"} : ~Holds(task[t], e, f)
    BY <1>1 DEF Holds, UpdateSteps
  <2> QED
    BY <1>0, <1>1, <2>1, DeletedGoes, KeepGoes
<1>2. CASE getCSIType(t) /\ Goes(t, "deleteAlloc")
  <2>1. SameRequest(t, "deleteAlloc") /\ OnlyTask(t) /\ task[t].step = "delete"
    BY <1>2, GoesOn DEF getCSIType, At, Steps, DeleteSteps
  <2>2. RequestOK(task'[t])
    BY <1>0, <2>1 DEF SameRequest, RequestOK, UpdateSteps, DeleteSteps, CreateSteps, CopySteps
  <2> QED
    BY <1>2, <2>1, <2>2, KeepGoes DEF getCSIType, SameRequest, Holds, MayHold, UpdateSteps, DeleteSteps
<1>3. ASSUME deleteAlloc(t), NEW step \in {"deleteDataset", "deleteMember"}, Goes(t, step),
             dynallocAllocDataset(t, task[t].dst[1], "OLD")
      PROVE  StepOK(t)
  <2>1. SameRequest(t, step) /\ OnlyTask(t) /\ task[t].step = "deleteAlloc"
    BY <1>3, GoesOn DEF deleteAlloc, At, Steps, DeleteSteps
  <2>2. RequestOK(task'[t])
    BY <1>0, <2>1 DEF SameRequest, RequestOK, UpdateSteps, DeleteSteps, CreateSteps, CopySteps
  <2>3. Allocates(t, task[t].dst[1], "OLD")
    BY <1>3 DEF deleteAlloc, dynallocAllocDataset, Allocates
  <2> QED
    BY <1>0, <2>1, <2>2, <2>3, AllocGoes DEF SameRequest, Holds, MayHold, UpdateSteps, DeleteSteps
<1>4. ASSUME task[t].step \in {"deleteDataset", "deleteMember", "deleteFree"},
             NEW r \in {"none", "ok", "bad", "fail"}, Deleted(t, r), Releases(t, task[t].dst[1], "OLD")
      PROVE  StepOK(t)
  <2>1. \A e \in Datasets, f \in {"SHR", "OLD"} : Holds(task[t], e, f) => e = task[t].dst[1] /\ f = "OLD"
    BY <1>4 DEF Holds, UpdateSteps
  <2> QED
    BY <1>0, <1>4, <2>1, DeletedGoes, ReleaseGoes
<1>5. CASE deleteDataset(t)
  BY <1>4, <1>5 DEF deleteDataset, At, Releases
<1>6. ASSUME deleteMember(t), NEW r \in {"ok", "fail"}, Reply(t, r, "deleteFree"), UNCHANGED <<allocated, leaked>>
      PROVE  StepOK(t)
  <2>1. SameRequest(t, "deleteFree") /\ OnlyTask(t) /\ task[t].step = "deleteMember"
    BY <1>6, RepliesAndGoesOn DEF deleteMember, At, Steps, DeleteSteps
  <2>2. RequestOK(task'[t])
    BY <1>0, <2>1 DEF SameRequest, RequestOK, UpdateSteps, DeleteSteps, CreateSteps, CopySteps
  <2> QED
    BY <1>6, <2>1, <2>2, KeepGoes DEF SameRequest, Holds, MayHold, UpdateSteps, DeleteSteps
<1>7. CASE deleteMember(t)
  BY <1>4, <1>6, <1>7 DEF deleteMember, At, Releases
<1>8. CASE deleteFree(t)
  <2>1. task[t].reply \in {"none", "ok", "bad", "fail"}
    BY DEF TypeOK, TaskRecords
  <2> QED
    BY <1>4, <1>8, <2>1 DEF deleteFree, At, Releases
<1>9. CASE getCSIType(t)
  BY <1>1, <1>2, <1>9 DEF getCSIType, At
<1>10. CASE deleteAlloc(t)
  BY <1>1, <1>3, <1>10 DEF deleteAlloc, At
<1> QED
  BY <1>5, <1>7, <1>8, <1>9, <1>10 DEF Delete

\* create,
LEMMA FreeStepHolds ==
  ASSUME NEW tk, tk.step \in FreeSteps \cup {"idle"}
  PROVE  \A e \in Datasets, f \in {"SHR", "OLD"} : ~Holds(tk, e, f) /\ ~MayHold(tk, e, f)
BY DEF FreeSteps, Holds, MayHold, UpdateSteps, DeleteSteps

\* Where a request goes after creating its target.
LEMMA CreatedGoes ==
  ASSUME ServiceInv, NEW t \in Tasks, task[t].step \in CreateSteps,
         Created(t) \/ (\E r \in {"ok", "bad", "fail"} : Ends(t, r))
  PROVE  /\ OnlyTask(t) /\ RequestOK(task'[t])
         /\ task'[t].step \in {"members", "sourceAlloc", "idle"}
         /\ task'[t].step # "idle" => task[t].op = "copy" /\ SameRequest(t, task'[t].step)
<1> USE DEF ServiceInv
<1>1. CASE \E r \in {"ok", "bad", "fail"} : Ends(t, r)
  <2>1. IsDone(t) /\ OnlyTask(t)
    BY <1>1, EndsIt
  <2> QED
    BY <2>1 DEF IsDone, RequestOK, UpdateSteps, DeleteSteps, CreateSteps, CopySteps
<1>2. ASSUME NEW step \in {"members", "sourceAlloc"}, Goes(t, step), task[t].op # "create"
      PROVE  /\ OnlyTask(t) /\ RequestOK(task'[t])
             /\ task'[t].step \in {"members", "sourceAlloc", "idle"}
             /\ task'[t].step # "idle" => task[t].op = "copy" /\ SameRequest(t, task'[t].step)
  <2>1. SameRequest(t, step) /\ OnlyTask(t) /\ task'[t].step = step
    BY <1>2, GoesOn DEF Steps, CopySteps, SameRequest
  <2>2. task[t].op = "copy" /\ task[t].step # "idle"
    BY <1>2 DEF RequestOK, CreateSteps
  <2>3. RequestOK(task'[t])
    BY <2>1, <2>2 DEF SameRequest, RequestOK, UpdateSteps, DeleteSteps, CreateSteps, CopySteps
  <2> QED
    BY <2>1, <2>2, <2>3
<1> QED
  BY <1>1, <1>2 DEF Created

\* so do those of a creation;
LEMMA CreateOK ==
  ASSUME ServiceInv, NEW t \in Tasks, Create(t)
  PROVE  StepOK(t)
<1> USE DEF ServiceInv
<1>1. CASE create(t)
  <2>1. PICK step \in {"createDataset", "createMember"} : Goes(t, step)
    BY <1>1 DEF create, createStep
  <2>2. SameRequest(t, step) /\ OnlyTask(t)
    BY <2>1, GoesOn DEF Steps, CreateSteps
  <2>3. task[t].step = "create" /\ UNCHANGED <<allocated, leaked>>
    BY <1>1 DEF create, At
  <2>4. RequestOK(task'[t])
    BY <2>2, <2>3 DEF SameRequest, RequestOK, UpdateSteps, DeleteSteps, CreateSteps, CopySteps
  <2> QED
    BY <2>2, <2>3, <2>4, FreeGoes DEF FreeSteps, SameRequest
<1>2. CASE createMember(t)
  <2>1. task[t].step = "createMember" /\ UNCHANGED <<allocated, leaked>>
    BY <1>2 DEF createMember, At
  <2>2. CASE Goes(t, "openNew")
    <3>1. SameRequest(t, "openNew") /\ OnlyTask(t)
      BY <2>2, GoesOn DEF Steps, CreateSteps
    <3>2. RequestOK(task'[t])
      BY <2>1, <3>1 DEF SameRequest, RequestOK, UpdateSteps, DeleteSteps, CreateSteps, CopySteps
    <3> QED
      BY <2>1, <3>1, <3>2, FreeGoes DEF FreeSteps, SameRequest
  <2> QED
    BY <1>2, <2>1, <2>2, FreeEnds DEF createMember, FreeSteps
<1>3. CASE openNew(t)
  <2>1. task[t].step = "openNew" /\ UNCHANGED <<allocated, leaked>> /\ task[t].step \in CreateSteps
    BY <1>3 DEF openNew, At, CreateSteps
  <2>2. Created(t) \/ (\E r \in {"ok", "bad", "fail"} : Ends(t, r))
    BY <1>3 DEF openNew
  <2>3. OnlyTask(t) /\ RequestOK(task'[t]) /\ task'[t].step \in FreeSteps \cup {"idle"}
    BY <2>1, <2>2, CreatedGoes DEF FreeSteps
  <2> QED
    BY <2>1, <2>3, FreeStepHolds, KeepGoes DEF FreeSteps
<1>4. CASE createDataset(t)
  <2>1. task[t].step = "createDataset" /\ UNCHANGED leaked /\ task[t].dst[1] \in Datasets
    BY <1>4 DEF createDataset, At, RequestOK, Paths
  <2>2. CASE Goes(t, "createFree") /\ allocated' = allocated \cup {<<t, task[t].dst[1], "OLD">>}
    <3>1. SameRequest(t, "createFree") /\ OnlyTask(t)
      BY <2>2, GoesOn DEF Steps, CreateSteps
    <3>2. RequestOK(task'[t])
      BY <2>1, <3>1 DEF SameRequest, RequestOK, UpdateSteps, DeleteSteps, CreateSteps, CopySteps
    <3>3. Allocates(t, task[t].dst[1], "OLD")
      BY <2>1, <2>2 DEF Allocates
    <3> QED
      BY <2>1, <3>1, <3>2, <3>3, AllocGoes DEF SameRequest, Holds, MayHold, UpdateSteps, DeleteSteps
  <2> QED
    BY <1>4, <2>1, <2>2, FreeEnds DEF createDataset, FreeSteps
<1>5. CASE createFree(t)
  <2>1. task[t].step = "createFree" /\ task[t].step \in CreateSteps /\ task[t].dst[1] \in Datasets
    BY <1>5 DEF createFree, At, RequestOK, CreateSteps, Paths
  <2>2. Releases(t, task[t].dst[1], "OLD")
    BY <1>5 DEF createFree, Releases
  <2>3. OnlyTask(t) /\ RequestOK(task'[t]) /\ task'[t].step \in FreeSteps \cup {"idle"}
    BY <1>5, <2>1, CreatedGoes DEF createFree, FreeSteps
  <2>4. \A e \in Datasets, f \in {"SHR", "OLD"} :
          ~MayHold(task[t], e, f) /\ (Holds(task[t], e, f) => e = task[t].dst[1] /\ f = "OLD")
    BY <2>1 DEF Holds, MayHold, UpdateSteps, DeleteSteps
  <2> QED
    BY <2>1, <2>2, <2>3, <2>4, FreeStepHolds, ReleaseGoes
<1> QED
  BY <1>1, <1>2, <1>3, <1>4, <1>5 DEF Create

\* and copy, which sets the attributes of its target,
LEMMA AttributesSet ==
  ASSUME TypeOK, NEW t \in Tasks, setAttributes(t), ~Ends(t, "bad")
  PROVE  /\ OnlyTask(t) /\ task'[t].step = createStep(t) /\ task'[t].op = task[t].op
         /\ task'[t].p = task[t].p /\ task'[t].q = task[t].q /\ task'[t].src = task[t].src
         /\ task'[t].dst = task[t].dst /\ task'[t].text = task[t].text
<1>1. PICK isPDS \in BOOLEAN, rest \in SUBSET Members :
        task' = [task EXCEPT ![t].step = createStep(t), ![t].pds = isPDS, ![t].rest = rest]
  BY DEF setAttributes
<1>2. task[t] \in TaskRecords /\ createStep(t) \in Steps
  BY DEF TypeOK, createStep, Steps, CreateSteps
<1>3. PICK tk \in TaskRecords : tk = [task[t] EXCEPT !.step = createStep(t)]
  BY <1>2 DEF TaskRecords
<1>4. PICK tl \in TaskRecords : tl = [tk EXCEPT !.pds = isPDS]
  BY DEF TaskRecords
<1>5. task' = [task EXCEPT ![t] = [tl EXCEPT !.rest = rest]]
  BY <1>1, <1>3, <1>4 DEF TypeOK
<1>6. task'[t] = [tl EXCEPT !.rest = rest] /\ task' \in [Tasks -> TaskRecords]
  BY <1>5 DEF TypeOK, TaskRecords
<1>7. OnlyTask(t)
  BY <1>5, <1>6 DEF OnlyTask, TypeOK
<1> QED
  BY <1>2, <1>3, <1>4, <1>6, <1>7 DEF TaskRecords

\* and goes through the members of a partitioned dataset.
LEMMA MemberChosen ==
  ASSUME ServiceInv, NEW t \in Tasks, nextMember(t), ~Ends(t, "bad"), ~Ends(t, "ok")
  PROVE  /\ OnlyTask(t) /\ task'[t].step = "createMember" /\ task'[t].op = task[t].op
         /\ task'[t].p = task[t].p /\ task'[t].q = task[t].q /\ task'[t].text = task[t].text
         /\ task'[t].src \in Paths /\ task'[t].dst \in Paths /\ task'[t].dst[1] = task[t].q[1]
         /\ task[t].q[2] = NoMember
<1>1. task[t].step = "members" /\ task[t] \in TaskRecords
  BY DEF nextMember, At, ServiceInv, TypeOK
<1>2. PICK m \in task[t].rest :
        /\ task[t].q[2] = NoMember
        /\ task' = [task EXCEPT ![t].step = "createMember", ![t].rest = @ \ {m},
                                ![t].src = <<task[t].p[1], m>>, ![t].dst = <<task[t].q[1], m>>]
  BY DEF nextMember
<1>3. m \in Members /\ <<task[t].p[1], m>> \in Paths /\ <<task[t].q[1], m>> \in Paths
  BY <1>1 DEF TaskRecords, ServiceInv, RequestOK, Paths
<1>4. PICK tk \in TaskRecords : tk = [task[t] EXCEPT !.step = "createMember"]
  BY <1>1 DEF TaskRecords, Steps, CreateSteps
<1>5. PICK tl \in TaskRecords : tl = [tk EXCEPT !.rest = tk.rest \ {m}]
  BY DEF TaskRecords
<1>6. PICK tm \in TaskRecords : tm = [tl EXCEPT !.src = <<task[t].p[1], m>>]
  BY <1>3 DEF TaskRecords, Places
<1>7. PICK tn \in TaskRecords : tn = [tm EXCEPT !.dst = <<task[t].q[1], m>>]
  BY <1>3 DEF TaskRecords, Places
<1>8. task' = [task EXCEPT ![t] = tn]
  <2>1. task' = [task EXCEPT ![t] = [task[t] EXCEPT !.step = "createMember", !.rest = @ \ {m},
                                                    !.src = <<task[t].p[1], m>>, !.dst = <<task[t].q[1], m>>]]
    BY <1>2 DEF ServiceInv, TypeOK
  <2>2. tk.rest = task[t].rest
    BY <1>1, <1>4 DEF TaskRecords
  <2>3. tn = [task[t] EXCEPT !.step = "createMember", !.rest = @ \ {m},
                             !.src = <<task[t].p[1], m>>, !.dst = <<task[t].q[1], m>>]
    BY <1>1, <1>4, <1>5, <1>6, <1>7, <2>2
  <2> QED
    BY <2>1, <2>3
<1>9. task'[t] = tn /\ task' \in [Tasks -> TaskRecords]
  BY <1>8 DEF ServiceInv, TypeOK
<1>10. OnlyTask(t)
  BY <1>8, <1>9 DEF OnlyTask, ServiceInv, TypeOK
<1>11. /\ tn.step = tm.step /\ tn.op = tm.op /\ tn.p = tm.p /\ tn.q = tm.q /\ tn.text = tm.text
       /\ tn.src = tm.src /\ tn.dst = <<task[t].q[1], m>>
  BY <1>7 DEF TaskRecords
<1>12. /\ tm.step = tl.step /\ tm.op = tl.op /\ tm.p = tl.p /\ tm.q = tl.q /\ tm.text = tl.text
       /\ tm.src = <<task[t].p[1], m>>
  BY <1>6 DEF TaskRecords
<1>13. tl.step = tk.step /\ tl.op = tk.op /\ tl.p = tk.p /\ tl.q = tk.q /\ tl.text = tk.text
  BY <1>5 DEF TaskRecords
<1>14. /\ tk.step = "createMember" /\ tk.op = task[t].op /\ tk.p = task[t].p /\ tk.q = task[t].q
       /\ tk.text = task[t].text
  BY <1>1, <1>4 DEF TaskRecords
<1> QED
  BY <1>2, <1>3, <1>9, <1>10, <1>11, <1>12, <1>13, <1>14

\* and those of a copy.
LEMMA CopyOK ==
  ASSUME ServiceInv, NEW t \in Tasks, Copy(t)
  PROVE  StepOK(t)
<1> USE DEF ServiceInv
<1>1. CASE checkSource(t) \/ checkTarget(t)
  <2>1. task[t].step \in {"copy", "target"} /\ UNCHANGED <<allocated, leaked>>
    BY <1>1 DEF checkSource, checkTarget, At
  <2>2. ASSUME NEW step \in {"target", "attributes"}, Goes(t, step) PROVE StepOK(t)
    <3>1. SameRequest(t, step) /\ OnlyTask(t)
      BY <2>2, GoesOn DEF Steps, CopySteps
    <3>2. RequestOK(task'[t])
      BY <2>1, <3>1 DEF SameRequest, RequestOK, UpdateSteps, DeleteSteps, CreateSteps, CopySteps
    <3> QED
      BY <2>1, <3>1, <3>2, FreeGoes DEF FreeSteps, SameRequest
  <2> QED
    BY <1>1, <2>1, <2>2, FreeEnds DEF checkSource, checkTarget, FreeSteps
<1>2. CASE setAttributes(t)
  <2>1. task[t].step = "attributes" /\ UNCHANGED <<allocated, leaked>>
    BY <1>2 DEF setAttributes, At
  <2>2. CASE ~Ends(t, "bad")
    <3>1. task'[t].step \in {"createDataset", "createMember"} /\ OnlyTask(t)
      BY <1>2, <2>2, AttributesSet DEF createStep
    <3>2. RequestOK(task'[t])
      BY <1>2, <2>1, <2>2, <3>1, AttributesSet
         DEF RequestOK, UpdateSteps, DeleteSteps, CreateSteps, CopySteps
    <3> QED
      BY <2>1, <3>1, <3>2, FreeGoes DEF FreeSteps
  <2> QED
    BY <2>1, <2>2, FreeEnds DEF FreeSteps
<1>3. CASE nextMember(t)
  <2>1. task[t].step = "members" /\ UNCHANGED <<allocated, leaked>> /\ task[t] \in TaskRecords
    BY <1>3 DEF nextMember, At, TypeOK
  <2>2. CASE ~Ends(t, "bad") /\ ~Ends(t, "ok")
    <3>1. RequestOK(task'[t])
      BY <1>3, <2>1, <2>2, MemberChosen DEF RequestOK, UpdateSteps, DeleteSteps, CreateSteps, CopySteps
    <3> QED
      BY <1>3, <2>1, <2>2, <3>1, MemberChosen, FreeGoes DEF FreeSteps
  <2> QED
    BY <2>1, <2>2, FreeEnds DEF FreeSteps
<1>4. CASE sourceAlloc(t)
  <2>1. task[t].step = "sourceAlloc" /\ UNCHANGED leaked /\ task[t].src[1] \in Datasets
    BY <1>4 DEF sourceAlloc, At, RequestOK, Paths
  <2>2. ASSUME NEW step \in {"sourceOpen", "delete"}, Goes(t, step)
        PROVE  SameRequest(t, step) /\ OnlyTask(t) /\ RequestOK(task'[t])
    <3>1. SameRequest(t, step) /\ OnlyTask(t)
      BY <2>2, GoesOn DEF Steps, CopySteps, DeleteSteps
    <3> QED
      BY <2>1, <3>1 DEF SameRequest, RequestOK, UpdateSteps, DeleteSteps, CreateSteps, CopySteps
  <2>3. CASE Goes(t, "delete") /\ UNCHANGED allocated
    BY <2>1, <2>2, <2>3, FreeGoes DEF FreeSteps, SameRequest
  <2>4. CASE Goes(t, "sourceOpen") /\ dynallocAllocDataset(t, task[t].src[1], "SHR")
    <3>1. Allocates(t, task[t].src[1], "SHR")
      BY <2>1, <2>4 DEF dynallocAllocDataset, Allocates
    <3> QED
      BY <2>1, <2>2, <2>4, <3>1, AllocGoes DEF SameRequest, Holds, MayHold, UpdateSteps, DeleteSteps
  <2> QED
    BY <1>4, <2>3, <2>4 DEF sourceAlloc
<1>5. ASSUME task[t].step \in {"sourceOpen", "paste"}, OnlyTask(t), UNCHANGED <<allocated, leaked>>,
             NEW step \in {"paste", "sourceFree", "delete"}, task'[t].step = step,
             task'[t].op = task[t].op, task'[t].p = task[t].p, task'[t].q = task[t].q,
             task'[t].src = task[t].src, task'[t].dst = task[t].dst, task'[t].text \in Contents
      PROVE  StepOK(t)
  <2>1. task[t].op = "copy"
    BY <1>5 DEF RequestOK, CopySteps
  <2>2. RequestOK(task'[t])
    BY <1>5, <2>1 DEF RequestOK, UpdateSteps, DeleteSteps, CreateSteps, CopySteps
  <2> QED
    BY <1>5, <2>1, <2>2, KeepGoes DEF Holds, MayHold, UpdateSteps, DeleteSteps
<1>6. CASE sourceOpen(t)
  <2>1. task[t].step = "sourceOpen" /\ task[t].src \in Paths /\ task[t].src[1] \in Datasets /\ task[t].op = "copy"
    BY <1>6 DEF sourceOpen, At, RequestOK, Paths, CopySteps
  <2>2. CASE /\ task' = [task EXCEPT ![t].step = "paste", ![t].text = content[task[t].src]]
             /\ Readable(t, task[t].src) /\ UNCHANGED <<allocated, leaked>>
    <3>1. content[task[t].src] \in Contents /\ content[task[t].src] \in Words
      BY <2>1, <2>2 DEF Readable, TypeOK, Stored, Words
    <3>0. task[t] \in TaskRecords
      BY DEF TypeOK
    <3>2. PICK tk \in TaskRecords : tk = [task[t] EXCEPT !.step = "paste"]
      BY <3>0 DEF TaskRecords, Steps, CopySteps
    <3>3. task' = [task EXCEPT ![t] = [tk EXCEPT !.text = content[task[t].src]]]
      BY <2>2, <3>2 DEF TypeOK
    <3>4. task'[t] = [tk EXCEPT !.text = content[task[t].src]] /\ task' \in [Tasks -> TaskRecords]
      BY <3>1, <3>3 DEF TypeOK, TaskRecords
    <3>5. OnlyTask(t)
      BY <3>3, <3>4 DEF OnlyTask, TypeOK
    <3>6. /\ task'[t].step = "paste" /\ task'[t].op = task[t].op /\ task'[t].p = task[t].p
          /\ task'[t].q = task[t].q /\ task'[t].src = task[t].src /\ task'[t].dst = task[t].dst
          /\ task'[t].text = content[task[t].src]
      BY <3>2, <3>4 DEF TypeOK, TaskRecords
    <3> QED
      BY <1>5, <2>1, <2>2, <3>1, <3>5, <3>6
  <2>3. CASE Goes(t, "delete")
    <3>1. SameRequest(t, "delete") /\ OnlyTask(t)
      BY <2>3, GoesOn DEF Steps, DeleteSteps
    <3>2. RequestOK(task'[t])
      BY <2>1, <3>1 DEF SameRequest, RequestOK, UpdateSteps, DeleteSteps, CreateSteps, CopySteps
    <3>3. CASE UNCHANGED <<allocated, leaked>>
      BY <1>5, <2>1, <3>1, <3>3 DEF SameRequest, RequestOK
    <3>4. CASE Releases(t, task[t].src[1], "SHR")
      BY <2>1, <3>1, <3>2, <3>4, ReleaseGoes DEF SameRequest, Holds, MayHold, UpdateSteps, DeleteSteps
    <3> QED
      BY <1>6, <2>3, <3>3, <3>4 DEF sourceOpen, dynallocUnalloc, Releases, Goes
  <2> QED
    BY <1>6, <2>2, <2>3 DEF sourceOpen
<1>7. CASE paste(t)
  <2>1. PICK step \in {"sourceFree", "delete"} : Goes(t, step)
    BY <1>7 DEF paste
  <2>2. SameRequest(t, step) /\ OnlyTask(t)
    BY <2>1, GoesOn DEF Steps, DeleteSteps, CopySteps
  <2> QED
    BY <1>5, <1>7, <2>2 DEF paste, At, SameRequest, RequestOK
<1>8. CASE sourceFree(t)
  <2>1. task[t].step = "sourceFree" /\ task[t].src[1] \in Datasets /\ Releases(t, task[t].src[1], "SHR")
    BY <1>8 DEF sourceFree, At, RequestOK, Paths, dynallocUnalloc, Releases
  <2>2. OnlyTask(t) /\ RequestOK(task'[t]) /\ task'[t].step \in {"members", "idle"}
    <3>1. CASE Goes(t, "members")
      <4>1. SameRequest(t, "members") /\ OnlyTask(t)
        BY <3>1, GoesOn DEF Steps, CopySteps
      <4> QED
        BY <2>1, <4>1 DEF SameRequest, RequestOK, UpdateSteps, DeleteSteps, CreateSteps, CopySteps
    <3>2. CASE Ends(t, "ok")
      <4>1. IsDone(t) /\ OnlyTask(t)
        BY <3>2, EndsIt
      <4> QED
        BY <4>1 DEF IsDone, RequestOK, UpdateSteps, DeleteSteps, CreateSteps, CopySteps
    <3> QED
      BY <1>8, <3>1, <3>2 DEF sourceFree
  <2> QED
    BY <2>1, <2>2, FreeStepHolds, ReleaseGoes DEF FreeSteps, Holds, MayHold, UpdateSteps, DeleteSteps
<1>9. CASE copyFailed(t)
  <2>1. IsDone(t) /\ OnlyTask(t)
    BY <1>9, EndsIt DEF copyFailed
  <2>2. task[t].step = "copyFailed" /\ task[t].src[1] \in Datasets
    BY <1>9 DEF copyFailed, At, RequestOK, Paths
  <2>3. RequestOK(task'[t])
    BY <2>1 DEF IsDone, RequestOK, UpdateSteps, DeleteSteps, CreateSteps, CopySteps
  <2>4. \A e \in Datasets, f \in {"SHR", "OLD"} :
          /\ ~Holds(task[t], e, f) /\ ~Holds(task'[t], e, f)
          /\ MayHold(task[t], e, f) => e = task[t].src[1] /\ f = "SHR"
    BY <2>1, <2>2 DEF IsDone, Holds, MayHold, UpdateSteps
  <2>5. CASE Releases(t, task[t].src[1], "SHR")
    BY <2>1, <2>2, <2>3, <2>4, <2>5, ReleaseGoes
  <2>6. CASE <<t, task[t].src[1], "SHR">> \notin allocated \ leaked /\ UNCHANGED <<allocated, leaked>>
    <3>1. \A e \in Datasets, f \in {"SHR", "OLD"} : <<t, e, f>> \notin allocated' \ leaked'
      BY <2>4, <2>6 DEF HeldOK
    <3> QED
      BY <2>1, <2>6, <3>1, DoneOK DEF OwnAllocations
  <2> QED
    BY <1>9, <2>5, <2>6 DEF copyFailed, dynallocUnalloc, Releases
<1> QED
  BY <1>1, <1>2, <1>3, <1>4, <1>6, <1>7, <1>8, <1>9 DEF Copy

\* Each step of the service is one of a task that holds what it needs, and
\* writes, if at all, what it has or could have exclusively.
MayWrite(t, d) == <<t, d, "OLD">> \in allocated \/ Grants(t, d, "OLD")
WritesOK(t) ==
  /\ kind' \in [Datasets -> Organizations] /\ content' \in [Paths -> Stored]
  /\ \A x \in Paths : content'[x] # content[x] => MayWrite(t, x[1])

\* A step writes only what it may write.
LEMMA ServiceWrites ==
  ASSUME ServiceInv, NEW t \in Tasks, Begin(t) \/ Read(t) \/ Update(t) \/ Delete(t) \/ Create(t) \/ Copy(t)
  PROVE  WritesOK(t)
<1> USE DEF ServiceInv, TypeOK
<1>1. CASE UNCHANGED data
  BY <1>1 DEF data, WritesOK
<1>2. ASSUME UNCHANGED kind, NEW x \in Paths, NEW c \in Stored, content' = [content EXCEPT ![x] = c],
             MayWrite(t, x[1])
      PROVE  WritesOK(t)
  BY <1>2 DEF WritesOK
<1>3. CASE openForUpdate(t)
  <2>1. task[t].p \in Paths /\ Empty \in Stored /\ UNCHANGED kind
    BY <1>3 DEF openForUpdate, At, RequestOK, Stored, Contents
  <2> QED
    BY <1>1, <1>2, <1>3, <2>1 DEF openForUpdate, data, Writable, MayWrite
<1>4. CASE writeRecords(t)
  <2>1. task[t].p \in Paths /\ task[t].p[1] \in Datasets /\ UNCHANGED kind /\ task[t].step = "write"
    BY <1>4 DEF writeRecords, At, RequestOK, Paths
  <2>2. MayWrite(t, task[t].p[1])
    BY <2>1 DEF HeldOK, Holds, UpdateSteps, MayWrite
  <2>3. PICK c \in {task[t].text, Part} : content' = [content EXCEPT ![task[t].p] = c]
    BY <1>4 DEF writeRecords
  <2>4. c \in Stored
    BY <2>1, <2>3 DEF Stored, Contents, RequestOK
  <2> QED
    BY <1>2, <2>1, <2>2, <2>3, <2>4
<1>5. CASE deleteDataset(t)
  <2>1. task[t].dst[1] \in Datasets /\ task[t].step = "deleteDataset"
    BY <1>5 DEF deleteDataset, At, RequestOK, Paths
  <2>2. MayWrite(t, task[t].dst[1])
    BY <2>1 DEF HeldOK, Holds, MayWrite
  <2>3. CASE /\ kind' = [kind EXCEPT ![task[t].dst[1]] = "none"]
             /\ content' = [x \in Paths |-> IF x[1] = task[t].dst[1] THEN Absent ELSE content[x]]
    BY <2>1, <2>2, <2>3 DEF WritesOK, Organizations, Stored
  <2> QED
    BY <1>1, <1>5, <2>3 DEF deleteDataset
<1>6. CASE deleteMember(t)
  <2>1. task[t].dst \in Paths /\ task[t].dst[1] \in Datasets /\ UNCHANGED kind /\ task[t].step = "deleteMember"
    BY <1>6 DEF deleteMember, At, RequestOK, Paths
  <2>2. MayWrite(t, task[t].dst[1])
    BY <2>1 DEF HeldOK, Holds, MayWrite
  <2> QED
    BY <1>1, <1>2, <1>6, <2>1, <2>2 DEF deleteMember, data, Stored
<1>7. CASE openNew(t)
  <2>1. task[t].dst \in Paths /\ Empty \in Stored /\ UNCHANGED kind
    BY <1>7 DEF openNew, At, RequestOK, Stored, Contents
  <2> QED
    BY <1>1, <1>2, <1>7, <2>1 DEF openNew, data, Writable, MayWrite
<1>8. CASE createDataset(t)
  <2>1. task[t].dst \in Paths /\ task[t].dst[1] \in Datasets /\ <<task[t].dst[1], NoMember>> \in Paths
    BY <1>8 DEF createDataset, At, RequestOK, Paths
  <2>2. ASSUME Grants(t, task[t].dst[1], "OLD"), NEW k \in {"PS", "PO"},
               kind' = [kind EXCEPT ![task[t].dst[1]] = k],
               content' = [content EXCEPT ![<<task[t].dst[1], NoMember>>] = IF k = "PS" THEN Empty ELSE Absent]
        PROVE  WritesOK(t)
    BY <2>1, <2>2 DEF WritesOK, MayWrite, Organizations, Stored, Contents
  <2> QED
    BY <1>1, <1>8, <2>2 DEF createDataset
<1>9. CASE paste(t)
  <2>1. task[t].dst \in Paths /\ UNCHANGED kind /\ task[t].text \in Stored /\ Part \in Stored
    BY <1>9 DEF paste, At, RequestOK, Stored, Contents
  <2>2. content[task[t].dst] \in Stored
    BY <2>1
  <2> QED
    BY <1>1, <1>2, <1>9, <2>1, <2>2 DEF paste, data, Writable, MayWrite
<1> QED
  BY <1>1, <1>3, <1>4, <1>5, <1>6, <1>7, <1>8, <1>9
     DEF Begin, Read, readAlloc, respondWithDatasetInternal, free, Update, updateAlloc, getDatasetETag, checkType,
         Delete, getCSIType, deleteAlloc, deleteFree, Create, create, createMember, createFree, Copy,
         checkSource, checkTarget, setAttributes, nextMember, sourceAlloc, sourceOpen, sourceFree, copyFailed

\* What every step does to the counters and ghosts.
LEMMA ServiceCounts ==
  ASSUME ServiceInv, NEW t \in Tasks, Begin(t) \/ Read(t) \/ Update(t) \/ Delete(t) \/ Create(t) \/ Copy(t)
  PROVE  /\ UNCHANGED count \/ Begin(t)
         /\ requests' \in Nat /\ overlapped' \in BOOLEAN /\ before' \in [Paths -> Stored]
<1>1. UNCHANGED count \/ Begin(t)
  BY DEF Read, readAlloc, respondWithDatasetInternal, free, Update, updateAlloc, getDatasetETag, checkType,
         openForUpdate, writeRecords, Delete, getCSIType, deleteAlloc, deleteDataset, deleteMember,
         deleteFree, Create, create, createMember, openNew, createDataset, createFree, Copy,
         checkSource, checkTarget, setAttributes, nextMember, sourceAlloc, sourceOpen, paste, sourceFree,
         copyFailed
<1>2. requests' \in Nat
  BY <1>1 DEF ServiceInv, TypeOK, count, Begin
<1>3. overlapped' \in BOOLEAN
  BY <1>1 DEF ServiceInv, TypeOK, count, Begin
<1>4. before' \in [Paths -> Stored]
  BY <1>1 DEF ServiceInv, TypeOK, count, Begin
<1> QED
  BY <1>1, <1>2, <1>3, <1>4

\* Every step of a request preserves the invariant.
LEMMA ServiceStep ==
  ASSUME ServiceInv, NEW t \in Tasks, Begin(t) \/ Read(t) \/ Update(t) \/ Delete(t) \/ Create(t) \/ Copy(t)
  PROVE  StepOK(t) /\ WritesOK(t) /\ ServiceInv'
<1>1. StepOK(t)
  BY BeginOK, ReadOK, UpdateOK, DeleteOK, CreateOK, CopyOK
<1>2. TypeOK'
  BY <1>1, ServiceWrites, ServiceCounts, OthersKeep DEF TypeOK, WritesOK, StepOK, OnlyTask
<1> QED
  BY <1>1, <1>2, ServiceWrites, OthersKeep DEF ServiceInv

\* The invariant holds initially,
LEMMA ServiceInit == Init => ServiceInv
<1> SUFFICES ASSUME Init PROVE ServiceInv
  OBVIOUS
<1>1. Idle \in TaskRecords /\ Idle.step = "idle"
  BY DEF Idle, Done, TaskRecords, Steps, Places, Words
<1>2. TypeOK
  <2>1. content \in [Paths -> Stored]
    BY DEF Init, Stored, Contents
  <2>2. overlapped \in BOOLEAN
    BY DEF Init
  <2> QED
    BY <1>1, <2>1, <2>2 DEF Init, TypeOK, Organizations
<1>3. \A t \in Tasks : task[t].step = "idle" /\ allocated = {}
  BY <1>1 DEF Init
<1> QED
  BY <1>2, <1>3 DEF ServiceInv, RequestOK, HeldOK, Holds, UpdateSteps, DeleteSteps, CreateSteps, CopySteps

\* is preserved,
LEMMA ServiceNext == ServiceInv /\ [Next]_vars => ServiceInv'
<1> SUFFICES ASSUME ServiceInv, [Next]_vars PROVE ServiceInv'
  OBVIOUS
<1>1. CASE UNCHANGED vars
  BY <1>1 DEF vars, data, count, ServiceInv, TypeOK, RequestOK, HeldOK, Holds, MayHold
<1> QED
  BY <1>1, ServiceStep DEF Next

\* and so holds always.
LEMMA ServiceInvariant == Spec => []ServiceInv
BY ServiceInit, ServiceNext, PTL DEF Spec

\* Whatever fails on the way, a task that is done with a request holds no
\* allocation but those that the system or the deletion left behind.
THEOREM AllocationsAlwaysReleased == Spec => []AllocationsReleased
<1>1. ServiceInv => AllocationsReleased
  <2> SUFFICES ASSUME ServiceInv, NEW a \in allocated \ leaked, task[a[1]].step = "idle" PROVE FALSE
    BY DEF AllocationsReleased, At
  <2>1. PICK t \in Tasks, d \in Datasets, disp \in {"SHR", "OLD"} : a = <<t, d, disp>>
    BY DEF ServiceInv, TypeOK, Allocations
  <2>2. \A e \in Datasets, f \in {"SHR", "OLD"} : <<t, e, f>> \notin allocated \ leaked
    BY <2>1, FreeHolds
  <2> QED
    BY <2>1, <2>2
<1> QED
  BY <1>1, ServiceInvariant, PTL

-----------------------------------------------------------------------------
(***************************************************************************)
(* Servers with an address space of their own.                             *)
(***************************************************************************)
OneTaskPerSpace == \A t, u \in Tasks : SpaceOf[t] = SpaceOf[u] => t = u

\* Nobody else has a dataset that somebody has exclusively.
Exclusive ==
  \A a, b \in allocated : a[1] # b[1] /\ a[2] = b[2] => a[3] = "SHR" /\ b[3] = "SHR"

FreshOK ==
  \A t \in Tasks :
    /\ task[t].step \in {"type", "open"} /\ ~task[t].force /\ task[t].read =>
         content[task[t].p] = task[t].etag
    /\ task[t].step = "paste" => content[task[t].src] = task[t].text

\* What the dispositions exclude: a new allocation was granted,
LEMMA NewGranted ==
  ASSUME ServiceInv, NEW t \in Tasks, Begin(t) \/ Read(t) \/ Update(t) \/ Delete(t) \/ Create(t) \/ Copy(t)
  PROVE  \A a \in allocated' : a \in allocated \/ (a[1] = t /\ Grants(t, a[2], a[3]))
<1>1. ASSUME NEW d, NEW disp, Grants(t, d, disp), allocated' = allocated \cup {<<t, d, disp>>}
      PROVE  \A a \in allocated' : a \in allocated \/ (a[1] = t /\ Grants(t, a[2], a[3]))
  BY <1>1
<1>2. CASE allocated' \subseteq allocated
  BY <1>2
<1>3. CASE readAlloc(t) \/ updateAlloc(t) \/ deleteAlloc(t) \/ sourceAlloc(t)
  BY <1>1, <1>2, <1>3 DEF readAlloc, updateAlloc, deleteAlloc, sourceAlloc, dynallocAllocDataset
<1>4. CASE createDataset(t)
  BY <1>1, <1>2, <1>4 DEF createDataset
<1> QED
  BY <1>2, <1>3, <1>4
     DEF Begin, Read, respondWithDatasetInternal, free, Update, getDatasetETag, checkType,
         openForUpdate, writeRecords, Delete, getCSIType, deleteDataset, deleteMember,
         deleteFree, Create, create, createMember, openNew, createFree, Copy,
         checkSource, checkTarget, setAttributes, nextMember, sourceOpen, paste, sourceFree,
         copyFailed, dynallocUnalloc, Without

\* and who may write has the dataset alone.
LEMMA WriterAlone ==
  ASSUME OneTaskPerSpace, ServiceInv, Exclusive, NEW t \in Tasks, NEW d \in Datasets, MayWrite(t, d),
         NEW u \in Tasks \ {t}, NEW disp \in {"SHR", "OLD"}
  PROVE  <<u, d, disp>> \notin allocated
<1>1. CASE <<t, d, "OLD">> \in allocated
  BY <1>1 DEF Exclusive
<1>2. CASE Grants(t, d, "OLD")
  BY <1>2 DEF Grants, OneTaskPerSpace
<1> QED
  BY <1>1, <1>2 DEF MayWrite

\* Exclusive allocations stay exclusive.
LEMMA ExclusiveStep ==
  ASSUME OneTaskPerSpace, ServiceInv, Exclusive, NEW t \in Tasks,
         Begin(t) \/ Read(t) \/ Update(t) \/ Delete(t) \/ Create(t) \/ Copy(t)
  PROVE  Exclusive'
<1>1. \A a \in allocated' : a[1] \in Tasks
  BY ServiceStep DEF ServiceInv, TypeOK, Allocations
<1>2. ASSUME NEW a \in allocated', NEW b \in allocated', a[1] # b[1], a[2] = b[2]
      PROVE  a[3] = "SHR" /\ b[3] = "SHR"
  <2>1. CASE a \in allocated /\ b \in allocated
    BY <1>2, <2>1 DEF Exclusive
  <2>2. CASE a \notin allocated
    BY <1>1, <1>2, <2>2, NewGranted DEF Grants, OneTaskPerSpace
  <2>3. CASE b \notin allocated
    BY <1>1, <1>2, <2>3, NewGranted DEF Grants, OneTaskPerSpace
  <2> QED
    BY <2>1, <2>2, <2>3
<1> QED
  BY <1>2 DEF Exclusive

\* The step that a task goes on with.
LEMMA NextStep ==
  ASSUME TypeOK, NEW t \in Tasks
  PROVE  /\ \A step \in Steps : Goes(t, step) => task'[t].step = step
         /\ \A step \in Steps, r \in {"none", "ok", "bad", "fail"} : Reply(t, r, step) => task'[t].step = step
         /\ \A r \in {"none", "ok", "bad", "fail"} : Ends(t, r) => task'[t].step = "idle"
BY GoesOn, RepliesAndGoesOn, EndsIt DEF SameRequest, IsDone

\* Only these steps go on to a write.
LEMMA BeforeWrites ==
  ASSUME ServiceInv, NEW t \in Tasks, Begin(t) \/ Read(t) \/ Update(t) \/ Delete(t) \/ Create(t) \/ Copy(t),
         task'[t].step \in {"type", "open", "write", "paste"}
  PROVE  updateAlloc(t) \/ getDatasetETag(t) \/ checkType(t) \/ openForUpdate(t) \/ sourceOpen(t)
<1>1. TypeOK /\ task[t].reply \in {"none", "ok", "bad", "fail"}
  BY DEF ServiceInv, TypeOK, TaskRecords
<1> USE NextStep
<1> USE DEF Steps, UpdateSteps, DeleteSteps, CreateSteps, CopySteps
<1>2. ~Begin(t)
  BY BeginOK DEF OpNames
<1>3. ~Read(t)
  BY <1>1 DEF Read, readAlloc, respondWithDatasetInternal, free
<1>4. ~writeRecords(t)
  BY <1>1 DEF writeRecords
<1>5. ~Delete(t)
  BY <1>1 DEF Delete, Deleted, getCSIType, deleteAlloc, deleteDataset, deleteMember, deleteFree
<1>6. ~Create(t)
  BY <1>1 DEF Create, Created, createStep, create, createMember, openNew, createDataset, createFree
<1>7. ~checkSource(t) /\ ~checkTarget(t) /\ ~sourceAlloc(t) /\ ~paste(t) /\ ~sourceFree(t) /\ ~copyFailed(t)
  BY <1>1 DEF checkSource, checkTarget, sourceAlloc, paste, sourceFree, copyFailed
<1>8. ~Ends(t, "bad") /\ ~Ends(t, "ok")
  BY <1>1
<1>9. ~setAttributes(t)
  BY <1>1, <1>8, AttributesSet DEF createStep
<1>10. ~nextMember(t)
  BY <1>1, <1>8, MemberChosen
<1> QED
  BY <1>2, <1>3, <1>4, <1>5, <1>6, <1>7, <1>9, <1>10 DEF Update, Copy

\* What a request compared or read stays so until it writes.
LEMMA FreshStep ==
  ASSUME OneTaskPerSpace, ServiceInv, Exclusive, FreshOK, NEW t \in Tasks,
         Begin(t) \/ Read(t) \/ Update(t) \/ Delete(t) \/ Create(t) \/ Copy(t)
  PROVE  FreshOK'
<1>0. TypeOK
  BY DEF ServiceInv
<1>1. ASSUME NEW u \in Tasks \ {t}, NEW x \in Paths, NEW disp \in {"SHR", "OLD"}, <<u, x[1], disp>> \in allocated
      PROVE  content'[x] = content[x]
  <2>1. x[1] \in Datasets
    BY DEF Paths
  <2> QED
    BY <1>1, <2>1, ServiceWrites, WriterAlone DEF WritesOK
<1>2. ASSUME NEW u \in Tasks \ {t}
      PROVE  /\ task[u].step \in {"type", "open"} => content'[task[u].p] = content[task[u].p]
             /\ task[u].step = "paste" => content'[task[u].src] = content[task[u].src]
  <2>1. CASE task[u].step \in {"type", "open"}
    <3>1. task[u].p \in Paths /\ task[u].p[1] \in Datasets
      BY <2>1 DEF ServiceInv, RequestOK, Paths
    <3>2. <<u, task[u].p[1], "OLD">> \in allocated
      BY <2>1, <3>1 DEF ServiceInv, HeldOK, Holds, UpdateSteps
    <3> QED
      BY <1>1, <2>1, <3>1, <3>2
  <2>2. CASE task[u].step = "paste"
    <3>1. task[u].src \in Paths /\ task[u].src[1] \in Datasets
      BY <2>2 DEF ServiceInv, RequestOK, Paths
    <3>2. <<u, task[u].src[1], "SHR">> \in allocated
      BY <2>2, <3>1 DEF ServiceInv, HeldOK, Holds
    <3> QED
      BY <1>1, <2>2, <3>1, <3>2
  <2> QED
    BY <2>1, <2>2
<1>3. \A u \in Tasks \ {t} : task'[u] = task[u]
  BY ServiceStep DEF StepOK, OnlyTask
<1>4. /\ task'[t].step \in {"type", "open"} /\ ~task'[t].force /\ task'[t].read =>
           content'[task'[t].p] = task'[t].etag
      /\ task'[t].step = "paste" => content'[task'[t].src] = task'[t].text
  <2>1. CASE updateAlloc(t)
    BY <1>0, <2>1, GoesOn, EndsIt DEF updateAlloc, SameRequest, IsDone, Steps, UpdateSteps
  <2>2. CASE getDatasetETag(t)
    <3>1. CASE content[task[t].p] = task[t].etag /\ Goes(t, "type")
      BY <1>0, <2>2, <3>1, GoesOn DEF getDatasetETag, data, SameRequest, Steps, UpdateSteps
    <3>2. ASSUME NEW r \in {"bad", "fail", "none"}, Reply(t, r, "free")
          PROVE  task'[t].step = "free"
      BY <1>0, <3>2, NextStep DEF Steps
    <3>3. CASE task' = [task EXCEPT ![t].step = "type", ![t].read = FALSE]
      <4>1. task[t] \in TaskRecords
        BY <1>0 DEF TypeOK
      <4>2. task'[t] = [task[t] EXCEPT !.step = "type", !.read = FALSE]
        BY <1>0, <3>3 DEF TypeOK
      <4>3. task'[t].step = "type" /\ ~task'[t].read
        BY <4>1, <4>2 DEF TaskRecords
      <4> QED
        BY <4>3
    <3> QED
      BY <2>2, <3>1, <3>2, <3>3 DEF getDatasetETag
  <2>3. CASE checkType(t)
    <3>1. SameRequest(t, "open") \/ SameRequest(t, "free")
      BY <1>0, <2>3, GoesOn, RepliesAndGoesOn DEF checkType, Steps, UpdateSteps
    <3> QED
      BY <2>3, <3>1 DEF checkType, At, data, SameRequest, FreshOK
  <2>4. CASE sourceOpen(t)
    <3>1. CASE task' = [task EXCEPT ![t].step = "paste", ![t].text = content[task[t].src]]
      <4>1. task[t] \in TaskRecords
        BY <1>0 DEF TypeOK
      <4>2. task'[t] = [task[t] EXCEPT !.step = "paste", !.text = content[task[t].src]]
        BY <1>0, <3>1 DEF TypeOK
      <4>3. task'[t].step = "paste" /\ task'[t].text = content[task[t].src] /\ task'[t].src = task[t].src
        BY <4>1, <4>2 DEF TaskRecords
      <4> QED
        BY <2>4, <4>3 DEF sourceOpen, data
    <3>2. CASE Goes(t, "delete")
      BY <1>0, <3>2, NextStep DEF Steps, DeleteSteps
    <3> QED
      BY <2>4, <3>1, <3>2 DEF sourceOpen
  <2>5. CASE openForUpdate(t)
    BY <1>0, <2>5, NextStep DEF openForUpdate, Steps, UpdateSteps
  <2> QED
    BY <2>1, <2>2, <2>3, <2>4, <2>5, BeforeWrites
<1> QED
  BY <1>2, <1>3, <1>4 DEF FreshOK

\* Both hold initially.
LEMMA FreshInit == Init => Exclusive /\ FreshOK
<1> SUFFICES ASSUME Init PROVE Exclusive /\ FreshOK
  OBVIOUS
<1>1. Idle.step = "idle"
  BY DEF Idle, Done
<1> QED
  BY <1>1 DEF Init, Exclusive, FreshOK

\* Servers that share no address space never replace contents other than those
\* whose ETag the client gave, and never paste what the source does not hold.
THEOREM NothingStaleWritten == OneTaskPerSpace => (Spec => []NoStaleWrite)
<1> SUFFICES ASSUME OneTaskPerSpace PROVE Spec => []NoStaleWrite
  OBVIOUS
<1>1. ServiceInv /\ Exclusive /\ FreshOK /\ [Next]_vars => (ServiceInv /\ Exclusive /\ FreshOK)'
  <2> SUFFICES ASSUME ServiceInv, Exclusive, FreshOK, [Next]_vars PROVE (ServiceInv /\ Exclusive /\ FreshOK)'
    OBVIOUS
  <2>1. CASE UNCHANGED vars
    BY <2>1, ServiceNext DEF vars, data, Exclusive, FreshOK
  <2> QED
    BY <2>1, ServiceStep, ExclusiveStep, FreshStep DEF Next
<1>2. FreshOK => NoStaleWrite
  BY DEF FreshOK, NoStaleWrite, At
<1> QED
  BY <1>1, <1>2, ServiceInit, FreshInit, PTL DEF Spec

-----------------------------------------------------------------------------
(***************************************************************************)
(* Requests that come one after the other.                                 *)
(***************************************************************************)
OneAtATime == \A t, u \in Tasks : task[t].step # "idle" /\ task[u].step # "idle" => t = u

\* Only what is in the catalog has contents.
CatalogOK ==
  /\ \A x \in Paths : kind[x[1]] = "none" => content[x] = Absent
  /\ \A t \in Tasks : task[t].step = "write" => kind[task[t].p[1]] # "none"

\* What was not there when the request came, all of it for a whole dataset.
WasNotThere(x) ==
  IF x[2] = NoMember THEN \A y \in Paths : y[1] = x[1] => before[y] = Absent
  ELSE before[x] = Absent

KeepsOK(t) ==
  LET tk == task[t] IN
  /\ \A x \in Paths : before[x] # Absent => content[x] = before[x]
  /\ tk.step \in {"copy", "target"} => content = before
  /\ tk.step \in {"copy", "target", "attributes"} => tk.dst = tk.q
  /\ tk.step \in {"createDataset", "deleteDataset"} => tk.dst[2] = NoMember
  /\ tk.step \notin {"copy", "target"} =>
       /\ \/ WasNotThere(tk.q)
          \/ /\ tk.q[2] # NoMember /\ ~Grants(t, tk.q[1], "OLD")
             /\ tk.step \in {"attributes", "createMember", "openNew"} /\ tk.dst = tk.q
       /\ \/ tk.dst = tk.q
          \/ tk.dst[1] = tk.q[1] /\ tk.q[2] = NoMember

InOrderInv ==
  ~overlapped =>
    /\ OneAtATime /\ CatalogOK
    /\ \A t \in Tasks : task[t].op = "copy" /\ task[t].step # "idle" => KeepsOK(t)

\* The invariant holds initially.
LEMMA InOrderInit == Init => InOrderInv
<1> SUFFICES ASSUME Init PROVE InOrderInv
  OBVIOUS
<1>1. Idle.step = "idle"
  BY DEF Idle, Done
<1>2. \A t \in Tasks : task[t].step = "idle"
  BY <1>1 DEF Init
<1>3. ASSUME NEW x \in Paths, kind[x[1]] = "none" PROVE content[x] = Absent
  <2>1. content[x] \in Initial(x[1], x[2])
    BY DEF Init
  <2>2. Initial(x[1], x[2]) = {Absent}
    BY <1>3 DEF Initial
  <2> QED
    BY <2>1, <2>2
<1> QED
  BY <1>2, <1>3 DEF InOrderInv, OneAtATime, CatalogOK

\* A request that comes when no other is in progress.
LEMMA InOrderBegin ==
  ASSUME ServiceInv, InOrderInv, NEW t \in Tasks, Begin(t)
  PROVE  InOrderInv'
<1> SUFFICES ASSUME ~overlapped' PROVE InOrderInv'
  BY DEF InOrderInv
<1>1. ~overlapped /\ (\A u \in Tasks : task[u].step = "idle") /\ before' = content /\ UNCHANGED data
  BY DEF Begin, At
<1>2. /\ task'[t].step = task'[t].op /\ task'[t].step \in OpNames /\ task'[t].dst = task'[t].q
      /\ \A u \in Tasks \ {t} : task'[u] = task[u]
  BY BeginOK DEF StepOK, OnlyTask
<1>3. OneAtATime'
  BY <1>1, <1>2 DEF OneAtATime
<1>4. CatalogOK'
  BY <1>1, <1>2 DEF InOrderInv, CatalogOK, data, OpNames
<1>5. task'[t].op = "copy" => KeepsOK(t)'
  BY <1>1, <1>2 DEF KeepsOK, data
<1> QED
  BY <1>1, <1>2, <1>3, <1>4, <1>5 DEF InOrderInv

\* The steps of the request keep the catalog in order.
LEMMA CatalogStep ==
  ASSUME ServiceInv, OneAtATime, CatalogOK, NEW t \in Tasks, task[t].step # "idle",
         Read(t) \/ Update(t) \/ Delete(t) \/ Create(t) \/ Copy(t)
  PROVE  OneAtATime' /\ CatalogOK'
<1>0. TypeOK
  BY DEF ServiceInv
<1>1. \A u \in Tasks \ {t} : task'[u] = task[u] /\ task[u].step = "idle"
  BY ServiceStep DEF StepOK, OnlyTask, OneAtATime
<1>2. OneAtATime'
  BY <1>1 DEF OneAtATime
<1>3. ASSUME task'[t].step = "write" PROVE kind'[task'[t].p[1]] # "none"
  <2>1. openForUpdate(t)
    <3>1. updateAlloc(t) \/ getDatasetETag(t) \/ checkType(t) \/ openForUpdate(t) \/ sourceOpen(t)
      BY <1>3, BeforeWrites
    <3> USE DEF Steps, UpdateSteps, DeleteSteps
    <3>2. ~updateAlloc(t) /\ ~checkType(t)
      BY <1>0, <1>3, NextStep DEF updateAlloc, checkType
    <3>3. ~getDatasetETag(t)
      <4>1. task' # [task EXCEPT ![t].step = "type", ![t].read = FALSE]
        BY <1>0, <1>3 DEF TypeOK, TaskRecords
      <4> QED
        BY <1>0, <1>3, <4>1, NextStep DEF getDatasetETag
    <3>4. ~sourceOpen(t)
      <4>1. task' # [task EXCEPT ![t].step = "paste", ![t].text = content[task[t].src]]
        BY <1>0, <1>3 DEF TypeOK, TaskRecords
      <4> QED
        BY <1>0, <1>3, <4>1, NextStep DEF sourceOpen
    <3> QED
      BY <3>1, <3>2, <3>3, <3>4
  <2>2. Writable(t, task[t].p) /\ SameRequest(t, "write") /\ UNCHANGED kind
    BY <1>0, <1>3, <2>1, NextStep, GoesOn DEF openForUpdate, Steps, UpdateSteps
  <2> QED
    BY <2>2 DEF Writable, SameRequest
<1>4. ASSUME NEW x \in Paths, kind'[x[1]] = "none" PROVE content'[x] = Absent
  <2>1. CASE UNCHANGED data
    BY <1>4, <2>1 DEF data, CatalogOK
  <2>2. ASSUME UNCHANGED kind, NEW y \in Paths, NEW c, content' = [content EXCEPT ![y] = c],
               kind[y[1]] # "none" \/ c = Absent
        PROVE  content'[x] = Absent
    BY <1>0, <1>4, <2>2 DEF CatalogOK, TypeOK
  <2>3. CASE openForUpdate(t) \/ openNew(t) \/ paste(t)
    <3>1. task[t].p \in Paths /\ task[t].dst \in Paths /\ UNCHANGED kind
      BY <2>3 DEF openForUpdate, openNew, paste, At, ServiceInv, RequestOK
    <3>2. \A y : Writable(t, y) => kind[y[1]] # "none"
      BY DEF Writable
    <3> QED
      BY <2>1, <2>2, <2>3, <3>1, <3>2 DEF openForUpdate, openNew, paste, data
  <2>4. CASE writeRecords(t)
    <3>1. task[t].p \in Paths /\ kind[task[t].p[1]] # "none"
      BY <2>4 DEF writeRecords, At, ServiceInv, RequestOK, CatalogOK
    <3> QED
      BY <2>2, <2>4, <3>1 DEF writeRecords
  <2>5. CASE deleteMember(t)
    <3>1. task[t].dst \in Paths
      BY <2>5 DEF deleteMember, At, ServiceInv, RequestOK
    <3> QED
      BY <2>1, <2>2, <2>5, <3>1 DEF deleteMember, data
  <2>6. CASE deleteDataset(t)
    <3>1. task[t].dst[1] \in Datasets /\ x[1] \in Datasets
      BY <2>6 DEF deleteDataset, At, ServiceInv, RequestOK, Paths
    <3> QED
      BY <1>0, <1>4, <2>1, <2>6, <3>1 DEF deleteDataset, CatalogOK, TypeOK
  <2>7. CASE createDataset(t)
    <3>1. task[t].dst[1] \in Datasets /\ x[1] \in Datasets /\ <<task[t].dst[1], NoMember>> \in Paths
      BY <2>7 DEF createDataset, At, ServiceInv, RequestOK, Paths
    <3>2. ASSUME NEW k \in {"PS", "PO"}, NEW c, kind' = [kind EXCEPT ![task[t].dst[1]] = k],
                 content' = [content EXCEPT ![<<task[t].dst[1], NoMember>>] = c]
          PROVE  content'[x] = Absent
      BY <1>0, <1>4, <3>1, <3>2 DEF CatalogOK, TypeOK
    <3> QED
      BY <2>1, <2>7, <3>2 DEF createDataset
  <2> QED
    BY <2>1, <2>3, <2>4, <2>5, <2>6, <2>7
       DEF Read, readAlloc, respondWithDatasetInternal, free, Update, updateAlloc, getDatasetETag,
           checkType, Delete, getCSIType, deleteAlloc, deleteFree, Create, create, createMember,
           createFree, Copy, checkSource, checkTarget, setAttributes, nextMember, sourceAlloc,
           sourceOpen, sourceFree, copyFailed
<1> QED
  BY <1>1, <1>2, <1>3, <1>4 DEF CatalogOK

\* What a copy writes to was not there when it came,
LEMMA TargetIsNew ==
  ASSUME ServiceInv, NEW t \in Tasks, task[t].step # "idle", KeepsOK(t), WasNotThere(task[t].q),
         task[t].step \notin {"copy", "target"}
  PROVE  /\ before[task[t].dst] = Absent
         /\ task[t].dst[2] = NoMember => \A y \in Paths : y[1] = task[t].dst[1] => before[y] = Absent
<1>1. task[t].dst \in Paths /\ task[t].q \in Paths
  BY DEF ServiceInv, RequestOK
<1>2. CASE task[t].dst = task[t].q
  BY <1>1, <1>2 DEF WasNotThere
<1>3. CASE task[t].dst[1] = task[t].q[1] /\ task[t].q[2] = NoMember
  BY <1>1, <1>3 DEF WasNotThere
<1> QED
  BY <1>2, <1>3 DEF KeepsOK

\* which it goes on to be.
LEMMA GoesOnKeeping ==
  ASSUME NEW t \in Tasks, KeepsOK(t), WasNotThere(task[t].q), UNCHANGED before,
         task[t].step \notin {"copy", "target"},
         task'[t].q = task[t].q, task'[t].dst = task[t].dst,
         task'[t].step \notin {"copy", "target", "attributes"},
         task'[t].step \in {"createDataset", "deleteDataset"} => task[t].dst[2] = NoMember,
         \A x \in Paths : before[x] # Absent => content'[x] = content[x]
  PROVE  KeepsOK(t)'
<1>1. WasNotThere(task[t].q)'
  BY DEF WasNotThere
<1> QED
  BY <1>1 DEF KeepsOK

\* Nobody else allocates meanwhile.
LEMMA SameGrants ==
  ASSUME ServiceInv, NEW t \in Tasks, StepOK(t), task'[t].q = task[t].q
  PROVE  Grants(t, task[t].q[1], "OLD")' <=> Grants(t, task[t].q[1], "OLD")
<1>1. \A a \in allocated \cup allocated' :
        SpaceOf[a[1]] # SpaceOf[t] => (a \in allocated' <=> a \in allocated)
  <2> SUFFICES ASSUME NEW a \in allocated \cup allocated', SpaceOf[a[1]] # SpaceOf[t]
               PROVE  a \in allocated' <=> a \in allocated
    OBVIOUS
  <2>1. PICK u \in Tasks, d \in Datasets, disp \in {"SHR", "OLD"} : a = <<u, d, disp>>
    BY OthersKeep DEF ServiceInv, TypeOK, Allocations
  <2>2. u \in Tasks \ {t}
    BY <2>1
  <2> QED
    BY <2>1, <2>2, OthersKeep
<1> QED
  BY <1>1 DEF Grants

\* The steps of a copy up to the creation of its target,
LEMMA KeepsBefore ==
  ASSUME ServiceInv, OneAtATime, CatalogOK, NEW t \in Tasks, task[t].step # "idle", KeepsOK(t),
         UNCHANGED <<content, before>>, task'[t].step # "idle",
         checkSource(t) \/ checkTarget(t) \/ setAttributes(t) \/ createMember(t)
  PROVE  KeepsOK(t)'
<1>0. TypeOK /\ task[t].q \in Paths /\ task[t].q[1] \in Datasets
  BY DEF ServiceInv, RequestOK, Paths
<1>1. \A r \in {"none", "ok", "bad", "fail"} : ~Ends(t, r)
  BY <1>0, NextStep
<1>2. StepOK(t)
  BY ServiceStep DEF Copy, Create
<1>3. task'[t].q = task[t].q => (Grants(t, task[t].q[1], "OLD")' <=> Grants(t, task[t].q[1], "OLD"))
  BY <1>2, SameGrants
<1>4. CASE checkSource(t)
  <2>1. SameRequest(t, "target") /\ task[t].step = "copy"
    BY <1>0, <1>1, <1>4, GoesOn DEF checkSource, At, Steps, CopySteps
  <2> QED
    BY <2>1 DEF KeepsOK, SameRequest
<1>5. CASE checkTarget(t)
  <2>1. SameRequest(t, "attributes") /\ task[t].step = "target" /\ ~Exists(t, task[t].q)
    BY <1>0, <1>1, <1>5, GoesOn DEF checkTarget, At, Steps, CopySteps
  <2>2. content = before /\ task[t].dst = task[t].q
    BY <2>1 DEF KeepsOK
  <2>3. WasNotThere(task[t].q) \/ (task[t].q[2] # NoMember /\ ~Grants(t, task[t].q[1], "OLD"))
    <3>1. CASE task[t].q[2] = NoMember
      <4>1. kind[task[t].q[1]] = "none"
        BY <2>1, <3>1 DEF Exists, InCatalog
      <4> QED
        BY <2>2, <3>1, <4>1 DEF WasNotThere, CatalogOK
    <3>2. CASE task[t].q[2] # NoMember
      <4>1. content[task[t].q] = Absent \/ ~Grants(t, task[t].q[1], "SHR")
        BY <2>1, <3>2 DEF Exists, MemberExists, Readable
      <4>2. Grants(t, task[t].q[1], "OLD") => Grants(t, task[t].q[1], "SHR")
        BY DEF Grants
      <4> QED
        BY <2>2, <3>2, <4>1, <4>2 DEF WasNotThere
    <3> QED
      BY <3>1, <3>2
  <2>4. WasNotThere(task[t].q)' <=> WasNotThere(task[t].q)
    BY <2>1 DEF SameRequest, WasNotThere
  <2> QED
    BY <1>3, <2>1, <2>2, <2>3, <2>4 DEF KeepsOK, SameRequest
<1>6. CASE setAttributes(t)
  <2>1. /\ task'[t].step = createStep(t) /\ task'[t].q = task[t].q /\ task'[t].dst = task[t].dst
        /\ task[t].step = "attributes"
    BY <1>0, <1>1, <1>6, AttributesSet DEF setAttributes, At
  <2>2. task[t].dst = task[t].q
    BY <2>1 DEF KeepsOK
  <2>3. createStep(t) = IF task[t].q[2] = NoMember THEN "createDataset" ELSE "createMember"
    BY <2>2 DEF createStep
  <2>4. WasNotThere(task[t].q)' <=> WasNotThere(task[t].q)
    BY <2>1 DEF WasNotThere
  <2> QED
    BY <1>3, <2>1, <2>2, <2>3, <2>4 DEF KeepsOK
<1>7. CASE createMember(t)
  <2>1. SameRequest(t, "openNew") /\ task[t].step = "createMember"
    BY <1>0, <1>1, <1>7, GoesOn DEF createMember, At, Steps, CreateSteps
  <2>2. WasNotThere(task[t].q)' <=> WasNotThere(task[t].q)
    BY <2>1 DEF SameRequest, WasNotThere
  <2> QED
    BY <1>3, <2>1, <2>2 DEF KeepsOK, SameRequest
<1> QED
  BY <1>4, <1>5, <1>6, <1>7

\* the creation,
LEMMA KeepsCreating ==
  ASSUME ServiceInv, NEW t \in Tasks, task[t].step # "idle", task[t].op = "copy", KeepsOK(t),
         UNCHANGED before, task'[t].step # "idle", openNew(t) \/ createDataset(t) \/ createFree(t)
  PROVE  KeepsOK(t)'
<1>0. TypeOK /\ task[t].q \in Paths /\ task[t].q[1] \in Datasets /\ task[t].dst \in Paths
  BY DEF ServiceInv, RequestOK, Paths
<1>1. \A r \in {"none", "ok", "bad", "fail"} : ~Ends(t, r)
  BY <1>0, NextStep
<1>2. CASE openNew(t)
  <2>1. /\ task[t].step = "openNew" /\ Writable(t, task[t].dst) /\ Created(t)
        /\ content' = [content EXCEPT ![task[t].dst] = Empty]
    BY <1>1, <1>2 DEF openNew, At
  <2>2. WasNotThere(task[t].q)
    BY <2>1 DEF KeepsOK, Writable
  <2>3. before[task[t].dst] = Absent
    BY <2>1, <2>2, TargetIsNew
  <2>4. SameRequest(t, task'[t].step) /\ task'[t].step \in {"members", "sourceAlloc"}
    BY <2>1, CreatedGoes DEF CreateSteps
  <2>5. \A x \in Paths : before[x] # Absent => content'[x] = content[x]
    BY <1>0, <2>1, <2>3 DEF TypeOK
  <2> QED
    BY <2>1, <2>2, <2>4, <2>5, GoesOnKeeping DEF SameRequest
<1>3. CASE createDataset(t)
  <2>1. /\ task[t].step = "createDataset" /\ Goes(t, "createFree")
        /\ \E c : content' = [content EXCEPT ![<<task[t].dst[1], NoMember>>] = c]
    BY <1>1, <1>3 DEF createDataset, At
  <2>2. WasNotThere(task[t].q) /\ task[t].dst[2] = NoMember
    BY <2>1 DEF KeepsOK
  <2>3. \A y \in Paths : y[1] = task[t].dst[1] => before[y] = Absent
    BY <2>1, <2>2, TargetIsNew
  <2>4. SameRequest(t, "createFree")
    BY <1>0, <2>1, GoesOn DEF Steps, CreateSteps
  <2>5. \A x \in Paths : before[x] # Absent => content'[x] = content[x]
    BY <1>0, <2>1, <2>3 DEF TypeOK
  <2> QED
    BY <2>1, <2>2, <2>4, <2>5, GoesOnKeeping DEF SameRequest
<1>4. CASE createFree(t)
  <2>1. task[t].step = "createFree" /\ Created(t) /\ UNCHANGED content
    BY <1>1, <1>4 DEF createFree, At, data
  <2>2. WasNotThere(task[t].q)
    BY <2>1 DEF KeepsOK
  <2>3. SameRequest(t, task'[t].step) /\ task'[t].step \in {"members", "sourceAlloc"}
    BY <2>1, CreatedGoes DEF CreateSteps
  <2> QED
    BY <2>1, <2>2, <2>3, GoesOnKeeping DEF SameRequest
<1> QED
  BY <1>2, <1>3, <1>4

\* and those after it.
LEMMA KeepsCopying ==
  ASSUME ServiceInv, NEW t \in Tasks, task[t].step # "idle", KeepsOK(t),
         UNCHANGED before, task'[t].step # "idle",
         nextMember(t) \/ sourceAlloc(t) \/ sourceOpen(t) \/ paste(t) \/ sourceFree(t)
  PROVE  KeepsOK(t)'
<1>0. TypeOK /\ task[t].q \in Paths /\ task[t].q[1] \in Datasets /\ task[t].dst \in Paths
  BY DEF ServiceInv, RequestOK, Paths
<1>1. \A r \in {"none", "ok", "bad", "fail"} : ~Ends(t, r)
  BY <1>0, NextStep
<1>2. task[t].step \in {"members", "sourceAlloc", "sourceOpen", "paste", "sourceFree"}
  BY DEF nextMember, sourceAlloc, sourceOpen, paste, sourceFree, At
<1>3. WasNotThere(task[t].q)
  BY <1>2 DEF KeepsOK
<1>4. CASE nextMember(t)
  <2>1. /\ task'[t].step = "createMember" /\ task'[t].q = task[t].q
        /\ task'[t].dst[1] = task[t].q[1] /\ task[t].q[2] = NoMember /\ UNCHANGED content
    BY <1>1, <1>4, MemberChosen DEF nextMember, data
  <2>2. WasNotThere(task[t].q)'
    BY <1>3, <2>1 DEF WasNotThere
  <2> QED
    BY <2>1, <2>2 DEF KeepsOK
<1>5. CASE sourceAlloc(t)
  <2>1. SameRequest(t, "sourceOpen") \/ SameRequest(t, "delete")
    BY <1>0, <1>5, GoesOn DEF sourceAlloc, Steps, CopySteps, DeleteSteps
  <2>2. UNCHANGED content
    BY <1>5 DEF sourceAlloc, data
  <2> QED
    BY <1>2, <1>3, <2>1, <2>2, GoesOnKeeping DEF SameRequest
<1>6. CASE sourceOpen(t)
  <2>1. UNCHANGED content
    BY <1>6 DEF sourceOpen, data
  <2>2. CASE Goes(t, "delete")
    <3>1. SameRequest(t, "delete")
      BY <1>0, <2>2, GoesOn DEF Steps, DeleteSteps
    <3> QED
      BY <1>2, <1>3, <2>1, <3>1, GoesOnKeeping DEF SameRequest
  <2>3. CASE task' = [task EXCEPT ![t].step = "paste", ![t].text = content[task[t].src]]
    <3>1. task[t] \in TaskRecords
      BY <1>0 DEF TypeOK
    <3>2. task'[t] = [task[t] EXCEPT !.step = "paste", !.text = content[task[t].src]]
      BY <1>0, <2>3 DEF TypeOK
    <3>3. task'[t].step = "paste" /\ task'[t].q = task[t].q /\ task'[t].dst = task[t].dst
      BY <3>1, <3>2 DEF TaskRecords
    <3> QED
      BY <1>2, <1>3, <2>1, <3>3, GoesOnKeeping
  <2> QED
    BY <1>6, <2>2, <2>3 DEF sourceOpen
<1>7. CASE paste(t)
  <2>1. content' = content \/ \E c : content' = [content EXCEPT ![task[t].dst] = c]
    BY <1>7 DEF paste
  <2>2. before[task[t].dst] = Absent
    BY <1>2, <1>3, TargetIsNew
  <2>3. SameRequest(t, "sourceFree") \/ SameRequest(t, "delete")
    BY <1>0, <1>7, GoesOn DEF paste, Steps, CopySteps, DeleteSteps
  <2>4. \A x \in Paths : before[x] # Absent => content'[x] = content[x]
    BY <1>0, <2>1, <2>2 DEF TypeOK
  <2> QED
    BY <1>2, <1>3, <2>3, <2>4, GoesOnKeeping DEF SameRequest
<1>8. CASE sourceFree(t)
  <2>1. SameRequest(t, "members") /\ UNCHANGED content
    BY <1>0, <1>1, <1>8, GoesOn DEF sourceFree, data, Steps, CopySteps
  <2> QED
    BY <1>2, <1>3, <2>1, GoesOnKeeping DEF SameRequest
<1> QED
  BY <1>4, <1>5, <1>6, <1>7, <1>8

\* The deletion of the target of a copy that failed.
LEMMA KeepsDeleting ==
  ASSUME ServiceInv, NEW t \in Tasks, task[t].step # "idle", KeepsOK(t), task[t].op = "copy",
         UNCHANGED before, Delete(t)
  PROVE  KeepsOK(t)'
<1>0. TypeOK /\ task[t].q \in Paths /\ task[t].q[1] \in Datasets /\ task[t].dst \in Paths
  BY DEF ServiceInv, RequestOK, Paths
<1>1. task[t].step \in DeleteSteps
  BY DEF Delete, getCSIType, deleteAlloc, deleteDataset, deleteMember, deleteFree, At, DeleteSteps
<1>2. WasNotThere(task[t].q)
  BY <1>1 DEF KeepsOK, DeleteSteps
<1>3. /\ before[task[t].dst] = Absent
      /\ task[t].dst[2] = NoMember => \A y \in Paths : y[1] = task[t].dst[1] => before[y] = Absent
  BY <1>1, <1>2, TargetIsNew DEF DeleteSteps
<1>4. ASSUME NEW step \in {"copyFailed", "deleteAlloc", "deleteMember", "deleteFree"} \cup
                          (IF task[t].dst[2] = NoMember THEN {"deleteDataset"} ELSE {}),
             SameRequest(t, step), \A x \in Paths : before[x] # Absent => content'[x] = content[x]
      PROVE  KeepsOK(t)'
  BY <1>1, <1>2, <1>4, GoesOnKeeping DEF SameRequest, DeleteSteps
<1>5. \A r : Deleted(t, r) => SameRequest(t, "copyFailed")
  BY <1>0, GoesOn DEF Deleted, Steps, CopySteps
<1>6. \A step \in DeleteSteps : Goes(t, step) => SameRequest(t, step)
  BY <1>0, GoesOn DEF Steps
<1>7. \A r \in {"ok", "fail"} : Reply(t, r, "deleteFree") => SameRequest(t, "deleteFree")
  BY <1>0, RepliesAndGoesOn DEF Steps, DeleteSteps
<1>8. CASE getCSIType(t)
  BY <1>4, <1>5, <1>6, <1>8 DEF getCSIType, data, DeleteSteps
<1>9. CASE deleteAlloc(t)
  BY <1>4, <1>5, <1>6, <1>9 DEF deleteAlloc, data, DeleteSteps
<1>10. CASE deleteDataset(t)
  <2>1. task[t].dst[2] = NoMember
    BY <1>10 DEF deleteDataset, At, KeepsOK
  <2>2. \A x \in Paths : before[x] # Absent => content'[x] = content[x]
    BY <1>0, <1>3, <1>10, <2>1 DEF deleteDataset, data, TypeOK
  <2> QED
    BY <1>4, <1>5, <1>10, <2>2 DEF deleteDataset
<1>11. CASE deleteMember(t)
  <2>1. \A x \in Paths : before[x] # Absent => content'[x] = content[x]
    BY <1>0, <1>3, <1>11 DEF deleteMember, TypeOK
  <2> QED
    BY <1>4, <1>5, <1>7, <1>11, <2>1 DEF deleteMember
<1>12. CASE deleteFree(t)
  BY <1>4, <1>5, <1>12 DEF deleteFree, data
<1> QED
  BY <1>8, <1>9, <1>10, <1>11, <1>12 DEF Delete

\* A copy neither reads for a client nor updates nor creates on request.
LEMMA ReadsOrUpdates ==
  ASSUME ServiceInv, NEW t \in Tasks, task[t].op = "copy"
  PROVE  ~Read(t) /\ ~Update(t) /\ ~create(t)
BY DEF ServiceInv, RequestOK, UpdateSteps, Read, readAlloc, respondWithDatasetInternal, free, Update,
       updateAlloc, getDatasetETag, checkType, openForUpdate, writeRecords, create, At

\* A request stays what it is.
LEMMA OpStays ==
  ASSUME ServiceInv, NEW t \in Tasks, Read(t) \/ Update(t) \/ Delete(t) \/ Create(t) \/ Copy(t)
  PROVE  task'[t].op = task[t].op
<1>0. TypeOK /\ task[t].reply \in {"none", "ok", "bad", "fail"} /\ task[t] \in TaskRecords
  BY DEF ServiceInv, TypeOK, TaskRecords
<1>1. \A step \in Steps : Goes(t, step) => task'[t].op = task[t].op
  BY <1>0, GoesOn DEF SameRequest
<1>2. \A step \in Steps, r \in {"none", "ok", "bad", "fail"} : Reply(t, r, step) => task'[t].op = task[t].op
  BY <1>0, RepliesAndGoesOn DEF SameRequest
<1>3. \A r : Ends(t, r) => task'[t].op = task[t].op
  BY <1>0 DEF Ends, Done, TypeOK
<1> USE DEF Steps, UpdateSteps, DeleteSteps, CreateSteps, CopySteps
<1>4. CASE Read(t)
  BY <1>1, <1>2, <1>3, <1>4 DEF Read, readAlloc, respondWithDatasetInternal, free
<1>5. CASE Update(t)
  <2>1. ASSUME task' = [task EXCEPT ![t].step = "type", ![t].read = FALSE] PROVE task'[t].op = task[t].op
    BY <1>0, <2>1 DEF TypeOK, TaskRecords
  <2> QED
    BY <1>0, <1>1, <1>2, <1>3, <1>5, <2>1
       DEF Update, updateAlloc, getDatasetETag, checkType, openForUpdate, writeRecords
<1>6. CASE Delete(t)
  BY <1>0, <1>1, <1>2, <1>3, <1>6 DEF Delete, Deleted, getCSIType, deleteAlloc, deleteDataset,
      deleteMember, deleteFree
<1>7. CASE Create(t)
  BY <1>1, <1>2, <1>3, <1>7 DEF Create, Created, createStep, create, createMember, openNew, createDataset,
      createFree
<1>8. CASE setAttributes(t) \/ nextMember(t)
  BY <1>0, <1>3, <1>8, AttributesSet, MemberChosen
<1>9. CASE sourceOpen(t)
  <2>1. ASSUME task' = [task EXCEPT ![t].step = "paste", ![t].text = content[task[t].src]]
        PROVE  task'[t].op = task[t].op
    BY <1>0, <2>1 DEF TypeOK, TaskRecords
  <2> QED
    BY <1>1, <1>9, <2>1 DEF sourceOpen
<1>10. CASE checkSource(t) \/ checkTarget(t) \/ sourceAlloc(t) \/ paste(t) \/ sourceFree(t) \/ copyFailed(t)
  BY <1>1, <1>3, <1>10 DEF checkSource, checkTarget, sourceAlloc, paste, sourceFree, copyFailed
<1> QED
  BY <1>4, <1>5, <1>6, <1>7, <1>8, <1>9, <1>10 DEF Copy

\* Every step of a request preserves it.
LEMMA InOrderStep ==
  ASSUME ServiceInv, InOrderInv, NEW t \in Tasks, Read(t) \/ Update(t) \/ Delete(t) \/ Create(t) \/ Copy(t)
  PROVE  InOrderInv'
<1>1. task[t].step # "idle"
  BY DEF Read, readAlloc, respondWithDatasetInternal, free, Update, updateAlloc, getDatasetETag, checkType,
         openForUpdate, writeRecords, Delete, getCSIType, deleteAlloc, deleteDataset, deleteMember,
         deleteFree, Create, create, createMember, openNew, createDataset, createFree, Copy,
         checkSource, checkTarget, setAttributes, nextMember, sourceAlloc, sourceOpen, paste, sourceFree,
         copyFailed, At
<1>2. UNCHANGED <<before, overlapped>>
  BY <1>1, ServiceCounts DEF count, Begin, At
<1> SUFFICES ASSUME ~overlapped PROVE InOrderInv'
  BY <1>2 DEF InOrderInv
<1>3. OneAtATime /\ CatalogOK /\ (task[t].op = "copy" => KeepsOK(t))
  BY <1>1 DEF InOrderInv
<1>4. OneAtATime' /\ CatalogOK'
  BY <1>1, <1>3, CatalogStep
<1>5. \A u \in Tasks \ {t} : task'[u] = task[u] /\ task[u].step = "idle"
  BY <1>1, <1>3, ServiceStep DEF StepOK, OnlyTask, OneAtATime
<1>6. ASSUME task'[t].op = "copy", task'[t].step # "idle" PROVE KeepsOK(t)'
  <2>1. task[t].op = "copy"
    BY <1>6, OpStays
  <2>2. ~Read(t) /\ ~Update(t) /\ ~create(t)
    BY <2>1, ReadsOrUpdates
  <2>3. CASE Delete(t)
    BY <1>1, <1>2, <1>3, <2>1, <2>3, KeepsDeleting
  <2>4. CASE openNew(t) \/ createDataset(t) \/ createFree(t)
    BY <1>1, <1>2, <1>3, <1>6, <2>1, <2>4, KeepsCreating
  <2>5. CASE checkSource(t) \/ checkTarget(t) \/ setAttributes(t) \/ createMember(t)
    <3>1. UNCHANGED content
      BY <2>5 DEF checkSource, checkTarget, setAttributes, createMember, data
    <3> QED
      BY <1>1, <1>2, <1>3, <1>6, <2>1, <2>5, <3>1, KeepsBefore
  <2>6. CASE copyFailed(t)
    <3>1. TypeOK
      BY DEF ServiceInv
    <3> QED
      BY <1>6, <2>6, <3>1, NextStep DEF copyFailed
  <2> QED
    BY <1>1, <1>2, <1>3, <1>6, <2>1, <2>2, <2>3, <2>4, <2>5, <2>6, KeepsCopying DEF Create, Copy
<1> QED
  BY <1>2, <1>4, <1>5, <1>6 DEF InOrderInv

\* As long as requests come one after the other, a copy changes and deletes
\* nothing that was there before it, however it fails.
THEOREM CopiesKeepExisting == Spec => []CopyKeepsExisting
<1>1. ServiceInv /\ InOrderInv /\ [Next]_vars => (ServiceInv /\ InOrderInv)'
  <2> SUFFICES ASSUME ServiceInv, InOrderInv, [Next]_vars PROVE (ServiceInv /\ InOrderInv)'
    OBVIOUS
  <2>1. CASE UNCHANGED vars
    BY <2>1, ServiceNext
       DEF vars, data, count, InOrderInv, OneAtATime, CatalogOK, KeepsOK, WasNotThere, Grants
  <2> QED
    BY <2>1, ServiceStep, InOrderBegin, InOrderStep DEF Next
<1>2. InOrderInv => CopyKeepsExisting
  BY DEF InOrderInv, KeepsOK, CopyKeepsExisting, At
<1> QED
  BY <1>1, <1>2, ServiceInit, InOrderInit, PTL DEF Spec
=============================================================================

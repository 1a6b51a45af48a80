----------------------------- MODULE TaskBoard -----------------------------
(***************************************************************************)
(* The task board of one session as SqliteSessionStore keeps it: a table   *)
(* of tasks and a table of edges, each call one transaction.  It is the    *)
(* specification the in-memory store is compared with (MemoryTasks).       *)
(***************************************************************************)
EXTENDS Integers

CONSTANTS
  MaxTasks,  \* bound: tasks created
  Owners,    \* workers that claim tasks
  Patches,   \* the patches given to update_task
  None       \* no task, no owner, a field a patch leaves alone

Ids      == 1..MaxTasks
Statuses == {"pending", "in_progress", "completed"}

AllPatches ==
  [status : Statuses \cup {"deleted", None}, owner : Owners \cup {None},
   addBlocks : SUBSET Ids, removeBlocks : SUBSET Ids,
   addBlockedBy : SUBSET Ids, removeBlockedBy : SUBSET Ids]

VARIABLES
  tasks,   \* id -> row of the table, or None
  edges,   \* <<from, to>>: from blocks to; neither need exist
  next,    \* the session's counter
  answer   \* what the last call returned

vars == <<tasks, edges, next, answer>>

Init ==
  /\ tasks = [t \in Ids |-> None]
  /\ edges = {}
  /\ next = 1
  /\ answer = [task |-> None, ids |-> {}]

Blockers(E, t) == {b \in Ids : <<b, t>> \in E}

(* A task as a caller sees it, in a board with rows T and edges E, but for *)
(* its list of the tasks it blocks, which claims and readiness never read. *)
View(T, E, t) ==
  IF T[t] = None THEN None
  ELSE [status |-> T[t].status, owner |-> T[t].owner, blockedBy |-> Blockers(E, t)]

AnswerTask(t)  == answer' = [task |-> View(tasks', edges', t), ids |-> {}]
AnswerIds(S)   == answer' = [task |-> None, ids |-> S]
NotFound       == AnswerIds({})

---------------------------------------------------------------------------
Create ==
  /\ next \in Ids
  /\ tasks' = [tasks EXCEPT ![next] = [status |-> "pending", owner |-> None]]
  /\ next' = next + 1
  /\ AnswerIds({next})
  /\ UNCHANGED edges

Get(t) == UNCHANGED <<tasks, edges, next>> /\ AnswerTask(t)

Delete(t) ==
  /\ tasks' = [tasks EXCEPT ![t] = None]
  /\ edges' = {e \in edges : e[1] # t /\ e[2] # t}
  /\ NotFound
  /\ UNCHANGED next

Patched(r, p) ==
  [status |-> IF p.status = None THEN r.status ELSE p.status,
   owner  |-> IF p.owner = None THEN r.owner ELSE p.owner]

(* Edges are taken away first, then added. *)
PatchedEdges(t, p) ==
  (edges \ (({t} \X p.removeBlocks) \cup (p.removeBlockedBy \X {t})))
    \cup ({t} \X p.addBlocks) \cup (p.addBlockedBy \X {t})

Update(t, p) ==
  /\ tasks[t] # None
  /\ \/ p.status = "deleted" /\ Delete(t)
     \/ /\ p.status # "deleted"
        /\ tasks' = [tasks EXCEPT ![t] = Patched(tasks[t], p)]
        /\ edges' = PatchedEdges(t, p)
        /\ AnswerTask(t)
        /\ UNCHANGED next

Free(r) == r # None /\ r.owner = None /\ r.status = "pending"

Claim(t, w) ==
  /\ UNCHANGED <<edges, next>>
  /\ IF Free(tasks[t])
       THEN tasks' = [tasks EXCEPT ![t].owner = w] /\ AnswerTask(t)
       ELSE tasks' = tasks /\ NotFound

Completed(T, b) == T[b] # None /\ T[b].status = "completed"

IsReady(t) == Free(tasks[t]) /\ \A b \in Blockers(edges, t) : Completed(tasks, b)

Ready == AnswerIds({t \in Ids : IsReady(t)}) /\ UNCHANGED <<tasks, edges, next>>

(* A completed task is not released, whoever asks. *)
Release(t) ==
  /\ tasks' = IF tasks[t] # None /\ tasks[t].status # "completed"
                THEN [tasks EXCEPT ![t] = [status |-> "pending", owner |-> None]]
                ELSE tasks
  /\ UNCHANGED <<edges, next>>
  /\ AnswerTask(t)

UpdateMissing(t) == tasks[t] = None /\ NotFound /\ UNCHANGED <<tasks, edges, next>>

Next ==
  \/ Create
  \/ Ready
  \/ \E t \in Ids :
       \/ Get(t) \/ UpdateMissing(t) \/ Release(t)
       \/ \E p \in Patches : Update(t, p)
       \/ \E w \in Owners : Claim(t, w)

Spec == Init /\ [][Next]_vars

=============================================================================

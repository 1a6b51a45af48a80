---------------------------- MODULE MemoryTasks ----------------------------
(***************************************************************************)
(* The task board of InMemorySessionStore: every task keeps its own lists  *)
(* of the tasks it blocks and is blocked by.  No call awaits, so each is   *)
(* one step.  For patches that name dependencies by their blocked side     *)
(* alone, it implements TaskBoard.                                         *)
(***************************************************************************)
EXTENDS Integers

CONSTANTS MaxTasks, Owners, Patches, None

VARIABLES
  tasks,   \* id -> Task, or None
  next,    \* the session's counter
  answer   \* what the last call returned

vars == <<tasks, next, answer>>

Ids == 1..MaxTasks
Statuses == {"pending", "in_progress", "completed"}

(* The tables that the callers of a store with tasks T see. *)
RowsOf(T) ==
  [t \in Ids |-> IF T[t] = None THEN None
                 ELSE [status |-> T[t].status, owner |-> T[t].owner]]
EdgesOf(T) ==
  {e \in Ids \X Ids : T[e[2]] # None /\ e[1] \in T[e[2]].blockedBy}

Board == INSTANCE TaskBoard WITH tasks <- RowsOf(tasks), edges <- EdgesOf(tasks)

Tasks == [status : Statuses, owner : Owners \cup {None},
          blocks : SUBSET Ids, blockedBy : SUBSET Ids]

ASSUME ConstantsAssumption ==
  /\ MaxTasks \in Nat
  /\ Patches \subseteq Board!AllPatches
  /\ None \notin Owners /\ None \notin Statuses \cup {"deleted"}
  /\ None \notin [status : Statuses, owner : Owners \cup {None}]
  /\ None \notin Tasks

Init ==
  /\ tasks = [t \in Ids |-> None]
  /\ next = 1
  /\ answer = [task |-> None, ids |-> {}]

View(r) ==
  IF r = None THEN None
  ELSE [status |-> r.status, owner |-> r.owner, blockedBy |-> r.blockedBy]

AnswerTask(t) == answer' = [task |-> View(tasks'[t]), ids |-> {}]
AnswerIds(S)  == answer' = [task |-> None, ids |-> S]
NotFound      == AnswerIds({})

---------------------------------------------------------------------------
Create ==
  /\ next \in Ids
  /\ tasks' = [tasks EXCEPT ![next] =
                 [status |-> "pending", owner |-> None, blocks |-> {}, blockedBy |-> {}]]
  /\ next' = next + 1
  /\ AnswerIds({next})

Get(t) == UNCHANGED <<tasks, next>> /\ AnswerTask(t)

(* Mutant: a deleted task stays in the lists of the tasks it blocks. *)
WithoutBlocked(r, t) == IF r = None THEN None ELSE [r EXCEPT !.blocks = @ \ {t}]

Without(r, t) ==
  IF r = None THEN None
  ELSE [r EXCEPT !.blocks = @ \ {t}, !.blockedBy = @ \ {t}]

Delete(t) ==
  /\ tasks' = [u \in Ids |-> IF u = t THEN None ELSE Without(tasks[u], t)]
  /\ NotFound
  /\ UNCHANGED next

(* Each list is appended to first, then filtered. *)
Patched(r, p) ==
  [status    |-> IF p.status = None THEN r.status ELSE p.status,
   owner     |-> IF p.owner = None THEN r.owner ELSE p.owner,
   blocks    |-> (r.blocks \cup p.addBlocks) \ p.removeBlocks,
   blockedBy |-> (r.blockedBy \cup p.addBlockedBy) \ p.removeBlockedBy]

Update(t, p) ==
  /\ tasks[t] # None
  /\ \/ p.status = "deleted" /\ Delete(t)
     \/ /\ p.status # "deleted"
        /\ tasks' = [tasks EXCEPT ![t] = Patched(tasks[t], p)]
        /\ AnswerTask(t)
        /\ UNCHANGED next

Free(r) == r # None /\ r.owner = None /\ r.status = "pending"

Claim(t, w) ==
  /\ IF Free(tasks[t])
       THEN tasks' = [tasks EXCEPT ![t].owner = w] /\ AnswerTask(t)
       ELSE tasks' = tasks /\ NotFound
  /\ UNCHANGED next

Completed(b) == tasks[b] # None /\ tasks[b].status = "completed"

IsReady(t) == Free(tasks[t]) /\ \A b \in tasks[t].blockedBy : Completed(b)

Ready == AnswerIds({t \in Ids : IsReady(t)}) /\ UNCHANGED <<tasks, next>>

Released(r) ==
  IF r # None /\ r.status # "completed"
    THEN [r EXCEPT !.owner = None, !.status = "pending"] ELSE r

Release(t) ==
  /\ tasks' = [tasks EXCEPT ![t] = Released(tasks[t])]
  /\ AnswerTask(t)
  /\ UNCHANGED next

UpdateMissing(t) == tasks[t] = None /\ NotFound /\ UNCHANGED <<tasks, next>>

Next ==
  \/ Create
  \/ Ready
  \/ \E t \in Ids :
       \/ Get(t) \/ UpdateMissing(t) \/ Release(t)
       \/ \E p \in Patches : Update(t, p)
       \/ \E w \in Owners : Claim(t, w)

Spec == Init /\ [][Next]_vars

---------------------------------------------------------------------------
(* Types; every task in the store has an id the counter handed out.         *)
TypeOK ==
  /\ tasks \in [Ids -> Tasks \cup {None}]
  /\ next \in 1..(MaxTasks + 1)
  /\ \A t \in Ids : tasks[t] # None => t < next

(* A patch that names dependencies by the blocked task, each of them once.  *)
Aligned(p) ==
  /\ p.addBlocks = {} /\ p.removeBlocks = {}
  /\ p.addBlockedBy \cap p.removeBlockedBy = {}

(* Callers who look at ids, statuses, owners and blocked_by cannot tell this *)
(* store from the SQLite store: every call returns what the board returns    *)
(* and leaves the state the board would be in.                               *)
BoardSpec == Board!Spec
=============================================================================

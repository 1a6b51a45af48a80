------------------------------- MODULE Stores -------------------------------
(***************************************************************************)
(* Processes that share one database of sessions and runs (Postgres at     *)
(* READ COMMITTED, or one SQLite file that each of them opens).  A call    *)
(* first reads, then writes: from its first write a transaction holds the  *)
(* rows, and whoever wants them waits for its commit, so write and commit  *)
(* are one step; what it read before may be stale by then.  A call that    *)
(* fails has written nothing.                                              *)
(***************************************************************************)
EXTENDS Naturals, Sequences

CONSTANTS
  Clients,   \* processes, each with one call at a time
  MaxRows,   \* bound on the rows of a log, and on the tasks
  Absent     \* no row, no owner, no call

TaskIds == 1..MaxRows

ASSUME StoresAssumption ==
  /\ MaxRows \in Nat /\ Absent \notin Clients
  /\ Absent \notin [status : {"pending", "in_progress", "completed"}, owner : Clients \cup {Absent}]

VARIABLES
  table,     \* what they contend for: "messages", "run_events" or "tasks"
  log,       \* rows of messages or run_events in order of seq: the writer
  row,       \* tasks: id -> [status, owner], or Absent
  counter,   \* task_counters.next_id
  call,      \* client -> the call in progress and what it has read, or Absent
  acked,     \* appends acknowledged: <<seq, client>>
  holders,   \* task -> clients told that they claimed it, and nobody since
             \* released, reassigned or deleted it
  undone     \* a task that had been completed is pending again

storeVars == <<table, log, row, counter, call, acked, holders, undone>>

StoresInit ==
  /\ table \in {"messages", "run_events", "tasks"}
  /\ log = <<>> /\ acked = {}
  /\ row = [t \in TaskIds |-> Absent] /\ counter = 1
  /\ holders = [t \in TaskIds |-> {}] /\ undone = FALSE
  /\ call = [c \in Clients |-> Absent]

Begin(c, op, arg, saw) ==
  /\ call[c] = Absent
  /\ call' = [call EXCEPT ![c] = [op |-> op, arg |-> arg, saw |-> saw]]
  /\ UNCHANGED <<table, log, row, counter, acked, holders, undone>>

InCall(c, op) == IF call[c] = Absent THEN FALSE ELSE call[c].op = op
Return(c) == call' = [call EXCEPT ![c] = Absent]

-----------------------------------------------------------------------------
(* append_messages and _append_event: max(seq), then the rows after it.    *)
AppendMessages(c, n) ==
  table = "messages" /\ Len(log) + n <= MaxRows /\ Begin(c, "append", n, Len(log))
AppendEvent(c) ==
  table = "run_events" /\ Len(log) + 1 <= MaxRows /\ Begin(c, "append", 1, Len(log))

(* Mutant: nothing checks the seq.                                         *)
NeverTaken(saw) == FALSE

(* The primary key refuses a seq that another process has taken meanwhile: *)
(* the call raises and its transaction is rolled back.                     *)
Taken(saw) == Len(log) > saw

RowsInserted(c) ==
  /\ InCall(c, "append")
  /\ LET n == call[c].arg  saw == call[c].saw IN
     IF Taken(saw) THEN UNCHANGED <<log, acked>>
     ELSE /\ log' = log \o [i \in 1..n |-> c]
          /\ acked' = acked \cup {<<saw + i, c>> : i \in 1..n}
  /\ Return(c)
  /\ UNCHANGED <<table, row, counter, holders, undone>>

(* create_task: the counter, then a row with that id.  The primary key     *)
(* refuses an id that is there; one that was deleted meanwhile comes back, *)
(* and the counter with it.                                                *)
CreateTask(c) == table = "tasks" /\ counter \in TaskIds /\ Begin(c, "create", Absent, counter)
TaskCreated(c) ==
  /\ InCall(c, "create")
  /\ IF row[call[c].saw] # Absent THEN UNCHANGED <<row, counter>>
     ELSE /\ row' = [row EXCEPT ![call[c].saw] = [status |-> "pending", owner |-> Absent]]
          /\ counter' = call[c].saw + 1
  /\ Return(c)
  /\ UNCHANGED <<table, log, acked, holders, undone>>

(* update_task: gives the task a status, and perhaps an owner, whatever    *)
(* the row has become since it was read.                                   *)
UpdateTask(c, t, s) == row[t] # Absent /\ Begin(c, "update", [task |-> t, status |-> s], row[t])
TaskUpdated(c) ==
  /\ InCall(c, "update")
  /\ LET t == call[c].arg.task IN
     \E w \in {c, Absent} :
       IF row[t] = Absent THEN UNCHANGED <<row, holders>>
       ELSE /\ row' = [row EXCEPT ![t] = [status |-> call[c].arg.status,
                                          owner |-> IF w = Absent THEN @.owner ELSE w]]
            /\ holders' = IF w = Absent THEN holders ELSE [holders EXCEPT ![t] = {}]
  /\ Return(c)
  /\ UNCHANGED <<table, log, counter, acked, undone>>

DeleteTask(c, t) ==
  /\ row[t] # Absent /\ call[c] = Absent
  /\ row' = [row EXCEPT ![t] = Absent]
  /\ holders' = [holders EXCEPT ![t] = {}]
  /\ UNCHANGED <<table, log, counter, call, acked, undone>>

(* Mutant: the UPDATE asks for the status alone.                           *)
ClaimablePending(t) == IF row[t] = Absent THEN FALSE ELSE row[t].status = "pending"

(* claim_task: one conditional UPDATE, which looks at the row again after  *)
(* it has waited for it.                                                   *)
Claimable(t) ==
  IF row[t] = Absent THEN FALSE ELSE row[t].status = "pending" /\ row[t].owner = Absent

ClaimTask(c, t) ==
  /\ Claimable(t) /\ call[c] = Absent
  /\ row' = [row EXCEPT ![t].owner = c]
  /\ holders' = [holders EXCEPT ![t] = @ \cup {c}]
  /\ UNCHANGED <<table, log, counter, call, acked, undone>>

(* release_task: a finished task is not resurrected, says the read; the    *)
(* write does not ask again.                                               *)
ReleaseTask(c, t) ==
  /\ IF row[t] = Absent THEN FALSE ELSE row[t].status # "completed"
  /\ Begin(c, "release", t, row[t])
TaskReleased(c) ==
  /\ InCall(c, "release")
  /\ LET t == call[c].arg IN
     IF row[t] = Absent THEN UNCHANGED <<row, holders, undone>>
     ELSE /\ row' = [row EXCEPT ![t] = [status |-> "pending", owner |-> Absent]]
          /\ holders' = [holders EXCEPT ![t] = {}]
          /\ undone' = (undone \/ row[t].status = "completed")
  /\ Return(c)
  /\ UNCHANGED <<table, log, counter, acked>>

(* The process dies, or the connection is lost, before the commit.         *)
CallFails(c) ==
  /\ call[c] # Absent /\ Return(c)
  /\ UNCHANGED <<table, log, row, counter, acked, holders, undone>>

StoresNext == \E c \in Clients :
  \/ \E n \in 1..2 : AppendMessages(c, n)
  \/ AppendEvent(c) \/ RowsInserted(c) \/ CreateTask(c) \/ TaskCreated(c)
  \/ TaskUpdated(c) \/ TaskReleased(c) \/ CallFails(c)
  \/ \E t \in TaskIds : \/ \E s \in {"in_progress", "completed"} : UpdateTask(c, t, s)
                        \/ DeleteTask(c, t) \/ ClaimTask(c, t) \/ ReleaseTask(c, t)

StoresSpec == StoresInit /\ [][StoresNext]_storeVars

-----------------------------------------------------------------------------
(* Two processes that append at once do not overwrite one another: a       *)
(* message or an event whose append returned is at the seq it was given,   *)
(* and nothing else was ever acknowledged there.                           *)
AcknowledgedRowsStay == \A a \in acked : a[1] <= Len(log) /\ log[a[1]] = a[2]

(* Only one concurrent claimer wins: a process that was told it has a task *)
(* is its owner for as long as nobody released, reassigned or deleted it.  *)
OneClaimer ==
  \A t \in TaskIds : \A c \in holders[t] : row[t] # Absent /\ row[t].owner = c

(* The id that the counter holds for the next task is not in use.          *)
NextIdIsFree == counter \in TaskIds => row[counter] = Absent

(* release_task does not "resurrect a finished task".                      *)
FinishedStaysFinished == ~undone
=============================================================================

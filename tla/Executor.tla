------------------------------ MODULE Executor ------------------------------
(***************************************************************************)
(* SqliteExecutor over run_blocking: operations on one SQLite connection,  *)
(* each on a daemon thread of its own, one at a time under a lock.  A      *)
(* semaphore of the event loop bounds the operations in progress.  The     *)
(* coroutine that awaits an operation may be cancelled; its thread goes    *)
(* on.  close runs on the event loop's thread and waits for the lock.      *)
(***************************************************************************)
EXTENDS Naturals, FiniteSets

CONSTANTS
  Ops,   \* calls of run
  Cap    \* _MAX_CONCURRENCY

ASSUME ExecutorAssumption == "free" \notin Ops

VARIABLES
  caller,   \* the coroutine of each call
  thread,   \* its thread
  lock,     \* who holds _lock, or "free"
  conn,     \* _conn: "none", "open"; "half": in a transaction left open
  closed,   \* _closed
  closing   \* where close stands

executorVars == <<caller, thread, lock, conn, closed, closing>>

ExecutorInit ==
  /\ caller = [o \in Ops |-> "none"]
  /\ thread = [o \in Ops |-> "none"]
  /\ lock = "free"
  /\ conn = "none"
  /\ closed = FALSE
  /\ closing = "no"

LoopFree == closing # "waiting"
InSemaphore == {o \in Ops : caller[o] = "awaiting"}

(* run: the first look at _closed.                                         *)
Run(o) ==
  /\ LoopFree /\ caller[o] = "none"
  /\ caller' = [caller EXCEPT ![o] = IF closed THEN "refused" ELSE "queued"]
  /\ UNCHANGED <<thread, lock, conn, closed, closing>>

(* run_blocking: a place in the semaphore, then a thread.                  *)
StartThread(o) ==
  /\ LoopFree /\ caller[o] = "queued" /\ Cardinality(InSemaphore) < Cap
  /\ caller' = [caller EXCEPT ![o] = "awaiting"]
  /\ thread' = [thread EXCEPT ![o] = "started"]
  /\ UNCHANGED <<lock, conn, closed, closing>>

(* The awaiting coroutine is cancelled: it leaves the semaphore.           *)
CancelCaller(o) ==
  /\ LoopFree /\ caller[o] \in {"queued", "awaiting"}
  /\ caller' = [caller EXCEPT ![o] = "cancelled"]
  /\ UNCHANGED <<thread, lock, conn, closed, closing>>

(* Mutant: _closed is not looked at again under the lock.                  *)
EnterAnyway(o) ==
  /\ thread[o] = "started" /\ lock = "free"
  /\ lock' = o
  /\ thread' = [thread EXCEPT ![o] = "working"]
  /\ conn' = IF conn = "none" THEN "open" ELSE conn
  /\ UNCHANGED <<caller, closed, closing>>

(* _locked_call takes the lock, looks again, and connects if need be.      *)
Enter(o) ==
  /\ thread[o] = "started" /\ lock = "free"
  /\ IF closed
     THEN /\ thread' = [thread EXCEPT ![o] = "error"]
          /\ UNCHANGED <<lock, conn>>
     ELSE /\ lock' = o
          /\ thread' = [thread EXCEPT ![o] = "working"]
          /\ conn' = IF conn = "none" THEN "open" ELSE conn
  /\ UNCHANGED <<caller, closed, closing>>

Leave(o, result) ==
  /\ thread' = [thread EXCEPT ![o] = result]
  /\ lock' = "free"
  /\ UNCHANGED <<caller, closed, closing>>

(* fn commits, or connecting or fn raises after it began a transaction.    *)
Succeed(o) ==
  /\ thread[o] = "working"
  /\ Leave(o, "value")
  /\ UNCHANGED conn

Raise(o) ==
  /\ thread[o] = "working"
  /\ Leave(o, "error")
  /\ conn' = "open"

(* init fails: the new connection is closed and not kept.                  *)
ConnectFails(o) ==
  /\ thread[o] = "started" /\ lock = "free" /\ ~closed /\ conn = "none"
  /\ thread' = [thread EXCEPT ![o] = "error"]
  /\ UNCHANGED <<caller, lock, conn, closed, closing>>

(* call_soon_threadsafe wakes the caller, if it still waits.               *)
Deliver(o) ==
  /\ LoopFree /\ caller[o] = "awaiting" /\ thread[o] \in {"value", "error"}
  /\ caller' = [caller EXCEPT ![o] = thread[o]]
  /\ UNCHANGED <<thread, lock, conn, closed, closing>>

Close ==
  /\ ~closed
  /\ closed' = TRUE
  /\ closing' = "waiting"
  /\ UNCHANGED <<caller, thread, lock, conn>>

CloseConnection ==
  /\ closing = "waiting" /\ lock = "free"
  /\ conn' = "none"
  /\ closing' = "done"
  /\ UNCHANGED <<caller, thread, lock, closed>>

ExecutorNext ==
  \/ \E o \in Ops : \/ Run(o) \/ StartThread(o) \/ CancelCaller(o) \/ Enter(o) \/ Succeed(o)
                    \/ Raise(o) \/ ConnectFails(o) \/ Deliver(o)
  \/ Close \/ CloseConnection

ExecutorSpec == ExecutorInit /\ [][ExecutorNext]_executorVars

-----------------------------------------------------------------------------
(* After close returned no operation works on the connection and none      *)
(* opens another, also one that was accepted and queued before the close,  *)
(* and an operation starts on a connection without an open transaction.    *)
ClosedForGood ==
  /\ closing = "done" => conn = "none" /\ \A o \in Ops : thread[o] # "working"
  /\ conn # "half"

(* At most Cap operations are on threads at once.                          *)
ThreadsAreBounded == Cardinality({o \in Ops : thread[o] \in {"started", "working"}}) <= Cap
=============================================================================

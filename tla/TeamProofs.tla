----------------------------- MODULE TeamProofs -----------------------------
(***************************************************************************)
(* The components around a run: the budget of its tree, the executor of    *)
(* its stores, its processes, workers, peers' mail, workflows, schedules.  *)
(* They share no state; a section is one component's argument, and its     *)
(* theorems are of that component's specification, for every value of its  *)
(* constants.                                                              *)
(***************************************************************************)
EXTENDS Budget, Executor, Shell, Workers, Mailbox, Workflow, Schedules,
FiniteSetTheorems, SequenceTheorems, TLAPS

-----------------------------------------------------------------------------
(***************************************************************************)
(* The overshoot of a budget, for any tree of runs, limits and costs.      *)
(***************************************************************************)

BudgetTypes ==
  /\ standing \in [TreeRuns -> {"none", "top", "calling", "replied", "tools", "ended", "exhausted"}]
  /\ spent \in [Currencies -> Nat]

(* The calls in progress are runs of the tree.                             *)
LEMMA CallingIsFinite ==
  ASSUME BudgetTypes
  PROVE  /\ IsFiniteSet(Calling) /\ Cardinality(Calling) \in Nat
         /\ Cardinality(Calling) <= Cardinality(TreeRuns) /\ Cardinality(TreeRuns) \in Nat
<1>1. Calling \subseteq TreeRuns
  BY DEF Calling
<1>2. IsFiniteSet(TreeRuns)
  BY BudgetAssumption DEF BudgetAssumption
<1> QED
  BY <1>1, <1>2, FS_Subset, FS_CardinalityType

(* A product with the most a turn costs, of as many turns.                 *)
LEMMA CostsGrow ==
  ASSUME NEW m \in Nat, NEW n \in Nat, m <= n
  PROVE  /\ MaxCost * m \in Nat /\ MaxCost * n \in Nat
         /\ MaxCost * m <= MaxCost * n /\ MaxCost * (m + 1) = MaxCost * m + MaxCost
<1>1. MaxCost \in Nat
  BY BudgetAssumption DEF BudgetAssumption
<1>2. MaxCost * m \in Nat /\ MaxCost * n \in Nat
  BY <1>1
<1>3. MaxCost * (m + 1) = MaxCost * m + MaxCost
  BY <1>1
<1>4. PICK d \in Nat : n = m + d
  <2>1. n - m \in Nat /\ n = m + (n - m)
    OBVIOUS
  <2> QED
    BY <2>1
<1>5. MaxCost * n = MaxCost * m + MaxCost * d /\ MaxCost * d \in Nat
  BY <1>1, <1>4
<1> QED
  BY <1>2, <1>3, <1>5

(* A step that begins no call and spends nothing keeps the bound.          *)
LEMMA FewerCalls ==
  ASSUME BudgetTypes, BudgetTypes', spent' = spent, Calling' \subseteq Calling, OvershootIsBounded
  PROVE  OvershootIsBounded'
<1>1. IsFiniteSet(Calling)
  BY CallingIsFinite
<1>2. Cardinality(Calling') <= Cardinality(Calling) /\ Cardinality(Calling') \in Nat
      /\ Cardinality(Calling) \in Nat
  BY <1>1, FS_Subset, FS_CardinalityType
<1>3. MaxCost * Cardinality(Calling') <= MaxCost * Cardinality(Calling)
      /\ MaxCost * Cardinality(Calling') \in Nat /\ MaxCost * Cardinality(Calling) \in Nat
  BY <1>2, CostsGrow
<1>4. MaxCost * Cardinality(TreeRuns) \in Nat
  BY CallingIsFinite, CostsGrow
<1>5. SUFFICES ASSUME NEW c \in Currencies, Limited(c), Limit[c] > 0
               PROVE  spent'[c] + MaxCost * Cardinality(Calling')
                        < Limit[c] + MaxCost * Cardinality(TreeRuns)
  BY DEF OvershootIsBounded, Limited
<1>6. spent[c] \in Nat /\ Limit[c] \in Nat
  BY <1>5, BudgetAssumption DEF BudgetTypes, BudgetAssumption, Limited
<1>7. spent[c] + MaxCost * Cardinality(Calling) < Limit[c] + MaxCost * Cardinality(TreeRuns)
  BY <1>5 DEF OvershootIsBounded
<1> QED
  BY <1>3, <1>4, <1>6, <1>7

(* Amounts are natural numbers, and a run stands where a run can stand.    *)
THEOREM BudgetTypesHold == BudgetSpec => []BudgetTypes
<1>1. BudgetInit => BudgetTypes
  BY DEF BudgetInit, BudgetTypes
<1>2. BudgetTypes /\ [BudgetNext]_budgetVars => BudgetTypes'
  <2> SUFFICES ASSUME BudgetTypes, [BudgetNext]_budgetVars
               PROVE  BudgetTypes'
    OBVIOUS
  <2> USE DEF BudgetTypes
  <2>1. CASE UNCHANGED budgetVars
    BY <2>1 DEF budgetVars
  <2>2. ASSUME NEW r \in TreeRuns, TurnBegins(r)
        PROVE  BudgetTypes'
    BY <2>2 DEF TurnBegins
  <2>3. ASSUME NEW r \in TreeRuns, Charge(r)
        PROVE  BudgetTypes'
    <3>1. PICK usage \in [Currencies -> 0..MaxCost] :
            spent' = [c \in Currencies |-> spent[c] + usage[c]]
      BY <2>3 DEF Charge
    <3>2. spent' \in [Currencies -> Nat]
      BY <3>1, BudgetAssumption DEF BudgetAssumption
    <3> QED
      BY <2>3, <3>2 DEF Charge
  <2>4. ASSUME NEW r \in TreeRuns, CallFails(r) \/ Replied(r) \/ ToolsDone(r)
        PROVE  BudgetTypes'
    BY <2>4 DEF CallFails, Replied, ToolsDone
  <2>5. ASSUME NEW r \in TreeRuns, NEW sub \in TreeRuns, SpawnRun(r, sub)
        PROVE  BudgetTypes'
    BY <2>5 DEF SpawnRun
  <2> QED
    BY <2>1, <2>2, <2>3, <2>4, <2>5 DEF BudgetNext
<1> QED
  BY <1>1, <1>2, PTL DEF BudgetSpec

(* However the runs of a tree interleave, their budget is overshot by less *)
(* than one turn of each run: a call is only begun while the budget is not *)
(* spent, and each run has one call at a time.                             *)
THEOREM OvershootBound == BudgetSpec => []OvershootIsBounded
<1>1. BudgetInit => OvershootIsBounded
  <2> SUFFICES ASSUME BudgetInit, NEW c \in Currencies, Limited(c), Limit[c] > 0
               PROVE  spent[c] + MaxCost * Cardinality(Calling)
                        < Limit[c] + MaxCost * Cardinality(TreeRuns)
    BY DEF OvershootIsBounded
  <2>1. Calling = {} /\ spent[c] = 0
    BY DEF BudgetInit, Calling
  <2>2. Cardinality(Calling) = 0
    BY <2>1, FS_EmptySet
  <2>3. Cardinality(TreeRuns) \in Nat
    BY BudgetAssumption, FS_CardinalityType DEF BudgetAssumption
  <2>4. MaxCost * Cardinality(TreeRuns) \in Nat /\ MaxCost * 0 = 0 /\ Limit[c] \in Nat
    BY <2>3, BudgetAssumption DEF BudgetAssumption, Limited
  <2> QED
    BY <2>1, <2>2, <2>4
<1>2. BudgetTypes /\ BudgetTypes' /\ OvershootIsBounded /\ [BudgetNext]_budgetVars
        => OvershootIsBounded'
  <2> SUFFICES ASSUME BudgetTypes, BudgetTypes', OvershootIsBounded, [BudgetNext]_budgetVars
               PROVE  OvershootIsBounded'
    OBVIOUS
  <2>1. CASE UNCHANGED budgetVars
    BY <2>1, FewerCalls DEF budgetVars, Calling
  <2>2. ASSUME NEW r \in TreeRuns, TurnBegins(r), Exceeded
        PROVE  OvershootIsBounded'
    <3>1. spent' = spent /\ Calling' \subseteq Calling
      BY <2>2 DEF TurnBegins, Calling, BudgetTypes
    <3> QED
      BY <3>1, FewerCalls
  (* Whoever begins a call has seen a budget that is not spent.            *)
  <2>3. ASSUME NEW r \in TreeRuns, TurnBegins(r), ~Exceeded
        PROVE  OvershootIsBounded'
    <3>1. SUFFICES ASSUME NEW c \in Currencies, Limited(c), Limit[c] > 0
                   PROVE  spent'[c] + MaxCost * Cardinality(Calling')
                            < Limit[c] + MaxCost * Cardinality(TreeRuns)
      BY DEF OvershootIsBounded, Limited
    <3>2. spent' = spent /\ spent[c] \in Nat /\ Limit[c] \in Nat
      BY <2>3, <3>1, BudgetAssumption DEF TurnBegins, BudgetTypes, BudgetAssumption, Limited
    <3>3. spent[c] < Limit[c]
      BY <2>3, <3>1, <3>2 DEF Exceeded
    <3>4. Calling' \subseteq TreeRuns /\ IsFiniteSet(TreeRuns)
      BY BudgetAssumption DEF Calling, BudgetAssumption
    <3>5. Cardinality(Calling') <= Cardinality(TreeRuns) /\ Cardinality(Calling') \in Nat
          /\ Cardinality(TreeRuns) \in Nat
      BY <3>4, FS_Subset, FS_CardinalityType
    <3>6. MaxCost * Cardinality(Calling') <= MaxCost * Cardinality(TreeRuns)
          /\ MaxCost * Cardinality(Calling') \in Nat /\ MaxCost * Cardinality(TreeRuns) \in Nat
      BY <3>5, CostsGrow
    <3> QED
      BY <3>2, <3>3, <3>6
  (* A call that is charged is over.                                       *)
  <2>4. ASSUME NEW r \in TreeRuns, Charge(r)
        PROVE  OvershootIsBounded'
    <3>1. PICK usage \in [Currencies -> 0..MaxCost] :
            spent' = [c \in Currencies |-> spent[c] + usage[c]]
      BY <2>4 DEF Charge
    <3>2. r \in Calling /\ Calling' = Calling \ {r}
      BY <2>4 DEF Charge, Calling, BudgetTypes
    <3>3. IsFiniteSet(Calling)
      BY CallingIsFinite
    <3>4. Cardinality(Calling') = Cardinality(Calling) - 1 /\ Cardinality(Calling) \in Nat
          /\ Cardinality(Calling') \in Nat
      BY <3>2, <3>3, FS_RemoveElement, FS_CardinalityType
    <3>5. MaxCost * Cardinality(Calling) = MaxCost * Cardinality(Calling') + MaxCost
          /\ MaxCost * Cardinality(Calling') \in Nat
      <4>1. Cardinality(Calling) = Cardinality(Calling') + 1
        BY <3>4
      <4> QED
        BY <4>1, <3>4, CostsGrow
    <3>6. MaxCost * Cardinality(TreeRuns) \in Nat /\ MaxCost \in Nat
      BY CallingIsFinite, CostsGrow, BudgetAssumption DEF BudgetAssumption
    <3>7. SUFFICES ASSUME NEW c \in Currencies, Limited(c), Limit[c] > 0
                   PROVE  spent'[c] + MaxCost * Cardinality(Calling')
                            < Limit[c] + MaxCost * Cardinality(TreeRuns)
      BY DEF OvershootIsBounded, Limited
    <3>8. spent[c] \in Nat /\ Limit[c] \in Nat
      BY <3>7, BudgetAssumption DEF BudgetTypes, BudgetAssumption, Limited
    <3>9. spent'[c] = spent[c] + usage[c] /\ usage[c] \in Nat /\ usage[c] <= MaxCost
      BY <3>1, <3>6
    <3>10. spent[c] + MaxCost * Cardinality(Calling) < Limit[c] + MaxCost * Cardinality(TreeRuns)
      BY <3>7 DEF OvershootIsBounded
    <3> QED
      BY <3>5, <3>6, <3>8, <3>9, <3>10
  <2>5. ASSUME NEW r \in TreeRuns, CallFails(r) \/ Replied(r) \/ ToolsDone(r)
        PROVE  OvershootIsBounded'
    <3>1. spent' = spent /\ Calling' \subseteq Calling
      BY <2>5 DEF CallFails, Replied, ToolsDone, Calling, BudgetTypes
    <3> QED
      BY <3>1, FewerCalls
  <2>6. ASSUME NEW r \in TreeRuns, NEW sub \in TreeRuns, SpawnRun(r, sub)
        PROVE  OvershootIsBounded'
    <3>1. spent' = spent /\ Calling' \subseteq Calling
      BY <2>6 DEF SpawnRun, Calling, BudgetTypes
    <3> QED
      BY <3>1, FewerCalls
  <2> QED
    BY <2>1, <2>2, <2>3, <2>4, <2>5, <2>6 DEF BudgetNext
<1> QED
  BY <1>1, <1>2, BudgetTypesHold, PTL DEF BudgetSpec

-----------------------------------------------------------------------------
(***************************************************************************)
(* A closed executor stays closed, for any operations and caps.            *)
(***************************************************************************)

ExecutorTypes ==
  /\ thread \in [Ops -> {"none", "started", "working", "value", "error"}]
  /\ caller \in [Ops -> {"none", "refused", "queued", "awaiting", "cancelled", "value", "error"}]
  /\ closed \in BOOLEAN

(* Whoever works holds the lock, and close waits for it: a connection that *)
(* was closed while nobody held the lock has no user left, and under the   *)
(* lock every later operation finds the executor closed.                   *)
WorkersHoldTheLock == \A o \in Ops : thread[o] = "working" => lock = o
ClosingIsClosed == closing # "no" => closed
(* A call that waits for the semaphore has no thread yet.                  *)
NoThreadYet == \A o \in Ops : caller[o] \in {"none", "queued"} => thread[o] = "none"
ExecutorInv ==
  /\ ExecutorTypes /\ WorkersHoldTheLock /\ ClosingIsClosed /\ NoThreadYet
  /\ lock # "free" => lock \in Ops /\ thread[lock] = "working"
  /\ conn \in {"none", "open"}
  /\ closing = "done" => conn = "none" /\ lock = "free"

(* After close returned no operation works on the connection and none      *)
(* opens another, for any number of operations and threads.                *)
THEOREM ClosedIsForGood == ExecutorSpec => []ClosedForGood
<1> USE ExecutorAssumption DEF ExecutorAssumption
<1>1. ExecutorInit => ExecutorInv
  BY DEF ExecutorInit, ExecutorInv, ExecutorTypes, WorkersHoldTheLock, ClosingIsClosed, NoThreadYet
<1>2. ExecutorInv /\ [ExecutorNext]_executorVars => ExecutorInv'
  <2> SUFFICES ASSUME ExecutorInv, [ExecutorNext]_executorVars PROVE ExecutorInv'
    OBVIOUS
  <2> USE DEF ExecutorInv, ExecutorTypes, WorkersHoldTheLock, ClosingIsClosed, NoThreadYet
  <2>1. CASE UNCHANGED executorVars
    BY <2>1 DEF executorVars
  <2>2. ASSUME NEW o \in Ops, Run(o) \/ CancelCaller(o) \/ Deliver(o) PROVE ExecutorInv'
    BY <2>2 DEF Run, CancelCaller, Deliver
  <2>3. ASSUME NEW o \in Ops, StartThread(o) PROVE ExecutorInv'
    BY <2>3 DEF StartThread
  <2>4. ASSUME NEW o \in Ops, Enter(o) PROVE ExecutorInv'
    <3>1. CASE closed
      BY <2>4, <3>1 DEF Enter
    <3>2. CASE ~closed
      BY <2>4, <3>2 DEF Enter
    <3> QED
      BY <3>1, <3>2
  <2>5. ASSUME NEW o \in Ops, Succeed(o) \/ Raise(o) PROVE ExecutorInv'
    BY <2>5 DEF Succeed, Raise, Leave
  <2>6. ASSUME NEW o \in Ops, ConnectFails(o) PROVE ExecutorInv'
    BY <2>6 DEF ConnectFails
  <2>7. CASE Close \/ CloseConnection
    BY <2>7 DEF Close, CloseConnection
  <2> QED
    BY <2>1, <2>2, <2>3, <2>4, <2>5, <2>6, <2>7 DEF ExecutorNext
<1>3. ExecutorInv => ClosedForGood
  BY DEF ExecutorInv, ClosedForGood, WorkersHoldTheLock
<1> QED
  BY <1>1, <1>2, <1>3, PTL DEF ExecutorSpec

-----------------------------------------------------------------------------
(***************************************************************************)
(* Processes: a command given up is killed with its shell.                 *)
(***************************************************************************)

Fates == {"none", "alive", "quiet", "killed", "gone"}
ShellTypes ==
  /\ call \in [Commands -> {"none", "waiting", "killing", "removing", "returned"}]
  /\ process \in [Commands -> Fates]
  /\ child \in [Commands -> Fates]

(* Only an orphan outlives a process that ended by itself; once a call gave*)
(* up nothing it started runs but an orphan, and the container, which is   *)
(* left to docker rm; and a container is only given up for lost, or gone.  *)
WaitsForBoth(c) ==
  call[c] = "waiting" /\ process[c] # "alive" /\ Living(c) => c \in orphaned
GivesUpAll(c) ==
  call[c] \in {"killing", "removing"} =>
    process[c] # "alive" /\ (RunBy[c] # "docker" /\ Living(c) => c \in orphaned)
ShellInv ==
  /\ ShellTypes
  /\ \A c \in Commands :
       /\ call[c] = "none" => process[c] = "none" /\ child[c] = "none"
       /\ call[c] = "removing" => RunBy[c] = "docker"
       /\ RunBy[c] # "rg" => WaitsForBoth(c) /\ GivesUpAll(c) /\ ~LeftRunning(c)

(* When Bash has answered, timed out or been aborted, its process does not *)
(* run, and what it started neither, but for a container docker could not  *)
(* remove and a command whose shell had exited: for any number of commands.*)
THEOREM NothingIsLeftRunning == ShellSpec => []NothingOutlivesItsCall
<1>1. ShellInit => ShellInv
  BY DEF ShellInit, ShellInv, ShellTypes, Fates, Living, WaitsForBoth, GivesUpAll,
    LeftRunning
<1>2. ShellInv /\ [ShellNext]_shellVars => ShellInv'
  <2> SUFFICES ASSUME ShellInv, [ShellNext]_shellVars PROVE ShellInv'
    OBVIOUS
  <2> USE DEF ShellInv, ShellTypes, Fates, Living, WaitsForBoth, GivesUpAll,
    LeftRunning
  <2>1. CASE UNCHANGED shellVars
    BY <2>1 DEF shellVars
  <2>2. CASE Abort
    BY <2>2 DEF Abort
  <2>3. ASSUME NEW c \in Commands, Start(c) PROVE ShellInv'
    BY <2>3 DEF Start, Goes, Returns
  <2>4. ASSUME NEW c \in Commands, Communicate(c) \/ LeaveRipgrep(c) PROVE ShellInv'
    BY <2>4 DEF Communicate, LeaveRipgrep, Returns
  <2>5. ASSUME NEW c \in Commands, NEW how, GiveUp(c, how) PROVE ShellInv'
    BY <2>5 DEF GiveUp, KillGroup, KillClient, GivenUp
  <2>6. ASSUME NEW c \in Commands, WaitAfterKill(c) PROVE ShellInv'
    BY <2>6 DEF WaitAfterKill, Goes
  <2>7. ASSUME NEW c \in Commands, RemoveContainer(c) PROVE ShellInv'
    BY <2>7 DEF RemoveContainer, Goes
  <2>8. ASSUME NEW c \in Commands, CancelAgain(c) PROVE ShellInv'
    BY <2>8 DEF CancelAgain, Returns
  <2>9. ASSUME NEW c \in Commands, ProcessExits(c) PROVE ShellInv'
    BY <2>9 DEF ProcessExits
  <2>10. ASSUME NEW c \in Commands, ChildExits(c) \/ ChildRedirects(c) \/ Reap(c)
         PROVE ShellInv'
    BY <2>10 DEF ChildExits, ChildRedirects, Reap
  <2> QED
    BY <2>1, <2>2, <2>3, <2>4, <2>5, <2>6, <2>7, <2>8, <2>9, <2>10 DEF ShellNext, ShellStep
<1>3. ShellInv => NothingOutlivesItsCall
  BY DEF ShellInv, NothingOutlivesItsCall
<1> QED
  BY <1>1, <1>2, <1>3, PTL DEF ShellSpec

-----------------------------------------------------------------------------
(***************************************************************************)
(* Workers: what a stop silences, and who drives a worker.                 *)
(***************************************************************************)

WorkerTypes ==
  /\ DOMAIN stage = Workers /\ DOMAIN result = Workers /\ DOMAIN kind = Workers
  /\ DOMAIN handle = Workers /\ DOMAIN note = Workers /\ DOMAIN cwd = Workers
  /\ cancel \subseteq InProgress /\ stopped \subseteq Workers

(* A stopped worker has not reported, and its cancellation is still to be  *)
(* raised, or was, and is the result it ends with.                         *)
StoppedEnds ==
  /\ \A w \in Workers : note[w] # "none" => stage[w] = "done"
  /\ \A w \in stopped :
       /\ note[w] = "none" /\ kind[w] = "background"
       /\ \/ w \in cancel \/ stage[w] = "done"
          \/ stage[w] \in {"release", "stop"} /\ result[w] = "cancelled"

ContDrives(w) == cont.worker = w /\ cont.stage = "drive"
(* Who drives a child is in active; nobody continues a child before its    *)
(* own run, nor the branch of a workflow.                                  *)
Driven ==
  /\ cont \in [worker : Workers \cup {"none"}, stage : {"none", "start", "drive", "refused"},
               result : {"none"}, doomed : BOOLEAN]
  /\ cont.stage # "none" => cont.worker \in Workers
  /\ \A w \in Workers :
       /\ stage[w] = "drive" \/ ContDrives(w) => w \in active
       /\ ~(stage[w] = "drive" /\ ContDrives(w))
       /\ stage[w] \in {"none", "ready", "create"} => w \notin live /\ cont.worker # w
       /\ kind[w] = "branch" => handle[w] = "none" /\ cont.worker # w
       /\ stage[w] = "acquire" => kind[w] = "branch"
       /\ kind[w] = "none" => stage[w] = "none" /\ handle[w] = "none" /\ cont.worker # w
WorkersInv == WorkerTypes /\ StoppedEnds /\ Driven

(* What the end of a call, or of its try, changes.                         *)
EndChanges(w, o) ==
  /\ DOMAIN stage' = Workers /\ DOMAIN result' = Workers
  /\ DOMAIN handle' = Workers /\ DOMAIN note' = Workers
  /\ \A v \in Workers \ {w} : /\ stage'[v] = stage[v] /\ result'[v] = result[v]
                              /\ handle'[v] = handle[v] /\ note'[v] = note[v]
  /\ stage'[w] \in {"release", "stop", "done"} /\ result'[w] = o
  /\ note'[w] = note[w] \/ (stage'[w] = "done" /\ o # "cancelled")
  /\ handle'[w] = handle[w] \/ kind[w] # "branch"
  /\ live' \subseteq live \cup {w}

(* What _on_task_done changes is a change of the end of a worker.          *)
LEMMA DoneChanges ==
  ASSUME WorkerTypes, NEW w \in Workers, NEW o, Done(w, o)
  PROVE  EndChanges(w, o)
<1>1. stage' = [stage EXCEPT ![w] = "done"] /\ result' = [result EXCEPT ![w] = o]
  BY DEF Done
<1>2. handle' = handle \/ (kind[w] # "branch" /\ \E s : handle' = [handle EXCEPT ![w] = s])
  BY DEF Done, Reports
<1>3. note' = note \/ (o # "cancelled" /\ note' = [note EXCEPT ![w] = o])
  BY DEF Done, Reports, Outcomes
<1>4. live' \subseteq live
  BY DEF Done, Reports
<1>5. /\ DOMAIN stage' = Workers /\ DOMAIN result' = Workers
      /\ stage'[w] = "done" /\ result'[w] = o
      /\ \A v \in Workers \ {w} : stage'[v] = stage[v] /\ result'[v] = result[v]
  BY <1>1 DEF WorkerTypes
<1>6. /\ DOMAIN handle' = Workers /\ \A v \in Workers \ {w} : handle'[v] = handle[v]
      /\ handle'[w] = handle[w] \/ kind[w] # "branch"
  BY <1>2 DEF WorkerTypes
<1>7. /\ DOMAIN note' = Workers /\ \A v \in Workers \ {w} : note'[v] = note[v]
      /\ note'[w] = note[w] \/ o # "cancelled"
  BY <1>3 DEF WorkerTypes
<1> QED
  BY <1>4, <1>5, <1>6, <1>7 DEF EndChanges

(* So is what the finally block of its driver changes.                     *)
LEMMA FinallyChanges ==
  ASSUME WorkerTypes, NEW w \in Workers, NEW p, NEW o, Finally(w, p, o)
  PROVE  EndChanges(w, o)
<1>1. CASE Done(w, o)
  BY <1>1, DoneChanges
<1>2. CASE /\ \/ stage' = [stage EXCEPT ![w] = "release"] \/ stage' = [stage EXCEPT ![w] = "stop"]
           /\ result' = [result EXCEPT ![w] = o]
           /\ UNCHANGED <<handle, note, live>>
  <2>1. /\ DOMAIN stage' = Workers /\ DOMAIN result' = Workers
        /\ stage'[w] \in {"release", "stop"} /\ result'[w] = o
        /\ \A v \in Workers \ {w} : stage'[v] = stage[v] /\ result'[v] = result[v]
    BY <1>2 DEF WorkerTypes
  <2> QED
    BY <1>2, <2>1 DEF WorkerTypes, EndChanges
<1> QED
  BY <1>1, <1>2 DEF Finally

(* A call that ends leaves the invariant; a stopped one ends cancelled.    *)
LEMMA CallEnds ==
  ASSUME WorkersInv, NEW w \in Workers, NEW o, EndChanges(w, o), stage[w] \notin {"none", "done"},
         w \in stopped => o = "cancelled", UNCHANGED <<kind, cont, stopped>>, DOMAIN cwd' = Workers,
         active' = active \/ (active' = active \ {w} /\ stage[w] = "drive"),
         cancel' \subseteq cancel, cancel \subseteq cancel' \cup {w}, w \notin cancel'
  PROVE  WorkersInv'
<1>1. WorkerTypes'
  BY DEF WorkersInv, WorkerTypes, EndChanges, InProgress
<1>2. StoppedEnds'
  BY DEF WorkersInv, WorkerTypes, StoppedEnds, EndChanges
<1>3. Driven'
  <2>1. ContDrives(w)' = ContDrives(w) /\ kind[w] # "none"
        /\ (stage[w] = "drive" => ~ContDrives(w))
    BY DEF WorkersInv, Driven, ContDrives
  <2>2. \A v \in Workers \ {w} : /\ stage'[v] = stage[v] /\ handle'[v] = handle[v]
                                 /\ v \in live' => v \in live
                                 /\ v \in active' <=> v \in active
                                 /\ ContDrives(v)' = ContDrives(v)
    BY DEF EndChanges, ContDrives
  <2>3. \A v \in Workers \ {w} :
       /\ stage'[v] = "drive" \/ ContDrives(v)' => v \in active'
       /\ ~(stage'[v] = "drive" /\ ContDrives(v)')
       /\ stage'[v] \in {"none", "ready", "create"} => v \notin live' /\ cont'.worker # v
       /\ kind'[v] = "branch" => handle'[v] = "none" /\ cont'.worker # v
       /\ stage'[v] = "acquire" => kind'[v] = "branch"
       /\ kind'[v] = "none" => stage'[v] = "none" /\ handle'[v] = "none" /\ cont'.worker # v
    <3> SUFFICES ASSUME NEW v \in Workers \ {w}
                 PROVE  /\ stage[v] = "drive" \/ ContDrives(v) => v \in active'
                        /\ ~(stage[v] = "drive" /\ ContDrives(v))
                        /\ stage[v] \in {"none", "ready", "create"} => v \notin live' /\ cont.worker # v
                        /\ kind[v] = "branch" => handle[v] = "none" /\ cont.worker # v
                        /\ stage[v] = "acquire" => kind[v] = "branch"
                        /\ kind[v] = "none" => stage[v] = "none" /\ handle[v] = "none" /\ cont.worker # v
      BY <2>2
    <3>1. (v \in live' => v \in live) /\ (v \in active' <=> v \in active)
      BY <2>2
    <3> QED
      BY <3>1 DEF WorkersInv, Driven
  <2>4. /\ ContDrives(w) => w \in active'
        /\ stage'[w] \in {"release", "stop", "done"}
        /\ kind[w] = "branch" => handle'[w] = "none" /\ cont.worker # w
    BY <2>1 DEF WorkersInv, Driven, EndChanges
  <2> QED
    BY <2>1, <2>3, <2>4 DEF WorkersInv, Driven
<1> QED
  BY <1>1, <1>2, <1>3 DEF WorkersInv

(* A worker goes on to p, or drives its child, which nobody else drives.   *)
LEMMA CallGoesOn ==
  ASSUME WorkersInv, NEW w \in Workers, NEW p, stage' = [stage EXCEPT ![w] = p],
         p \in {"create", "acquire", "start", "drive"}, Ready(w, stage[w]),
         stage[w] \in {"ready", "create", "acquire", "start"},
         p = "create" => stage[w] = "ready", p = "acquire" => kind[w] = "branch",
         p = "drive" => active' = active \cup {w} /\ ~ContDrives(w),
         p # "drive" => active' = active,
         live' = live \/ (live' = live \cup {w} /\ p # "create"),
         DOMAIN cwd' = Workers, UNCHANGED <<kind, cont, stopped, cancel, result, handle, note>>
  PROVE  WorkersInv'
<1>1. /\ DOMAIN stage' = Workers /\ stage'[w] = p
      /\ \A v \in Workers \ {w} : stage'[v] = stage[v]
  BY DEF WorkersInv, WorkerTypes
<1>2. WorkerTypes'
  BY <1>1 DEF WorkersInv, WorkerTypes, InProgress
<1>3. StoppedEnds'
  BY <1>1 DEF WorkersInv, WorkerTypes, StoppedEnds, Ready
<1>4. Driven'
  <2>1. \A v \in Workers : ContDrives(v)' = ContDrives(v)
    BY DEF ContDrives
  <2>2. kind[w] # "none"
    BY DEF WorkersInv, Driven
  <2>3. \A v \in Workers \ {w} :
       /\ stage'[v] = "drive" \/ ContDrives(v)' => v \in active'
       /\ ~(stage'[v] = "drive" /\ ContDrives(v)')
       /\ stage'[v] \in {"none", "ready", "create"} => v \notin live' /\ cont'.worker # v
       /\ kind'[v] = "branch" => handle'[v] = "none" /\ cont'.worker # v
       /\ stage'[v] = "acquire" => kind'[v] = "branch"
       /\ kind'[v] = "none" => stage'[v] = "none" /\ handle'[v] = "none" /\ cont'.worker # v
    BY <1>1, <2>1 DEF WorkersInv, Driven
  <2>4. /\ p = "drive" \/ ContDrives(w) => w \in active'
        /\ ~(p = "drive" /\ ContDrives(w))
        /\ p = "create" => w \notin live' /\ cont.worker # w
        /\ kind[w] = "branch" => handle[w] = "none" /\ cont.worker # w
    BY DEF WorkersInv, Driven
  <2> QED
    BY <1>1, <2>1, <2>2, <2>3, <2>4 DEF WorkersInv, Driven
<1> QED
  BY <1>2, <1>3, <1>4 DEF WorkersInv

(* The steps of a call of run_subagent.                                    *)
LEMMA WorkerSteps ==
  ASSUME WorkersInv, NEW w \in Workers, WorkerStep(w)
  PROVE  WorkersInv'
<1>1. /\ w \notin cancel => (w \in stopped =>
           stage[w] = "done" \/ (stage[w] \in {"release", "stop"} /\ result[w] = "cancelled"))
      /\ ~Runs(w) \/ ~ContDrives(w)
      /\ DOMAIN cwd = Workers
  BY DEF WorkersInv, WorkerTypes, StoppedEnds, Driven, Runs
<1>2. CASE TaskStarts(w)
  BY <1>1, <1>2, CallGoesOn DEF TaskStarts, Ready, callVars, sessionVars
<1>3. CASE Registered(w)
  <2>1. /\ w \notin cancel /\ stage[w] = "create" /\ ~ContDrives(w) /\ live' = live \cup {w}
        /\ w \notin stopped
        /\ UNCHANGED <<parent, callVars, cancel, cwd, handle, note, cont, stopped>>
    BY <1>1, <1>3 DEF Registered, Ready, WorkersInv, Driven, ContDrives
  <2>2. CASE /\ stage' = [stage EXCEPT ![w] = "done"]
             /\ result' = [result EXCEPT ![w] = "raised"]
             /\ UNCHANGED <<watched, active, aborted>>
    <3>1. EndChanges(w, "raised")
      BY <2>1, <2>2 DEF WorkersInv, WorkerTypes, EndChanges
    <3> QED
      BY <1>1, <2>1, <2>2, <3>1, CallEnds DEF callVars
  <2>3. CASE /\ IF kind[w] = "branch" THEN stage' = [stage EXCEPT ![w] = "acquire"] ELSE Entered(w)
             /\ IF stage'[w] = "drive" THEN Drives(w) ELSE UNCHANGED <<active, aborted>>
             /\ UNCHANGED result
    <3>1. PICK p \in {"acquire", "start", "drive"} :
            stage' = [stage EXCEPT ![w] = p] /\ (p = "acquire" => kind[w] = "branch")
      BY <2>3 DEF Entered
    <3>2. stage'[w] = p
      BY <3>1 DEF WorkersInv, WorkerTypes
    <3>3. IF p = "drive" THEN active' = active \cup {w} ELSE active' = active
      BY <2>3, <3>2 DEF Drives
    <3> QED
      BY <1>1, <2>1, <2>3, <3>1, <3>3, CallGoesOn DEF callVars, Ready
  <2> QED
    BY <1>3, <2>2, <2>3 DEF Registered
<1>4. CASE Acquired(w)
  <2>1. /\ w \notin cancel /\ stage[w] = "acquire" /\ ~ContDrives(w) /\ w \notin stopped
        /\ DOMAIN cwd' = Workers
        /\ UNCHANGED <<parent, callVars, result, cancel, watched, handle, live, note, cont, stopped>>
    BY <1>1, <1>4 DEF Acquired, Ready, WorkersInv, Driven, ContDrives
  <2>2. PICK p \in {"start", "drive"} :
          /\ stage' = [stage EXCEPT ![w] = p]
          /\ IF p = "drive" THEN active' = active \cup {w} ELSE active' = active
    BY <1>4 DEF Acquired, Entered, Drives
  <2> QED
    BY <2>1, <2>2, CallGoesOn DEF callVars, Ready
<1>5. CASE StartHooksRan(w)
  <2>1. /\ w \notin cancel /\ stage[w] = "start" /\ w \notin stopped
        /\ UNCHANGED <<parent, callVars, cancel, cwd, cont, stopped>>
    BY <1>1, <1>5 DEF StartHooksRan, Ready
  <2>2. CASE Runs(w)
    BY <1>1, <1>5, <2>1, <2>2, CallGoesOn DEF StartHooksRan, Drives, callVars, Ready
  <2>3. CASE ~Runs(w)
    <3>1. Finally(w, "try", "failed") /\ active' = active
      BY <1>5, <2>3 DEF StartHooksRan
    <3>2. EndChanges(w, "failed")
      BY <3>1, FinallyChanges DEF WorkersInv
    <3> QED
      BY <1>1, <2>1, <3>1, <3>2, CallEnds DEF callVars
  <2> QED
    BY <2>2, <2>3
<1>6. ASSUME NEW o, EndChanges(w, o), w \notin cancel, stage[w] \notin {"none", "done"},
             w \in stopped => o = "cancelled", DOMAIN cwd' = Workers,
             UNCHANGED <<parent, callVars, cancel, cont, stopped>>,
             active' = active \/ (active' = active \ {w} /\ stage[w] = "drive")
      PROVE  WorkersInv'
  BY <1>6, CallEnds DEF callVars
<1>7. CASE CreateFails(w)
  BY <1>1, <1>6, <1>7, DoneChanges DEF CreateFails, Ready, WorkersInv
<1>8. CASE AcquireFails(w)
  BY <1>1, <1>6, <1>8, FinallyChanges DEF AcquireFails, Ready, WorkersInv
<1>9. CASE ChildEnds(w)
  <2>1. PICK o \in Outcomes : Finally(w, "try", o)
    BY <1>9 DEF ChildEnds
  <2>2. EndChanges(w, o)
    BY <2>1, FinallyChanges DEF WorkersInv
  <2> QED
    BY <1>1, <1>6, <1>9, <2>2 DEF ChildEnds, Ready
<1>10. CASE Released(w)
  <2>1. EndChanges(w, result[w]) /\ DOMAIN cwd' = Workers
    BY <1>1, <1>10, FinallyChanges DEF Released, WorkersInv
  <2> QED
    BY <1>1, <1>6, <1>10, <2>1 DEF Released, Ready
<1>11. CASE StopHooksRan(w)
  <2>1. EndChanges(w, result[w])
    BY <1>11, DoneChanges DEF StopHooksRan, WorkersInv
  <2> QED
    BY <1>1, <1>6, <1>11, <2>1 DEF StopHooksRan, Ready
<1>12. CASE Cancelled(w)
  <2>1. /\ w \in cancel /\ cancel' = cancel \ {w} /\ stage[w] \notin {"none", "done"}
        /\ UNCHANGED <<parent, callVars, aborted, cont, stopped>>
        /\ active' = active \/ (active' = active \ {w} /\ stage[w] = "drive")
    BY <1>12 DEF Cancelled, WorkersInv, WorkerTypes, InProgress
  <2>2. DOMAIN cwd' = Workers
    BY <1>1, <1>12 DEF Cancelled
  <2>3. EndChanges(w, "cancelled")
    <3>1. CASE /\ stage' = [stage EXCEPT ![w] = "done"]
               /\ result' = [result EXCEPT ![w] = "cancelled"]
               /\ UNCHANGED <<watched, handle, live, note>>
      BY <3>1 DEF WorkersInv, WorkerTypes, EndChanges
    <3>2. CASE Done(w, "cancelled")
      BY <3>2, DoneChanges DEF WorkersInv
    <3>3. CASE Finally(w, "try", "cancelled")
      BY <3>3, FinallyChanges DEF WorkersInv
    <3> QED
      BY <1>12, <3>1, <3>2, <3>3 DEF Cancelled
  <2> QED
    BY <2>1, <2>2, <2>3, CallEnds DEF callVars
<1> QED
  BY <1>2, <1>3, <1>4, <1>5, <1>7, <1>8, <1>9, <1>10, <1>11, <1>12 DEF WorkerStep

(* A call is made, and its stage is that of a new one.                     *)
LEMMA Spawned ==
  ASSUME WorkersInv, NEW w \in Workers, NEW k \in Modes[w], Spawn(w, k)
  PROVE  WorkersInv'
<1>1. /\ kind[w] = "none" /\ stage[w] = "none" /\ handle[w] = "none" /\ w \notin live
      /\ cont.worker # w /\ w \notin cancel /\ w \notin stopped /\ note[w] = "none"
  BY DEF Spawn, WorkersInv, WorkerTypes, StoppedEnds, Driven, InProgress
<1>2. /\ DOMAIN kind' = Workers /\ DOMAIN stage' = Workers /\ DOMAIN handle' = Workers
      /\ kind'[w] = k /\ k # "none" /\ stage'[w] \in {"ready", "create"}
      /\ handle'[w] = "none" \/ k = "background"
      /\ \A v \in Workers \ {w} :
           kind'[v] = kind[v] /\ stage'[v] = stage[v] /\ handle'[v] = handle[v]
      /\ UNCHANGED <<result, cancel, cwd, live, active, note, cont, stopped>>
  <2>1. /\ kind' = [kind EXCEPT ![w] = k]
        /\ stage' = [stage EXCEPT ![w] = IF k = "background" THEN "ready" ELSE "create"]
        /\ handle' = IF k = "background" THEN [handle EXCEPT ![w] = "running"] ELSE handle
        /\ UNCHANGED <<result, cancel, cwd, live, active, note, cont, stopped>>
    BY DEF Spawn, sessionVars
  <2> QED
    BY <1>1, <2>1, WorkersAssumption DEF WorkersInv, WorkerTypes, WorkersAssumption
<1>3. WorkerTypes'
  BY <1>1, <1>2 DEF WorkersInv, WorkerTypes, InProgress
<1>4. StoppedEnds'
  BY <1>1, <1>2 DEF WorkersInv, WorkerTypes, StoppedEnds
<1>5. Driven'
  BY <1>1, <1>2 DEF WorkersInv, Driven, ContDrives
<1> QED
  BY <1>3, <1>4, <1>5 DEF WorkersInv

(* What stops background workers cancels each of them at once.             *)
LEMMA WorkersStopped ==
  ASSUME WorkersInv, NEW S, S \subseteq Background,
         cancel' = cancel \cup S, stopped' = stopped \cup S,
         UNCHANGED <<kind, stage, result, cwd, note, cont, live, active>>,
         DOMAIN handle' = Workers,
         \A w \in Workers : handle'[w] # handle[w] => handle[w] # "none"
  PROVE  WorkersInv'
<1>1. \A w \in S : /\ w \in Workers /\ stage[w] \notin {"none", "done"}
                   /\ kind[w] = "background" /\ note[w] = "none"
  BY DEF Background, InProgress, WorkersInv, StoppedEnds
<1>2. WorkerTypes'
  BY <1>1 DEF WorkersInv, WorkerTypes, InProgress
<1>3. StoppedEnds'
  BY <1>1 DEF WorkersInv, StoppedEnds
<1>4. Driven'
  BY DEF WorkersInv, Driven, ContDrives
<1> QED
  BY <1>2, <1>3, <1>4 DEF WorkersInv

(* A continuation begins, drives the child or ends.                        *)
LEMMA Continued ==
  ASSUME WorkersInv, UNCHANGED <<kind, stage, result, cancel, cwd, live, note, stopped>>,
         cont' \in [worker : Workers \cup {"none"}, stage : {"none", "start", "drive", "refused"},
                    result : {"none"}, doomed : BOOLEAN],
         cont'.stage # "none" => cont'.worker \in Workers,
         cont'.worker \in Workers => /\ kind[cont'.worker] \notin {"none", "branch"}
                                     /\ stage[cont'.worker] \notin {"none", "ready", "create"},
         IF cont'.stage = "drive"
           THEN /\ Runs(cont'.worker)
                /\ active' = active \cup {cont'.worker}
           ELSE active' = active \/ (ContDrives(cont.worker) /\ active' = active \ {cont.worker}),
         DOMAIN handle' = Workers,
         \A w \in Workers : handle'[w] # handle[w] => kind[w] \notin {"none", "branch"}
  PROVE  WorkersInv'
<1>1. WorkerTypes' /\ StoppedEnds'
  BY DEF WorkersInv, WorkerTypes, StoppedEnds, InProgress
<1>2. Driven'
  BY DEF WorkersInv, Driven, ContDrives, Runs
<1> QED
  BY <1>1, <1>2 DEF WorkersInv

(* A worker that is sent a message gets a driver only when it has none.    *)
LEMMA ContinuationSteps ==
  ASSUME WorkersInv, (\E w \in Workers : Continue(w)) \/ ContinueStep \/ ContinueCancelled
  PROVE  WorkersInv'
<1>1. ASSUME NEW w \in Workers, Continue(w)
      PROVE  WorkersInv'
  <2>1. /\ cont = NoCall /\ handle[w] # "none" /\ w \in live
        /\ UNCHANGED <<kind, stage, result, cancel, cwd, live, handle, note, stopped>>
    BY <1>1 DEF Continue, Idle, callVars
  <2>2. kind[w] \notin {"none", "branch"} /\ stage[w] \notin {"none", "ready", "create"}
    BY <2>1 DEF WorkersInv, Driven
  <2>3. PICK s \in {"start", "drive", "refused"} :
          /\ cont' = [worker |-> w, result |-> "none", doomed |-> w \in aborted, stage |-> s]
          /\ s = "drive" => Runs(w)
    BY <1>1 DEF Continue
  <2>4. IF s = "drive" THEN active' = active \cup {w} ELSE active' = active
    BY <1>1, <2>3 DEF Continue, Drives
  <2> QED
    BY <2>1, <2>2, <2>3, <2>4, Continued DEF WorkersInv, WorkerTypes
<1>2. CASE ContinueHooksRan
  <2>1. /\ cont.stage = "start"
        /\ UNCHANGED <<kind, stage, result, cancel, cwd, live, handle, note, stopped>>
    BY <1>2 DEF ContinueHooksRan, callVars
  <2>2. /\ cont.worker \in Workers => /\ kind[cont.worker] \notin {"none", "branch"}
                                      /\ stage[cont.worker] \notin {"none", "ready", "create"}
        /\ cont \in [worker : Workers \cup {"none"}, stage : {"none", "start", "drive", "refused"},
                     result : {"none"}, doomed : BOOLEAN]
    BY DEF WorkersInv, Driven
  <2>3. PICK s \in {"drive", "refused"} :
          /\ cont' = [cont EXCEPT !.stage = s]
          /\ s = "drive" => Runs(cont.worker)
          /\ IF s = "drive" THEN active' = active \cup {cont.worker} ELSE active' = active
    BY <1>2 DEF ContinueHooksRan, Drives
  <2>4. /\ cont'.worker = cont.worker /\ cont'.stage = s
        /\ cont' \in [worker : Workers \cup {"none"}, stage : {"none", "start", "drive", "refused"},
                      result : {"none"}, doomed : BOOLEAN]
    <3>1. cont' = [worker |-> cont.worker, stage |-> s, result |-> cont.result, doomed |-> cont.doomed]
      BY <2>2, <2>3
    <3> QED
      BY <2>2, <3>1
  <2>5. cont.worker \in Workers
    BY <2>1 DEF WorkersInv, Driven
  <2> QED
    BY <2>1, <2>2, <2>3, <2>4, <2>5, Continued DEF WorkersInv, WorkerTypes
<1>3. ASSUME cont' = NoCall, UNCHANGED <<kind, stage, result, cancel, cwd, live, note, stopped>>,
             active' = IF cont.stage = "drive" THEN active \ {cont.worker} ELSE active,
             DOMAIN handle' = Workers, \A w \in Workers : handle'[w] # handle[w] => w = cont.worker
      PROVE  WorkersInv'
  <2>1. /\ cont'.stage = "none" /\ cont'.worker = "none"
        /\ cont' \in [worker : Workers \cup {"none"}, stage : {"none", "start", "drive", "refused"},
                      result : {"none"}, doomed : BOOLEAN]
    BY <1>3 DEF NoCall
  <2>2. \A w \in Workers : handle'[w] # handle[w] => kind[w] \notin {"none", "branch"}
    BY <1>3 DEF WorkersInv, Driven
  <2>3. active' = active \/ (ContDrives(cont.worker) /\ active' = active \ {cont.worker})
    BY <1>3 DEF ContDrives
  <2> QED
    BY <1>3, <2>1, <2>2, <2>3, WorkersAssumption, Continued DEF WorkersAssumption
<1>4. ASSUME NEW o \in Outcomes, ContinueReturns(o)
      PROVE  WorkersInv'
  <2>1. /\ cont' = NoCall /\ cont.stage \in {"drive", "refused"}
        /\ UNCHANGED <<kind, stage, result, cancel, cwd, live, note, stopped>>
        /\ active' = IF cont.stage = "drive" THEN active \ {cont.worker} ELSE active
        /\ \E s : handle' = [handle EXCEPT ![cont.worker] = s]
    BY <1>4 DEF ContinueReturns, callVars
  <2>2. DOMAIN handle' = Workers /\ \A w \in Workers : handle'[w] # handle[w] => w = cont.worker
    BY <2>1 DEF WorkersInv, WorkerTypes
  <2> QED
    BY <1>3, <2>1, <2>2
<1>5. CASE ContinueCancelled
  BY <1>3, <1>5 DEF ContinueCancelled, callVars, WorkersInv, WorkerTypes
<1> QED
  BY <1>1, <1>2, <1>4, <1>5 DEF ContinueStep

(* So the invariant holds throughout.                                      *)
LEMMA WorkersInvHolds == WorkersSpec => []WorkersInv
<1>1. WorkersInit => WorkersInv
  BY WorkersAssumption DEF WorkersAssumption, WorkersInit, WorkersInv, WorkerTypes, StoppedEnds,
     Driven, ContDrives, NoCall, InProgress
<1>2. WorkersInv /\ [WorkersNext]_workerVars => WorkersInv'
  <2> SUFFICES ASSUME WorkersInv, [WorkersNext]_workerVars
               PROVE  WorkersInv'
    OBVIOUS
  <2>1. ASSUME UNCHANGED <<kind, stage, result, cancel, cwd, handle, note, cont, stopped, live, active>>
        PROVE  WorkersInv'
    BY <2>1 DEF WorkersInv, WorkerTypes, StoppedEnds, Driven, ContDrives, InProgress
  <2>2. ASSUME NEW cancels \in BOOLEAN, Signal(cancels)
        PROVE  WorkersInv'
    <3>1. UNCHANGED <<kind, stage, result, cwd, handle, note, cont, live, active>>
      BY <2>2 DEF Signal, sessionVars
    <3>2. IF cancels THEN cancel' = cancel \cup Background /\ stopped' = stopped \cup Background
                     ELSE UNCHANGED <<cancel, stopped>>
      BY <2>2 DEF Signal, CancelWorkers
    <3> QED
      BY <2>1, <3>1, <3>2, WorkersStopped DEF WorkersInv, WorkerTypes
  <2>3. CASE RunStops
    BY <2>3, WorkersStopped DEF RunStops, CancelWorkers, callVars, sessionVars, WorkersInv, WorkerTypes
  <2>4. ASSUME NEW w \in Workers, TaskStop(w)
        PROVE  WorkersInv'
    <3>1. /\ handle[w] # "none" /\ handle' = [handle EXCEPT ![w] = "killed"]
          /\ UNCHANGED <<kind, stage, result, cwd, note, cont, live, active>>
      BY <2>4 DEF TaskStop, callVars
    <3>2. \E S \in SUBSET Background : cancel' = cancel \cup S /\ stopped' = stopped \cup S
      <4>1. CASE w \in Background
        BY <2>4, <4>1 DEF TaskStop
      <4>2. CASE w \notin Background
        <5>1. cancel' = cancel \cup {} /\ stopped' = stopped \cup {}
          BY <2>4, <4>2 DEF TaskStop
        <5> QED
          BY <5>1
      <4> QED
        BY <4>1, <4>2
    <3> QED
      BY <3>1, <3>2, WorkersStopped DEF WorkersInv, WorkerTypes
  <2>5. CASE RunFinishes \/ RootRunsAgain \/ UNCHANGED workerVars
    BY <2>1, <2>5 DEF RunFinishes, RootRunsAgain, workerVars, callVars, sessionVars
  <2>6. ASSUME NEW w \in Workers, CancelCall(w)
        PROVE  WorkersInv'
    <3>1. w \in InProgress /\ cancel' = cancel \cup {w}
          /\ UNCHANGED <<kind, stage, result, cwd, handle, note, cont, stopped, live, active>>
      BY <2>6 DEF CancelCall, callVars, sessionVars
    <3> QED
      BY <3>1 DEF WorkersInv, WorkerTypes, StoppedEnds, Driven, ContDrives, InProgress
  <2>7. ASSUME NEW w \in Workers, NEW k \in Modes[w], Spawn(w, k)
        PROVE  WorkersInv'
    BY <2>7, Spawned
  <2> QED
    BY <2>2, <2>3, <2>4, <2>5, <2>6, <2>7, WorkerSteps, ContinuationSteps
       DEF WorkersNext, SessionAbort, HostAbort
<1> QED
  BY <1>1, <1>2, PTL DEF WorkersSpec

(* A worker that is stopped never reports into the session, at whatever    *)
(* await its cancellation finds it (subagent.py, sessions.py).             *)
THEOREM StoppedWorkersStaySilent == WorkersSpec => []StoppedStaysSilent
<1>1. WorkersInv => StoppedStaysSilent
  BY DEF WorkersInv, StoppedEnds, StoppedStaysSilent
<1> QED
  BY <1>1, WorkersInvHolds, PTL

(* A child session is driven by one caller at a time, whichever hooks      *)
(* await between the check and the run (Session.run, SubagentContinue).    *)
THEOREM OneDriverAtATime == WorkersSpec => []OneDriver
<1>1. WorkersInv => OneDriver
  BY DEF WorkersInv, Driven, ContDrives, OneDriver
<1> QED
  BY <1>1, WorkersInvHolds, PTL

-----------------------------------------------------------------------------
(***************************************************************************)
(* Mail: in one place, in the order of the sends.                          *)
(***************************************************************************)

(* A sequence's elements after an append, and without its head.            *)
LEMMA ElementsAppended ==
  ASSUME NEW s \in Seq(Nat), NEW m \in Nat
  PROVE  /\ Append(s, m) \in Seq(Nat)
         /\ ToSet(Append(s, m)) = ToSet(s) \cup {m}
         /\ Increasing(s) /\ (\A n \in ToSet(s) : n < m) => Increasing(Append(s, m))
<1>1. /\ Append(s, m) \in Seq(Nat) /\ Len(Append(s, m)) = Len(s) + 1
      /\ \A i \in 1..Len(s) : Append(s, m)[i] = s[i]
      /\ Append(s, m)[Len(s) + 1] = m
  OBVIOUS
<1>2. DOMAIN Append(s, m) = 1..(Len(s) + 1) /\ DOMAIN s = 1..Len(s) /\ Len(s) \in Nat
  BY <1>1
<1>3. ToSet(Append(s, m)) = ToSet(s) \cup {m}
  BY <1>1, <1>2 DEF ToSet
<1>4. ASSUME Increasing(s), \A n \in ToSet(s) : n < m
      PROVE  Increasing(Append(s, m))
  <2>1. \A i \in 1..Len(s) : s[i] < m
    BY <1>4, <1>2 DEF ToSet
  <2> QED
    BY <2>1, <1>4, <1>1, <1>2 DEF Increasing
<1> QED
  BY <1>1, <1>3, <1>4

(* A drained list without the message just appended to the history.        *)
LEMMA ElementsLeft ==
  ASSUME NEW s \in Seq(Nat), s # <<>>
  PROVE  /\ Head(s) \in Nat /\ Tail(s) \in Seq(Nat)
         /\ ToSet(s) = {Head(s)} \cup ToSet(Tail(s))
         /\ Increasing(s) => /\ Increasing(Tail(s))
                             /\ \A n \in ToSet(Tail(s)) : Head(s) < n
<1>1. /\ Len(s) \in Nat \ {0} /\ Head(s) = s[1] /\ DOMAIN s = 1..Len(s)
      /\ Head(s) \in Nat /\ Tail(s) \in Seq(Nat) /\ Len(Tail(s)) = Len(s) - 1
      /\ DOMAIN Tail(s) = 1..(Len(s) - 1)
      /\ \A i \in 1..(Len(s) - 1) : Tail(s)[i] = s[i + 1]
  OBVIOUS
<1>2. ToSet(s) = {Head(s)} \cup ToSet(Tail(s))
  <2>1. ASSUME NEW i \in 1..Len(s)
        PROVE  i = 1 \/ \E j \in 1..(Len(s) - 1) : s[i] = Tail(s)[j]
    <3>1. CASE i # 1
      <4>1. i - 1 \in 1..(Len(s) - 1)
        BY <3>1, <1>1
      <4>2. Tail(s)[i - 1] = s[(i - 1) + 1]
        BY <4>1, <1>1
      <4>3. (i - 1) + 1 = i
        OBVIOUS
      <4> QED
        BY <4>1, <4>2, <4>3
    <3> QED
      BY <3>1
  <2>2. \A j \in 1..(Len(s) - 1) : j + 1 \in 1..Len(s)
    BY <1>1
  <2>3. ToSet(s) \subseteq {Head(s)} \cup ToSet(Tail(s))
    <3> SUFFICES ASSUME NEW i \in 1..Len(s) PROVE s[i] \in {Head(s)} \cup ToSet(Tail(s))
      BY <1>1 DEF ToSet
    <3> QED
      BY <2>1, <1>1 DEF ToSet
  <2>4. Head(s) \in ToSet(s)
    BY <1>1 DEF ToSet
  <2>5. ToSet(Tail(s)) \subseteq ToSet(s)
    BY <2>2, <1>1 DEF ToSet
  <2> QED
    BY <2>3, <2>4, <2>5
<1>3. ASSUME Increasing(s)
      PROVE  Increasing(Tail(s)) /\ \A n \in ToSet(Tail(s)) : Head(s) < n
  <2>1. \A i, j \in 1..Len(s) : i < j => s[i] < s[j]
    BY <1>3, <1>1 DEF Increasing
  <2>2. ASSUME NEW i \in 1..(Len(s) - 1), NEW j \in 1..(Len(s) - 1), i < j
        PROVE  Tail(s)[i] < Tail(s)[j]
    <3>1. i + 1 \in 1..Len(s) /\ j + 1 \in 1..Len(s) /\ i + 1 < j + 1
      BY <2>2, <1>1
    <3> QED
      BY <3>1, <2>1, <1>1
  <2>3. ASSUME NEW i \in 1..(Len(s) - 1) PROVE Head(s) < Tail(s)[i]
    <3>1. i + 1 \in 1..Len(s) /\ 1 \in 1..Len(s) /\ 1 < i + 1
      BY <1>1
    <3> QED
      BY <3>1, <2>1, <1>1
  <2>4. Increasing(Tail(s))
    BY <2>2, <1>1 DEF Increasing
  <2>5. \A n \in ToSet(Tail(s)) : Head(s) < n
    BY <2>3, <1>1 DEF ToSet
  <2> QED
    BY <2>4, <2>5
<1> QED
  BY <1>1, <1>2, <1>3

(* A reader's history followed by what it has drained and not yet read.    *)
LEMMA OneAfterTheOther ==
  ASSUME NEW s \in Seq(Nat), NEW t \in Seq(Nat), Increasing(s), Increasing(t),
         \A m \in ToSet(s), n \in ToSet(t) : m < n
  PROVE  Increasing(s \o t)
<1>1. /\ s \o t \in Seq(Nat) /\ Len(s \o t) = Len(s) + Len(t)
      /\ Len(s) \in Nat /\ Len(t) \in Nat
      /\ DOMAIN (s \o t) = 1..(Len(s) + Len(t))
      /\ \A i \in 1..Len(s) : (s \o t)[i] = s[i]
      /\ \A i \in (Len(s) + 1)..(Len(s) + Len(t)) : (s \o t)[i] = t[i - Len(s)]
  OBVIOUS
<1>2. /\ \A i, j \in 1..Len(s) : i < j => s[i] < s[j]
      /\ \A i, j \in 1..Len(t) : i < j => t[i] < t[j]
      /\ \A i \in 1..Len(s), j \in 1..Len(t) : s[i] < t[j]
  BY DEF Increasing, ToSet
<1> SUFFICES ASSUME NEW i \in 1..(Len(s) + Len(t)), NEW j \in 1..(Len(s) + Len(t)), i < j
             PROVE  (s \o t)[i] < (s \o t)[j]
  BY <1>1 DEF Increasing
<1>3. CASE j \in 1..Len(s)
  <2>1. i \in 1..Len(s)
    BY <1>3, <1>1
  <2> QED
    BY <2>1, <1>3, <1>1, <1>2
<1>4. CASE i \in 1..Len(s) /\ j \in (Len(s) + 1)..(Len(s) + Len(t))
  <2>1. j - Len(s) \in 1..Len(t)
    BY <1>4, <1>1
  <2> QED
    BY <2>1, <1>4, <1>1, <1>2
<1>5. CASE i \in (Len(s) + 1)..(Len(s) + Len(t)) /\ j \in (Len(s) + 1)..(Len(s) + Len(t))
  <2>1. i - Len(s) \in 1..Len(t) /\ j - Len(s) \in 1..Len(t) /\ i - Len(s) < j - Len(s)
    BY <1>5, <1>1
  <2> QED
    BY <2>1, <1>5, <1>1, <1>2
<1> QED
  BY <1>3, <1>4, <1>5, <1>1

-----------------------------------------------------------------------------
(* What the order of the sends rests on: whatever a reader has was sent    *)
(* before whatever it has drained, and that before what waits in the       *)
(* inbox.                                                                  *)
MailTypes ==
  /\ sent \in Nat
  /\ inbox \in Seq(Nat)
  /\ view \in [Readers -> Seq(Nat)]
  /\ drained \in [Readers -> Seq(Nat)]

MailOrder ==
  /\ Increasing(inbox)
  /\ \A r \in Readers :
       /\ Increasing(view[r]) /\ Increasing(drained[r])
       /\ \A m \in ToSet(view[r]), n \in ToSet(drained[r]) : m < n
       /\ \A m \in Got(r), n \in ToSet(inbox) : m < n

MailPlaces ==
  /\ 1..sent = ToSet(inbox) \cup dropped \cup UNION {Got(r) : r \in Readers}
  /\ ToSet(inbox) \cap dropped = {}
  /\ \A r \in Readers :
       /\ Got(r) \cap (ToSet(inbox) \cup dropped) = {}
       /\ \A s \in Readers \ {r} : Got(r) \cap Got(s) = {}

MailInv == MailTypes /\ MailOrder /\ MailPlaces

(* Every step of the mailbox keeps the mail in one place and in order.     *)
LEMMA MailStep == MailInv /\ [MailboxNext]_mailVars => MailInv'
<1> SUFFICES ASSUME MailInv, [MailboxNext]_mailVars PROVE MailInv'
  OBVIOUS
<1> USE DEF MailInv
<1>0. ToSet(<<>>) = {} /\ Increasing(<<>>) /\ <<>> \in Seq(Nat)
  BY DEF ToSet, Increasing
<1>1. ASSUME NEW q, Send(q) PROVE MailInv'
  <2>1. /\ sent' = sent + 1 /\ inbox' = Append(inbox, sent + 1)
        /\ UNCHANGED <<drained, view, dropped>>
    BY <1>1 DEF Send
  <2>2. /\ \A n \in ToSet(inbox) : n < sent + 1 /\ n \in Nat
        /\ \A r \in Readers : \A n \in Got(r) : n < sent + 1 /\ n \in Nat
        /\ \A n \in dropped : n < sent + 1 /\ n \in Nat
    <3>1. \A n \in 1..sent : n < sent + 1 /\ n \in Nat
      BY DEF MailTypes
    <3> QED
      BY <3>1 DEF MailPlaces
  <2>3. /\ inbox' \in Seq(Nat) /\ ToSet(inbox') = ToSet(inbox) \cup {sent + 1}
        /\ Increasing(inbox')
    BY <2>1, <2>2, ElementsAppended DEF MailTypes, MailOrder
  <2>4. \A r \in Readers : Got(r)' = Got(r)
    BY <2>1 DEF Got
  <2>5. 1..(sent + 1) = 1..sent \cup {sent + 1} /\ sent + 1 \in Nat
    BY DEF MailTypes
  <2>6. sent + 1 \notin ToSet(inbox) /\ sent + 1 \notin dropped
        /\ \A r \in Readers : sent + 1 \notin Got(r)
    BY <2>2, <2>5
  <2>7. MailTypes'
    BY <2>1, <2>3, <2>5 DEF MailTypes
  <2>8. MailOrder'
    BY <2>1, <2>2, <2>3, <2>4, <2>5 DEF MailOrder
  <2>9. MailPlaces'
    <3>1. UNION {Got(r)' : r \in Readers} = UNION {Got(r) : r \in Readers}
      BY <2>4
    <3>2. (1..sent)' = ToSet(inbox') \cup dropped' \cup UNION {Got(r)' : r \in Readers}
      BY <2>1, <2>3, <2>5, <3>1 DEF MailPlaces
    <3> QED
      BY <3>2, <2>1, <2>3, <2>4, <2>6 DEF MailPlaces
  <2> QED
    BY <2>7, <2>8, <2>9
<1>2. ASSUME NEW r \in Readers, DrainInbox(r) PROVE MailInv'
  <2>1. /\ drained[r] = <<>>
        /\ drained' = [drained EXCEPT ![r] = inbox] /\ inbox' = <<>>
        /\ UNCHANGED <<sent, view, dropped>>
    BY <1>2 DEF DrainInbox
  <2>2. /\ drained'[r] = inbox /\ drained' \in [Readers -> Seq(Nat)]
        /\ \A s \in Readers \ {r} : drained'[s] = drained[s]
    BY <2>1 DEF MailTypes
  <2>3. /\ Got(r) = ToSet(view[r]) /\ Got(r)' = ToSet(view[r]) \cup ToSet(inbox)
        /\ \A s \in Readers \ {r} : Got(s)' = Got(s)
    BY <2>1, <2>2, <1>0 DEF Got
  <2>4. MailTypes'
    BY <2>1, <2>2, <1>0 DEF MailTypes
  <2>5. MailOrder'
    <3>1. \A s \in Readers : Increasing(drained'[s])
      BY <2>2 DEF MailOrder
    <3>2. \A s \in Readers : \A m \in ToSet(view[s]), n \in ToSet(drained'[s]) : m < n
      BY <2>2, <2>3 DEF MailOrder
    <3> QED
      BY <3>1, <3>2, <2>1, <1>0 DEF MailOrder
  <2>6. MailPlaces'
    BY <2>1, <2>3, <1>0 DEF MailPlaces
  <2> QED
    BY <2>4, <2>5, <2>6
<1>3. ASSUME NEW r \in Readers, AppendPeerMessage(r) PROVE MailInv'
  <2>1. /\ drained[r] # <<>>
        /\ view' = [view EXCEPT ![r] = Append(view[r], Head(drained[r]))]
        /\ drained' = [drained EXCEPT ![r] = Tail(drained[r])]
        /\ UNCHANGED <<sent, inbox, dropped>>
    BY <1>3 DEF AppendPeerMessage
  <2>2. view[r] \in Seq(Nat) /\ drained[r] \in Seq(Nat)
    BY DEF MailTypes
  <2>3. /\ Head(drained[r]) \in Nat /\ Tail(drained[r]) \in Seq(Nat)
        /\ ToSet(drained[r]) = {Head(drained[r])} \cup ToSet(Tail(drained[r]))
        /\ Increasing(Tail(drained[r]))
        /\ \A n \in ToSet(Tail(drained[r])) : Head(drained[r]) < n
    BY <2>1, <2>2, ElementsLeft DEF MailOrder
  <2>4. /\ Append(view[r], Head(drained[r])) \in Seq(Nat)
        /\ ToSet(Append(view[r], Head(drained[r]))) = ToSet(view[r]) \cup {Head(drained[r])}
        /\ Increasing(Append(view[r], Head(drained[r])))
    BY <2>2, <2>3, ElementsAppended DEF MailOrder
  <2>5. /\ view'[r] = Append(view[r], Head(drained[r])) /\ drained'[r] = Tail(drained[r])
        /\ view' \in [Readers -> Seq(Nat)] /\ drained' \in [Readers -> Seq(Nat)]
        /\ \A s \in Readers \ {r} : view'[s] = view[s] /\ drained'[s] = drained[s]
    BY <2>1, <2>3, <2>4 DEF MailTypes
  <2>6. \A s \in Readers : Got(s)' = Got(s)
    BY <2>3, <2>4, <2>5 DEF Got
  <2>7. MailTypes'
    BY <2>1, <2>5 DEF MailTypes
  <2>8. MailOrder'
    <3>1. \A s \in Readers : Increasing(view'[s]) /\ Increasing(drained'[s])
      BY <2>3, <2>4, <2>5 DEF MailOrder
    <3>2. \A s \in Readers : \A m \in ToSet(view'[s]), n \in ToSet(drained'[s]) : m < n
      BY <2>3, <2>4, <2>5 DEF MailOrder
    <3> QED
      BY <3>1, <3>2, <2>1, <2>6 DEF MailOrder
  <2>9. MailPlaces'
    <3>1. UNION {Got(s)' : s \in Readers} = UNION {Got(s) : s \in Readers}
      BY <2>6
    <3> QED
      BY <3>1, <2>1, <2>6 DEF MailPlaces
  <2> QED
    BY <2>7, <2>8, <2>9
<1>4. ASSUME NEW r \in Readers, AbandonDrain(r) PROVE MailInv'
  <2>1. /\ dropped' = dropped \cup ToSet(drained[r])
        /\ drained' = [drained EXCEPT ![r] = <<>>]
        /\ UNCHANGED <<sent, inbox, view>>
    BY <1>4 DEF AbandonDrain
  <2>2. /\ drained'[r] = <<>> /\ drained' \in [Readers -> Seq(Nat)]
        /\ \A s \in Readers \ {r} : drained'[s] = drained[s]
    BY <2>1, <1>0 DEF MailTypes
  <2>3. /\ Got(r)' = ToSet(view[r]) /\ Got(r) = ToSet(view[r]) \cup ToSet(drained[r])
        /\ \A s \in Readers \ {r} : Got(s)' = Got(s)
    BY <2>1, <2>2, <1>0 DEF Got
  <2>4. MailTypes'
    BY <2>1, <2>2 DEF MailTypes
  <2>5. ToSet(view[r]) \cap ToSet(drained[r]) = {}
    <3>1. view[r] \in Seq(Nat)
      BY DEF MailTypes
    <3>2. ToSet(view[r]) \subseteq Nat
      BY <3>1 DEF ToSet
    <3>3. \A m \in Nat : ~(m < m)
      OBVIOUS
    <3> QED
      BY <3>2, <3>3 DEF MailOrder
  <2>6. MailOrder'
    BY <2>1, <2>2, <2>3, <1>0 DEF MailOrder
  <2>7. MailPlaces'
    <3>1. dropped' \cup UNION {Got(s)' : s \in Readers}
            = dropped \cup UNION {Got(s) : s \in Readers}
      BY <2>1, <2>3
    <3>2. ToSet(inbox) \cap dropped' = {}
      BY <2>1, <2>3 DEF MailPlaces
    <3>3. ASSUME NEW s \in Readers PROVE Got(s)' \cap (ToSet(inbox) \cup dropped') = {}
      BY <2>1, <2>3, <2>5 DEF MailPlaces
    <3>4. ASSUME NEW s \in Readers, NEW u \in Readers \ {s} PROVE Got(s)' \cap Got(u)' = {}
      BY <2>3 DEF MailPlaces
    <3>5. 1..sent = ToSet(inbox) \cup dropped' \cup UNION {Got(s)' : s \in Readers}
      BY <3>1 DEF MailPlaces
    <3> QED
      BY <2>1, <3>2, <3>3, <3>4, <3>5 DEF MailPlaces
  <2> QED
    BY <2>4, <2>6, <2>7
<1>5. ASSUME UNCHANGED <<sent, inbox, drained, view, dropped>> PROVE MailInv'
  <2>1. \A r \in Readers : Got(r)' = Got(r)
    BY <1>5 DEF Got
  <2>2. UNION {Got(s)' : s \in Readers} = UNION {Got(s) : s \in Readers}
    BY <2>1
  <2>3. MailTypes' /\ MailOrder'
    BY <1>5, <2>1 DEF MailTypes, MailOrder
  <2>4. MailPlaces'
    BY <1>5, <2>1, <2>2 DEF MailPlaces
  <2> QED
    BY <2>3, <2>4
<1> QED
  BY <1>1, <1>2, <1>3, <1>4, <1>5 DEF MailboxNext, Open, Resolve, mailVars

(* Mail is never duplicated, overwritten or out of order, however many     *)
(* sessions drain one inbox and however often a drain is abandoned.        *)
THEOREM MailArrivesOnce == MailboxSpec => []MailOnceInOrder
<1>1. MailboxInit => MailInv
  <2> SUFFICES ASSUME MailboxInit PROVE MailInv
    OBVIOUS
  <2>1. ToSet(<<>>) = {} /\ Increasing(<<>>) /\ <<>> \in Seq(Nat)
    BY DEF ToSet, Increasing
  <2>2. \A r \in Readers : view[r] = <<>> /\ drained[r] = <<>> /\ Got(r) = {}
    BY <2>1 DEF MailboxInit, Got
  <2>3. MailTypes
    BY <2>1 DEF MailboxInit, MailTypes
  <2>4. MailOrder
    BY <2>1, <2>2 DEF MailboxInit, MailOrder
  <2>5. 1..sent = {} /\ inbox = <<>> /\ dropped = {}
    BY DEF MailboxInit
  <2>6. MailPlaces
    BY <2>1, <2>2, <2>5 DEF MailPlaces
  <2> QED
    BY <2>3, <2>4, <2>6 DEF MailInv
<1>2. MailInv => MailOnceInOrder
  <2> SUFFICES ASSUME MailInv PROVE MailOnceInOrder
    OBVIOUS
  <2>1. \A r \in Readers : Increasing(view[r] \o drained[r])
    BY OneAfterTheOther DEF MailInv, MailTypes, MailOrder
  <2> QED
    BY <2>1 DEF MailInv, MailOrder, MailPlaces, MailOnceInOrder
<1> QED
  BY <1>1, <1>2, MailStep, PTL DEF MailboxSpec

-----------------------------------------------------------------------------
(***************************************************************************)
(* Workflows: a journaled call is not run again.                           *)
(***************************************************************************)

(* The calls a workflow makes are finitely many.                           *)
LEMMA SitesAreFinite == \A k : IsFiniteSet(Sites(k)) /\ CallsOf(k) \in Nat
<1> DEFINE Of(b) == {b} \X DOMAIN Program[b]
           All == {Of(b) : b \in Branches}
           f == [b \in Branches |-> Of(b)]
<1>1. \A b \in Branches : IsFiniteSet(Of(b))
  <2> SUFFICES ASSUME NEW b \in Branches PROVE IsFiniteSet(Of(b))
    OBVIOUS
  <2>1. Program[b] \in Seq(Keys)
    BY WorkflowAssumption
  <2>2. DOMAIN Program[b] = 1..Len(Program[b]) /\ Len(Program[b]) \in Nat
    BY <2>1
  <2>3. IsFiniteSet(DOMAIN Program[b])
    BY <2>2, FS_Interval
  <2>4. IsFiniteSet({b})
    BY FS_Singleton
  <2> QED
    BY <2>3, <2>4, FS_Product
<1>2. f \in Surjection(Branches, All)
  BY DEF Surjection
<1>3. IsFiniteSet(All)
  BY <1>2, WorkflowAssumption, FS_Surjection
<1>4. \A T \in All : IsFiniteSet(T)
  BY <1>1
<1>5. IsFiniteSet(UNION All)
  BY <1>3, <1>4, FS_UNION
<1>6. \A k : Sites(k) \in SUBSET (UNION All)
  BY DEF Sites
<1> HIDE DEF All
<1>7. \A k : IsFiniteSet(Sites(k))
  BY <1>5, <1>6, FS_Subset
<1> QED
  BY <1>7, FS_CardinalityType DEF CallsOf

(* A place in a branch's program that the branch has called.               *)
Underway == {"replayed", "running", "emit", "failed"}
Called(stands, upto, i) == i < upto \/ (i = upto /\ stands \in Underway)

(* The calls an invocation has made with a key, and their occurrences: its *)
(* counter counts them, so their occurrences are below the number of the   *)
(* key's calls, and a call whose occurrence was loaded is not run.         *)
Made(g, k) == {s \in Sites(k) : Called(at[g][s[1]], step[g][s[1]], s[2])}
Upto(k, n) == {k} \X {i \in Nat : i < n}
Occurrences == UNION {Upto(k, CallsOf(k)) : k \in Keys}

Standing ==
  Underway \cup {"none", "queued", "call", "join", "done"}

WorkflowTypes ==
  /\ invoked \in Nat /\ invoked <= Invocations
  /\ outcome \in [Gens -> {"none", "running", "completed", "failed", "dead"}]
  /\ journal \in [Gens -> SUBSET Occurrences]
  /\ loaded \in [Gens -> SUBSET Occurrences]
  /\ log \in SUBSET Occurrences
  /\ counter \in [Gens -> [Keys -> Nat]]
  /\ runs \in [Gens -> [Keys -> Nat]]
  /\ at \in [Gens -> [Branches -> Standing]]
  /\ step \in [Gens -> [Branches -> Nat \ {0}]]
  /\ occ \in [Gens -> [Branches -> Nat]]

(* A branch that has called is at a place of its program, with an          *)
(* occurrence its key has; an inner branch starts when its outer one       *)
(* waits for it; and an invocation not made has no branch at work.         *)
BranchesStand ==
  /\ \A g \in Gens, b \in Branches :
       at[g][b] \in Underway =>
         /\ step[g][b] \in DOMAIN Program[b]
         /\ occ[g][b] < CallsOf(Key(g, b))
  /\ \A g \in Gens, b, c \in Branches :
       c \in Inner(b) /\ at[g][c] # "none" => at[g][b] \in {"join", "done"}
  /\ \A g \in Gens : g > invoked =>
       /\ outcome[g] = "none"
       /\ \A b \in Branches : at[g][b] = "none" /\ step[g][b] = 1
       /\ \A k \in Keys : runs[g][k] = 0

CallsCounted ==
  /\ \A g \in Gens : loaded[g] \subseteq journal[g]
  /\ \A g \in Gens, k \in Keys :
       /\ counter[g][k] = Cardinality(Made(g, k))
       /\ runs[g][k] <= Cardinality(Upto(k, counter[g][k]) \ loaded[g])

WorkflowInv == WorkflowTypes /\ BranchesStand /\ CallsCounted

-----------------------------------------------------------------------------
(* The occurrences of a key below a number are as many as that number.     *)
LEMMA OccurrencesCounted ==
  ASSUME NEW k, NEW n \in Nat
  PROVE  /\ IsFiniteSet(Upto(k, n)) /\ Cardinality(Upto(k, n)) = n
         /\ Upto(k, n + 1) = Upto(k, n) \cup {<<k, n>>}
         /\ <<k, n>> \notin Upto(k, n)
<1>1. {i \in Nat : i < n} = 0..(n - 1)
  OBVIOUS
<1>2. IsFiniteSet({i \in Nat : i < n}) /\ Cardinality({i \in Nat : i < n}) = n
  <2>1. IsFiniteSet(0..(n - 1))
        /\ Cardinality(0..(n - 1)) = IF 0 > n - 1 THEN 0 ELSE (n - 1) - 0 + 1
    BY FS_Interval
  <2>2. (IF 0 > n - 1 THEN 0 ELSE (n - 1) - 0 + 1) = n
    OBVIOUS
  <2> QED
    BY <1>1, <2>1, <2>2
<1>3. IsFiniteSet({k}) /\ Cardinality({k}) = 1
  BY FS_Singleton
<1>4. IsFiniteSet(Upto(k, n)) /\ Cardinality(Upto(k, n)) = 1 * n
  <2> DEFINE N == {i \in Nat : i < n}
  <2>1. IsFiniteSet(N) /\ Cardinality(N) = n
    BY <1>2
  <2> HIDE DEF N
  <2>2. IsFiniteSet({k} \X N) /\ Cardinality({k} \X N) = Cardinality({k}) * Cardinality(N)
    BY <2>1, <1>3, FS_Product
  <2>3. Upto(k, n) = {k} \X N
    BY DEF Upto, N
  <2> QED
    BY <2>1, <2>2, <2>3, <1>3
<1>5. Upto(k, n + 1) = Upto(k, n) \cup {<<k, n>>}
  <2>1. {i \in Nat : i < n + 1} = {i \in Nat : i < n} \cup {n}
    OBVIOUS
  <2> QED
    BY <2>1 DEF Upto
<1>6. <<k, n>> \notin Upto(k, n)
  BY DEF Upto
<1>7. 1 * n = n
  OBVIOUS
<1> QED
  BY <1>4, <1>5, <1>6, <1>7

(* The bound follows: what was loaded with a key and what was run with it  *)
(* are different occurrences of the key's calls.                           *)
LEMMA LoadedAndRun == WorkflowInv => JournaledCallsAreNotRerun
<1> SUFFICES ASSUME WorkflowInv PROVE JournaledCallsAreNotRerun
  OBVIOUS
<1>a. invoked \in Nat /\ invoked <= Invocations
  BY DEF WorkflowInv, WorkflowTypes
<1>b. \A h \in 1..invoked : h \in Gens
  BY <1>a, WorkflowAssumption DEF Gens
<1> SUFFICES ASSUME NEW g \in Gens, NEW k \in Keys
             PROVE  runs[g][k] + Cardinality({c \in loaded[g] : c[1] = k}) <= CallsOf(k)
  BY <1>b DEF JournaledCallsAreNotRerun
<1> DEFINE n == counter[g][k]
           N == CallsOf(k)
           L == {c \in loaded[g] : c[1] = k}
           R == Upto(k, n) \ loaded[g]
           U == Upto(k, N)
<1>1. /\ n \in Nat /\ N \in Nat /\ runs[g][k] \in Nat
      /\ runs[g][k] <= Cardinality(R)
      /\ n = Cardinality(Made(g, k))
  BY SitesAreFinite DEF WorkflowInv, WorkflowTypes, CallsCounted
<1>2. n <= N
  BY <1>1, SitesAreFinite, FS_Subset DEF Made, CallsOf
<1>3. R \in SUBSET U
  BY <1>1, <1>2 DEF Upto
<1>4. L \in SUBSET U
  <2>1. loaded[g] \subseteq Occurrences
    BY DEF WorkflowInv, WorkflowTypes
  <2> QED
    BY <2>1 DEF Occurrences, Upto
<1>5. R \cap L = {}
  OBVIOUS
<1>6. IsFiniteSet(U) /\ Cardinality(U) = N
  BY <1>1, OccurrencesCounted
<1> HIDE DEF R, L, U, N, n
<1>7. IsFiniteSet(R) /\ IsFiniteSet(L)
  BY <1>3, <1>4, <1>6, FS_Subset
<1>8. /\ IsFiniteSet(R \cup L)
      /\ Cardinality(R \cup L) = Cardinality(R) + Cardinality(L) - Cardinality(R \cap L)
  BY <1>7, FS_Union
<1>9. Cardinality(R \cap L) = 0
  BY <1>5, FS_EmptySet
<1>10. R \cup L \in SUBSET U
  BY <1>3, <1>4
<1>11. Cardinality(R \cup L) <= N
  BY <1>10, <1>6, FS_Subset
<1>12. Cardinality(R) \in Nat /\ Cardinality(L) \in Nat
  BY <1>7, FS_CardinalityType
<1>13. runs[g][k] + Cardinality(L) <= N
  BY <1>1, <1>8, <1>9, <1>11, <1>12
<1> QED
  BY <1>13 DEF L, N
-----------------------------------------------------------------------------
(* A branch's step moves that branch only, to a stage and a place of its   *)
(* program.                                                                *)
Moved(g, b, p, n) ==
  /\ at' \in [Gens -> [Branches -> Standing]]
  /\ step' \in [Gens -> [Branches -> Nat \ {0}]]
  /\ \A h \in Gens, c \in Branches :
       /\ at'[h][c] = IF h = g /\ c = b THEN p ELSE at[h][c]
       /\ step'[h][c] = IF h = g /\ c = b THEN n ELSE step[h][c]

(* A branch that moves stands at the place it was moved to, at the same    *)
(* step or, after Advance, at the next.                                    *)
LEMMA MovedThere ==
  ASSUME WorkflowTypes, NEW g \in Gens, NEW b \in Branches, NEW p \in Standing, Moves(g, b, p)
  PROVE  /\ step' = step => Moved(g, b, p, step[g][b])
         /\ Advance(g, b) => Moved(g, b, p, step[g][b] + 1)
<1>1. /\ at' \in [Gens -> [Branches -> Standing]]
      /\ \A h \in Gens, c \in Branches :
           at'[h][c] = IF h = g /\ c = b THEN p ELSE at[h][c]
  BY DEF WorkflowTypes, Moves
<1>2. step \in [Gens -> [Branches -> Nat \ {0}]]
  BY DEF WorkflowTypes
<1>3. ASSUME step' = step PROVE Moved(g, b, p, step[g][b])
  BY <1>1, <1>2, <1>3 DEF Moved
<1>4. ASSUME Advance(g, b) PROVE Moved(g, b, p, step[g][b] + 1)
  <2>1. step[g][b] + 1 \in Nat \ {0}
    BY <1>2
  <2>2. step' = [step EXCEPT ![g][b] = step[g][b] + 1]
    BY <1>4 DEF Advance
  <2>3. /\ step' \in [Gens -> [Branches -> Nat \ {0}]]
        /\ \A h \in Gens, c \in Branches :
             step'[h][c] = IF h = g /\ c = b THEN step[g][b] + 1 ELSE step[h][c]
    BY <1>2, <2>1, <2>2
  <2> QED
    BY <1>1, <2>3, <1>2 DEF Moved
<1> QED
  BY <1>3, <1>4

(* A step of a branch at work leaves every branch where it may stand.      *)
LEMMA BranchesStay ==
  ASSUME WorkflowTypes, BranchesStand,
         NEW g \in Gens, NEW b \in Branches, NEW p, NEW n, Moved(g, b, p, n),
         outcome[g] # "none", at[g][b] # "none",
         at[g][b] \in {"join", "done"} => p \in {"join", "done"},
         p \in Underway => /\ n \in DOMAIN Program[b]
                         /\ occ'[g][b] < CallsOf(Program[b][n]),
         \A h \in Gens, c \in Branches : h # g \/ c # b => occ'[h][c] = occ[h][c],
         invoked' = invoked, \A h \in Gens \ {g} : outcome'[h] = outcome[h],
         \A h \in Gens \ {g}, k \in Keys : runs'[h][k] = runs[h][k]
  PROVE  BranchesStand'
<1>1. ~(g > invoked)
  BY DEF BranchesStand
<1>2. ASSUME NEW h \in Gens, NEW c \in Branches, at'[h][c] \in Underway
      PROVE  /\ step'[h][c] \in DOMAIN Program[c]
             /\ occ'[h][c] < CallsOf(Key(h, c))'
  <2>1. CASE h = g /\ c = b
    BY <2>1, <1>2 DEF Moved, Key
  <2>2. CASE h # g \/ c # b
    <3>1. at'[h][c] = at[h][c] /\ step'[h][c] = step[h][c] /\ occ'[h][c] = occ[h][c]
      BY <2>2 DEF Moved
    <3>2. step[h][c] \in DOMAIN Program[c] /\ occ[h][c] < CallsOf(Program[c][step[h][c]])
      BY <1>2, <3>1 DEF BranchesStand, Key
    <3> QED
      BY <3>1, <3>2 DEF Key
  <2> QED
    BY <2>1, <2>2
<1>3. ASSUME NEW h \in Gens, NEW c \in Branches, NEW d \in Branches, d \in Inner(c),
             at'[h][d] # "none"
      PROVE  at'[h][c] \in {"join", "done"}
  <2>1. at[h][d] # "none"
    BY <1>3 DEF Moved
  <2>2. at[h][c] \in {"join", "done"}
    BY <2>1, <1>3 DEF BranchesStand
  <2> QED
    BY <2>2 DEF Moved
<1>4. ASSUME NEW h \in Gens, h > invoked'
      PROVE  /\ outcome'[h] = "none"
             /\ \A c \in Branches : at'[h][c] = "none" /\ step'[h][c] = 1
             /\ \A k \in Keys : runs'[h][k] = 0
  <2>1. h # g /\ h > invoked
    BY <1>1, <1>4
  <2>2. /\ outcome[h] = "none"
        /\ \A c \in Branches : at[h][c] = "none" /\ step[h][c] = 1
        /\ \A k \in Keys : runs[h][k] = 0
    BY <2>1 DEF BranchesStand
  <2>3. \A c \in Branches : at'[h][c] = at[h][c] /\ step'[h][c] = step[h][c]
    BY <2>1 DEF Moved
  <2> QED
    BY <2>1, <2>2, <2>3
<1> QED
  BY <1>2, <1>3, <1>4 DEF BranchesStand

(* A step that makes no call leaves the counts.                            *)
LEMMA NothingCalled ==
  ASSUME CallsCounted,
         \A g \in Gens, b \in Branches : \A i \in DOMAIN Program[b] :
            Called(at'[g][b], step'[g][b], i) <=> Called(at[g][b], step[g][b], i),
         UNCHANGED <<counter, runs, loaded>>,
         \A g \in Gens : journal[g] \subseteq journal'[g]
  PROVE  CallsCounted'
<1>1. \A k : \A s \in Sites(k) : s[1] \in Branches /\ s[2] \in DOMAIN Program[s[1]]
  BY DEF Sites
<1>2. \A g \in Gens, k \in Keys : Made(g, k)' = Made(g, k)
  BY <1>1 DEF Made
<1> QED
  BY <1>2 DEF CallsCounted

(* So a branch's step that neither calls nor fails keeps the invariant.    *)
LEMMA QuietStep ==
  ASSUME WorkflowInv, NEW g \in Gens, NEW b \in Branches, NEW p, NEW n, Moved(g, b, p, n),
         outcome[g] # "none", at[g][b] # "none",
         at[g][b] \in {"join", "done"} => p \in {"join", "done"},
         p \in Underway => p # "replayed" /\ at[g][b] \in Underway /\ n = step[g][b],
         \A i \in DOMAIN Program[b] :
            Called(p, n, i) <=> Called(at[g][b], step[g][b], i),
         outcome' \in [Gens -> {"none", "running", "completed", "failed", "dead"}],
         \A h \in Gens \ {g} : outcome'[h] = outcome[h],
         UNCHANGED <<invoked, counter, occ, loaded, runs>>,
         journal' \in [Gens -> SUBSET Occurrences], log' \in SUBSET Occurrences,
         \A h \in Gens : journal[h] \subseteq journal'[h]
  PROVE  WorkflowInv'
<1>1. WorkflowTypes'
  BY DEF WorkflowInv, WorkflowTypes, Moved
<1>2. p \in Underway => /\ n \in DOMAIN Program[b]
                      /\ occ'[g][b] < CallsOf(Program[b][n])
  BY DEF WorkflowInv, BranchesStand, Key
<1>3. BranchesStand'
  BY <1>2, BranchesStay DEF WorkflowInv
<1>4. \A h \in Gens, c \in Branches : \A i \in DOMAIN Program[c] :
        Called(at'[h][c], step'[h][c], i) <=> Called(at[h][c], step[h][c], i)
  BY DEF Moved
<1>5. CallsCounted'
  BY <1>4, NothingCalled DEF WorkflowInv
<1> QED
  BY <1>1, <1>3, <1>5 DEF WorkflowInv

(* A branch's call takes the next occurrence of its key, which the key     *)
(* has; it runs a subagent only when the invocation did not load it.       *)
LEMMA CallCounted ==
  ASSUME WorkflowInv, NEW g \in Gens, NEW b \in Branches, Call(g, b)
  PROVE  WorkflowInv'
<1>n. PICK n : n = step[g][b]
  OBVIOUS
<1>k. PICK K : K = Program[b][n]
  OBVIOUS
<1>o. PICK o : o = counter[g][K]
  OBVIOUS
<1> DEFINE hit == <<K, o>> \in journal[g]
           p == IF hit THEN "replayed" ELSE "running"
           r == IF hit THEN runs[g][K] ELSE runs[g][K] + 1
<1>1. /\ outcome[g] \in {"running", "failed", "completed"} /\ at[g][b] = "call"
      /\ n <= Len(Program[b])
      /\ counter' = [counter EXCEPT ![g][K] = o + 1]
      /\ occ' = [occ EXCEPT ![g][b] = o]
      /\ Moves(g, b, p)
      /\ runs' = IF hit THEN runs ELSE [runs EXCEPT ![g][K] = @ + 1]
      /\ UNCHANGED <<invoked, outcome, status, log, journal, step, loaded>>
  BY <1>n, <1>k, <1>o DEF Call, Alive, Key, NextOccurrence
<1>2. WorkflowTypes /\ BranchesStand /\ CallsCounted
  BY DEF WorkflowInv
<1>3. p \in Standing /\ p \in Underway
  BY DEF Standing, Underway
<1>4. Moved(g, b, p, n)
  BY <1>1, <1>2, <1>3, <1>n, MovedThere
<1>5. n \in DOMAIN Program[b] /\ K \in Keys /\ <<b, n>> \in Sites(K)
  <2>1. n \in Nat \ {0} /\ Program[b] \in Seq(Keys)
    BY <1>2, <1>n, WorkflowAssumption DEF WorkflowTypes
  <2>2. n \in DOMAIN Program[b]
    BY <2>1, <1>1
  <2> QED
    BY <2>2, <1>k DEF Keys, Sites
<1>6. o \in Nat /\ runs[g][K] \in Nat /\ r \in Nat
  BY <1>2, <1>5, <1>o DEF WorkflowTypes
<1>7. /\ counter' \in [Gens -> [Keys -> Nat]]
      /\ \A h \in Gens, k \in Keys :
           counter'[h][k] = IF h = g /\ k = K THEN o + 1 ELSE counter[h][k]
  <2>1. counter \in [Gens -> [Keys -> Nat]] /\ o + 1 \in Nat
    BY <1>2, <1>6 DEF WorkflowTypes
  <2>2. PICK v \in Nat : v = o + 1
    BY <2>1
  <2>3. counter' = [counter EXCEPT ![g][K] = v]
    BY <1>1, <2>2
  <2>4. K \in Keys
    BY <1>5
  <2> QED
    BY <2>1, <2>2, <2>3, <2>4
<1>8. /\ runs' \in [Gens -> [Keys -> Nat]]
      /\ \A h \in Gens, k \in Keys :
           runs'[h][k] = IF h = g /\ k = K THEN r ELSE runs[h][k]
  <2>1. runs \in [Gens -> [Keys -> Nat]]
    BY <1>2 DEF WorkflowTypes
  <2>2. CASE hit
    BY <2>1, <2>2, <1>1, <1>5
  <2>3. CASE ~hit
    <3>1. runs' = [runs EXCEPT ![g][K] = runs[g][K] + 1]
      BY <2>3, <1>1
    <3> QED
      BY <3>1, <2>1, <2>3, <1>5, <1>6
  <2> QED
    BY <2>2, <2>3
<1>9. /\ occ' \in [Gens -> [Branches -> Nat]] /\ occ'[g][b] = o
      /\ \A h \in Gens, c \in Branches : h # g \/ c # b => occ'[h][c] = occ[h][c]
  BY <1>1, <1>2, <1>6 DEF WorkflowTypes
<1>10. /\ <<b, n>> \notin Made(g, K)
       /\ Made(g, K)' = Made(g, K) \cup {<<b, n>>}
       /\ \A h \in Gens, k \in Keys : h # g \/ k # K => Made(h, k)' = Made(h, k)
  <2>0. n \in Nat
    BY <1>2, <1>n DEF WorkflowTypes
  <2>1. /\ at[g][b] \notin Underway /\ at'[g][b] \in Underway /\ step'[g][b] = n
        /\ \A h \in Gens, c \in Branches : h # g \/ c # b =>
              at'[h][c] = at[h][c] /\ step'[h][c] = step[h][c]
    BY <1>1, <1>3, <1>4 DEF Underway, Moved
  <2>n. step[g][b] = n
    BY <1>n
  <2>2. \A k : \A s \in Sites(k) :
          /\ s[1] \in Branches /\ s[2] \in DOMAIN Program[s[1]] /\ s = <<s[1], s[2]>>
          /\ Program[s[1]][s[2]] = k
    BY DEF Sites
  <2>3. \A i : Called(at'[g][b], step'[g][b], i) <=> Called(at[g][b], n, i) \/ i = n
    BY <2>0, <2>1 DEF Called
  <2>4. ~Called(at[g][b], n, n)
    BY <2>0, <2>1 DEF Called
  <2>5. \A h \in Gens, k \in Keys : \A s \in Sites(k) :
          Called(at'[h][s[1]], step'[h][s[1]], s[2])
            <=> \/ Called(at[h][s[1]], step[h][s[1]], s[2])
                \/ h = g /\ s = <<b, n>>
    <3> SUFFICES ASSUME NEW h \in Gens, NEW k \in Keys, NEW s \in Sites(k)
                 PROVE  Called(at'[h][s[1]], step'[h][s[1]], s[2])
                          <=> \/ Called(at[h][s[1]], step[h][s[1]], s[2])
                              \/ h = g /\ s = <<b, n>>
      OBVIOUS
    <3>1. CASE h = g /\ s[1] = b
      BY <3>1, <2>2, <2>3, <2>n
    <3>2. CASE h # g \/ s[1] # b
      BY <3>2, <2>1, <2>2
    <3> QED
      BY <3>1, <3>2
  <2>6. <<b, n>> \notin Made(g, K)
    BY <2>4, <2>n DEF Made
  <2>7. Made(g, K)' = Made(g, K) \cup {<<b, n>>}
    <3>1. \A s \in Sites(K) :
            Called(at'[g][s[1]], step'[g][s[1]], s[2])
              <=> Called(at[g][s[1]], step[g][s[1]], s[2]) \/ s = <<b, n>>
      BY <2>5, <1>5
    <3> QED
      BY <3>1, <1>5 DEF Made
  <2>8. ASSUME NEW h \in Gens, NEW k \in Keys, h # g \/ k # K
        PROVE  Made(h, k)' = Made(h, k)
    <3>1. \A s \in Sites(k) : ~(h = g /\ s = <<b, n>>)
      BY <2>2, <2>8, <1>k
    <3> QED
      BY <3>1, <2>5 DEF Made
  <2> QED
    BY <2>6, <2>7, <2>8
<1> HIDE DEF p, r, hit
<1>11. /\ IsFiniteSet(Made(g, K)) /\ o = Cardinality(Made(g, K))
       /\ Cardinality(Made(g, K)') = o + 1 /\ o < CallsOf(K)
  <2>1. Made(g, K) \in SUBSET Sites(K) /\ IsFiniteSet(Sites(K)) /\ CallsOf(K) \in Nat
    BY SitesAreFinite DEF Made
  <2>2. IsFiniteSet(Made(g, K))
    BY <2>1, FS_Subset
  <2>3. o = Cardinality(Made(g, K))
    BY <1>2, <1>5, <1>o DEF CallsCounted
  <2>4. Cardinality(Made(g, K) \cup {<<b, n>>}) = Cardinality(Made(g, K)) + 1
    BY <2>2, <1>10, FS_AddElement
  <2>5. Made(g, K) \cup {<<b, n>>} \in SUBSET Sites(K)
    BY <2>1, <1>5
  <2>6. Cardinality(Made(g, K) \cup {<<b, n>>}) <= CallsOf(K)
    BY <2>5, <2>1, FS_Subset DEF CallsOf
  <2> QED
    BY <2>1, <2>2, <2>3, <2>4, <2>6, <1>6, <1>10
<1>12. WorkflowTypes'
  BY <1>1, <1>2, <1>4, <1>7, <1>8, <1>9 DEF WorkflowTypes, Moved
<1>13. BranchesStand'
  <2>1. \A h \in Gens \ {g}, k \in Keys : runs'[h][k] = runs[h][k]
    BY <1>8
  <2>2. occ'[g][b] < CallsOf(Program[b][n])
    BY <1>9, <1>11, <1>k
  <2>3. /\ outcome[g] # "none" /\ at[g][b] # "none" /\ at[g][b] \notin {"join", "done"}
        /\ outcome' = outcome /\ invoked' = invoked
    BY <1>1
  <2> QED
    BY <2>1, <2>2, <2>3, <1>2, <1>4, <1>5, <1>9, BranchesStay
<1>14. CallsCounted'
  <2>l. \A h \in Gens : loaded'[h] \subseteq journal'[h]
    BY <1>1, <1>2 DEF CallsCounted
  <2> SUFFICES ASSUME NEW h \in Gens, NEW k \in Keys
               PROVE  /\ counter'[h][k] = Cardinality(Made(h, k)')
                      /\ runs'[h][k] <= Cardinality(Upto(k, counter'[h][k]) \ loaded'[h])
    BY <2>l DEF CallsCounted
  <2>0. /\ counter[h][k] = Cardinality(Made(h, k)) /\ loaded[h] \subseteq journal[h]
        /\ runs[h][k] <= Cardinality(Upto(k, counter[h][k]) \ loaded[h])
        /\ loaded' = loaded /\ journal' = journal
    BY <1>1, <1>2 DEF CallsCounted
  <2>1. CASE h # g \/ k # K
    BY <2>0, <2>1, <1>7, <1>8, <1>10
  <2>2. CASE h = g /\ k = K
    <3>1. counter'[g][K] = o + 1 /\ runs'[g][K] = r
      BY <1>7, <1>8, <1>5
    <3>2. /\ IsFiniteSet(Upto(K, o)) /\ Upto(K, o + 1) = Upto(K, o) \cup {<<K, o>>}
          /\ <<K, o>> \notin Upto(K, o)
      BY <1>6, OccurrencesCounted
    <3>3. IsFiniteSet(Upto(K, o) \ loaded[g])
      BY <3>2, FS_Difference
    <3>4. runs[g][K] <= Cardinality(Upto(K, o) \ loaded[g])
      BY <2>0, <2>2, <1>o
    <3>5. CASE hit
      <4>1. Upto(K, o) \ loaded[g] \in SUBSET (Upto(K, o + 1) \ loaded[g])
        BY <3>2
      <4>2. IsFiniteSet(Upto(K, o + 1) \ loaded[g])
        <5>1. o + 1 \in Nat
          BY <1>6
        <5>2. IsFiniteSet(Upto(K, o + 1))
          BY <5>1, OccurrencesCounted
        <5> QED
          BY <5>2, FS_Difference
      <4>3. Cardinality(Upto(K, o) \ loaded[g]) <= Cardinality(Upto(K, o + 1) \ loaded[g])
        BY <4>1, <4>2, FS_Subset
      <4>4. /\ Cardinality(Upto(K, o) \ loaded[g]) \in Nat
            /\ Cardinality(Upto(K, o + 1) \ loaded[g]) \in Nat
        BY <3>3, <4>2, FS_CardinalityType
      <4>5. runs'[g][K] = runs[g][K]
        BY <3>1, <3>5 DEF r
      <4>6. runs'[g][K] <= Cardinality(Upto(K, o + 1) \ loaded[g])
        BY <3>4, <4>3, <4>4, <4>5, <1>6
      <4> QED
        BY <4>6, <3>1, <2>0, <2>2, <1>10, <1>11
    <3>6. CASE ~hit
      <4>1. <<K, o>> \notin loaded[g]
        BY <3>6, <2>0, <2>2 DEF hit
      <4>2. Upto(K, o + 1) \ loaded[g] = (Upto(K, o) \ loaded[g]) \cup {<<K, o>>}
        BY <3>2, <4>1
      <4>3. <<K, o>> \notin Upto(K, o) \ loaded[g]
        BY <3>2
      <4>4. Cardinality(Upto(K, o + 1) \ loaded[g]) = Cardinality(Upto(K, o) \ loaded[g]) + 1
        BY <3>3, <4>2, <4>3, FS_AddElement
      <4>5. Cardinality(Upto(K, o) \ loaded[g]) \in Nat
        BY <3>3, FS_CardinalityType
      <4>6. runs'[g][K] = runs[g][K] + 1
        BY <3>1, <3>6 DEF r
      <4>7. runs'[g][K] <= Cardinality(Upto(K, o + 1) \ loaded[g])
        BY <3>4, <4>4, <4>5, <4>6, <1>6
      <4> QED
        BY <4>7, <3>1, <2>0, <2>2, <1>10, <1>11
    <3> QED
      BY <3>5, <3>6
  <2> QED
    BY <2>1, <2>2
<1> QED
  BY <1>12, <1>13, <1>14 DEF WorkflowInv

(* A branch that waits, reports or ends leaves the counts and the journal. *)
LEMMA BranchGoesOn ==
  ASSUME WorkflowInv, NEW g \in Gens, NEW b \in Branches,
         \/ Acquire(g, b) \/ Replayed(g, b) \/ Finish(g, b) \/ JoinInner(g, b) \/ Fails(g, b)
  PROVE  WorkflowInv'
<1>1. WorkflowTypes /\ step[g][b] \in Nat
  BY DEF WorkflowInv, WorkflowTypes
<1>2. /\ journal \in [Gens -> SUBSET Occurrences] /\ log \in SUBSET Occurrences
      /\ outcome \in [Gens -> {"none", "running", "completed", "failed", "dead"}]
  BY <1>1 DEF WorkflowTypes
<1>3. Program[b] \in Seq(Keys) /\ DOMAIN Program[b] = 1..Len(Program[b])
  BY WorkflowAssumption
<1>4. CASE Acquire(g, b)
  <2>1. Moved(g, b, "call", step[g][b])
    BY <1>1, <1>4, MovedThere DEF Acquire, Standing
  <2> QED
    BY <2>1, <1>2, <1>4, QuietStep DEF Acquire, Alive, Called, Underway
<1>5. CASE Replayed(g, b)
  <2>1. Moved(g, b, "call", step[g][b] + 1)
    BY <1>1, <1>5, MovedThere DEF Replayed, Standing
  <2>2. \A i \in DOMAIN Program[b] :
          Called("call", step[g][b] + 1, i) <=> Called(at[g][b], step[g][b], i)
    BY <1>1, <1>3, <1>5 DEF Replayed, Called, Underway
  <2> QED
    BY <2>1, <2>2, <1>2, <1>5, QuietStep DEF Replayed, Alive, Underway
<1>6. CASE Finish(g, b)
  <2>1. Moved(g, b, "done", step[g][b])
    BY <1>1, <1>6, MovedThere DEF Finish, Standing
  <2> QED
    BY <2>1, <1>2, <1>6, QuietStep DEF Finish, Alive, Called, Underway
<1>7. CASE JoinInner(g, b)
  <2>1. Moved(g, b, "done", step[g][b])
    BY <1>1, <1>7, MovedThere DEF JoinInner, Standing
  <2> QED
    BY <2>1, <1>2, <1>7, QuietStep DEF JoinInner, Alive, Called, Underway
<1>8. CASE Fails(g, b)
  <2>1. Moved(g, b, "failed", step[g][b])
    BY <1>1, <1>8, MovedThere DEF Fails, Standing, Underway
  <2>2. /\ outcome' \in [Gens -> {"none", "running", "completed", "failed", "dead"}]
        /\ \A h \in Gens \ {g} : outcome'[h] = outcome[h]
    BY <1>2, <1>8 DEF Fails
  <2> QED
    BY <2>1, <2>2, <1>2, <1>8, QuietStep DEF Fails, Alive, Called, Underway
<1> QED
  BY <1>4, <1>5, <1>6, <1>7, <1>8

(* What is journaled, in memory and then in the log, is an occurrence its  *)
(* key has.                                                                *)
LEMMA BranchReports ==
  ASSUME WorkflowInv, NEW g \in Gens, NEW b \in Branches, Record(g, b) \/ EmitEnd(g, b)
  PROVE  WorkflowInv'
<1>1. WorkflowTypes /\ BranchesStand /\ step[g][b] \in Nat /\ occ[g][b] \in Nat
  BY DEF WorkflowInv, WorkflowTypes
<1>2. /\ journal \in [Gens -> SUBSET Occurrences] /\ log \in SUBSET Occurrences
      /\ outcome \in [Gens -> {"none", "running", "completed", "failed", "dead"}]
  BY <1>1 DEF WorkflowTypes
<1>3. Program[b] \in Seq(Keys) /\ DOMAIN Program[b] = 1..Len(Program[b])
  BY WorkflowAssumption
<1>4. /\ at[g][b] \in {"running", "emit"}
      /\ outcome[g] \in {"running", "failed", "completed"}
      /\ UNCHANGED <<invoked, outcome, counter, occ, loaded, runs>>
  BY DEF Record, EmitEnd, Alive
<1>5. <<Key(g, b), occ[g][b]>> \in Occurrences
  <2>1. step[g][b] \in DOMAIN Program[b] /\ occ[g][b] < CallsOf(Key(g, b))
    BY <1>1, <1>4 DEF BranchesStand, Underway
  <2>2. Key(g, b) \in Keys
    BY <2>1 DEF Key, Keys
  <2> QED
    BY <2>1, <2>2, <1>1 DEF Occurrences, Upto
<1>6. CASE Record(g, b)
  <2>1. Moved(g, b, "emit", step[g][b])
    BY <1>1, <1>6, MovedThere DEF Record, Standing, Underway
  <2>2. /\ journal' \in [Gens -> SUBSET Occurrences]
        /\ \A h \in Gens : journal[h] \subseteq journal'[h]
    BY <1>2, <1>5, <1>6 DEF Record
  <2>3. log' = log /\ at[g][b] = "running"
    BY <1>6 DEF Record
  <2> QED
    BY <2>1, <2>2, <2>3, <1>2, <1>4, QuietStep DEF Called, Underway
<1>7. CASE EmitEnd(g, b)
  <2>1. Moved(g, b, "call", step[g][b] + 1)
    BY <1>1, <1>7, MovedThere DEF EmitEnd, Standing
  <2>2. log' \in SUBSET Occurrences /\ journal' = journal /\ at[g][b] = "emit"
    BY <1>2, <1>5, <1>7 DEF EmitEnd
  <2>3. \A i \in DOMAIN Program[b] :
          Called("call", step[g][b] + 1, i) <=> Called(at[g][b], step[g][b], i)
    BY <2>2, <1>1, <1>3 DEF Called, Underway
  <2> QED
    BY <2>1, <2>2, <2>3, <1>2, <1>4, QuietStep DEF Underway
<1> QED
  BY <1>6, <1>7

(* A nested parallel queues branches that had not started.                 *)
LEMMA InnerStarts ==
  ASSUME WorkflowInv, NEW g \in Gens, NEW b \in Branches, StartInner(g, b)
  PROVE  WorkflowInv'
<1>1. WorkflowTypes /\ BranchesStand /\ CallsCounted
  BY DEF WorkflowInv
<1>2. /\ at[g][b] = "call"
      /\ outcome[g] \in {"running", "failed", "completed"}
      /\ UNCHANGED <<invoked, outcome, log, journal, counter, step, occ, loaded, runs>>
  BY DEF StartInner, Alive
<1>3. /\ at' \in [Gens -> [Branches -> Standing]]
      /\ \A h \in Gens, c \in Branches :
           at'[h][c] = IF h = g /\ c = b THEN "join"
                       ELSE IF h = g /\ c \in Inner(b) THEN "queued" ELSE at[h][c]
  <2>1. at \in [Gens -> [Branches -> Standing]] /\ {"join", "queued"} \subseteq Standing
    BY <1>1 DEF WorkflowTypes, Standing
  <2>2. at' = [at EXCEPT ![g] =
                 [c \in Branches |-> IF c = b THEN "join"
                                     ELSE IF c \in Inner(b) THEN "queued" ELSE at[g][c]]]
    BY DEF StartInner
  <2> QED
    BY <2>1, <2>2
<1>4. \A c \in Inner(b) : at[g][c] = "none"
  BY <1>1, <1>2 DEF BranchesStand, Inner
<1>5. WorkflowTypes'
  BY <1>1, <1>2, <1>3 DEF WorkflowTypes
<1>6. \A h \in Gens, c \in Branches : at'[h][c] \in Underway <=> at[h][c] \in Underway
  BY <1>2, <1>3, <1>4 DEF Underway
<1>7. BranchesStand'
  <2>1. ASSUME NEW h \in Gens, NEW c \in Branches, at'[h][c] \in Underway
        PROVE  step'[h][c] \in DOMAIN Program[c] /\ occ'[h][c] < CallsOf(Key(h, c))'
    BY <2>1, <1>1, <1>2, <1>6 DEF BranchesStand, Key
  <2>2. ASSUME NEW h \in Gens, NEW c \in Branches, NEW d \in Branches, d \in Inner(c),
               at'[h][d] # "none"
        PROVE  at'[h][c] \in {"join", "done"}
    <3>1. CASE at[h][d] # "none"
      <4>1. at[h][c] \in {"join", "done"}
        BY <3>1, <2>2, <1>1 DEF BranchesStand
      <4>2. ~(h = g /\ c = b) /\ ~(h = g /\ c \in Inner(b))
        BY <4>1, <1>2, <1>4
      <4> QED
        BY <4>1, <4>2, <1>3
    <3>2. CASE at[h][d] = "none"
      <4>1. h = g /\ (d = b \/ d \in Inner(b))
        BY <3>2, <2>2, <1>3
      <4>2. d # b
        BY <4>1, <3>2, <1>2
      <4>3. c = b
        BY <4>1, <4>2, <2>2 DEF Inner
      <4> QED
        BY <4>1, <4>3, <1>3
    <3> QED
      BY <3>1, <3>2
  <2>3. ASSUME NEW h \in Gens, h > invoked'
        PROVE  /\ outcome'[h] = "none"
               /\ \A c \in Branches : at'[h][c] = "none" /\ step'[h][c] = 1
               /\ \A k \in Keys : runs'[h][k] = 0
    <3>1. h > invoked
      BY <2>3, <1>2
    <3>2. /\ outcome[h] = "none"
          /\ \A c \in Branches : at[h][c] = "none" /\ step[h][c] = 1
          /\ \A k \in Keys : runs[h][k] = 0
      BY <3>1, <1>1 DEF BranchesStand
    <3>3. h # g
      BY <3>2, <1>2
    <3> QED
      BY <3>2, <3>3, <1>2, <1>3
  <2> QED
    BY <2>1, <2>2, <2>3 DEF BranchesStand
<1>8. CallsCounted'
  <2>1. \A h \in Gens, c \in Branches : \A i \in DOMAIN Program[c] :
          Called(at'[h][c], step'[h][c], i) <=> Called(at[h][c], step[h][c], i)
    BY <1>2, <1>6 DEF Called
  <2> QED
    BY <2>1, <1>1, <1>2, NothingCalled
<1> QED
  BY <1>5, <1>7, <1>8 DEF WorkflowInv

(* An invocation starts with what the log holds, and no branch has called. *)
LEMMA WorkflowInvoked == WorkflowInv /\ Invoke => WorkflowInv'
<1> SUFFICES ASSUME WorkflowInv, Invoke PROVE WorkflowInv'
  OBVIOUS
<1>g. PICK g : g = invoked + 1
  OBVIOUS
<1>1. WorkflowTypes /\ BranchesStand /\ CallsCounted
  BY DEF WorkflowInv
<1>2. g \in Gens /\ g > invoked /\ invoked' = g /\ invoked \in Nat /\ g <= Invocations
      /\ \A h \in Gens : h > g => h > invoked /\ h # g
  BY <1>1, <1>g, WorkflowAssumption DEF WorkflowTypes, Gens, Invoke
<1>3. /\ outcome' = [outcome EXCEPT ![g] = "running"]
      /\ journal' = [journal EXCEPT ![g] = log]
      /\ loaded' = [loaded EXCEPT ![g] = log]
      /\ at' = [at EXCEPT ![g] =
                  [b \in Branches |-> IF Outer[b] = Fn THEN "queued" ELSE "none"]]
      /\ UNCHANGED <<log, counter, step, occ, runs>>
  BY <1>2 DEF Invoke, FromStoredEvents
<1>4. /\ at' \in [Gens -> [Branches -> Standing]]
      /\ \A h \in Gens, c \in Branches :
           at'[h][c] = IF h = g THEN IF Outer[c] = Fn THEN "queued" ELSE "none" ELSE at[h][c]
  <2>1. at \in [Gens -> [Branches -> Standing]] /\ {"none", "queued"} \subseteq Standing
    BY <1>1 DEF WorkflowTypes, Standing
  <2> QED
    BY <2>1, <1>3
<1>5. /\ journal' \in [Gens -> SUBSET Occurrences] /\ journal'[g] = log
      /\ loaded' \in [Gens -> SUBSET Occurrences] /\ loaded'[g] = log
      /\ \A h \in Gens \ {g} : journal'[h] = journal[h] /\ loaded'[h] = loaded[h]
      /\ outcome' \in [Gens -> {"none", "running", "completed", "failed", "dead"}]
      /\ \A h \in Gens \ {g} : outcome'[h] = outcome[h]
  BY <1>1, <1>2, <1>3 DEF WorkflowTypes
<1>6. WorkflowTypes'
  <2>1. invoked' \in Nat /\ invoked' <= Invocations
    BY <1>2, <1>g
  <2> QED
    BY <2>1, <1>1, <1>3, <1>4, <1>5 DEF WorkflowTypes
<1>7. /\ \A b \in Branches : at[g][b] = "none" /\ step[g][b] = 1
      /\ \A k \in Keys : runs[g][k] = 0
  BY <1>1, <1>2 DEF BranchesStand
<1>8. \A h \in Gens, c \in Branches : at'[h][c] \in Underway <=> at[h][c] \in Underway
  BY <1>4, <1>7 DEF Underway
<1>9. BranchesStand'
  <2>1. ASSUME NEW h \in Gens, NEW c \in Branches, at'[h][c] \in Underway
        PROVE  step'[h][c] \in DOMAIN Program[c] /\ occ'[h][c] < CallsOf(Key(h, c))'
    BY <2>1, <1>1, <1>3, <1>8 DEF BranchesStand, Key
  <2>2. ASSUME NEW h \in Gens, NEW c \in Branches, NEW d \in Branches, d \in Inner(c),
               at'[h][d] # "none"
        PROVE  at'[h][c] \in {"join", "done"}
    <3>1. CASE h # g
      BY <3>1, <2>2, <1>1, <1>4 DEF BranchesStand
    <3>2. CASE h = g
      <4>1. Outer[d] = Fn
        BY <3>2, <2>2, <1>4
      <4> QED
        BY <4>1, <2>2, WorkflowAssumption DEF Inner
    <3> QED
      BY <3>1, <3>2
  <2>3. ASSUME NEW h \in Gens, h > invoked'
        PROVE  /\ outcome'[h] = "none"
               /\ \A c \in Branches : at'[h][c] = "none" /\ step'[h][c] = 1
               /\ \A k \in Keys : runs'[h][k] = 0
    <3>1. h > invoked /\ h # g
      BY <2>3, <1>2
    <3>2. /\ outcome[h] = "none"
          /\ \A c \in Branches : at[h][c] = "none" /\ step[h][c] = 1
          /\ \A k \in Keys : runs[h][k] = 0
      BY <3>1, <1>1 DEF BranchesStand
    <3> QED
      BY <3>1, <3>2, <1>3, <1>4, <1>5
  <2> QED
    BY <2>1, <2>2, <2>3 DEF BranchesStand
<1>10. CallsCounted'
  <2>1. \A k : \A s \in Sites(k) : s[1] \in Branches /\ s[2] \in DOMAIN Program[s[1]]
    BY DEF Sites
  <2>2. \A h \in Gens, k \in Keys : Made(h, k)' = Made(h, k)
    BY <2>1, <1>3, <1>8 DEF Made, Called
  <2>3. \A k \in Keys : runs'[g][k] <= Cardinality(Upto(k, counter'[g][k]) \ loaded'[g])
    <3> SUFFICES ASSUME NEW k \in Keys
                 PROVE  runs'[g][k] <= Cardinality(Upto(k, counter'[g][k]) \ loaded'[g])
      OBVIOUS
    <3>1. counter[g][k] \in Nat
      BY <1>1, <1>2 DEF WorkflowTypes
    <3>2. IsFiniteSet(Upto(k, counter[g][k]))
      BY <3>1, OccurrencesCounted
    <3>3. IsFiniteSet(Upto(k, counter[g][k]) \ log)
      BY <3>2, FS_Difference
    <3>4. Cardinality(Upto(k, counter[g][k]) \ log) \in Nat
      BY <3>3, FS_CardinalityType
    <3>5. runs'[g][k] = 0
      BY <1>3, <1>7
    <3> QED
      BY <3>4, <3>5, <1>3, <1>5
  <2>4. \A h \in Gens : loaded'[h] \subseteq journal'[h]
    BY <1>1, <1>5 DEF CallsCounted
  <2>5. ASSUME NEW h \in Gens, NEW k \in Keys
        PROVE  /\ counter'[h][k] = Cardinality(Made(h, k)')
               /\ runs'[h][k] <= Cardinality(Upto(k, counter'[h][k]) \ loaded'[h])
    <3>1. counter[h][k] = Cardinality(Made(h, k)) /\ counter' = counter
      BY <1>1, <1>3 DEF CallsCounted
    <3>2. CASE h = g
      BY <3>1, <3>2, <2>2, <2>3
    <3>3. CASE h # g
      <4>1. loaded'[h] = loaded[h] /\ runs' = runs
        BY <3>3, <1>3, <1>5
      <4>2. runs[h][k] <= Cardinality(Upto(k, counter[h][k]) \ loaded[h])
        BY <1>1 DEF CallsCounted
      <4> QED
        BY <3>1, <4>1, <4>2, <2>2
    <3> QED
      BY <3>2, <3>3
  <2> QED
    BY <2>4, <2>5 DEF CallsCounted
<1> QED
  BY <1>6, <1>9, <1>10 DEF WorkflowInv

(* Results in the event log when a run is invoked again are all used,      *)
(* however often it is invoked, and whatever dies or fails in between.     *)
THEOREM JournaledCallsStay == WorkflowSpec => []JournaledCallsAreNotRerun
<1>1. WorkflowInit => WorkflowInv
  <2> SUFFICES ASSUME WorkflowInit PROVE WorkflowInv
    OBVIOUS
  <2>1. WorkflowTypes
    BY WorkflowAssumption DEF WorkflowInit, WorkflowTypes, Standing
  <2>2. BranchesStand
    BY DEF WorkflowInit, BranchesStand, Underway
  <2>3. CallsCounted
    <3>l. \A g \in Gens : loaded[g] \subseteq journal[g]
      BY DEF WorkflowInit
    <3> SUFFICES ASSUME NEW g \in Gens, NEW k \in Keys
                 PROVE  /\ counter[g][k] = Cardinality(Made(g, k))
                        /\ runs[g][k] <= Cardinality(Upto(k, counter[g][k]) \ loaded[g])
      BY <3>l DEF CallsCounted
    <3>1. /\ counter[g][k] = 0 /\ runs[g][k] = 0 
          /\ \A b \in Branches : at[g][b] = "none" /\ step[g][b] = 1
      BY DEF WorkflowInit
    <3>2. \A s \in Sites(k) : s[1] \in Branches /\ s[2] \in Nat \ {0}
      <4> SUFFICES ASSUME NEW s \in Sites(k) PROVE s[1] \in Branches /\ s[2] \in Nat \ {0}
        OBVIOUS
      <4>1. s[1] \in Branches /\ s[2] \in DOMAIN Program[s[1]]
        BY DEF Sites
      <4>2. Program[s[1]] \in Seq(Keys)
        BY <4>1, WorkflowAssumption
      <4> QED
        BY <4>1, <4>2
    <3>3. Made(g, k) = {}
      BY <3>1, <3>2 DEF Made, Called, Underway
    <3>4. Upto(k, 0) = {}
      BY DEF Upto
    <3>5. Cardinality({}) = 0
      BY FS_EmptySet
    <3> QED
      BY <3>1, <3>3, <3>4, <3>5
  <2> QED
    BY <2>1, <2>2, <2>3 DEF WorkflowInv
<1>2. WorkflowInv /\ [WorkflowNext]_workflowVars => WorkflowInv'
  <2> SUFFICES ASSUME WorkflowInv, [WorkflowNext]_workflowVars PROVE WorkflowInv'
    OBVIOUS
  <2>1. ASSUME /\ outcome' \in [Gens -> {"none", "running", "completed", "failed", "dead"}]
               /\ \A g \in Gens : outcome[g] = "none" => outcome'[g] = "none"
               /\ UNCHANGED <<invoked, log, journal, counter, at, step, occ, loaded, runs>>
        PROVE  WorkflowInv'
    <3>1. WorkflowTypes'
      BY <2>1 DEF WorkflowInv, WorkflowTypes
    <3>2. BranchesStand'
      BY <2>1 DEF WorkflowInv, BranchesStand, Key
    <3>3. CallsCounted'
      BY <2>1, NothingCalled DEF WorkflowInv
    <3> QED
      BY <3>1, <3>2, <3>3 DEF WorkflowInv
  <2>2. outcome \in [Gens -> {"none", "running", "completed", "failed", "dead"}]
    BY DEF WorkflowInv, WorkflowTypes
  <2>3. CASE Die
    BY <2>1, <2>2, <2>3 DEF Die, Alive
  <2>4. ASSUME NEW g \in Gens, Return(g) PROVE WorkflowInv'
    BY <2>1, <2>2, <2>4 DEF Return
  <2>5. CASE UNCHANGED workflowVars
    BY <2>1, <2>2, <2>5 DEF workflowVars
  <2>6. CASE Invoke
    BY <2>6, WorkflowInvoked
  <2>7. ASSUME NEW g \in Gens, NEW b \in Branches, BranchStep(g, b) \/ Fails(g, b)
        PROVE  WorkflowInv'
    BY <2>7, CallCounted, BranchGoesOn, BranchReports, InnerStarts DEF BranchStep
  <2> QED
    BY <2>3, <2>4, <2>5, <2>6, <2>7 DEF WorkflowNext, WorkflowStep
<1> QED
  BY <1>1, <1>2, LoadedAndRun, PTL DEF WorkflowSpec

-----------------------------------------------------------------------------
(***************************************************************************)
(* Theorems about Schedules, for every set of schedules, every period and  *)
(* every number of faults.                                                 *)
(***************************************************************************)

---------------------------------------------------------------------------
(* Types *)

(* The next time of a schedule is a time.                                  *)
LEMMA NextRunIsNat == ASSUME NEW s \in Ids, NEW t \in Nat
                      PROVE  NextRun(s, t) \in Nat
<1>1. Period[s] \in Nat /\ Period[s] > 0
  BY ConstantsAssumption
<1>2. t \div Period[s] \in Nat
  BY <1>1
<1>3. (t \div Period[s] + 1) * Period[s] \in Nat
  BY <1>1, <1>2
<1>4. QED
  BY <1>1, <1>3 DEF NextRun

(* Schedules begin typed.                                                  *)
LEMMA InitType == Init => TypeOK
BY DEF Init, TypeOK, Nothing

(* What is owed by a tick that has fired. *)
LEMMA RescheduledTyped ==
  ASSUME TypeOK, pc = "fired"
  PROVE  /\ cur \in Ids /\ todo[cur] # None
         /\ Rescheduled(cur) \in [next : Nat, enabled : {TRUE}]
         /\ Rescheduled(cur) \in Records
         /\ Rescheduled(cur).next = NextRun(cur, tickNow)
         /\ NextRun(cur, tickNow) \in Nat
<1>1. cur \in Ids /\ todo[cur] # None /\ todo[cur] \in [next : Nat, enabled : {TRUE}]
  BY DEF TypeOK
<1>2. NextRun(cur, tickNow) \in Nat
  BY <1>1, NextRunIsNat DEF TypeOK
<1>3. QED
  BY <1>1, <1>2 DEF Rescheduled, Records

(* A tick that is cut short leaves at most the write it owed. *)
LEMMA LateOfTickFails ==
  ASSUME TypeOK, TickFails, NEW w \in late', w \notin late
  PROVE  pc = "fired" /\ w = [id |-> cur, rec |-> Rescheduled(cur)]
BY DEF TickFails

(* Each call and each step of a tick keeps the types.                      *)
LEMMA NextType == TypeOK /\ [Next]_vars => TypeOK'
<1> SUFFICES ASSUME TypeOK, [Next]_vars PROVE TypeOK'
  OBVIOUS
<1> USE ConstantsAssumption
<1>1. CASE Clock
  <2>1. clock' \in Nat
    BY <1>1 DEF Clock, TypeOK
  <2>2. QED
    BY <1>1, <2>1 DEF Clock, TypeOK, loopVars, history, Nothing
<1>2. ASSUME NEW s \in Ids, NEW r \in Records, Put(s, r) PROVE TypeOK'
  BY <1>2 DEF Put, TypeOK, loopVars, Nothing
<1>3. ASSUME NEW s \in Ids, Create(s) \/ Add(s) PROVE TypeOK'
  <2>1. NextRun(s, clock) \in Nat
    BY NextRunIsNat DEF TypeOK
  <2>2. QED
    BY <1>2, <1>3, <2>1 DEF Create, Add, Records
<1>4. ASSUME NEW s \in Ids, Cancel(s) PROVE TypeOK'
  BY <1>4 DEF Cancel, TypeOK, loopVars, Nothing
<1>5. CASE StartTick
  BY <1>5 DEF StartTick, TypeOK, history, Nothing
<1>6. CASE List
  <2>1. ASSUME NEW s \in Ids, IsDue(store[s], tickNow)
        PROVE  store[s] \in [next : Nat, enabled : {TRUE}]
    BY <2>1 DEF IsDue, TypeOK, Records
  <2>2. todo' \in [Ids -> [next : Nat, enabled : {TRUE}] \cup {None}]
    BY <1>6, <2>1 DEF List
  <2>3. \A s \in Ids : todo'[s] # None => store[s] # None
    BY <1>6 DEF List
  <2>4. QED
    BY <1>6, <2>2, <2>3 DEF List, TypeOK, history
<1>7. ASSUME NEW s \in Ids, Fire(s) PROVE TypeOK'
  <2>1. untimely' \in Nat
    BY <1>7 DEF Fire, TypeOK
  <2>2. QED
    BY <1>7, <2>1 DEF Fire, TypeOK, Nothing
<1>8. CASE Update
  BY <1>8, RescheduledTyped DEF Update, TypeOK, history, Nothing
<1>9. CASE EndTick
  BY <1>9 DEF EndTick, TypeOK, history
<1>10. CASE TickFails
  <2>1. late' \subseteq [id : Ids, rec : [next : Nat, enabled : {TRUE}]]
    <3>1. ASSUME NEW w \in late'
          PROVE  w \in [id : Ids, rec : [next : Nat, enabled : {TRUE}]]
      <4>1. CASE w \in late
        BY <4>1 DEF TypeOK
      <4>2. CASE w \notin late
        <5>1. pc = "fired" /\ w = [id |-> cur, rec |-> Rescheduled(cur)]
          BY <1>10, <4>2, LateOfTickFails
        <5>2. QED
          BY <5>1, RescheduledTyped
      <4>3. QED
        BY <4>1, <4>2
    <3>2. QED
      BY <3>1
  <2>2. ASSUME NEW w \in late' PROVE lastAt[w.id] # None
    <3>1. CASE w \in late
      BY <3>1 DEF TypeOK
    <3>2. CASE w \notin late
      <4>1. pc = "fired" /\ w = [id |-> cur, rec |-> Rescheduled(cur)]
        BY <1>10, <3>2, LateOfTickFails
      <4>2. QED
        BY <4>1, RescheduledTyped DEF TypeOK
    <3>3. QED
      BY <3>1, <3>2
  <2>3. todo' = Nothing /\ cur' = None /\ pc' = "idle"
    BY <1>10 DEF TickFails, EndLoop
  <2>4. faults' \in Nat
    BY <1>10 DEF TickFails, EndLoop, TypeOK
  <2>5. UNCHANGED <<clock, store, tickNow, cancelled, lastAt, untimely, pending>>
    BY <1>10 DEF TickFails, EndLoop
  <2>6. QED
    BY <2>1, <2>2, <2>3, <2>4, <2>5 DEF TypeOK, Nothing
<1>11. CASE Crash
  <2>1. todo' = Nothing /\ cur' = None /\ pc' = "idle" /\ late' = {} /\ pending' = {}
    BY <1>11 DEF Crash, EndLoop
  <2>2. faults' \in Nat
    BY <1>11 DEF Crash, EndLoop, TypeOK
  <2>3. UNCHANGED <<clock, store, tickNow, cancelled, lastAt, untimely>>
    BY <1>11 DEF Crash, EndLoop
  <2>4. QED
    BY <2>1, <2>2, <2>3 DEF TypeOK, Nothing
<1>12. CASE LateWrite
  <2>1. PICK w \in late : /\ store' = [store EXCEPT ![w.id] = w.rec]
                          /\ late' = late \ {w}
                          /\ UNCHANGED <<clock, loopVars, pending, history>>
    BY <1>12 DEF LateWrite
  <2>2. w.id \in Ids /\ w.rec \in Records /\ lastAt[w.id] # None
    BY DEF TypeOK, Records
  <2>3. \A s \in Ids : store'[s] # None => lastAt[s] # None
    BY <2>1, <2>2 DEF TypeOK
  <2>4. QED
    BY <2>1, <2>2, <2>3 DEF TypeOK, loopVars, history, Nothing
<1>13. CASE Drain
  BY <1>13 DEF Drain, TypeOK, loopVars, history, Nothing
<1>14. CASE UNCHANGED vars
  BY <1>14 DEF vars, TypeOK, loopVars, history, Nothing
<1>15. QED
  BY <1>1, <1>3, <1>4, <1>5, <1>6, <1>7, <1>8, <1>9, <1>10, <1>11, <1>12, <1>13,
     <1>14 DEF Next, Tick

(* The types hold, whatever the clock, the faults and the embedder do. *)
THEOREM SchedulesAreTyped == Spec => []TypeOK
BY InitType, NextType, PTL DEF Spec

---------------------------------------------------------------------------
(* Cancellation *)

(* A cancelled schedule that no tick had listed before the cancellation, and *)
(* no late write carries, never comes back.                                  *)
THEOREM CancellationIsFinal == Spec => GoneStaysGone
<1>1. TypeOK /\ [Next]_vars => \A s \in Ids : Gone(s) => Gone(s)'
  <2> SUFFICES ASSUME TypeOK, [Next]_vars, NEW s \in Ids, Gone(s) PROVE Gone(s)'
    OBVIOUS
  <2> USE DEF Gone
  <2>1. CASE \E i \in Ids : Create(i) \/ Add(i) \/ Cancel(i)
    <3>1. lastAt[s] # None
      BY DEF TypeOK
    <3>2. PICK i \in Ids : Create(i) \/ Add(i) \/ Cancel(i)
      BY <2>1
    <3>3. CASE Cancel(i)
      BY <3>3 DEF Cancel, TypeOK, loopVars
    <3>4. ASSUME NEW r \in Records, Put(i, r) PROVE Gone(s)'
      BY <3>1, <3>4 DEF Put, TypeOK, loopVars
    <3>5. NextRun(i, clock) \in Nat
      BY NextRunIsNat DEF TypeOK
    <3>6. QED
      BY <3>2, <3>3, <3>4, <3>5 DEF Create, Add, Records
  <2>2. CASE List
    BY <2>2 DEF List, IsDue, history
  <2>3. CASE Update
    <3>1. cur \in Ids /\ todo[cur] # None /\ cur # s
      BY <2>3 DEF Update, TypeOK
    <3>2. QED
      BY <2>3, <3>1 DEF Update, TypeOK, history
  <2>4. CASE TickFails
    <3>1. todo' = Nothing /\ UNCHANGED <<store, cancelled>>
      BY <2>4 DEF TickFails, EndLoop
    <3>2. ASSUME NEW w \in late' PROVE w.id # s
      <4>1. CASE w \in late
        BY <4>1
      <4>2. CASE w \notin late
        <5>1. pc = "fired" /\ w = [id |-> cur, rec |-> Rescheduled(cur)]
          BY <2>4, <4>2, LateOfTickFails
        <5>2. QED
          BY <5>1, RescheduledTyped
      <4>3. QED
        BY <4>1, <4>2
    <3>3. QED
      BY <3>1, <3>2 DEF Nothing
  <2>5. CASE LateWrite
    <3>1. PICK w \in late : /\ store' = [store EXCEPT ![w.id] = w.rec]
                            /\ late' = late \ {w}
                            /\ UNCHANGED <<clock, loopVars, pending, history>>
      BY <2>5 DEF LateWrite
    <3>2. QED
      BY <3>1 DEF TypeOK, loopVars, history
  <2>6. CASE Crash
    BY <2>6 DEF Crash, EndLoop, Nothing
  <2>7. ASSUME NEW i \in Ids, Fire(i) PROVE Gone(s)'
    BY <2>7 DEF Fire
  <2>8. CASE Clock \/ StartTick \/ EndTick \/ Drain \/ UNCHANGED vars
    BY <2>8 DEF Clock, StartTick, EndTick, Drain, vars, loopVars, history
  <2>9. QED
    BY <2>1, <2>2, <2>3, <2>4, <2>5, <2>6, <2>7, <2>8 DEF Next, Tick
<1>2. QED
  BY <1>1, SchedulesAreTyped, PTL DEF Spec, GoneStaysGone
---------------------------------------------------------------------------
(* Spacing.  A debt is a schedule that may fire too early: its record, in  *)
(* the store or in the tick's list, is older than its last firing.  A late *)
(* write may make one.  Only faults create debts and late writes, and each *)
(* untimely firing settles a debt.                                         *)

TooEarly(s, r) == r # None /\ r.next # None /\ r.next < NextRun(s, lastAt[s])

Debts == {s \in Ids : s # cur /\ (TooEarly(s, store[s]) \/ TooEarly(s, todo[s]))}

PaidFor ==
  /\ IsFiniteSet(Debts) /\ IsFiniteSet(late)
  /\ untimely + Cardinality(Debts) + Cardinality(late) <= 2 * faults

(* What the tick holds agrees with the clock it read. *)
TickInv ==
  /\ \A s \in Ids : todo[s] # None => todo[s].next <= tickNow
  /\ pc = "fired" => lastAt[cur] = tickNow

(* No tick is under way at first.                                          *)
LEMMA InitTick == Init => TickInv
BY DEF Init, TickInv, Nothing

(* A tick works on what it has claimed, and each step of it keeps that so. *)
LEMMA NextTick == TypeOK /\ TickInv /\ [Next]_vars => TickInv'
<1> SUFFICES ASSUME TypeOK, TickInv, [Next]_vars PROVE TickInv'
  OBVIOUS
<1>1. ASSUME NEW s \in Ids, Create(s) \/ Add(s) PROVE TickInv'
  <2>1. UNCHANGED <<pc, tickNow, todo, cur>> /\ lastAt[s] = None
    BY <1>1 DEF Create, Add, Put, loopVars
  <2>2. \A i \in Ids \ {s} : lastAt'[i] = lastAt[i]
    BY <1>1 DEF Create, Add, Put, TypeOK
  <2>3. pc = "fired" => cur \in Ids /\ cur # s
    BY <2>1 DEF TypeOK
  <2>4. QED
    BY <2>1, <2>2, <2>3 DEF TickInv
<1>2. CASE StartTick
  BY <1>2 DEF StartTick, TickInv, TypeOK, Nothing
<1>3. CASE List
  BY <1>3 DEF List, TickInv, IsDue
<1>4. ASSUME NEW s \in Ids, Fire(s) PROVE TickInv'
  BY <1>4 DEF Fire, TickInv, TypeOK
<1>5. CASE Update
  BY <1>5 DEF Update, TickInv, TypeOK
<1>6. CASE EndTick
  BY <1>6 DEF EndTick, TickInv
<1>7. CASE TickFails \/ Crash
  BY <1>7 DEF TickFails, Crash, EndLoop, TickInv, Nothing
<1>8. CASE Clock \/ LateWrite \/ Drain \/ UNCHANGED vars
  <2>1. UNCHANGED <<pc, tickNow, todo, cur, lastAt>>
    BY <1>8 DEF Clock, LateWrite, Drain, vars, loopVars, history
  <2>2. QED
    BY <2>1 DEF TickInv
<1>9. ASSUME NEW s \in Ids, Cancel(s) PROVE TickInv'
  BY <1>9 DEF Cancel, TickInv, loopVars
<1>10. QED
  BY <1>1, <1>2, <1>3, <1>4, <1>5, <1>6, <1>7, <1>8, <1>9 DEF Next, Tick

(* A part of a finite set has no more members than the set.                *)
LEMMA NoMoreThan ==
  ASSUME NEW S, NEW T, IsFiniteSet(S), T \subseteq S
  PROVE  IsFiniteSet(T) /\ Cardinality(T) \in Nat /\ Cardinality(T) <= Cardinality(S)
         /\ Cardinality(S) \in Nat
BY FS_Subset, FS_CardinalityType

(* One member more at most makes the count one more at most.               *)
LEMMA AtMostOneMore ==
  ASSUME NEW S, NEW T, NEW x, IsFiniteSet(S), T \subseteq S \cup {x}
  PROVE  IsFiniteSet(T) /\ Cardinality(T) \in Nat /\ Cardinality(T) <= Cardinality(S) + 1
         /\ Cardinality(S) \in Nat
<1>1. IsFiniteSet(S \cup {x}) /\ Cardinality(S \cup {x}) <= Cardinality(S) + 1
      /\ Cardinality(S) \in Nat
  BY FS_AddElement, FS_CardinalityType
<1>2. QED
  BY <1>1, NoMoreThan

(* Without one of its members a set has one less.                          *)
LEMMA OneLess ==
  ASSUME NEW S, NEW T, NEW x \in S, IsFiniteSet(S), T \subseteq S \ {x}
  PROVE  IsFiniteSet(T) /\ Cardinality(T) \in Nat /\ Cardinality(T) <= Cardinality(S) - 1
         /\ Cardinality(S) \in Nat
<1>1. IsFiniteSet(S \ {x}) /\ Cardinality(S \ {x}) = Cardinality(S) - 1
      /\ Cardinality(S) \in Nat
  BY FS_RemoveElement, FS_CardinalityType
<1>2. QED
  BY <1>1, NoMoreThan

(* A step that makes no debt, no late write and no untimely firing. *)
LEMMA NothingOwed ==
  ASSUME TypeOK, PaidFor, Debts' \subseteq Debts, late' \subseteq late,
         untimely' = untimely, faults' = faults
  PROVE  PaidFor'
<1>1. /\ IsFiniteSet(Debts') /\ IsFiniteSet(late')
      /\ Cardinality(Debts') \in Nat /\ Cardinality(Debts') <= Cardinality(Debts)
      /\ Cardinality(late') \in Nat /\ Cardinality(late') <= Cardinality(late)
      /\ Cardinality(Debts) \in Nat /\ Cardinality(late) \in Nat
  <2> HIDE DEF Debts
  <2>1. QED
    BY NoMoreThan DEF PaidFor
<1>2. QED
  BY <1>1 DEF PaidFor, TypeOK

(* Nothing is started and nothing is owed at first.                        *)
LEMMA InitPaid == Init => PaidFor
<1> SUFFICES ASSUME Init PROVE PaidFor
  OBVIOUS
<1>1. Debts = {} /\ late = {}
  BY DEF Init, Nothing, Debts, TooEarly
<1>2. QED
  BY <1>1, FS_EmptySet DEF PaidFor, Init

(* A step that starts a run takes one of the times that were due; no other *)
(* adds to what was started.                                               *)
LEMMA NextPaid == TypeOK /\ TypeOK' /\ TickInv /\ PaidFor /\ [Next]_vars => PaidFor'
<1> SUFFICES ASSUME TypeOK, TypeOK', TickInv, PaidFor, [Next]_vars PROVE PaidFor'
  OBVIOUS
<1> USE ConstantsAssumption
<1>0. /\ Cardinality(Debts) \in Nat /\ Cardinality(late) \in Nat
      /\ untimely \in Nat /\ faults \in Nat
  BY FS_CardinalityType DEF PaidFor, TypeOK
<1>1. ASSUME NEW s \in Ids, Create(s) \/ Add(s) PROVE PaidFor'
  <2>1. PICK r \in Records : /\ Put(s, r)
                             /\ r.next = None \/ r.next = NextRun(s, clock)
    <3>1. NextRun(s, clock) \in Nat
      BY NextRunIsNat DEF TypeOK
    <3>2. /\ [next |-> NextRun(s, clock), enabled |-> TRUE] \in Records
          /\ [next |-> NextRun(s, clock), enabled |-> FALSE] \in Records
          /\ [next |-> None, enabled |-> TRUE] \in Records
      BY <3>1 DEF Records
    <3>3. CASE Create(s)
      BY <3>2, <3>3 DEF Create
    <3>4. CASE Add(s)
      BY <3>2, <3>4 DEF Add
    <3>5. QED
      BY <1>1, <3>3, <3>4
  <2>2. ~TooEarly(s, store[s])' /\ ~TooEarly(s, todo[s])'
    <3>1. store'[s] = r /\ lastAt'[s] = clock /\ todo'[s] = None
      BY <2>1 DEF Put, TypeOK, loopVars
    <3>2. NextRun(s, clock) \in Nat
      BY NextRunIsNat DEF TypeOK
    <3>3. QED
      BY <2>1, <3>1, <3>2 DEF TooEarly, NextRun
  <2>3. ASSUME NEW i \in Debts' PROVE i \in Debts
    <3>1. i # s
      BY <2>2 DEF Debts
    <3>2. QED
      BY <2>1, <3>1 DEF Put, Debts, TooEarly, NextRun, loopVars, TypeOK
  <2>4. QED
    BY <2>1, <2>3, NothingOwed DEF Put
<1>2. ASSUME NEW s \in Ids, Cancel(s) PROVE PaidFor'
  <2>1. ASSUME NEW i \in Debts' PROVE i \in Debts
    BY <1>2 DEF Cancel, Debts, TooEarly, NextRun, loopVars, TypeOK
  <2>2. QED
    BY <1>2, <2>1, NothingOwed DEF Cancel
<1>3. CASE List
  <2>1. ASSUME NEW i \in Debts' PROVE i \in Debts
    BY <1>3 DEF List, Debts, TooEarly, NextRun, history, TypeOK
  <2>2. QED
    BY <1>3, <2>1, NothingOwed DEF List, history
<1>4. ASSUME NEW s \in Ids, Fire(s) PROVE PaidFor'
  <2>1. /\ cur = None /\ cur' = s /\ s # None /\ UNCHANGED <<store, todo, late, faults>>
        /\ \A i \in Ids \ {s} : lastAt'[i] = lastAt[i]
    BY <1>4 DEF Fire, TypeOK
  <2>2. ASSUME NEW i \in Debts' PROVE i \in Debts /\ i # s
    BY <2>1 DEF Debts, TooEarly, NextRun
  <2>3. CASE untimely' = untimely
    BY <2>1, <2>2, <2>3, NothingOwed
  <2>4. CASE tickNow < NextRun(s, lastAt[s]) /\ untimely' = untimely + 1
    <3>1. s \in Debts
      <4>1. todo[s] \in [next : Nat, enabled : {TRUE}] /\ lastAt[s] \in Nat
        BY <1>4 DEF Fire, TypeOK
      <4>2. todo[s].next <= tickNow
        BY <1>4 DEF Fire, TickInv
      <4>3. QED
        BY <2>1, <2>4, <4>1, <4>2, NextRunIsNat DEF Debts, TooEarly, TypeOK
    <3>2. IsFiniteSet(Debts') /\ Cardinality(Debts') \in Nat
          /\ Cardinality(Debts') <= Cardinality(Debts) - 1
      <4> HIDE DEF Debts
      <4>1. QED
        BY <2>2, <3>1, OneLess DEF PaidFor
    <3>3. QED
      BY <1>0, <2>1, <2>4, <3>2 DEF PaidFor
  <2>5. QED
    <3>1. untimely' = untimely + (IF tickNow < NextRun(s, lastAt[s]) THEN 1 ELSE 0)
      BY <1>4 DEF Fire
    <3>2. untimely + 0 = untimely
      BY <1>0
    <3>3. QED
      BY <2>3, <2>4, <3>1, <3>2
<1>5. CASE Update
  <2>1. /\ cur \in Ids /\ cur' = None /\ store' = [store EXCEPT ![cur] = Rescheduled(cur)]
        /\ todo' = [todo EXCEPT ![cur] = None] /\ UNCHANGED <<lastAt, late, untimely, faults>>
    BY <1>5, RescheduledTyped DEF Update, history
  <2>2. ASSUME NEW i \in Debts' PROVE i \in Debts
    <3>1. CASE i = cur
      <4>1. store'[i].next = NextRun(i, tickNow) /\ todo'[i] = None
        BY <1>5, <2>1, <3>1, RescheduledTyped DEF Update, TypeOK
      <4>2. lastAt[cur] = tickNow
        BY <1>5 DEF Update, TickInv
      <4>3. NextRun(cur, tickNow) \in Nat
        BY <2>1, NextRunIsNat DEF TypeOK
      <4>4. ~TooEarly(i, store[i])' /\ ~TooEarly(i, todo[i])'
        BY <2>1, <3>1, <4>1, <4>2, <4>3 DEF TooEarly, NextRun
      <4>5. QED
        BY <2>2, <4>4 DEF Debts
    <3>2. CASE i # cur
      BY <2>1, <3>2 DEF Debts, TooEarly, NextRun, TypeOK
    <3>3. QED
      BY <3>1, <3>2
  <2>3. QED
    BY <2>1, <2>2, NothingOwed
<1>6. CASE TickFails
  <2>1. /\ cur' = None /\ todo' = Nothing /\ faults' = faults + 1
        /\ UNCHANGED <<store, lastAt, untimely>>
    BY <1>6 DEF TickFails, EndLoop
  <2>2. Debts' \subseteq Debts \cup {cur}
    BY <2>1 DEF Debts, TooEarly, NextRun, Nothing
  <2>3. late' \subseteq late \cup {[id |-> cur, rec |-> Rescheduled(cur)]}
    BY <1>6 DEF TickFails
  <2>4. /\ IsFiniteSet(Debts') /\ IsFiniteSet(late')
        /\ Cardinality(Debts') \in Nat /\ Cardinality(Debts') <= Cardinality(Debts) + 1
        /\ Cardinality(late') \in Nat /\ Cardinality(late') <= Cardinality(late) + 1
    <3> HIDE DEF Debts
    <3>1. QED
      BY <2>2, <2>3, AtMostOneMore DEF PaidFor
  <2>5. QED
    BY <1>0, <2>1, <2>4 DEF PaidFor
<1>7. CASE LateWrite
  <2>1. PICK w \in late : /\ store' = [store EXCEPT ![w.id] = w.rec]
                          /\ late' = late \ {w}
                          /\ UNCHANGED <<clock, loopVars, pending, history>>
    BY <1>7 DEF LateWrite
  <2>2. Debts' \subseteq Debts \cup {w.id}
    BY <2>1 DEF Debts, TooEarly, NextRun, loopVars, history, TypeOK
  <2>3. /\ IsFiniteSet(Debts') /\ Cardinality(Debts') \in Nat
        /\ Cardinality(Debts') <= Cardinality(Debts) + 1
    <3> HIDE DEF Debts
    <3>1. QED
      BY <2>2, AtMostOneMore DEF PaidFor
  <2>4. /\ IsFiniteSet(late') /\ Cardinality(late') \in Nat
        /\ Cardinality(late') <= Cardinality(late) - 1
    BY <2>1, OneLess DEF PaidFor
  <2>5. QED
    BY <1>0, <2>1, <2>3, <2>4 DEF PaidFor, history
<1>8. CASE Crash
  <2>1. /\ cur' = None /\ todo' = Nothing /\ faults' = faults + 1 /\ late' = {}
        /\ UNCHANGED <<store, lastAt, untimely>>
    BY <1>8 DEF Crash, EndLoop
  <2>2. Debts' \subseteq Debts \cup {cur}
    BY <2>1 DEF Debts, TooEarly, NextRun, Nothing
  <2>3. /\ IsFiniteSet(Debts') /\ Cardinality(Debts') \in Nat
        /\ Cardinality(Debts') <= Cardinality(Debts) + 1
    <3> HIDE DEF Debts
    <3>1. QED
      BY <2>2, AtMostOneMore DEF PaidFor
  <2>4. IsFiniteSet(late') /\ Cardinality(late') = 0
    BY <2>1, FS_EmptySet
  <2>5. QED
    BY <1>0, <2>1, <2>3, <2>4 DEF PaidFor
<1>9. CASE Clock \/ StartTick \/ EndTick \/ Drain \/ UNCHANGED vars
  <2>1. UNCHANGED <<store, todo, cur, late, history>>
    BY <1>9 DEF Clock, StartTick, EndTick, Drain, vars, loopVars
  <2>2. Debts' \subseteq Debts
    BY <2>1 DEF Debts, TooEarly, NextRun, history
  <2>3. QED
    BY <2>1, <2>2, NothingOwed DEF history
<1>10. QED
  BY <1>1, <1>2, <1>3, <1>4, <1>5, <1>6, <1>7, <1>8, <1>9 DEF Next, Tick

(* Every firing that comes less than an interval, or a slot, after the one *)
(* before is paid for by a tick cut short, two at most for each.           *)
THEOREM EarlyFiringsArePaid == Spec => []FiringsAreSpaced
<1>1. TypeOK /\ PaidFor => FiringsAreSpaced
  <2> SUFFICES ASSUME TypeOK, PaidFor PROVE FiringsAreSpaced
    OBVIOUS
  <2>1. Cardinality(Debts) \in Nat /\ Cardinality(late) \in Nat
    BY FS_CardinalityType DEF PaidFor
  <2>2. QED
    BY <2>1 DEF PaidFor, FiringsAreSpaced, TypeOK
<1>2. Spec => [](TypeOK /\ TickInv /\ PaidFor)
  BY InitType, NextType, InitTick, NextTick, InitPaid, NextPaid, PTL DEF Spec
<1>3. QED
  BY <1>1, <1>2, PTL
=============================================================================

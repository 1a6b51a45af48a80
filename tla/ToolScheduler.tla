---------------------------- MODULE ToolScheduler ----------------------------
(***************************************************************************)
(* execute_tool_calls: the calls of one reply, numbered in the provider's  *)
(* order, from their permissions to their ToolCallEnd events.              *)
(*                                                                         *)
(* Permissions are evaluated and asked for, hooks change or block inputs,  *)
(* background calls are detached, and the others run in batches: one call  *)
(* at a time, or several that may run together.  Every call in progress is *)
(* a coroutine of its own, as are the detached ones, which live on beside  *)
(* the batches.  A coroutine can be aborted only where it looks at the     *)
(* signal.  Inputs matter as far as a tool's concurrency predicate and its *)
(* resources depend on them; contents, offloading, post hooks and events   *)
(* about skills are left out.                                              *)
(***************************************************************************)
EXTENDS Integers, Sequences, FiniteSets

CONSTANTS
  N,           \* calls in the reply
  Resources,   \* names a ResourceAccess can mention
  Kinds,       \* what a call can be
  Hooked,      \* TRUE if PreToolUse hooks are registered
  Cap,         \* _max_concurrency(agent)
  MaxAttempts  \* Agent(tool_retry=...).max_attempts, 1 without it

Calls == 1..N
Inputs == {"asked", "updated"}
Access == Resources \X {"read", "write"}

(* valid: the call resolves to a tool and its input validates.             *)
(* predicate: the tool's parallel attribute is a function of the input.    *)
(* rule: the decision before anybody is asked, a replayed one included.    *)
KindRecords ==
  [valid : BOOLEAN, scope : {"read", "write", "exec"}, predicate : BOOLEAN,
   parallel : [Inputs -> BOOLEAN], access : [Inputs -> SUBSET Access],
   retryable : BOOLEAN, rule : {"allow", "deny", "ask"}, background : BOOLEAN]

ASSUME ConstantsAssumption ==
  /\ N \in Nat /\ Cap \in Nat \ {0} /\ MaxAttempts \in Nat \ {0}
  /\ Kinds \subseteq KindRecords
  /\ Hooked \in BOOLEAN

VARIABLES
  kind,      \* the calls of the reply; never changes
  pc,        \* where execute_tool_calls stands
  decision,  \* decisions
  input,     \* the input of each call: the model's, or a replacement
  asks,      \* ask_indices still to resolve
  blocked,   \* middleware_errors
  bg,        \* background_indices: the calls detached so far
  rest,      \* foreground calls of the batches still to run
  batch,     \* calls of the current batch
  task,      \* the coroutine of each call
  attempts,  \* executions begun for each call
  ends,      \* ToolCallEnd events emitted, <<call, verdict>>
  aborted    \* signal.aborted

plan  == <<decision, input, asks, blocked>>
lanes == <<bg, rest, batch>>
vars  == <<kind, pc, plan, lanes, task, attempts, ends, aborted>>

Active == {"started", "executing", "backoff"}
Results == {"ok", "error"}
TaskStates == {"idle"} \cup Active \cup Results \cup {"aborted", "cancelled"}
PCs == {"evaluate", "resolve", "hooks", "detach", "batch", "lane", "done", "aborted"}

-----------------------------------------------------------------------------
(* Partitioning *)

(* _tool_parallel: a predicate decides for any scope, a flag for reads.    *)
ToolParallel(i) ==
  /\ kind[i].valid
  /\ kind[i].predicate \/ kind[i].scope = "read"
  /\ kind[i].parallel[input[i]]

ResourceAccesses(i) == IF kind[i].valid THEN kind[i].access[input[i]] ELSE {}

ResourcesConflict(i, j) ==
  \E a \in ResourceAccesses(i), b \in ResourceAccesses(j) :
    a[1] = b[1] /\ "write" \in {a[2], b[2]}

(* May calls i and j of one reply be in progress together?                 *)
Compatible(i, j) ==
  ToolParallel(i) /\ ToolParallel(j) /\ ~ResourcesConflict(i, j)

(* Mutant: resources are not compared.                                     *)
FitsUnchecked(S) ==
  /\ Cardinality(S) <= Cap
  /\ \A i, j \in S : i < j => ToolParallel(i) /\ ToolParallel(j)

Fits(S) ==
  /\ Cardinality(S) <= Cap
  /\ \A i, j \in S : i < j => Compatible(i, j)

Upto(S, i) == {j \in S : j <= i}

(* Mutant: a call that does not fit is passed over, not the end.           *)
FirstBatchSkips(S) ==
  LET Joins == {i \in S : \E first \in S : /\ \A j \in S : first <= j
                                           /\ Fits({first, i})}
  IN  {i \in Joins : Cardinality(Upto(Joins, i)) <= Cap}

(* The batch _partition_batches cuts from the calls that are left: their   *)
(* longest prefix that may run together.                                   *)
FirstBatch(S) == {i \in S : Fits(Upto(S, i))}

(* The same as the code loops: the calls that are left in their order, what *)
(* lets the n-th of them join those before it, and how many are selected    *)
(* when the loop has seen n of them.                                        *)
Pending(S) ==
  [k \in 1..Cardinality(S) |-> CHOOSE i \in S : Cardinality({j \in S : j < i}) = k - 1]

MayJoin(pending, n) ==
  /\ n <= Cap /\ ToolParallel(pending[n])
  /\ \A k \in 1..(n - 1) : ~ResourcesConflict(pending[k], pending[n])

Selected(pending) ==
  LET upto[n \in 0..Len(pending)] ==
        IF n = 0 THEN 0
        ELSE IF upto[n - 1] = n - 1 /\ MayJoin(pending, n) THEN n ELSE upto[n - 1]
  IN upto[Len(pending)]

BatchAsCoded(pending) ==
  {pending[k] : k \in 1..(IF ToolParallel(pending[1]) THEN Selected(pending) ELSE 1)}

-----------------------------------------------------------------------------
(* Permissions, hooks, background calls *)

Init ==
  /\ kind \in [Calls -> Kinds]
  /\ pc = "evaluate"
  /\ decision = [i \in Calls |-> "deny"]
  /\ input = [i \in Calls |-> "asked"]
  /\ asks = {} /\ blocked = {}
  /\ bg = {} /\ rest = {} /\ batch = {}
  /\ task = [i \in Calls |-> "idle"]
  /\ attempts = [i \in Calls |-> 0]
  /\ ends = <<>>
  /\ aborted = FALSE

EvaluatePermissions ==
  /\ pc = "evaluate"
  /\ decision' = [i \in Calls |-> IF kind[i].valid THEN kind[i].rule ELSE "deny"]
  /\ asks' = {i \in Calls : kind[i].valid /\ kind[i].rule = "ask"}
  /\ pc' = "resolve"
  /\ UNCHANGED <<kind, input, blocked, lanes, task, attempts, ends, aborted>>

IsFirst(i, S) == i \in S /\ \A j \in S : i <= j

(* The permission callback answers, and may replace the input it allows; a *)
(* callback that fails denies.                                             *)
ResolveAsk(i) ==
  /\ pc = "resolve"
  /\ IsFirst(i, asks)
  /\ \/ decision' = [decision EXCEPT ![i] = "deny"] /\ UNCHANGED input
     \/ \E x \in Inputs : /\ decision' = [decision EXCEPT ![i] = "allow"]
                          /\ input' = [input EXCEPT ![i] = x]
  /\ asks' = asks \ {i}
  /\ UNCHANGED <<kind, pc, blocked, lanes, task, attempts, ends, aborted>>

(* A callback that noticed the abort raises AbortError.                    *)
ResolveAborts ==
  /\ pc = "resolve" /\ asks # {} /\ aborted
  /\ pc' = "aborted"
  /\ UNCHANGED <<kind, plan, lanes, task, attempts, ends, aborted>>

Resolved ==
  /\ pc = "resolve" /\ asks = {}
  /\ pc' = IF Hooked THEN "hooks" ELSE "detach"
  /\ UNCHANGED <<kind, plan, lanes, task, attempts, ends, aborted>>

Allowed == {i \in Calls : decision[i] = "allow"}

(* PreToolUse hooks replace and block inputs of the allowed calls.         *)
PreToolUse ==
  /\ pc = "hooks"
  /\ blocked' \in SUBSET Allowed
  /\ \E M \in SUBSET Allowed :
       input' = [i \in Calls |-> IF i \in M THEN "updated" ELSE input[i]]
  /\ pc' = "detach"
  /\ UNCHANGED <<kind, decision, asks, lanes, task, attempts, ends, aborted>>

Detachable == {i \in Allowed \ (blocked \cup bg) : kind[i].background}

(* A background call is started and acknowledged at once.                  *)
Detach(i) ==
  /\ pc = "detach"
  /\ IsFirst(i, Detachable)
  /\ bg' = bg \cup {i}
  /\ task' = [task EXCEPT ![i] = "started"]
  /\ ends' = Append(ends, <<i, "ack">>)
  /\ UNCHANGED <<kind, pc, plan, rest, batch, attempts, aborted>>

Partition ==
  /\ pc = "detach" /\ Detachable = {}
  /\ rest' = Calls \ bg
  /\ pc' = "batch"
  /\ UNCHANGED <<kind, plan, bg, batch, task, attempts, ends, aborted>>

-----------------------------------------------------------------------------
(* Batches *)

(* A batch starts its calls: ToolCallStart events, then their coroutines.  *)
StartBatch ==
  /\ pc = "batch" /\ rest # {} /\ ~aborted
  /\ batch' = FirstBatch(rest)
  /\ rest' = rest \ batch'
  /\ task' = [i \in Calls |-> IF i \in batch' THEN "started" ELSE task[i]]
  /\ pc' = "lane"
  /\ UNCHANGED <<kind, plan, bg, attempts, ends, aborted>>

BatchesAborted ==
  /\ pc = "batch" /\ rest # {} /\ aborted
  /\ pc' = "aborted"
  /\ UNCHANGED <<kind, plan, lanes, task, attempts, ends, aborted>>

BatchesDone ==
  /\ pc = "batch" /\ rest = {}
  /\ pc' = "done"
  /\ UNCHANGED <<kind, plan, lanes, task, attempts, ends, aborted>>

(* The orders in which the events of a set of calls can be emitted.        *)
Orders(S) ==
  {s \in [1..Cardinality(S) -> S] : \A p, q \in DOMAIN s : s[p] = s[q] => p = q}
InCallOrder(s) == \A p, q \in DOMAIN s : p < q => s[p] < s[q]
Events(s, v) == [p \in DOMAIN s |-> <<s[p], v[s[p]]>>]

(* Every call of the batch has a result: the ends, in the calls' order.    *)
EndBatch ==
  /\ pc = "lane"
  /\ \A i \in batch : task[i] \in Results
  /\ \E s \in Orders(batch) : InCallOrder(s) /\ ends' = ends \o Events(s, task)
  /\ batch' = {}
  /\ pc' = "batch"
  /\ UNCHANGED <<kind, plan, bg, rest, task, attempts, aborted>>

Unfinished == {i \in batch : task[i] \notin Results}

(* Mutant: no ends for the orphans.                                        *)
AbortBatchSilently ==
  /\ pc = "lane"
  /\ \E i \in batch : task[i] = "aborted"
  /\ task' = [i \in Calls |-> IF i \in batch /\ task[i] \in Active THEN "cancelled"
                              ELSE task[i]]
  /\ batch' = {}
  /\ pc' = "aborted"
  /\ UNCHANGED <<kind, plan, bg, rest, attempts, ends, aborted>>

(* Mutant: waits until every call of the batch was aborted.                *)
AbortBatchOfAll ==
  /\ pc = "lane"
  /\ \A i \in batch : task[i] = "aborted"
  /\ \E s \in Orders(Unfinished) :
       ends' = ends \o Events(s, [i \in Calls |-> "aborted"])
  /\ batch' = {}
  /\ pc' = "aborted"
  /\ UNCHANGED <<kind, plan, bg, rest, task, attempts, aborted>>

(* A call raised AbortError: the others are cancelled, and every call that *)
(* has no result gets an "aborted" end, in any order.                      *)
AbortBatch ==
  /\ pc = "lane"
  /\ \E i \in batch : task[i] = "aborted"
  /\ task' = [i \in Calls |-> IF i \in batch /\ task[i] \in Active THEN "cancelled"
                              ELSE task[i]]
  /\ \E s \in Orders(Unfinished) :
       ends' = ends \o Events(s, [i \in Calls |-> "aborted"])
  /\ batch' = {}
  /\ pc' = "aborted"
  /\ UNCHANGED <<kind, plan, bg, rest, attempts, aborted>>

-----------------------------------------------------------------------------
(* One call: _execute_one, in a batch or detached *)

Move(i, to) == task' = [task EXCEPT ![i] = to]

ExecuteAborted(i) ==
  /\ task[i] = "started" /\ aborted
  /\ Move(i, "aborted")
  /\ UNCHANGED <<kind, pc, plan, lanes, attempts, ends, aborted>>

(* A denied, invalid or blocked call ends in an error without running.     *)
Refuse(i) ==
  /\ task[i] = "started" /\ ~aborted
  /\ decision[i] = "deny" \/ i \in blocked
  /\ Move(i, "error")
  /\ UNCHANGED <<kind, pc, plan, lanes, attempts, ends, aborted>>

Attempt(i) ==
  /\ Move(i, "executing")
  /\ attempts' = [attempts EXCEPT ![i] = @ + 1]
  /\ UNCHANGED <<kind, pc, plan, lanes, ends, aborted>>

Execute(i) ==
  /\ task[i] = "started" /\ ~aborted
  /\ decision[i] # "deny" /\ i \notin blocked
  /\ Attempt(i)

(* The signal was looked at before the delay, not after it.                *)
Retry(i) == task[i] = "backoff" /\ Attempt(i)

Return(i) ==
  /\ task[i] = "executing"
  /\ \E r \in Results : Move(i, r)
  /\ UNCHANGED <<kind, pc, plan, lanes, attempts, ends, aborted>>

Failures == {"timeout", "exception"}

(* _tool_retryable; ToolTimeoutError carries retryable = True.             *)
ToolRetryable(i, exc) ==
  kind[i].retryable \/ kind[i].scope = "read" \/ exc = "timeout"

Fail(i, exc) ==
  /\ task[i] = "executing"
  /\ Move(i, IF ~ToolRetryable(i, exc) \/ attempts[i] >= MaxAttempts THEN "error"
             ELSE IF aborted THEN "aborted" ELSE "backoff")
  /\ UNCHANGED <<kind, pc, plan, lanes, attempts, ends, aborted>>

(* A tool that noticed the abort raises AbortError.                        *)
RaiseAbort(i) ==
  /\ task[i] = "executing" /\ aborted
  /\ Move(i, "aborted")
  /\ UNCHANGED <<kind, pc, plan, lanes, attempts, ends, aborted>>

(* The host aborts the run, through Session.abort, which also cancels the  *)
(* detached calls, or through a signal of its own.                         *)
Abort ==
  /\ ~aborted
  /\ aborted' = TRUE
  /\ \E cancels \in {{}, bg} :
       task' = [i \in Calls |-> IF i \in cancels /\ task[i] \in Active
                                THEN "cancelled" ELSE task[i]]
  /\ UNCHANGED <<kind, pc, plan, lanes, attempts, ends>>

-----------------------------------------------------------------------------
SchedulerStep ==
  \/ EvaluatePermissions \/ ResolveAborts \/ Resolved \/ PreToolUse \/ Partition
  \/ (\E i \in Calls : ResolveAsk(i) \/ Detach(i))
  \/ StartBatch \/ BatchesAborted \/ BatchesDone \/ EndBatch \/ AbortBatch

CallStep(i) ==
  \/ ExecuteAborted(i) \/ Refuse(i) \/ Execute(i) \/ Retry(i) \/ Return(i)
  \/ (\E exc \in Failures : Fail(i, exc)) \/ RaiseAbort(i)

Next == SchedulerStep \/ (\E i \in Calls : CallStep(i)) \/ Abort

Spec == Init /\ [][Next]_vars

(* The event loop runs what is ready, the permission callback answers, and *)
(* a tool returns, fails or runs into its timeout.                         *)
FairSpec == Spec /\ WF_vars(SchedulerStep) /\ \A i \in Calls : WF_vars(CallStep(i))

-----------------------------------------------------------------------------
(* Properties *)

(* Every variable keeps its type.                                           *)
TypeOK ==
  /\ kind \in [Calls -> Kinds]
  /\ pc \in PCs
  /\ decision \in [Calls -> {"allow", "deny", "ask"}]
  /\ input \in [Calls -> Inputs]
  /\ asks \subseteq Calls /\ blocked \subseteq Calls
  /\ bg \subseteq Calls /\ rest \subseteq Calls /\ batch \subseteq Calls
  /\ task \in [Calls -> TaskStates]
  /\ attempts \in [Calls -> Nat]
  /\ ends \in Seq(Calls \X (Results \cup {"ack", "aborted"}))
  /\ aborted \in BOOLEAN

Foreground == Calls \ bg
Settled(i) == task[i] \notin {"idle"} \cup Active

(* Two calls of the lanes that may not overlap take effect one after the    *)
(* other, in the order the provider asked for them.                         *)
InOrder ==
  \A i, j \in Foreground :
    i < j /\ task[j] # "idle" /\ ~Compatible(i, j) => Settled(i)

(* FirstBatch is what the code's loop selects, for every remainder: the     *)
(* longest prefix that may run together, and never an empty one.            *)
PartitionAsCoded ==
  pc = "batch" /\ rest # {} => FirstBatch(rest) = BatchAsCoded(Pending(rest)) /\ FirstBatch(rest) # {}

(* No more than Cap calls of the lanes are in progress at once.             *)
WithinCap == Cardinality({i \in Foreground : task[i] \in Active}) <= Cap

Planning == {"evaluate", "resolve", "hooks", "detach"}

(* What makes InOrder and WithinCap inductive: the calls left are idle, the *)
(* calls in progress are the batch, a batch runs together, and nothing is   *)
(* idle behind the batches.                                                 *)
LanesInv ==
  /\ rest \subseteq Foreground /\ batch \subseteq Foreground \ rest
  /\ \A i \in rest : task[i] = "idle"
  /\ \A i \in Foreground : task[i] \in Active => i \in batch
  /\ \A i, j \in batch : i < j => Compatible(i, j)
  /\ Cardinality(batch) <= Cap
  /\ pc # "lane" => batch = {}
  /\ pc \in Planning => rest = {} /\ \A i \in Foreground : task[i] = "idle"
  /\ pc \in {"evaluate", "resolve", "hooks"} => bg = {}
  /\ pc \in {"batch", "lane"} => \A i \in Foreground \ rest : task[i] # "idle"

EndsOf(i) == {p \in DOMAIN ends : ends[p][1] = i}

(* Every ToolCallStart is closed once: by the result, the acknowledgement   *)
(* or "aborted"; an aborted batch leaves open only calls that had a result. *)
BracketsClose ==
  \A i \in Calls :
    /\ Cardinality(EndsOf(i)) <= 1
    /\ pc = "done" => EndsOf(i) # {}
    /\ pc = "aborted" /\ task[i] # "idle" /\ EndsOf(i) = {} => task[i] \in Results

(* The calls of a reply are all answered, or the run stops.                 *)
EventuallyAnswered == <>(pc \in {"done", "aborted"})

(* A write or exec tool that does not declare retryable = True runs once.   *)
WriteRunsOnce ==
  \A i \in Calls :
    kind[i].scope # "read" /\ ~kind[i].retryable => attempts[i] <= 1

=============================================================================

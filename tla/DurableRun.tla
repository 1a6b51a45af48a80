------------------------------ MODULE DurableRun ------------------------------
(***************************************************************************)
(* One run of a session, as _run_loop_impl drives it: prompt, turns,       *)
(* provider replies, tool batches, checkpoints, and what resume_loop makes *)
(* of the run after the process died or the consumer left the iterator.    *)
(*                                                                         *)
(* Three things are durable: the session's messages (log), the run record  *)
(* with its checkpoint (status, ck) and the run's event log, of which only *)
(* the ToolCallEnd events matter (ended).  Everything else is memory.      *)
(* Each await on a store is one step, so a crash can fall between any two. *)
(* The agent has no hooks, no budget and no compaction; a run store and a  *)
(* session store that serialise what they save (the SQLite ones).  The      *)
(* retries of one tool execution count as one.                             *)
(***************************************************************************)
EXTENDS Naturals, Sequences, FiniteSets

CONSTANTS
  Calls,      \* tool_use ids the provider can issue
  Keys,       \* permission keys: (tool name, input)
  KeyOf,      \* the key of each call
  Rule,       \* what the engine decides on a key by itself; "none": it asks
  Workers,    \* background workers tool calls can spawn
  MaxTurns,   \* Agent.max_turns
  MaxFaults,  \* bound: crashes and abandoned iterators
  FreshIds    \* TRUE if the provider never reuses a tool_use id

ASSUME ConstantsAssumption ==
  /\ MaxTurns \in Nat
  /\ MaxFaults \in Nat
  /\ FreshIds \in BOOLEAN
  /\ KeyOf \in [Calls -> Keys]
  /\ Rule \in [Keys -> {"none", "allow", "deny"}]

VARIABLES
  log,      \* durable: the session store's messages; provider_view mirrors it
  status,   \* durable: RunRecord.status
  ck,       \* durable: RunRecord.checkpoint
  ended,    \* durable: result of each call's ToolCallEnd event in the run log
  pc,       \* where _run_loop_impl stands; "down" when no iterator is open
  mem,      \* the checkpoint object in memory
  turn,     \* turn_index
  resumed,  \* resume_checkpoint is not None
  asm,      \* the assistant message being processed
  done,     \* completed_tool_results
  todo,     \* missing blocks whose execution has not started
  asking,   \* calls whose permission callback has not answered
  verdict,  \* the scheduler's decision on each call of the batch
  running,  \* calls started and not yet ended
  begun,    \* the running calls that have begun their effect
  hinted,   \* a failed call of the batch carried a recovery hint
  total,    \* provider replies accounted in total_usage
  force,    \* _force_final_pending
  perm,     \* session.current_turn_permission_decisions
  pending,  \* session.pending_notifications
  drain,    \* notifications taken from pending, not yet appended
  live,     \* session.workers: the in-process status of each worker
  faults,   \* crashes and abandoned iterators so far
  execs,    \* history: how often each call was executed
  issued,   \* history: ids the provider has issued
  answered  \* history: <<turn, key, answer>> given by the permission callback

durable  == <<log, status, ck, ended>>
batch    == <<done, todo, asking, verdict, running, begun, hinted>>
loopvars == <<turn, resumed, asm>>
acct     == <<total, force>>
session  == <<perm, pending, drain, live>>
history  == <<faults, execs, issued, answered>>
vars     == <<durable, pc, mem, loopvars, batch, acct, session, history>>

-----------------------------------------------------------------------------
(* Data *)

NoResult == [val |-> "none", turn |-> 0]
Interrupted == [val |-> "interrupted", turn |-> 0]
Result(v, t) == [val |-> v, turn |-> t]
Results == [val : {"none", "interrupted", "ok", "error"}, turn : Nat]
Failed(r) == r.val \in {"interrupted", "error"}

NoAnswer == "none"
Answers == {"none", "allow", "deny"}

NoMsg == [kind |-> "none", calls |-> {}]
User == [kind |-> "user"]
Hint == [kind |-> "hint"]
Reminder == [kind |-> "reminder"]
Assistant(S) == [kind |-> "assistant", calls |-> S]
Note(w, s) == [kind |-> "note", worker |-> w, status |-> s]
ToolResults(f) == [kind |-> "results", answers |-> f]
AnsweredBy(m) == {c \in Calls : m.answers[c] # NoResult}

Replies == {NoMsg} \cup [kind : {"assistant"}, calls : SUBSET Calls]
Notes == [kind : {"note"}, worker : Workers, status : {"completed", "killed"}]
Messages ==
  {User, Hint, Reminder} \cup Notes
  \cup [kind : {"assistant"}, calls : SUBSET Calls]
  \cup [kind : {"results"}, answers : [Calls -> Results]]

LastMsg == IF log = <<>> THEN NoMsg ELSE log[Len(log)]

Phases == {"none", "started", "user_appended", "provider_pending",
           "assistant_appended", "tool_batch_pending", "permission_pending",
           "tool_executing", "tool_results_appended", "turn_complete",
           "completed", "failed", "aborted"}
Terminal == {"completed", "failed", "aborted"}
Statuses == {"running", "waiting_permission"} \cup Terminal
WorkerStates == {"absent", "running", "completed", "killed"}

(* Phases from which resume re-enters the turn with the saved assistant    *)
(* message instead of calling the provider.                                *)
Redispatch == {"assistant_appended", "permission_pending",
               "tool_batch_pending", "tool_executing"}
NextTurnPhases == {"tool_results_appended", "turn_complete"}

Checkpoints ==
  [phase : Phases, turn : Nat, asst : Replies, done : [Calls -> Results],
   perm : [Keys -> Answers], workers : [Workers -> WorkerStates],
   usage : Nat, force : BOOLEAN]

EmptyCheckpoint(ph) ==
  [phase |-> ph, turn |-> 0, asst |-> NoMsg, done |-> [c \in Calls |-> NoResult],
   perm |-> [k \in Keys |-> NoAnswer], workers |-> [w \in Workers |-> "absent"],
   usage |-> 0, force |-> FALSE]

-----------------------------------------------------------------------------
(* Saving *)

(* _background_workers_to_dict: what was checkpointed, overlaid with the   *)
(* status of the handles alive in this process.                            *)
WorkerSnapshot ==
  [w \in Workers |-> IF live[w] = "absent" THEN mem.workers[w] ELSE live[w]]

(* _save_checkpoint copies the run's memory into the checkpoint object.    *)
Stamped(base, ph) ==
  [base EXCEPT !.phase = ph, !.usage = total, !.force = force, !.perm = perm,
               !.workers = WorkerSnapshot]

Save(base, ph, st) ==
  /\ mem' = Stamped(base, ph)
  /\ ck' = Stamped(base, ph)
  /\ status' = st

(* mark_completed, mark_failed and the abort handler store the object as   *)
(* it is, with the usage brought up to date.                               *)
Terminate(st) ==
  /\ ck' = [mem EXCEPT !.phase = st, !.usage = total]
  /\ mem' = [mem EXCEPT !.phase = st, !.usage = total]
  /\ status' = st
  /\ pc' = "down"

(* _cancel_background_workers: a cancelled worker task ends as killed.     *)
CancelWorkers ==
  live' = [w \in Workers |-> IF live[w] = "running" THEN "killed" ELSE live[w]]

-----------------------------------------------------------------------------
Init ==
  /\ log = <<>>
  /\ status = "running"
  /\ ck = EmptyCheckpoint("none")
  /\ ended = [c \in Calls |-> NoResult]
  /\ pc = "begin"
  /\ mem = EmptyCheckpoint("started")
  /\ turn = 0
  /\ resumed = FALSE
  /\ asm = NoMsg
  /\ done = [c \in Calls |-> NoResult]
  /\ todo = {} /\ asking = {} /\ running = {} /\ begun = {}
  /\ verdict = [c \in Calls |-> NoAnswer]
  /\ hinted = FALSE
  /\ total = 0
  /\ force = FALSE
  /\ perm = [k \in Keys |-> NoAnswer]
  /\ pending = <<>> /\ drain = <<>>
  /\ live = [w \in Workers |-> "absent"]
  /\ faults = 0
  /\ execs = [c \in Calls |-> 0]
  /\ issued = {}
  /\ answered = {}

(* The first checkpoint; before it create_run left a run without one.      *)
SaveStarted ==
  /\ pc = "begin"
  /\ Save(mem, "started", "running")
  /\ pc' = "prompt"
  /\ UNCHANGED <<log, ended, loopvars, batch, acct, session, history>>

(* A fresh run always appends the prompt; a run resumed at "started" does  *)
(* so unless the prompt is already the last message.                       *)
AppendPrompt ==
  /\ pc = "prompt"
  /\ log' = IF resumed /\ LastMsg = User THEN log ELSE Append(log, User)
  /\ pc' = "savePrompt"
  /\ UNCHANGED <<status, ck, ended, mem, loopvars, batch, acct, session, history>>

SavePrompt ==
  /\ pc = "savePrompt"
  /\ Save(mem, "user_appended", "running")
  /\ pc' = IF resumed THEN "wake" ELSE "top"
  /\ UNCHANGED <<log, ended, loopvars, batch, acct, session, history>>

-----------------------------------------------------------------------------
(* Resuming *)

(* Mutant: the finished runs are not turned away.                           *)
ResumeAny ==
  /\ pc = "down"
  /\ ck.phase # "none"
  /\ mem' = ck
  /\ resumed' = TRUE
  /\ turn' = IF ck.phase \in NextTurnPhases THEN ck.turn + 1 ELSE ck.turn
  /\ asm' = NoMsg
  /\ total' = ck.usage
  /\ force' = ck.force
  /\ perm' = ck.perm
  /\ pc' = IF ck.phase = "started" THEN "prompt" ELSE "wake"
  /\ UNCHANGED <<durable, batch, pending, drain, live, history>>

(* Mutant: only a run recorded as running is resumed.                       *)
ResumeRunning == status = "running" /\ ResumeAny

(* resume_loop: nothing to do for a finished run or one never checkpointed. *)
Resume ==
  /\ pc = "down"
  /\ status \notin Terminal
  /\ ck.phase # "none"
  /\ mem' = ck
  /\ resumed' = TRUE
  /\ turn' = IF ck.phase \in NextTurnPhases THEN ck.turn + 1 ELSE ck.turn
  /\ asm' = NoMsg
  /\ total' = ck.usage
  /\ force' = ck.force
  /\ perm' = ck.perm
  /\ pc' = IF ck.phase = "started" THEN "prompt" ELSE "wake"
  /\ UNCHANGED <<durable, batch, pending, drain, live, history>>

Crashed == {w \in Workers : mem.workers[w] = "running" /\ live[w] = "absent"}

(* _queue_crashed_worker_notifications, one worker at a time: the persisted *)
(* event is observational, the notification is only queued in memory.       *)
QueueCrashed(w) ==
  /\ pc = "wake"
  /\ w \in Crashed
  /\ pending' = Append(pending, Note(w, "killed"))
  /\ mem' = [mem EXCEPT !.workers[w] = "killed"]
  /\ UNCHANGED <<durable, pc, loopvars, batch, acct, perm, drain, live, history>>

Woken ==
  /\ pc = "wake"
  /\ Crashed = {}
  /\ IF \E w \in Workers : mem.workers[w] # "absent"
       THEN Save(mem, mem.phase, "running")
       ELSE UNCHANGED <<mem, ck, status>>
  /\ pc' = "top"
  /\ UNCHANGED <<log, ended, loopvars, batch, acct, session, history>>

-----------------------------------------------------------------------------
(* The top of a turn *)

MaxTurnsReached ==
  /\ pc = "top"
  /\ turn >= MaxTurns
  /\ Terminate("failed")
  /\ UNCHANGED <<log, ended, loopvars, batch, acct, session, history>>

(* The queue is emptied first; the notes taken are then appended one by one. *)
TakeNotes ==
  /\ pc = "top"
  /\ turn < MaxTurns
  /\ drain' = pending
  /\ pending' = <<>>
  /\ pc' = "drain"
  /\ UNCHANGED <<durable, mem, loopvars, batch, acct, perm, live, history>>

AppendNote ==
  /\ pc = "drain"
  /\ drain # <<>>
  /\ log' = Append(log, Head(drain))
  /\ drain' = Tail(drain)
  /\ UNCHANGED <<status, ck, ended, pc, mem, loopvars, batch, acct, perm,
                 pending, live, history>>

ResumedAssistant ==
  resumed /\ turn = mem.turn /\ mem.phase \in Redispatch /\ mem.asst # NoMsg

(* Mutant: a reply that was appended and not saved is asked for again.      *)
AdoptedNever == FALSE

(* The crash fell between appending the reply and saving it: the reply is   *)
(* adopted when it is still the last message.                               *)
AdoptedAssistant ==
  /\ resumed /\ ~ResumedAssistant
  /\ turn = mem.turn
  /\ mem.phase = "provider_pending"
  /\ LastMsg.kind = "assistant"

(* Mutant: the decisions of the previous turn are kept.                     *)
KeptPermissions == perm

(* Permission decisions live for one turn; a resumed turn keeps its own.    *)
TurnPermissions ==
  IF resumed /\ turn = mem.turn THEN perm ELSE [k \in Keys |-> NoAnswer]

StartTurn ==
  /\ pc = "drain"
  /\ drain = <<>>
  /\ perm' = TurnPermissions
  /\ \/ /\ ResumedAssistant
        /\ asm' = mem.asst
        /\ pc' = "dispatch"
        /\ UNCHANGED mem
     \/ /\ AdoptedAssistant
        /\ asm' = LastMsg
        /\ mem' = [mem EXCEPT !.asst = LastMsg]
        /\ pc' = "dispatch"
     \/ /\ ~ResumedAssistant /\ ~AdoptedAssistant
        /\ pc' = "request"
        /\ UNCHANGED <<asm, mem>>
  /\ UNCHANGED <<durable, turn, resumed, batch, acct, pending, drain, live, history>>

-----------------------------------------------------------------------------
(* The provider call *)

SaveRequest ==
  /\ pc = "request"
  /\ Save([mem EXCEPT !.turn = turn], "provider_pending", "running")
  /\ pc' = "provider"
  /\ UNCHANGED <<log, ended, loopvars, batch, acct, session, history>>

(* A forced final turn carries no tools, so the reply is text.              *)
ProviderReply(S) ==
  /\ pc = "provider"
  /\ force => S = {}
  /\ FreshIds => S \cap issued = {}
  /\ asm' = Assistant(S)
  /\ issued' = issued \cup S
  /\ pc' = "reply"
  /\ UNCHANGED <<durable, mem, turn, resumed, batch, acct, session,
                 faults, execs, answered>>

(* An exception in the turn: workers cancelled, run failed.                 *)
ProviderFails ==
  /\ pc = "provider"
  /\ Terminate("failed")
  /\ CancelWorkers
  /\ UNCHANGED <<log, ended, loopvars, batch, acct, perm, pending, drain, history>>

AppendReply ==
  /\ pc = "reply"
  /\ log' = Append(log, asm)
  /\ total' = total + 1
  /\ force' = FALSE
  /\ pc' = "saveReply"
  /\ UNCHANGED <<status, ck, ended, mem, loopvars, batch, session, history>>

SaveReply ==
  /\ pc = "saveReply"
  /\ Save([mem EXCEPT !.turn = turn, !.asst = asm], "assistant_appended", "running")
  /\ pc' = "dispatch"
  /\ UNCHANGED <<log, ended, loopvars, batch, acct, session, history>>

(* A reply without tool calls ends the run.                                 *)
Finish ==
  /\ pc = "dispatch"
  /\ asm.calls = {}
  /\ Terminate("completed")
  /\ UNCHANGED <<log, ended, loopvars, batch, acct, session, history>>

(* Mutant: the run log is not consulted.                                    *)
RecoveredFromCheckpoint ==
  [c \in Calls |-> IF resumed /\ turn = mem.turn THEN mem.done[c] ELSE NoResult]

(* _recover_completed_tool_results: the checkpoint's results on resume,     *)
(* overlaid with every ToolCallEnd of the run log; the rest is missing.     *)
Recovered ==
  [c \in Calls |-> IF ended[c] # NoResult THEN ended[c]
                   ELSE IF resumed /\ turn = mem.turn THEN mem.done[c]
                   ELSE NoResult]

RecoverBatch ==
  /\ pc = "dispatch"
  /\ asm.calls # {}
  /\ done' = Recovered
  /\ todo' = {c \in asm.calls : Recovered[c] = NoResult}
  /\ asking' = {} /\ running' = {} /\ begun' = {}
  /\ verdict' = [c \in Calls |-> NoAnswer]
  /\ hinted' = FALSE
  /\ Save([mem EXCEPT !.turn = turn, !.asst = asm, !.done = Recovered],
          "tool_batch_pending", "running")
  /\ pc' = "permission"
  /\ UNCHANGED <<log, ended, loopvars, acct, session, history>>

-----------------------------------------------------------------------------
(* The tool batch *)

SaveBatch(d, ph, st) ==
  Save([mem EXCEPT !.turn = turn, !.asst = asm, !.done = d], ph, st)

(* First permission pass: what the rules leave open is answered by a stored *)
(* decision of this turn, or asked about, all calls in one request.         *)
Decision(k) == IF Rule[k] # NoAnswer THEN Rule[k] ELSE perm[k]

AskPermission ==
  /\ pc = "permission"
  /\ verdict' = [c \in Calls |-> IF c \in todo THEN Decision(KeyOf[c]) ELSE NoAnswer]
  /\ asking' = {c \in todo : Decision(KeyOf[c]) = NoAnswer}
  /\ IF asking' # {}
       THEN SaveBatch(done, "permission_pending", "waiting_permission")
       ELSE UNCHANGED <<mem, ck, status>>
  /\ pc' = "resolve"
  /\ UNCHANGED <<log, ended, loopvars, done, todo, running, begun, hinted, acct,
                 session, history>>

(* Second pass: the answer is kept by key, in memory until the next save.   *)
Answer(c, a) ==
  /\ pc = "resolve"
  /\ c \in asking
  /\ verdict' = [verdict EXCEPT ![c] = a]
  /\ perm' = [perm EXCEPT ![KeyOf[c]] = a]
  /\ asking' = asking \ {c}
  /\ answered' = answered \cup {<<turn, KeyOf[c], a>>}
  /\ UNCHANGED <<durable, pc, mem, loopvars, done, todo, running, begun, hinted,
                 acct, pending, drain, live, faults, execs, issued>>

(* The callback raised: PermissionEngine.resolve turns it into a denial,     *)
(* which _resolve_ask_decisions stores as if the host had given it.         *)
AnswerFails(c) ==
  /\ pc = "resolve"
  /\ c \in asking
  /\ verdict' = [verdict EXCEPT ![c] = "deny"]
  /\ perm' = [perm EXCEPT ![KeyOf[c]] = "deny"]
  /\ asking' = asking \ {c}
  /\ UNCHANGED <<durable, pc, mem, loopvars, done, todo, running, begun, hinted,
                 acct, pending, drain, live, history>>

Resolved ==
  /\ pc = "resolve"
  /\ asking = {}
  /\ pc' = "tools"
  /\ UNCHANGED <<durable, mem, loopvars, batch, acct, session, history>>

(* Mutant: the placeholder stays in memory.                                 *)
StartToolUnsaved(c) ==
  /\ pc = "tools"
  /\ c \in todo
  /\ begun = {}
  /\ done' = [done EXCEPT ![c] = IF @ = NoResult THEN Interrupted ELSE @]
  /\ todo' = todo \ {c}
  /\ running' = running \cup {c}
  /\ UNCHANGED <<log, status, ck, mem, ended, pc, loopvars, asking, verdict, begun,
                 hinted, acct, session, history>>

(* ToolCallStart: the placeholder is durable before the effect begins.  A   *)
(* serial batch starts one call, a parallel one starts all before any runs. *)
StartTool(c) ==
  LET d == [done EXCEPT ![c] = IF @ = NoResult THEN Interrupted ELSE @] IN
  /\ pc = "tools"
  /\ c \in todo
  /\ begun = {}
  /\ done' = d
  /\ todo' = todo \ {c}
  /\ running' = running \cup {c}
  /\ SaveBatch(d, "tool_executing", "running")
  /\ UNCHANGED <<log, ended, pc, loopvars, asking, verdict, begun, hinted, acct,
                 session, history>>

(* The effect of an allowed call; it may spawn one background worker.       *)
BeginEffect(c) ==
  /\ pc = "tools"
  /\ c \in running \ begun
  /\ begun' = begun \cup {c}
  /\ execs' = [execs EXCEPT ![c] = IF verdict[c] = "allow" THEN @ + 1 ELSE @]
  /\ \/ UNCHANGED live
     \/ /\ verdict[c] = "allow"
        /\ \E w \in Workers : /\ live[w] = "absent" /\ mem.workers[w] = "absent"
                              /\ live' = [live EXCEPT ![w] = "running"]
  /\ UNCHANGED <<durable, pc, mem, loopvars, done, todo, asking, verdict, running,
                 hinted, acct, perm, pending, drain, faults, issued, answered>>

(* ToolCallEnd reaches the event log; a parallel batch waits for all.       *)
EndTool(c, v) ==
  /\ pc = "tools"
  /\ c \in running
  /\ running \subseteq begun
  /\ verdict[c] # "allow" => v = "error"
  /\ ended' = [ended EXCEPT ![c] = Result(v, turn)]
  /\ pc' = "saveEnd"
  /\ UNCHANGED <<log, status, ck, mem, loopvars, batch, acct, session, history>>

JustEnded == {c \in running : ended[c] # NoResult /\ done[c] # ended[c]}

SaveEnd(c) ==
  LET d == [done EXCEPT ![c] = ended[c]] IN
  /\ pc \in {"saveEnd", "saveAborted"}
  /\ c \in JustEnded
  /\ done' = d
  /\ running' = running \ {c}
  /\ begun' = begun \ {c}
  /\ hinted' \in {hinted, hinted \/ ended[c].val = "error"}
  /\ SaveBatch(d, "tool_executing", "running")
  /\ pc' = IF pc = "saveEnd" THEN "tools" ELSE "aborting"
  /\ UNCHANGED <<log, ended, loopvars, todo, asking, verdict, acct, session, history>>

BatchDone ==
  /\ pc = "tools"
  /\ todo = {} /\ running = {}
  /\ pc' = "collect"
  /\ UNCHANGED <<durable, mem, loopvars, batch, acct, session, history>>

-----------------------------------------------------------------------------
(* The results of the batch *)

AllFailed == \A c \in asm.calls : Failed(done[c])

AppendHint ==
  /\ pc = "collect"
  /\ IF AllFailed /\ hinted THEN log' = Append(log, Hint) ELSE UNCHANGED log
  /\ pc' = "results"
  /\ UNCHANGED <<status, ck, ended, mem, loopvars, batch, acct, session, history>>

(* Mutant: the results are appended whatever the last message is.           *)
AppendedNever == FALSE

(* Resuming after the append but before its save: the results are not       *)
(* appended again if they are still the last message.                       *)
AlreadyAppended ==
  /\ resumed /\ turn = mem.turn
  /\ LastMsg.kind = "results"
  /\ AnsweredBy(LastMsg) = asm.calls

AppendResults ==
  /\ pc = "results"
  /\ log' = IF AlreadyAppended THEN log
            ELSE Append(log, ToolResults([c \in Calls |-> IF c \in asm.calls
                                                      THEN done[c] ELSE NoResult]))
  /\ pc' = "saveResults"
  /\ UNCHANGED <<status, ck, ended, mem, loopvars, batch, acct, session, history>>

SaveResults ==
  /\ pc = "saveResults"
  /\ SaveBatch(done, "tool_results_appended", "running")
  /\ pc' = "guard"
  /\ UNCHANGED <<log, ended, loopvars, batch, acct, session, history>>

(* The loop guard's verdict, any of the three: go on, ask for a final       *)
(* answer without tools, or stop.                                           *)
GuardForcesFinal ==
  /\ pc = "guard"
  /\ log' = Append(log, Reminder)
  /\ force' = TRUE
  /\ pc' = "endTurn"
  /\ UNCHANGED <<status, ck, ended, mem, loopvars, batch, total, session, history>>

GuardStops ==
  /\ pc = "guard"
  /\ Terminate("failed")
  /\ UNCHANGED <<log, ended, loopvars, batch, acct, session, history>>

EndTurn ==
  /\ pc \in {"guard", "endTurn"}
  /\ Save([mem EXCEPT !.turn = turn], "turn_complete", "running")
  /\ turn' = turn + 1
  /\ pc' = "top"
  /\ UNCHANGED <<log, ended, resumed, asm, batch, acct, session, history>>

-----------------------------------------------------------------------------
(* Aborts, workers, faults *)

(* The signal is seen at the top of a turn, by the provider, by the         *)
(* permission callback and before each batch.                               *)
Abort ==
  /\ \/ pc = "top" /\ turn < MaxTurns
     \/ pc \in {"provider", "resolve"}
     \/ pc = "tools" /\ running = {}
  /\ Terminate("aborted")
  /\ CancelWorkers
  /\ UNCHANGED <<log, ended, loopvars, batch, acct, perm, pending, drain, history>>

(* Aborted while a batch runs: an "aborted" error ends each call that had   *)
(* not finished; a finished call of a parallel batch gets no end.           *)
AbortCall(c) ==
  /\ pc \in {"tools", "aborting"}
  /\ c \in running
  /\ ended' = [ended EXCEPT ![c] = Result("error", turn)]
  /\ pc' = "saveAborted"
  /\ UNCHANGED <<log, status, ck, mem, loopvars, batch, acct, session, history>>

AbortTurn ==
  /\ pc = "aborting"
  /\ Terminate("aborted")
  /\ CancelWorkers
  /\ todo' = {} /\ asking' = {} /\ running' = {} /\ begun' = {}
  /\ UNCHANGED <<log, ended, loopvars, done, verdict, hinted, acct, perm, pending,
                 drain, history>>

(* A background worker finishes by itself and notifies the session.         *)
WorkerDone(w) ==
  /\ live[w] = "running"
  /\ live' = [live EXCEPT ![w] = "completed"]
  /\ pending' = Append(pending, Note(w, "completed"))
  /\ UNCHANGED <<durable, pc, mem, loopvars, batch, acct, perm, drain, history>>

(* The process dies: only what is durable remains.                          *)
Crash ==
  /\ faults < MaxFaults
  /\ pc # "down" \/ \E w \in Workers : live[w] = "running"
  /\ faults' = faults + 1
  /\ pc' = "down"
  /\ mem' = EmptyCheckpoint("none")
  /\ pending' = <<>> /\ drain' = <<>>
  /\ live' = [w \in Workers |-> "absent"]
  /\ todo' = {} /\ asking' = {} /\ running' = {} /\ begun' = {}
  /\ UNCHANGED <<durable, loopvars, done, verdict, hinted, acct, perm,
                 execs, issued, answered>>

(* The consumer drops the iterator (or its task is cancelled): the run      *)
(* stays resumable in a process whose session and workers live on.          *)
Abandon ==
  /\ faults < MaxFaults
  /\ pc # "down"
  /\ faults' = faults + 1
  /\ pc' = "down"
  /\ mem' = EmptyCheckpoint("none")
  /\ drain' = <<>>
  /\ todo' = {} /\ asking' = {} /\ running' = {} /\ begun' = {}
  /\ UNCHANGED <<durable, loopvars, done, verdict, hinted, acct, perm, pending,
                 live, execs, issued, answered>>

-----------------------------------------------------------------------------
RunStep ==
  \/ SaveStarted \/ AppendPrompt \/ SavePrompt
  \/ Resume \/ (\E w \in Workers : QueueCrashed(w)) \/ Woken
  \/ MaxTurnsReached \/ TakeNotes \/ AppendNote \/ StartTurn
  \/ SaveRequest \/ (\E S \in SUBSET Calls : ProviderReply(S)) \/ ProviderFails
  \/ AppendReply \/ SaveReply \/ Finish \/ RecoverBatch
  \/ AskPermission \/ Resolved
  \/ (\E c \in Calls : \/ \E a \in {"allow", "deny"} : Answer(c, a)
                       \/ AnswerFails(c) \/ StartTool(c) \/ BeginEffect(c)
                       \/ (\E v \in {"ok", "error"} : EndTool(c, v)) \/ SaveEnd(c))
  \/ BatchDone \/ AppendHint \/ AppendResults \/ SaveResults
  \/ GuardForcesFinal \/ GuardStops \/ EndTurn
  \/ AbortTurn

Next ==
  \/ RunStep
  \/ Abort \/ (\E c \in Calls : AbortCall(c))
  \/ \E w \in Workers : WorkerDone(w)
  \/ Crash \/ Abandon

Spec == Init /\ [][Next]_vars

(* Stores answer, the provider and the permission callback answer, tools    *)
(* finish, and somebody resumes a run that is down; faults stop coming      *)
(* because they are bounded.                                                *)
FairSpec == Spec /\ WF_vars(RunStep)

-----------------------------------------------------------------------------
(* Properties *)

PCs == {"begin", "prompt", "savePrompt", "wake", "top", "drain", "request",
        "provider", "reply", "saveReply", "dispatch", "permission", "resolve",
        "tools", "saveEnd", "collect", "results", "saveResults", "guard",
        "endTurn", "aborting", "saveAborted", "down"}

(* Every variable keeps its type.                                           *)
TypeOK ==
  /\ log \in Seq(Messages)
  /\ status \in Statuses
  /\ ck \in Checkpoints /\ mem \in Checkpoints
  /\ ended \in [Calls -> Results] /\ done \in [Calls -> Results]
  /\ pc \in PCs
  /\ turn \in Nat /\ total \in Nat /\ faults \in Nat
  /\ resumed \in BOOLEAN /\ hinted \in BOOLEAN /\ force \in BOOLEAN
  /\ asm \in Replies /\ (pc = "reply" => asm # NoMsg)
  /\ todo \subseteq Calls /\ asking \subseteq Calls
  /\ running \subseteq Calls /\ begun \subseteq running
  /\ verdict \in [Calls -> Answers]
  /\ perm \in [Keys -> Answers]
  /\ pending \in Seq(Notes) /\ drain \in Seq(Notes)
  /\ live \in [Workers -> WorkerStates]
  /\ execs \in [Calls -> Nat]
  /\ issued \subseteq Calls
  /\ answered \subseteq (Nat \X Keys \X Answers)

(* A tool call takes effect at most once, whatever crashes and resumes fall *)
(* between its start, its effect, its end and their saves: the placeholder  *)
(* of ToolCallStart and the recovery of recorded ends keep resume from      *)
(* running it again.                                                        *)
AtMostOnce == \A c \in Calls : execs[c] <= 1

BatchPCs == {"permission", "resolve", "tools", "saveEnd", "collect", "results",
             "saveResults", "aborting", "saveAborted"}
ToolPCs == {"tools", "saveEnd", "aborting", "saveAborted"}

(* While an iterator is open the run is not over, its checkpoint object and *)
(* the saved one agree on the results, and so does the batch in progress.   *)
CheckpointsAgree ==
  /\ status \in Terminal => pc = "down"
  /\ pc # "down" => mem.done = ck.done /\ mem.turn = ck.turn
  /\ pc \in BatchPCs => done = ck.done
  /\ pc \in BatchPCs \cup {"dispatch", "guard", "endTurn"} => turn = mem.turn

(* A call is still to start, or in progress, or neither; none is in         *)
(* progress outside the batch.                                              *)
BatchInOrder ==
  /\ pc \notin ToolPCs => running = {}
  /\ todo \cap running = {}

(* A call that took effect, or may be about to, has left a durable trace    *)
(* that resume finds; until it begins it has not taken effect.              *)
EffectsAreTraced ==
  \A c \in Calls :
    /\ execs[c] # 0 => ended[c] # NoResult \/ ck.done[c] # NoResult
    /\ execs[c] # 0 /\ ~resumed /\ pc # "down" => ended[c] # NoResult \/ c \in running
    /\ c \in running => ck.done[c] # NoResult
    /\ c \in todo \cup (running \ begun) => execs[c] = 0

(* What lets a call run in this turn: a rule or an answer.                  *)
Approved(c) == Rule[KeyOf[c]] = "allow" \/ <<turn, KeyOf[c], "allow">> \in answered

(* An allow kept in memory or in a checkpoint was given in the turn that    *)
(* memory or checkpoint is at, and a verdict of the batch in this turn.     *)
DecisionsAreCurrent ==
  /\ \A k \in Keys : ck.perm[k] = "allow" => <<ck.turn, k, "allow">> \in answered
  /\ pc # "down" => \A k \in Keys :
       "allow" \in {perm[k], mem.perm[k]} => <<mem.turn, k, "allow">> \in answered
  /\ pc \in {"request", "provider", "reply", "saveReply"} =>
       turn = mem.turn \/ \A k \in Keys : perm[k] # "allow"
  /\ pc \in BatchPCs => \A c \in Calls : verdict[c] = "allow" => Approved(c)

(* The inductive invariants behind AtMostOnce and ApprovedThisTurn.         *)
OnceInv == TypeOK /\ CheckpointsAgree /\ BatchInOrder /\ EffectsAreTraced /\ AtMostOnce
ApprovalInv == OnceInv /\ DecisionsAreCurrent

AnswersFor(c) ==
  {i \in DOMAIN log : log[i].kind = "results" /\ c \in AnsweredBy(log[i])}

(* What the model is told about a call is what the run log recorded: a call *)
(* whose ToolCallEnd is durable is never answered by the placeholder or by  *)
(* another result.                                                          *)
RecordedResultIsReported ==
  \A c \in Calls : \A i \in AnswersFor(c) :
    ended[c] # NoResult => log[i].answers[c] = ended[c]

(* Whenever the provider is called, every tool_use in the history has been  *)
(* answered by exactly one tool_result.                                     *)
CallsAnsweredOnce ==
  pc = "provider" =>
    \A i \in DOMAIN log : log[i].kind = "assistant" =>
      \A c \in log[i].calls : Cardinality(AnswersFor(c)) = 1

(* Each turn has at most one reply in the history: resume adopts a reply    *)
(* that was appended and not yet checkpointed instead of asking again.      *)
OneReplyPerTurn ==
  Cardinality({i \in DOMAIN log : log[i].kind = "assistant"}) <= turn + 1

(* An effect needs a rule or an approval given in the same turn: no replayed *)
(* decision outlives its turn, and a denied call never runs.                *)
ApprovedThisTurn ==
  [][\A c \in Calls : execs'[c] # execs[c] => Approved(c)]_vars

(* A run that has ended stays as it ended: resume leaves it alone.          *)
TerminalIsFinal ==
  [][(status \in Terminal) => UNCHANGED durable]_vars

(* Once checkpointed, a run ends, wherever the faults fell.                 *)
EventuallyEnds == ck.phase # "none" ~> status \in Terminal

(* The terminal record accounts for every reply in the history.             *)
UsageCoversEveryReply ==
  status \in Terminal =>
    ck.usage = Cardinality({i \in DOMAIN log : log[i].kind = "assistant"})

(* A denial in the checkpoint, which resume replays, was the host's answer  *)
(* and not a permission callback that failed.                               *)
StoredDenialWasGiven ==
  \A k \in Keys : ck.perm[k] = "deny" => <<ck.turn, k, "deny">> \in answered
=============================================================================

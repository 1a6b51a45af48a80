------------------------------- MODULE RunLog -------------------------------
(***************************************************************************)
(* The event log and the record of one run, from loop/runner.py,           *)
(* loop/terminals.py, loop/finalize.py, run_store.py, events.py and        *)
(* reports.py: what is appended and saved in which order, by every end a   *)
(* run can have, and what load_run_report makes of it.  A handler sets out *)
(* the store operations it awaits; each is a step, and the process may die *)
(* or the caller may leave between any two.                                *)
(***************************************************************************)
EXTENDS Naturals, Sequences

CONSTANTS
  LogTurns,    \* max_turns
  LogFaults,   \* crashes, abandoned iterators and failed operations
  Usages,      \* tokens of a reply
  Prices       \* price of a token, by the model that replied; 1 is the agent's

ASSUME RunLogAssumption ==
  /\ LogTurns \in Nat \ {0} /\ LogFaults \in Nat
  /\ Usages \subseteq Nat \ {0} /\ Prices \subseteq Nat \ {0}

VARIABLES
  backend,  \* SqliteRunStore or InMemoryRunStore
  record,   \* the run's row: status, and what its checkpoint holds
  report,   \* the stored events, as build_run_report adds them up
  pending,  \* store operations the running handler has still to await
  next,     \* where the loop goes when they are done
  spent,    \* turn, usage and cost of the live process
  said,     \* the session's last message is a reply
  faults

logVars == <<backend, record, report, pending, next, spent, said, faults>>

Terminals == {"completed", "failed", "aborted"}

-----------------------------------------------------------------------------
(* The payloads that event_to_dict copies as they are; it renders those of *)
(* results itself (_json_safe), and json.dumps raises on what remains.     *)
Copied == {"context", "start"}
Encodable(e) == e.kind \in Copied => e.json

(* What an event adds to the report; an end without its start is a call    *)
(* too, a start without its end is none.                                   *)
NoReport == [final |-> "none", total |-> 0, cost |-> 0, calls |-> 0, failed |-> 0, trimmed |-> 0]
One(b) == IF b THEN 1 ELSE 0
Counted(r, e) ==
  CASE e.kind = "end" -> [r EXCEPT !.calls = @ + 1, !.failed = @ + One(e.failed)]
    [] e.kind = "context" -> [r EXCEPT !.trimmed = @ + One(e.trimmed)]
    [] OTHER -> r
Reported(r, e) ==
  CASE e.kind = "usage" -> [r EXCEPT !.total = e.total, !.cost = e.cost]
    [] e.kind = "result" -> [r EXCEPT !.final = e.subtype, !.total = e.total, !.cost = e.cost]
    [] OTHER -> Counted(r, e)

Plain(k) == [kind |-> k]
System == Plain("system")
User == Plain("user")
Assistant == Plain("assistant")
Error == Plain("error")
UsageOf(s) == [kind |-> "usage", total |-> s.total, cost |-> s.cost]
ResultOf(subtype, s) ==
  [kind |-> "result", subtype |-> subtype, total |-> s.total, cost |-> s.cost]

Persist(e) == [op |-> "log", event |-> e]
PersistAll(es) == [i \in 1 .. Len(es) |-> Persist(es[i])]
Save(phase, s) == [op |-> "save", phase |-> phase, status |-> "running", spent |-> s]
Waiting(s) == [Save("permission_pending", s) EXCEPT !.status = "waiting_permission"]
Mark(status, s) == [op |-> "mark", phase |-> status, status |-> status, spent |-> s]

(* Every end of a run: its closing events, then the record.                *)
Closing(status) ==
  CASE status = "completed" -> "success" [] status = "failed" -> "error" [] OTHER -> status
(* Mutant: the record is marked before the closing events are stored.      *)
MarkFirst(events, status, s) ==
  <<Mark(status, s)>> \o PersistAll(Append(events, ResultOf(Closing(status), s)))
Ending(events, status, s) ==
  PersistAll(Append(events, ResultOf(Closing(status), s))) \o <<Mark(status, s)>>
SuccessTail(s) == Ending(<<>>, "completed", s)
StopWhenTail(s) == Ending(<<>>, "completed", s)
ErrorTail(s) == Ending(<<>>, "failed", s)
BudgetTail(s) == Ending(<<Plain("budget"), Error>>, "failed", s)
MaxTurnsTail(s) == Ending(<<Plain("guard"), Error>>, "failed", s)
RaisedTail(s) == Ending(<<Error>>, "failed", s)
AbortTail(s) == Ending(<<>>, "aborted", s)

RunLogInit ==
  /\ backend \in {"sqlite", "memory"}
  /\ record = [status |-> "running", phase |-> "none", turn |-> 0,
                total |-> 0, made |-> FALSE]
  /\ report = NoReport
  /\ spent = [turn |-> 0, total |-> 0, cost |-> 0, made |-> FALSE]
  /\ pending = <<Save("started", spent), Persist(System)>>
  /\ next = "prompt"
  /\ said = FALSE
  /\ faults = 0

Does(ops, to) == pending' = ops /\ next' = to
Reached(place) == pending = <<>> /\ next = place
Quiet == UNCHANGED <<backend, record, report, faults>>

-----------------------------------------------------------------------------
(* A UserPromptSubmit hook may block the prompt; that path returns before  *)
(* the try of the loop.                                                    *)
PromptRefused ==
  /\ Reached("prompt")
  /\ Does(RaisedTail(spent), "left")
  /\ UNCHANGED <<spent, said>> /\ Quiet

PromptAppended ==
  /\ Reached("prompt")
  /\ Does(<<Save("user_appended", spent), Persist(User)>>, "top")
  /\ said' = FALSE /\ UNCHANGED spent /\ Quiet

(* What may end the run at the top of a turn or before the provider call,  *)
(* and by a hook after it.  A turn that is resumed with its reply starts   *)
(* over from its top.                                                      *)
InLoop == {"top", "turn", "provider", "reply", "batch"}
TurnEnds ==
  /\ \E place \in {"top", "turn", "provider", "batch"} :
       /\ Reached(place)
       /\ \E ending \in CASE place = "provider" -> {ErrorTail(spent)}
                          [] spent.turn = LogTurns -> {MaxTurnsTail(spent)}
                          [] OTHER -> {BudgetTail(spent), StopWhenTail(spent), ErrorTail(spent)} :
            Does(ending, "ended")
  /\ UNCHANGED <<spent, said>> /\ Quiet

(* An abort or an exception, anywhere in the loop.                         *)
LoopRaises ==
  /\ \E place \in InLoop : Reached(place)
  /\ \E ending \in {AbortTail(spent), RaisedTail(spent)} : Does(ending, "closing")
  /\ UNCHANGED <<spent, said>> /\ Quiet

(* The context of the turn is logged, and the request saved as pending.    *)
Context == [kind : {"context"}, json : BOOLEAN, trimmed : BOOLEAN]
TurnAsks ==
  /\ Reached("turn") \/ Reached("top")
  /\ spent.turn < LogTurns
  /\ \E c \in {<<>>} \cup {<<Persist(e)>> : e \in Context} :
       Does(Append(c, Save("provider_pending", spent)), "provider")
  /\ UNCHANGED <<spent, said>> /\ Quiet

(* Mutant: the usage is logged before the reply is saved.                  *)
UsageFirst(s) == <<Persist(Assistant), Persist(UsageOf(s)), Save("assistant_appended", s)>>
(* The reply is appended to the session and paid for, saved, and only then *)
(* logged with its usage.                                                  *)
ReplyOps(s) == <<Save("assistant_appended", s), Persist(Assistant), Persist(UsageOf(s))>>
ReplyArrives ==
  /\ Reached("provider")
  /\ \E u \in Usages, p \in Prices :
       LET s == [spent EXCEPT !.total = @ + u, !.cost = @ + u * p] IN
       /\ spent' = s
       /\ Does(ReplyOps(s), "reply")
  /\ said' = TRUE
  /\ Quiet

(* A reply without calls, or with the final tool: gates, then an end.      *)
AnswerEnds ==
  /\ Reached("reply") \/ Reached("batch")
  /\ \E tail \in {SuccessTail(spent), ErrorTail(spent)} : Does(tail, "ended")
  /\ UNCHANGED <<spent, said>> /\ Quiet

(* A gate or a hook, before the provider's call or after it, asks for      *)
(* another turn.                                                           *)
NextTurn == [spent EXCEPT !.turn = @ + 1, !.made = FALSE]
Bounced ==
  /\ \E place \in {"top", "turn", "reply", "batch"} : Reached(place)
  /\ spent.turn < LogTurns
  /\ Does(<<Persist(User), Save("turn_complete", spent)>>, "turn")
  /\ spent' = NextTurn
  /\ said' = FALSE /\ Quiet

(* A batch of one call: a question about it, its start and its end, each   *)
(* saved.  A call that had been started is not made again on resume.       *)
Start == [kind : {"start"}, json : BOOLEAN]
End == [kind : {"end"}, failed : BOOLEAN]
CallOps(asks, start, end) ==
  LET made == [spent EXCEPT !.made = TRUE] IN
  (IF asks THEN <<Persist(Plain("permission")), Waiting(spent)>> ELSE <<>>)
  \o <<Persist(start), Save("tool_executing", made), Persist(end), Save("tool_executing", made)>>
CallsMade ==
  /\ Reached("reply") \/ Reached("batch")
  /\ \E asks \in BOOLEAN, start \in Start, end \in End :
       Does(<<Save("tool_batch_pending", spent)>>
              \o (IF spent.made THEN <<>> ELSE CallOps(asks, start, end)), "results")
  /\ spent' = [spent EXCEPT !.made = TRUE]
  /\ UNCHANGED said /\ Quiet

(* The results, and the verdict of the loop guard: go on, stop, or one     *)
(* turn more without tools.                                                *)
Guard == Persist(Plain("guard"))
TurnOver == Save("turn_complete", spent)
BatchJudged ==
  /\ Reached("results")
  /\ \E verdict \in {"continue", "force_final", "stop"} :
       LET ops == <<Save("tool_results_appended", spent), Persist(User)>> IN
       CASE verdict = "continue" ->
              Does(Append(ops, TurnOver), "turn") /\ spent' = NextTurn
         [] verdict = "stop" ->
              Does(Append(ops, Guard) \o ErrorTail(spent), "ended") /\ spent' = spent
         [] OTHER ->
              /\ Does(ops \o <<Guard, TurnOver, Persist(User), TurnOver>>, "turn")
              /\ spent' = NextTurn
  /\ said' = FALSE /\ Quiet

-----------------------------------------------------------------------------
(* One awaited operation of the store.                                     *)
Applied(o) ==
  [status |-> o.status, phase |-> o.phase,
   turn |-> o.spent.turn, total |-> o.spent.total, made |-> o.spent.made]
Accepts(o) == o.op = "log" /\ backend = "sqlite" => Encodable(o.event)

Step ==
  /\ pending # <<>>
  /\ LET o == Head(pending) IN
       /\ Accepts(o)
       /\ report' = IF o.op = "log" THEN Reported(report, o.event) ELSE report
       /\ record' = IF o.op = "log" THEN record ELSE Applied(o)
  /\ pending' = Tail(pending)
  /\ UNCHANGED <<backend, next, spent, said, faults>>

Fault == faults < LogFaults /\ faults' = faults + 1

(* It raises: on a payload that is not JSON, or when the store fails.      *)
(* Inside the loop the run is then failed with the error; the paths that   *)
(* are outside of it, the closing of a failed run among them, just leave.  *)
Raises ==
  /\ pending # <<>>
  /\ IF Accepts(Head(pending)) THEN Fault ELSE UNCHANGED faults
  /\ \/ next \in {"prompt", "top", "left", "closing"} /\ Does(<<>>, "down")
     \/ next \notin {"prompt", "top", "left", "closing"} /\ Does(RaisedTail(spent), "closing")
  /\ UNCHANGED <<backend, record, report, spent, said>>

(* The process dies, or the caller closes the iterator; at the end of a    *)
(* run there is nothing left to do but that.                               *)
Leave ==
  /\ next # "down"
  /\ IF pending = <<>> /\ next \in {"ended", "left", "closing"} THEN UNCHANGED faults ELSE Fault
  /\ Does(<<>>, "down")
  /\ UNCHANGED <<backend, record, report, spent, said>>

(* What a checkpoint gives back: a batch that is over begins the next      *)
(* turn; the cost is priced anew, for the agent's model.                   *)
Restored ==
  LET over == record.phase \in {"tool_results_appended", "turn_complete"} IN
  [turn |-> record.turn + One(over), made |-> record.made /\ ~over,
   total |-> record.total, cost |-> record.total]

(* resume_loop, from what the record holds: a reply that was appended and  *)
(* not saved is taken from the session, without its usage; a saved reply   *)
(* goes on with its calls.                                                 *)
Resumes ==
  /\ next = "down"
  /\ record.status \notin Terminals /\ record.phase # "none"
  /\ LET replied == \/ record.phase \in {"assistant_appended", "permission_pending",
                                         "tool_batch_pending", "tool_executing"}
                    \/ record.phase = "provider_pending" /\ said
     IN Does(<<>>, CASE record.phase = "started" -> "prompt"
                     [] replied -> "batch"
                     [] OTHER -> "turn")
  /\ spent' = Restored
  /\ UNCHANGED <<backend, record, report, said, faults>>

RunLogNext ==
  \/ PromptRefused \/ PromptAppended
  \/ TurnEnds \/ TurnAsks \/ ReplyArrives \/ LoopRaises
  \/ AnswerEnds \/ Bounced \/ CallsMade \/ BatchJudged
  \/ Step \/ Raises \/ Leave \/ Resumes

RunLogSpec == RunLogInit /\ [][RunLogNext]_logVars

-----------------------------------------------------------------------------
(* A run that the record calls ended has been reported so, with the same   *)
(* verdict, whatever was cut short before: the closing event is stored     *)
(* before the record is (terminals.py, runner.py:1269).                    *)
ReportAgreesWithRecord ==
  record.status \in Terminals => report.final = Closing(record.status)

(* What the events of a run report as used never goes down before its end  *)
(* is reported, through crashes and resumes: a reply is saved before its   *)
(* usage is logged (runner.py:1008).  An end that reports a reply whose    *)
(* save failed may be lost itself, and then the resumed run reports less.  *)
UsageNeverDrops == [][report.final = "none" => report'.total >= report.total]_logVars

(* "The final ResultEvent.total_cost_usd must cover the whole run": nor    *)
(* does the cost (test_run_resume.py:980).                                 *)
CostNeverDrops == [][report'.cost >= report.cost]_logVars
=============================================================================

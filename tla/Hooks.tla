-------------------------------- MODULE Hooks --------------------------------
(***************************************************************************)
(* The hooks of an agent, dispatched one after the other at the chokepoints *)
(* of the runs that share them: a tool call (PreToolUse, PostToolUse), the *)
(* final answer (BeforeFinalAnswer, Stop) and the end of the run           *)
(* (AgentStop).  Runs interleave between any two hooks, which may await,   *)
(* and with the tools they left in the background.                         *)
(*                                                                         *)
(* A value is "raw" until ToolMiddlewareHook has treated it, "clean" then, *)
(* "error" for a message of the framework; any other hook that mutates one *)
(* derives it from the one it was given.                                   *)
(***************************************************************************)
EXTENDS Naturals, Sequences

CONSTANTS
  HookRuns,    \* runs that share Agent.hooks
  Chain,       \* Agent.hooks: "plain", "middleware", "verifier"
  MaxVerify,   \* FinalAnswerVerifierHook.max_retries
  MaxAnswers,  \* answers of a run (max_turns)
  Honoured     \* hooks return only what their chokepoint honours

ASSUME HooksAssumption ==
  /\ Chain \in Seq({"plain", "middleware", "verifier"})
  /\ MaxVerify \in Nat /\ MaxAnswers \in Nat

VARIABLES
  place,      \* the chokepoint each run is at
  cursor,     \* index of the next hook of the dispatch
  context,    \* value in the HookContext, as mutated so far
  current,    \* HookResult accumulated by the dispatch
  delivered,  \* values the tools ran with and the model was sent as results
  detached,   \* session.background_tasks: tools running in the background
  notified,   \* results the model was sent in a <task-notification>
  answers,    \* answers given by the run
  verdicts    \* FinalAnswerVerifierHook.attempts_by_run, 0 for no entry

hookVars == <<place, cursor, context, current, delivered, detached, notified, answers, verdicts>>

Chokepoints == {"pre", "post", "final", "stop", "agent_stop"}
Result(act, v) == [action |-> act, value |-> v]
Continue == Result("continue", "none")

HooksInit ==
  /\ place = [r \in HookRuns |-> "reply"]
  /\ cursor = [r \in HookRuns |-> 1]
  /\ context = [r \in HookRuns |-> "raw"]
  /\ current = [r \in HookRuns |-> Continue]
  /\ delivered = [r \in HookRuns |-> {}]
  /\ detached = [r \in HookRuns |-> 0]
  /\ notified = [r \in HookRuns |-> {}]
  /\ answers = [r \in HookRuns |-> 0]
  /\ verdicts = [r \in HookRuns |-> 0]

(* A dispatch at chokepoint p with value v.                                *)
Enter(r, p, v) ==
  /\ place' = [place EXCEPT ![r] = p]
  /\ cursor' = [cursor EXCEPT ![r] = 1]
  /\ context' = [context EXCEPT ![r] = v]
  /\ current' = [current EXCEPT ![r] = Continue]

(* What an application hook may return at p.                               *)
Offers(p) ==
  IF ~Honoured THEN {"mutate", "block", "stop", "retry", "force_continue"}
  ELSE CASE p \in {"pre", "post"} -> {"mutate", "block", "stop"}
         [] p = "final" -> {"mutate", "block", "stop", "retry", "force_continue"}
         [] p = "stop" -> {"mutate", "force_continue", "stop"}
         [] p = "agent_stop" -> {}

PlainReturns(r) == {Continue} \cup {Result(a, context[r]) : a \in Offers(place[r])}

(* before_tool_call and after_tool_result of the wrapped middleware; one   *)
(* that raises blocks the call, or hides its result.                       *)
MiddlewareReturns(r) ==
  CASE place[r] = "pre"  -> {Result("mutate", "clean"), Result("block", "clean")}
    [] place[r] = "post" -> {Result("mutate", "clean"), Result("mutate", "error")}
    [] OTHER -> {Continue}

(* What FinalAnswerVerifierHook returns for each verdict on the answer and *)
(* the attempts it leaves; it forgets a run that ends.                     *)
Judged(r) ==
  {<<Continue, 0>>, <<Result("stop", "none"), 0>>,
   IF verdicts[r] < MaxVerify THEN <<Result("retry", "none"), verdicts[r] + 1>>
   ELSE <<Continue, 0>>}

(* Mutant: on_agent_stop forgets to drop the run.                          *)
JudgedOnly(r) == IF place[r] = "final" THEN Judged(r) ELSE {<<Continue, verdicts[r]>>}

VerifierReturns(r) ==
  CASE place[r] = "final" -> Judged(r)
    [] place[r] = "agent_stop" -> {<<Continue, 0>>}
    [] OTHER -> {<<Continue, verdicts[r]>>}

Returns(r) ==
  CASE Chain[cursor[r]] = "plain" -> PlainReturns(r) \X {verdicts[r]}
    [] Chain[cursor[r]] = "middleware" -> MiddlewareReturns(r) \X {verdicts[r]}
    [] Chain[cursor[r]] = "verifier" -> VerifierReturns(r)

(* Mutant: the first mutation has it.                                      *)
CombineFirst(left, right) == IF left.action = "mutate" THEN left ELSE right

(* _combine_mutation: the last hook to set a field has it.                 *)
Combine(left, right) == right

(* One hook of the dispatch: it fails or has nothing to say, mutates, or   *)
(* returns another action, which replaces what the hooks before it asked   *)
(* for and, but for "continue", ends the dispatch.                         *)
CallHook(r) ==
  /\ place[r] \in Chokepoints /\ cursor[r] <= Len(Chain)
  /\ \E ret \in Returns(r) :
       LET res == ret[1] IN
       /\ verdicts' = [verdicts EXCEPT ![r] = ret[2]]
       /\ cursor' = [cursor EXCEPT ![r] =
            IF res.action \in {"continue", "mutate"} THEN @ + 1 ELSE Len(Chain) + 1]
       /\ context' = [context EXCEPT ![r] = IF res.action = "mutate" THEN res.value ELSE @]
       /\ current' = [current EXCEPT ![r] =
            CASE res.action = "continue" -> @
              [] res.action = "mutate" -> Combine(@, res)
              [] OTHER -> res]
  /\ UNCHANGED <<place, delivered, detached, notified, answers>>

Dispatched(r, p) == place[r] = p /\ cursor[r] > Len(Chain)

(* The model asks for a tool, or answers.                                  *)
Reply(r) ==
  /\ place[r] = "reply" /\ answers[r] < MaxAnswers
  /\ answers' = [answers EXCEPT ![r] = @ + 1]
  /\ \E p \in {"pre", "final"} : Enter(r, p, "raw")
  /\ UNCHANGED <<delivered, detached, notified, verdicts>>

(* _dispatch_pre_tool_use: the call is blocked, or runs with the mutated   *)
(* input or the one it came with.                                          *)
Blocked(r) == Dispatched(r, "pre") /\ current[r].action \in {"block", "stop"}
Allowed(r) == Dispatched(r, "pre") /\ current[r].action \notin {"block", "stop"}
RunsTool(r) ==
  delivered' = [delivered EXCEPT ![r] =
    @ \cup {IF current[r].action = "mutate" THEN current[r].value ELSE "raw"}]

ToolBlocked(r) ==
  /\ Blocked(r)
  /\ Enter(r, "reply", "raw")
  /\ UNCHANGED <<delivered, detached, notified, answers, verdicts>>

(* The result of a call in the foreground goes to the hooks.               *)
ToolRuns(r) ==
  /\ Allowed(r) /\ RunsTool(r)
  /\ Enter(r, "post", "raw")
  /\ UNCHANGED <<detached, notified, answers, verdicts>>

(* A call with the run_in_background hint is detached: a message of the    *)
(* framework is its result.                                                *)
ToolDetached(r) ==
  /\ Allowed(r) /\ RunsTool(r)
  /\ Enter(r, "reply", "raw")
  /\ detached' = [detached EXCEPT ![r] = @ + 1]
  /\ UNCHANGED <<notified, answers, verdicts>>

(* _run_background_tool has its result, which the top of a turn drains:    *)
(* no hook is dispatched.                                                  *)
BackgroundNotified(r) ==
  /\ place[r] = "reply" /\ answers[r] < MaxAnswers /\ detached[r] > 0
  /\ detached' = [detached EXCEPT ![r] = @ - 1]
  /\ notified' = [notified EXCEPT ![r] = @ \cup {"raw"}]
  /\ UNCHANGED <<place, cursor, context, current, delivered, answers, verdicts>>

(* _dispatch_post_tool_use.                                                *)
ResultDelivered(r) ==
  /\ Dispatched(r, "post")
  /\ delivered' = [delivered EXCEPT ![r] = @ \cup
       {CASE current[r].action = "mutate" -> current[r].value
          [] current[r].action \in {"block", "stop"} -> "error"
          [] OTHER -> "raw"}]
  /\ Enter(r, "reply", "raw")
  /\ UNCHANGED <<detached, notified, answers, verdicts>>

(* dispatch_before_final_answer.                                           *)
AnswerGated(r) ==
  /\ Dispatched(r, "final")
  /\ Enter(r, CASE current[r].action \in {"retry", "force_continue"} -> "reply"
                [] current[r].action \in {"stop", "block"} -> "agent_stop"
                [] OTHER -> "stop", "raw")
  /\ UNCHANGED <<delivered, detached, notified, answers, verdicts>>

(* dispatch_stop.                                                          *)
StopGated(r) ==
  /\ Dispatched(r, "stop")
  /\ Enter(r, IF current[r].action = "force_continue" THEN "reply" ELSE "agent_stop", "raw")
  /\ UNCHANGED <<delivered, detached, notified, answers, verdicts>>

(* The turns, the budget or an error end the run, in any of its dispatches *)
(* (an abort cancels it); AgentStop is dispatched from the finally.        *)
RunStopped(r) ==
  /\ place[r] \in {"reply", "pre", "post", "final", "stop"}
  /\ Enter(r, "agent_stop", "raw")
  /\ UNCHANGED <<delivered, detached, notified, answers, verdicts>>

RunOver(r) ==
  /\ Dispatched(r, "agent_stop")
  /\ Enter(r, "over", "raw")
  /\ UNCHANGED <<delivered, detached, notified, answers, verdicts>>

HooksNext == \E r \in HookRuns :
  \/ CallHook(r) \/ Reply(r) \/ ToolBlocked(r) \/ ToolRuns(r) \/ ToolDetached(r)
  \/ BackgroundNotified(r) \/ ResultDelivered(r) \/ AnswerGated(r) \/ StopGated(r) \/ RunStopped(r)
  \/ RunOver(r)

HooksSpec == HooksInit /\ [][HooksNext]_hookVars

-----------------------------------------------------------------------------
(* With a redacting middleware among the hooks, no tool runs with an input *)
(* and the model is sent no tool_result block that it has not treated,     *)
(* whatever the hooks before and after it do and whatever runs in the      *)
(* background (ToolMiddlewareHook fails closed).  What a tool left in the  *)
(* background returns is no tool_result block: NotificationsTreated.       *)
MiddlewareHasItsSay ==
  (\E i \in DOMAIN Chain : Chain[i] = "middleware")
    => \A r \in HookRuns : "raw" \notin delivered[r]

(* Nor does a result reach the model by a <task-notification> that the     *)
(* middleware has not treated: the documentation says that on_post_tool_use *)
(* fires after a tool result is produced.                                  *)
NotificationsTreated ==
  (\E i \in DOMAIN Chain : Chain[i] = "middleware")
    => \A r \in HookRuns : "raw" \notin notified[r]

(* The per-agent verifier hook keeps nothing of a run that is over: a hook *)
(* lives as long as its agent, and on_agent_stop promises no leaked ids.   *)
AttemptsDropped == \A r \in HookRuns : place[r] = "over" => verdicts[r] = 0
=============================================================================

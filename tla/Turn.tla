-------------------------------- MODULE Turn --------------------------------
(***************************************************************************)
(* The turns of a run on one session: compaction, the request and its      *)
(* recovery ladder, the hooks around the provider call, the gates of a     *)
(* terminal answer and the loop guard, and the history they build.         *)
(*                                                                         *)
(* A message keeps what pairing needs: its role, the tool_use blocks it    *)
(* carries or answers, and whether its results were elided.  "t" is a call *)
(* with the same input every time, "u" one that is always new, "final" the *)
(* final tool.  A mutate hook gives another request or reply, which the    *)
(* provider could have got or given.  Checkpoints are DurableRun's.        *)
(***************************************************************************)
EXTENDS Naturals, Sequences, FiniteSets, SequencesExt

CONSTANTS
  MaxTurns, MaxRuns,
  KeepRecent,       \* keep_recent_turns of the ladder and the strategy
  MaxForced,        \* max_forced_compactions
  Fallbacks,        \* number of fallback_models
  SchemaRetries,    \* max_schema_retries
  MaxReentries,     \* _MAX_FINAL_ANSWER_REENTRIES
  MaxSame,          \* LoopGuard.max_identical_tool_calls, 0 for none
  MaxStreak,        \* LoopGuard.max_consecutive_failures, 0 for none
  ForceFinal,       \* LoopGuard.force_final_answer
  SkillListing,     \* the agent lists skills
  Loose             \* ways the code leaves a tool_use unanswered

ASSUME TurnAssumption ==
  /\ {MaxTurns, KeepRecent, MaxForced, Fallbacks, SchemaRetries, MaxReentries} \subseteq Nat
  /\ Loose \subseteq {"after hook", "hint", "truncated", "next run"}

VARIABLES
  ladder,    \* a CompactionLadder is configured (else the legacy path)
  step,      \* where the loop is
  runNo, turnNo,
  history,   \* Session.provider_view
  tools,     \* the request carries tools
  reply,     \* the AssistantAssembly
  tried,     \* recovery: micro and retried this turn, forced and fallback of the run
  forcing,   \* _force_final_pending and _forced_final_turn
  attempts,  \* gate_attempts and final_answer_reentries
  guard      \* LoopGuardState: identical calls, failure streak

turnVars == <<ladder, step, runNo, turnNo, history, tools, reply, tried, forcing, attempts, guard>>

Said(role, u, r) == [role |-> role, uses |-> u, results |-> r, elided |-> FALSE]
Note == Said("user", {}, {})
NoReply == [uses |-> {}, stop |-> "other", valid |-> TRUE]

FreshRun ==
  /\ turnNo' = 0
  /\ tried' = [micro |-> FALSE, retried |-> FALSE, forced |-> 0, fallback |-> 0]
  /\ forcing' = [pending |-> FALSE, now |-> FALSE]
  /\ attempts' = [schema |-> 0, reentry |-> 0]
  /\ guard' = [same |-> 0, streak |-> 0]
  /\ tools' = FALSE /\ reply' = NoReply

TurnInit ==
  /\ ladder \in BOOLEAN
  /\ step = "top" /\ runNo = 1 /\ turnNo = 0
  /\ history = <<Note>>
  /\ tools = FALSE /\ reply = NoReply
  /\ tried = [micro |-> FALSE, retried |-> FALSE, forced |-> 0, fallback |-> 0]
  /\ forcing = [pending |-> FALSE, now |-> FALSE]
  /\ attempts = [schema |-> 0, reentry |-> 0]
  /\ guard = [same |-> 0, streak |-> 0]

(* The session's next run; the per-run state starts afresh.                *)
RunAgain ==
  /\ step \in {"success", "error"} /\ runNo < MaxRuns
  /\ runNo' = runNo + 1
  /\ FreshRun

NextPrompt ==
  /\ RunAgain
  /\ Last(history).uses = {} \/ "next run" \in Loose
  /\ history' = Append(history, Note)
  /\ step' = "top"

(* A hook blocks the prompt: the run is over before it enters the history. *)
PromptBlocked ==
  /\ RunAgain
  /\ step' = "error"
  /\ UNCHANGED history

-----------------------------------------------------------------------------
(* Compaction.                                                             *)

(* Where last_n_turn_boundaries cuts: the n-th last assistant message.     *)
RecentFrom(v, n) ==
  LET as == {i \in DOMAIN v : v[i].role = "assistant"}
      from == {i \in as : Cardinality({j \in as : j >= i}) = n}
  IN  IF n = 0 THEN Len(v)
      ELSE IF from = {} THEN 1 ELSE CHOOSE i \in from : TRUE

Summarized(v) ==
  LET b == RecentFrom(v, KeepRecent)
  IN  IF b <= 1 THEN v ELSE <<Note>> \o SubSeq(v, b, Len(v))

MicroCompacted(v) ==
  [i \in DOMAIN v |-> [v[i] EXCEPT !.elided =
     @ \/ (i < RecentFrom(v, KeepRecent) /\ v[i].results # {})]]

WithSkills(v) == IF SkillListing THEN Append(v, Note) ELSE v

(* What a turn's own compaction leaves: the skills again if it did a thing.*)
Noted(v) == IF v = history THEN v ELSE WithSkills(v)

(* A compaction the provider forced: always with the skills.               *)
Compacted(v) == WithSkills(Summarized(v))

(* The view once old results are elided, as a ladder does first.           *)
Elided == IF ladder THEN MicroCompacted(history) ELSE history

(* maybe_compact: under the threshold or before the first usage nothing is *)
(* done; the elision may be enough.                                        *)
MaybeCompact ==
  /\ step = "compact" /\ step' = "request"
  /\ history' \in {history}
       \cup (IF \A i \in DOMAIN history : history[i].role = "user" THEN {}
             ELSE {Noted(Elided), Noted(Summarized(Elided))})
  /\ UNCHANGED <<runNo, turnNo, tools, reply, tried, forcing, attempts, guard>>

(* A summary that fails is an error of the run; the elision stays.         *)
SummaryFails ==
  /\ step = "compact" /\ step' = "error"
  /\ Summarized(Elided) # Elided
  /\ history' = Elided
  /\ UNCHANGED <<runNo, turnNo, tools, reply, tried, forcing, attempts, guard>>

-----------------------------------------------------------------------------
(* The request and the provider call.                                      *)

StartTurn ==
  /\ step = "top" /\ turnNo < MaxTurns
  /\ step' = "compact"
  /\ turnNo' = turnNo + 1
  /\ tried' = [tried EXCEPT !.micro = FALSE, !.retried = FALSE]
  /\ forcing' = [forcing EXCEPT !.now = forcing.pending]
  /\ tools' = FALSE /\ reply' = NoReply
  /\ UNCHANGED <<runNo, history, attempts, guard>>

MaxTurnsReached ==
  /\ step = "top" /\ turnNo = MaxTurns
  /\ step' = "error"
  /\ UNCHANGED <<runNo, turnNo, history, tools, reply, tried, forcing, attempts, guard>>

(* _build_turn_request gives every request the tools; a forced final turn  *)
(* is stripped of them.                                                    *)
Request(final) == tools' = ~final

(* The hooks before the call: go on, another turn, stop with success or    *)
(* error.                                                                  *)
BeforeProviderCall ==
  /\ step = "request"
  /\ Request(forcing.pending)
  /\ \/ step' = "calling" /\ UNCHANGED history
     \/ step' = "top" /\ history' = Append(history, Note)
     \/ step' \in {"success", "error"} /\ UNCHANGED history
  /\ UNCHANGED <<runNo, turnNo, reply, tried, forcing, attempts, guard>>

(* apply_micro_compaction: does eliding change anything.                   *)
MicroApplies == ~tried.micro /\ MicroCompacted(history) # history

(* The ladder elides once a turn, then summarises up to the cap of the run.*)
Rung ==
  IF MicroApplies
  THEN /\ history' = WithSkills(MicroCompacted(history))
       /\ tried' = [tried EXCEPT !.micro = TRUE]
  ELSE /\ tried.forced < MaxForced
       /\ history' = Compacted(history)
       /\ tried' = [tried EXCEPT !.micro = TRUE, !.forced = @ + 1]

(* The legacy path summarises once a turn.                                 *)
LegacyRetry ==
  /\ ~tried.retried
  /\ history' = Compacted(history)
  /\ tried' = [tried EXCEPT !.retried = TRUE]

(* A ContextLengthError: one more attempt, with a request built anew; it   *)
(* surfaces (ProviderFails) when none is left.                             *)
ContextTooLong ==
  /\ step = "calling"
  /\ IF ladder THEN Rung ELSE LegacyRetry
  /\ Request(FALSE)
  /\ UNCHANGED <<step, runNo, turnNo, reply, forcing, attempts, guard>>

(* A retryable ProviderError: the next fallback model, for the rest of the *)
(* run, or the error surfaces.                                             *)
Overloaded ==
  /\ step = "calling"
  /\ IF tried.fallback < Fallbacks
     THEN tried' = [tried EXCEPT !.fallback = @ + 1] /\ UNCHANGED step
     ELSE step' = "error" /\ UNCHANGED tried
  /\ UNCHANGED <<runNo, turnNo, history, tools, reply, forcing, attempts, guard>>

(* Any other failure, or an abort, of the call or of the batch.            *)
ProviderFails ==
  /\ step \in {"calling", "tools"}
  /\ step' = "error"
  /\ UNCHANGED <<runNo, turnNo, history, tools, reply, tried, forcing, attempts, guard>>

Replies ==
  {r \in [uses : {{}, {"t"}, {"u"}, {"t", "final"}},
          stop : {"tool_use", "other"}, valid : BOOLEAN] :
     /\ r.stop = "tool_use" => r.uses # {}
     /\ r.uses # {} => (tools /\ (r.stop = "tool_use" \/ "truncated" \in Loose))
     /\ ("final" \notin r.uses /\ r.stop = "tool_use") => r.valid}

(* stream_turn's assembly, as the hooks after the call leave it.           *)
ProviderReplies ==
  /\ step = "calling"
  /\ reply' \in Replies
  /\ step' = "after"
  /\ UNCHANGED <<runNo, turnNo, history, tools, tried, forcing, attempts, guard>>

(* The hooks after the call stop the run, or the reply is appended; then   *)
(* they may ask for another turn.                                          *)
AfterProviderCall ==
  /\ step = "after"
  /\ \/ step' = "error" /\ UNCHANGED <<history, forcing>>
     \/ /\ forcing' = [forcing EXCEPT !.pending = FALSE]
        /\ LET said == Append(history, Said("assistant", reply.uses, {}))
           IN  \/ /\ history' = said
                  /\ step' = IF reply.stop # "tool_use" \/ "final" \in reply.uses
                             THEN "gates" ELSE "tools"
               \/ /\ reply.uses = {} \/ "after hook" \in Loose
                  /\ history' = Append(said, Note)
                  /\ step' = "top"
  /\ UNCHANGED <<runNo, turnNo, tools, reply, tried, attempts, guard>>

-----------------------------------------------------------------------------
(* A terminal answer and its gates.                                        *)

(* Mutant: the feedback of a final tool is a plain message.                *)
PlainFeedback == /\ history' = Append(history, Note) /\ step' = "top"

(* _final_tool_retry_tail answers every tool_use, _gate_retry_tail none.   *)
Feedback ==
  /\ history' = Append(history, Said("user", {},
                         IF reply.stop = "tool_use" THEN reply.uses ELSE {}))
  /\ step' = "top"

(* _evaluate_terminal_gates, skipped in a forced final turn.               *)
NeedsRepair == ~forcing.now /\ ~reply.valid /\ attempts.schema < SchemaRetries

SchemaGate ==
  /\ step = "gates"
  /\ IF NeedsRepair
     THEN attempts' = [attempts EXCEPT !.schema = @ + 1] /\ Feedback
     ELSE step' = "answer" /\ UNCHANGED <<attempts, history>>
  /\ UNCHANGED <<runNo, turnNo, tools, reply, tried, forcing, guard>>

(* BeforeFinalAnswer: a retry past the cap counts as an approval.          *)
BeforeFinalAnswer ==
  /\ step = "answer"
  /\ \/ step' = "stopping" /\ UNCHANGED <<attempts, history>>
     \/ /\ ~forcing.now /\ attempts.reentry < MaxReentries
        /\ attempts' = [attempts EXCEPT !.reentry = @ + 1] /\ Feedback
     \/ ~forcing.now /\ step' = "error" /\ UNCHANGED <<attempts, history>>
  /\ UNCHANGED <<runNo, turnNo, tools, reply, tried, forcing, guard>>

StopHook ==
  /\ step = "stopping"
  /\ \/ step' \in {"success", "error"} /\ UNCHANGED history
     \/ Feedback
  /\ UNCHANGED <<runNo, turnNo, tools, reply, tried, forcing, attempts, guard>>

(* What ends an answer, by the final tool or by text: the gates in order.  *)
Gates == SchemaGate \/ BeforeFinalAnswer \/ StopHook

-----------------------------------------------------------------------------
(* A batch and the loop guard.                                             *)

(* evaluate_loop_guard: a repeated call decides before the failures of the *)
(* batch are counted.                                                      *)
Guarded(failed) ==
  LET same == IF "t" \in reply.uses /\ MaxSame > 0 THEN guard.same + 1 ELSE guard.same
      again == MaxSame > 0 /\ "t" \in reply.uses /\ same >= MaxSame
      streak == IF again \/ MaxStreak = 0 THEN guard.streak
                ELSE IF failed THEN guard.streak + 1 ELSE 0
  IN  /\ guard' = [same |-> same, streak |-> streak]
      /\ step' = IF again \/ (MaxStreak > 0 /\ streak >= MaxStreak)
                 THEN IF ForceFinal THEN "reminder" ELSE "error"
                 ELSE "top"

(* The batch's results are appended, after the recovery hint if all of     *)
(* them failed and a tool offers one.                                      *)
RunBatch ==
  /\ step = "tools"
  /\ \E failed \in BOOLEAN, hint \in BOOLEAN :
       /\ hint => failed /\ "hint" \in Loose
       /\ history' = (IF hint THEN Append(history, Note) ELSE history)
                     \o <<Said("user", {}, reply.uses)>>
       /\ Guarded(failed)
  /\ UNCHANGED <<runNo, turnNo, tools, reply, tried, forcing, attempts>>

RemindAndForce ==
  /\ step = "reminder"
  /\ history' = Append(history, Note)
  /\ forcing' = [forcing EXCEPT !.pending = TRUE]
  /\ step' = "top"
  /\ UNCHANGED <<runNo, turnNo, tools, reply, tried, attempts, guard>>

TurnStep ==
  \/ StartTurn \/ MaxTurnsReached \/ MaybeCompact \/ SummaryFails \/ BeforeProviderCall
  \/ ContextTooLong \/ Overloaded \/ ProviderFails \/ ProviderReplies \/ AfterProviderCall
  \/ Gates \/ RunBatch \/ RemindAndForce

TurnNext == UNCHANGED ladder /\ (TurnStep \/ NextPrompt \/ PromptBlocked)

TurnSpec == TurnInit /\ [][TurnNext]_turnVars

-----------------------------------------------------------------------------
(* Every tool_use sent to the provider is answered by the next message,    *)
(* and every result answers the message before it, through retries,        *)
(* reminders, elision and summaries (terminals.py:294).  Loose = {} leaves *)
(* four ways out in which the code does leave one unanswered: the retry of *)
(* an after-provider hook, a recovery hint, a reply cut at the token limit *)
(* and the run after one that stopped with a call open.                    *)
ToolUsesAnswered ==
  step = "calling" =>
    \A i \in DOMAIN history :
      /\ history[i].uses # {} =>
           i < Len(history) /\ history[i + 1].results = history[i].uses
      /\ history[i].results # {} =>
           i > 1 /\ history[i - 1].uses = history[i].results

(* A turn forced to be final gives the model no tools, on the first        *)
(* request and on those built after a compaction (runner.py:870).          *)
ForcedFinalHasNoTools == (step = "calling" /\ forcing.now) => ~tools
=============================================================================

--------------------------- MODULE DurableRunProofs ---------------------------
(***************************************************************************)
(* Theorems about DurableRun, for every value of its constants.            *)
(***************************************************************************)
EXTENDS DurableRun, FiniteSetTheorems, TLAPS

(* A checkpoint stamped from a typed one is typed.                         *)
LEMMA StampedType ==
  ASSUME TypeOK, NEW base \in Checkpoints, NEW ph \in Phases
  PROVE  Stamped(base, ph) \in Checkpoints
<1>1. WorkerSnapshot \in [Workers -> WorkerStates]
  BY DEF TypeOK, WorkerSnapshot, Checkpoints, WorkerStates
<1>2. QED
  BY <1>1 DEF Stamped, TypeOK, Checkpoints

(* Saving keeps the checkpoints and the status well typed.                 *)
LEMMA SaveType ==
  ASSUME TypeOK, NEW base \in Checkpoints, NEW ph \in Phases, NEW st \in Statuses,
         Save(base, ph, st)
  PROVE  mem' \in Checkpoints /\ ck' \in Checkpoints /\ status' \in Statuses
BY StampedType DEF Save

(* _save_batch keeps the record, the saved checkpoint and the status       *)
(* typed.                                                                  *)
LEMMA SaveBatchType ==
  ASSUME TypeOK, NEW d \in [Calls -> Results], NEW ph \in Phases, NEW st \in Statuses,
         SaveBatch(d, ph, st)
  PROVE  mem' \in Checkpoints /\ ck' \in Checkpoints /\ status' \in Statuses
<1> DEFINE base == [mem EXCEPT !.turn = turn, !.asst = asm, !.done = d]
<1>1. base \in Checkpoints
  BY DEF TypeOK, Checkpoints
<1>2. QED
  BY <1>1, SaveType DEF SaveBatch

(* So does the end of a run.                                               *)
LEMMA TerminateType ==
  ASSUME TypeOK, NEW st \in Terminal, Terminate(st)
  PROVE  mem' \in Checkpoints /\ ck' \in Checkpoints /\ status' \in Statuses
BY DEF Terminate, TypeOK, Checkpoints, Terminal, Statuses, Phases

(* The first checkpoint of a run is typed.                                 *)
LEMMA EmptyCheckpointType ==
  ASSUME NEW ph \in Phases
  PROVE  EmptyCheckpoint(ph) \in Checkpoints
BY DEF EmptyCheckpoint, Checkpoints, NoResult, Results, NoMsg, Replies, Answers,
       NoAnswer, WorkerStates

(* A run begins in a typed state.                                          *)
LEMMA InitType == Init => TypeOK
<1> SUFFICES ASSUME Init PROVE TypeOK
  OBVIOUS
<1>1. /\ ck \in Checkpoints /\ mem \in Checkpoints
  BY EmptyCheckpointType DEF Init, Phases
<1>2. /\ ended \in [Calls -> Results] /\ done \in [Calls -> Results]
      /\ asm \in Replies /\ execs \in [Calls -> Nat]
  BY DEF Init, NoResult, Results, NoMsg, Replies
<1>3. /\ verdict \in [Calls -> Answers] /\ perm \in [Keys -> Answers]
      /\ live \in [Workers -> WorkerStates]
      /\ status \in Statuses /\ pc \in PCs
  BY DEF Init, NoAnswer, Answers, WorkerStates, Statuses, PCs
<1>4. /\ log \in Seq(Messages)
      /\ pending \in Seq(Notes) /\ drain \in Seq(Notes)
  BY DEF Init
<1>5. QED
  BY <1>1, <1>2, <1>3, <1>4 DEF Init, TypeOK

(* No step leaves the types: one leaf for each action of the run.          *)
LEMMA TypeStep == TypeOK /\ [Next]_vars => TypeOK'
<1> SUFFICES ASSUME TypeOK, [Next]_vars PROVE TypeOK'
  OBVIOUS
<1> USE DEF durable, batch, loopvars, acct, session, history
<1>1. CASE SaveStarted
  BY <1>1, SaveType DEF TypeOK, SaveStarted, Statuses, Phases, PCs
<1>2. CASE AppendPrompt
  BY <1>2 DEF TypeOK, AppendPrompt, Messages, User, PCs
<1>3. CASE SavePrompt
  BY <1>3, SaveType DEF TypeOK, SavePrompt, Statuses, Phases, PCs
<1>4. CASE Resume
  <2>1. ck \in Checkpoints
    BY DEF TypeOK
  <2>2. /\ ck.turn \in Nat /\ ck.usage \in Nat /\ ck.force \in BOOLEAN
        /\ ck.perm \in [Keys -> Answers]
    BY <2>1 DEF Checkpoints
  <2>3. /\ mem' \in Checkpoints /\ asm' \in Replies /\ resumed' \in BOOLEAN
        /\ total' \in Nat /\ force' \in BOOLEAN /\ perm' \in [Keys -> Answers]
    BY <1>4, <2>1, <2>2 DEF Resume, Replies
  <2>4. turn' \in Nat
    <3>1. ck.turn + 1 \in Nat
      BY <2>2
    <3> QED
      BY <1>4, <2>2, <3>1 DEF Resume
  <2>5. pc' \in PCs /\ pc' # "reply"
    BY <1>4 DEF Resume, PCs
  <2>6. UNCHANGED <<durable, batch, pending, drain, live, history>>
    BY <1>4 DEF Resume
  <2> QED
    BY <2>3, <2>4, <2>5, <2>6 DEF TypeOK
<1>5. ASSUME NEW w \in Workers, QueueCrashed(w) PROVE TypeOK'
  <2>1. Note(w, "killed") \in Notes
    BY <1>5 DEF Note, Notes
  <2>2. mem' \in Checkpoints
    BY <1>5 DEF TypeOK, QueueCrashed, Checkpoints, WorkerStates
  <2>3. pending' \in Seq(Notes)
    BY <1>5, <2>1 DEF TypeOK, QueueCrashed
  <2>4. QED
    BY <1>5, <2>2, <2>3 DEF TypeOK, QueueCrashed
<1>6. CASE Woken
  BY <1>6, SaveType DEF TypeOK, Woken, Checkpoints, Statuses, PCs
<1>7. CASE MaxTurnsReached
  BY <1>7, TerminateType DEF TypeOK, MaxTurnsReached, Terminate, Terminal, PCs
<1>8. CASE TakeNotes
  BY <1>8 DEF TypeOK, TakeNotes, PCs
<1>9. CASE AppendNote
  <2>1. /\ Head(drain) \in Notes /\ Tail(drain) \in Seq(Notes)
    BY <1>9 DEF TypeOK, AppendNote
  <2>2. log' \in Seq(Messages) /\ drain' \in Seq(Notes)
    BY <1>9, <2>1 DEF TypeOK, AppendNote, Messages
  <2>3. QED
    BY <1>9, <2>2 DEF TypeOK, AppendNote
<1>10. CASE StartTurn
  <2>1. perm' \in [Keys -> Answers]
    BY <1>10 DEF TypeOK, StartTurn, TurnPermissions, NoAnswer, Answers
  <2>2. asm' \in Replies /\ mem' \in Checkpoints
    <3>1. CASE ResumedAssistant /\ asm' = mem.asst /\ UNCHANGED mem
      BY <3>1 DEF TypeOK, Checkpoints
    <3>2. CASE AdoptedAssistant /\ asm' = LastMsg /\ mem' = [mem EXCEPT !.asst = LastMsg]
      <4>1. LastMsg.kind = "assistant"
        BY <3>2 DEF AdoptedAssistant
      <4>2. log # <<>> /\ LastMsg = log[Len(log)]
        BY <4>1 DEF LastMsg, NoMsg
      <4>3. log \in Seq(Messages)
        BY DEF TypeOK
      <4>4. LastMsg \in Messages
        BY <4>2, <4>3
      <4>5. LastMsg \in Replies
        BY <4>1, <4>4 DEF Messages, Notes, User, Hint, Reminder, Replies
      <4>6. QED
        BY <3>2, <4>5 DEF TypeOK, Checkpoints
    <3>3. CASE UNCHANGED <<asm, mem>>
      BY <3>3 DEF TypeOK
    <3>4. QED
      BY <1>10, <3>1, <3>2, <3>3 DEF StartTurn
  <2>3. pc' \in PCs
    BY <1>10 DEF StartTurn, PCs
  <2>4. QED
    BY <1>10, <2>1, <2>2, <2>3 DEF TypeOK, StartTurn
<1>11. CASE SaveRequest
  BY <1>11, SaveType DEF TypeOK, SaveRequest, Statuses, Phases, Checkpoints, PCs
<1>12. ASSUME NEW S \in SUBSET Calls, ProviderReply(S) PROVE TypeOK'
  BY <1>12 DEF TypeOK, ProviderReply, Assistant, NoMsg, Replies, PCs
<1>13. CASE ProviderFails
  BY <1>13, TerminateType DEF TypeOK, ProviderFails, Terminate, Terminal,
      CancelWorkers, WorkerStates, PCs
<1>14. CASE AppendReply
  <2>1. asm \in Messages
    BY <1>14 DEF TypeOK, AppendReply, Replies, Messages
  <2>2. log' \in Seq(Messages)
    BY <1>14, <2>1 DEF TypeOK, AppendReply
  <2>3. UNCHANGED <<status, ck, ended, mem, loopvars, batch, session, history>>
    BY <1>14 DEF AppendReply
  <2>4. total' \in Nat /\ force' \in BOOLEAN /\ pc' \in PCs /\ pc' # "reply"
    <3>1. total \in Nat
      BY DEF TypeOK
    <3>2. total' = total + 1 /\ force' = FALSE /\ pc' = "saveReply"
      BY <1>14 DEF AppendReply
    <3>3. total' \in Nat
      BY <3>1, <3>2
    <3>4. force' \in BOOLEAN /\ pc' \in PCs /\ pc' # "reply"
      BY <3>2 DEF PCs
    <3>5. QED
      BY <3>3, <3>4
  <2>5. QED
    BY <2>2, <2>3, <2>4 DEF TypeOK
<1>15. CASE SaveReply
  BY <1>15, SaveType DEF TypeOK, SaveReply, Statuses, Phases, Checkpoints, PCs
<1>16. CASE Finish
  BY <1>16, TerminateType DEF TypeOK, Finish, Terminate, Terminal, PCs
<1>17. CASE RecoverBatch
  <2>1. Recovered \in [Calls -> Results]
    BY DEF TypeOK, Recovered, Checkpoints, NoResult, Results
  <2>2. [mem EXCEPT !.turn = turn, !.asst = asm, !.done = Recovered] \in Checkpoints
    BY <2>1 DEF TypeOK, Checkpoints
  <2>3. mem' \in Checkpoints /\ ck' \in Checkpoints /\ status' \in Statuses
    BY <1>17, <2>2, SaveType DEF RecoverBatch, Phases, Statuses
  <2>4. todo' \subseteq Calls /\ verdict' \in [Calls -> Answers]
    BY <1>17 DEF TypeOK, RecoverBatch, NoAnswer, Answers, Replies, NoMsg
  <2>5. QED
    BY <1>17, <2>1, <2>3, <2>4 DEF TypeOK, RecoverBatch, PCs
<1>18. CASE AskPermission
  <2>1. mem' \in Checkpoints /\ ck' \in Checkpoints /\ status' \in Statuses
    <3>1. CASE asking' # {}
      BY <1>18, <3>1, SaveBatchType DEF TypeOK, AskPermission, Phases, Statuses
    <3>2. CASE asking' = {}
      BY <1>18, <3>2 DEF TypeOK, AskPermission
    <3>3. QED
      BY <3>1, <3>2
  <2>2. verdict' \in [Calls -> Answers] /\ asking' \subseteq Calls
    BY <1>18, ConstantsAssumption DEF TypeOK, AskPermission, Decision, NoAnswer,
        Answers
  <2>3. QED
    BY <1>18, <2>1, <2>2 DEF TypeOK, AskPermission, PCs
<1>19. CASE Resolved
  BY <1>19 DEF TypeOK, Resolved, PCs
<1>20. ASSUME NEW c \in Calls, NEW a \in {"allow", "deny"}, Answer(c, a) PROVE TypeOK'
  <2>1. a \in Answers /\ <<turn, KeyOf[c], a>> \in Nat \X Keys \X Answers
    BY <1>20, ConstantsAssumption DEF TypeOK, Answers
  <2>2. /\ verdict' \in [Calls -> Answers] /\ perm' \in [Keys -> Answers]
        /\ answered' \subseteq Nat \X Keys \X Answers
    BY <1>20, <2>1 DEF TypeOK, Answer
  <2>3. asking' \subseteq Calls
    BY <1>20 DEF TypeOK, Answer
  <2>4. QED
    BY <1>20, <2>2, <2>3 DEF TypeOK, Answer
<1>21. ASSUME NEW c \in Calls, AnswerFails(c) PROVE TypeOK'
  BY <1>21 DEF TypeOK, AnswerFails, Answers
<1>22. ASSUME NEW c \in Calls, StartTool(c) PROVE TypeOK'
  BY <1>22, SaveBatchType DEF TypeOK, StartTool, Statuses, Phases, Interrupted,
      Results
<1>23. ASSUME NEW c \in Calls, BeginEffect(c) PROVE TypeOK'
  <2>1. live' \in [Workers -> WorkerStates]
    BY <1>23 DEF TypeOK, BeginEffect, WorkerStates
  <2>2. execs' \in [Calls -> Nat] /\ begun' \subseteq running
    BY <1>23 DEF TypeOK, BeginEffect
  <2>3. QED
    BY <1>23, <2>1, <2>2 DEF TypeOK, BeginEffect
<1>24. ASSUME NEW c \in Calls, NEW v \in {"ok", "error"}, EndTool(c, v) PROVE TypeOK'
  BY <1>24 DEF TypeOK, EndTool, Result, Results, PCs
<1>25. ASSUME NEW c \in Calls, SaveEnd(c) PROVE TypeOK'
  BY <1>25, SaveBatchType DEF TypeOK, SaveEnd, Statuses, Phases, PCs
<1>26. CASE BatchDone
  BY <1>26 DEF TypeOK, BatchDone, PCs
<1>27. CASE AppendHint
  <2>1. Hint \in Messages
    BY DEF Messages
  <2>2. log' \in Seq(Messages)
    <3>1. log \in Seq(Messages) /\ (log' = Append(log, Hint) \/ log' = log)
      BY <1>27 DEF TypeOK, AppendHint
    <3>2. QED
      BY <2>1, <3>1
  <2>3. QED
    BY <1>27, <2>2 DEF TypeOK, AppendHint, PCs
<1>28. CASE AppendResults
  <2> DEFINE f == [c \in Calls |-> IF c \in asm.calls THEN done[c] ELSE NoResult]
  <2>1. f \in [Calls -> Results]
    BY DEF TypeOK, NoResult, Results
  <2>2. ToolResults(f) \in Messages
    BY <2>1 DEF ToolResults, Messages
  <2>3. log' \in Seq(Messages)
    BY <1>28, <2>2 DEF TypeOK, AppendResults
  <2>4. QED
    BY <1>28, <2>3 DEF TypeOK, AppendResults, PCs
<1>29. CASE SaveResults
  BY <1>29, SaveBatchType DEF TypeOK, SaveResults, Statuses, Phases, PCs
<1>30. CASE GuardForcesFinal
  BY <1>30 DEF TypeOK, GuardForcesFinal, Reminder, Messages, PCs
<1>31. CASE GuardStops
  BY <1>31, TerminateType DEF TypeOK, GuardStops, Terminate, Terminal, PCs
<1>32. CASE EndTurn
  <2>1. [mem EXCEPT !.turn = turn] \in Checkpoints
    BY DEF TypeOK, Checkpoints
  <2>2. mem' \in Checkpoints /\ ck' \in Checkpoints /\ status' \in Statuses
    BY <1>32, <2>1, SaveType DEF EndTurn, Phases, Statuses
  <2>3. QED
    BY <1>32, <2>2 DEF TypeOK, EndTurn, PCs
<1>33. CASE Abort
  BY <1>33, TerminateType DEF TypeOK, Abort, Terminate, Terminal, CancelWorkers,
      WorkerStates, PCs
<1>34. ASSUME NEW c \in Calls, AbortCall(c) PROVE TypeOK'
  BY <1>34 DEF TypeOK, AbortCall, Result, Results, PCs
<1>35. CASE AbortTurn
  BY <1>35, TerminateType DEF TypeOK, AbortTurn, Terminate, Terminal, CancelWorkers,
      WorkerStates, PCs
<1>36. ASSUME NEW w \in Workers, WorkerDone(w) PROVE TypeOK'
  BY <1>36 DEF TypeOK, WorkerDone, Note, Notes, WorkerStates
<1>37. CASE Crash
  BY <1>37, EmptyCheckpointType DEF TypeOK, Crash, Phases, WorkerStates, PCs
<1>38. CASE Abandon
  BY <1>38, EmptyCheckpointType DEF TypeOK, Abandon, Phases, PCs
<1>39. CASE UNCHANGED vars
  BY <1>39 DEF TypeOK, vars
<1>40. QED
  BY <1>1, <1>2, <1>3, <1>4, <1>5, <1>6, <1>7, <1>8, <1>9, <1>10, <1>11, <1>12,
      <1>13, <1>14, <1>15, <1>16, <1>17, <1>18, <1>19, <1>20, <1>21, <1>22, <1>23,
      <1>24, <1>25, <1>26, <1>27, <1>28, <1>29, <1>30, <1>31, <1>32, <1>33, <1>34,
      <1>35, <1>36, <1>37, <1>38, <1>39 DEF Next, RunStep

(* Every variable keeps its type: no save, resume, crash or abort leaves    *)
(* the record, the checkpoint or the loop's memory malformed.               *)
THEOREM TypeCorrect == Spec => []TypeOK
BY InitType, TypeStep, PTL DEF Spec

(* What the saves write, field by field.                                   *)
LEMMA SaveFields ==
  ASSUME NEW base \in Checkpoints, NEW ph, NEW st, Save(base, ph, st)
  PROVE  /\ mem' = ck' /\ status' = st
         /\ ck'.done = base.done /\ ck'.turn = base.turn /\ ck'.perm = perm
BY DEF Save, Stamped, Checkpoints

(* What _save_batch saves of a batch, and that the process goes on from    *)
(* what it saved.                                                          *)
LEMMA SaveBatchFields ==
  ASSUME TypeOK, NEW d \in [Calls -> Results], NEW ph, NEW st, SaveBatch(d, ph, st)
  PROVE  /\ mem' = ck' /\ status' = st
         /\ ck'.done = d /\ ck'.turn = turn /\ ck'.perm = perm
<1> DEFINE base == [mem EXCEPT !.turn = turn, !.asst = asm, !.done = d]
<1>1. base \in Checkpoints /\ base.turn = turn /\ base.done = d
  BY DEF TypeOK, Checkpoints
<1>2. QED
  BY <1>1, SaveFields DEF SaveBatch

(* The end of a run saves the outcomes it had and takes the process down.  *)
LEMMA TerminateFields ==
  ASSUME TypeOK, NEW st, Terminate(st)
  PROVE  /\ mem' = ck' /\ pc' = "down" /\ status' = st
         /\ ck'.done = mem.done /\ ck'.turn = mem.turn /\ ck'.perm = mem.perm
BY DEF Terminate, TypeOK, Checkpoints

(* Each step keeps the four facts; the actions that run a tool or save an  *)
(* outcome are the ones with something to show.                            *)
LEMMA OnceStep ==
  ASSUME TypeOK, CheckpointsAgree, BatchInOrder, EffectsAreTraced, AtMostOnce,
      [Next]_vars
  PROVE  CheckpointsAgree' /\ BatchInOrder' /\ EffectsAreTraced' /\ AtMostOnce'
<1> USE DEF durable, batch, loopvars, acct, session, history, BatchPCs, ToolPCs
<1> DEFINE Goal == CheckpointsAgree' /\ BatchInOrder' /\ EffectsAreTraced' /\ AtMostOnce'
<1>1. ASSUME SaveStarted PROVE Goal
  <2>1. /\ mem' = ck' /\ status' = "running"
        /\ ck'.done = mem.done /\ ck'.turn = mem.turn /\ ck'.perm = perm
    BY <1>1, SaveFields DEF SaveStarted, TypeOK
  <2>2. QED
    BY <1>1, <2>1 DEF TypeOK, CheckpointsAgree, BatchInOrder, EffectsAreTraced,
        AtMostOnce, Terminal, SaveStarted
<1>2. ASSUME AppendPrompt PROVE Goal
  BY <1>2 DEF TypeOK, CheckpointsAgree, BatchInOrder, EffectsAreTraced, AtMostOnce,
      AppendPrompt
<1>3. ASSUME SavePrompt PROVE Goal
  <2>1. /\ mem' = ck' /\ status' = "running"
        /\ ck'.done = mem.done /\ ck'.turn = mem.turn /\ ck'.perm = perm
    BY <1>3, SaveFields DEF SavePrompt, TypeOK
  <2>2. QED
    BY <1>3, <2>1 DEF TypeOK, CheckpointsAgree, BatchInOrder, EffectsAreTraced,
        AtMostOnce, Terminal, SavePrompt
<1>4. ASSUME Resume PROVE Goal
  BY <1>4 DEF TypeOK, CheckpointsAgree, BatchInOrder, EffectsAreTraced, AtMostOnce,
      Resume
<1>5. ASSUME NEW w \in Workers, QueueCrashed(w) PROVE Goal
  <2>1. mem'.done = mem.done /\ mem'.turn = mem.turn /\ mem'.perm = mem.perm
    BY <1>5 DEF QueueCrashed, TypeOK, Checkpoints
  <2>2. QED
    BY <1>5, <2>1 DEF TypeOK, CheckpointsAgree, BatchInOrder, EffectsAreTraced,
        AtMostOnce, QueueCrashed
<1>6. ASSUME Woken PROVE Goal
  <2>1. /\ status' \in {status, "running"}
        /\ mem'.done = mem.done /\ ck'.done \in {ck.done, mem.done}
        /\ mem'.turn = mem.turn /\ ck'.turn \in {ck.turn, mem.turn}
        /\ mem'.perm \in {mem.perm, perm} /\ ck'.perm \in {ck.perm, perm}
        /\ mem' = ck' \/ UNCHANGED <<mem, ck, status>>
    BY <1>6, SaveFields DEF Woken, TypeOK
  <2>2. QED
    BY <1>6, <2>1 DEF TypeOK, CheckpointsAgree, BatchInOrder, EffectsAreTraced,
        AtMostOnce, Terminal, Woken
<1>7. ASSUME MaxTurnsReached PROVE Goal
  <2>1. /\ mem' = ck' /\ pc' = "down"
        /\ ck'.done = mem.done /\ ck'.turn = mem.turn /\ ck'.perm = mem.perm
    BY <1>7, TerminateFields DEF MaxTurnsReached
  <2>2. QED
    BY <1>7, <2>1 DEF TypeOK, CheckpointsAgree, BatchInOrder, EffectsAreTraced,
        AtMostOnce, Terminal, MaxTurnsReached
<1>8. ASSUME TakeNotes PROVE Goal
  BY <1>8 DEF TypeOK, CheckpointsAgree, BatchInOrder, EffectsAreTraced, AtMostOnce,
      TakeNotes
<1>9. ASSUME AppendNote PROVE Goal
  BY <1>9 DEF TypeOK, CheckpointsAgree, BatchInOrder, EffectsAreTraced, AtMostOnce,
      AppendNote
<1>10. ASSUME StartTurn PROVE Goal
  <2>1. mem'.done = mem.done /\ mem'.turn = mem.turn /\ mem'.perm = mem.perm
    BY <1>10 DEF StartTurn, TypeOK, Checkpoints
  <2>2. CheckpointsAgree'
    BY <1>10, <2>1 DEF CheckpointsAgree, ResumedAssistant, AdoptedAssistant, StartTurn
  <2>3. BatchInOrder'
    BY <1>10, <2>1 DEF TypeOK, CheckpointsAgree, BatchInOrder, StartTurn
  <2>4. EffectsAreTraced'
    BY <1>10, <2>1 DEF TypeOK, CheckpointsAgree, BatchInOrder, EffectsAreTraced,
        AtMostOnce, ResumedAssistant, AdoptedAssistant, StartTurn
  <2>5. AtMostOnce'
    BY <1>10 DEF TypeOK, EffectsAreTraced, AtMostOnce, StartTurn
  <2>6. QED
    BY <2>2, <2>3, <2>4, <2>5
<1>11. ASSUME SaveRequest PROVE Goal
  <2>1. /\ mem' = ck' /\ status' = "running"
        /\ ck'.done = mem.done /\ ck'.turn = turn /\ ck'.perm = perm
    <3> DEFINE base == [mem EXCEPT !.turn = turn]
    <3>1. base \in Checkpoints /\ base.done = mem.done /\ base.turn = turn
      BY DEF TypeOK, Checkpoints
    <3>2. QED
      BY <1>11, <3>1, SaveFields DEF SaveRequest
  <2>2. QED
    BY <1>11, <2>1 DEF TypeOK, CheckpointsAgree, BatchInOrder, EffectsAreTraced,
        AtMostOnce, Terminal, SaveRequest
<1>12. ASSUME NEW S \in SUBSET Calls, ProviderReply(S) PROVE Goal
  BY <1>12 DEF TypeOK, CheckpointsAgree, BatchInOrder, EffectsAreTraced,
      AtMostOnce, ProviderReply
<1>13. ASSUME ProviderFails PROVE Goal
  <2>1. /\ mem' = ck' /\ pc' = "down"
        /\ ck'.done = mem.done /\ ck'.turn = mem.turn /\ ck'.perm = mem.perm
    BY <1>13, TerminateFields DEF ProviderFails
  <2>2. QED
    BY <1>13, <2>1 DEF TypeOK, CheckpointsAgree, BatchInOrder, EffectsAreTraced,
        AtMostOnce, Terminal, ProviderFails
<1>14. ASSUME AppendReply PROVE Goal
  BY <1>14 DEF TypeOK, CheckpointsAgree, BatchInOrder, EffectsAreTraced,
      AtMostOnce, AppendReply
<1>15. ASSUME SaveReply PROVE Goal
  <2>1. /\ mem' = ck' /\ status' = "running"
        /\ ck'.done = mem.done /\ ck'.turn = turn /\ ck'.perm = perm
    <3> DEFINE base == [mem EXCEPT !.turn = turn, !.asst = asm]
    <3>1. base \in Checkpoints /\ base.done = mem.done /\ base.turn = turn
      BY DEF TypeOK, Checkpoints
    <3>2. QED
      BY <1>15, <3>1, SaveFields DEF SaveReply
  <2>2. QED
    BY <1>15, <2>1 DEF TypeOK, CheckpointsAgree, BatchInOrder, EffectsAreTraced,
        AtMostOnce, Terminal, SaveReply
<1>16. ASSUME Finish PROVE Goal
  <2>1. /\ mem' = ck' /\ pc' = "down"
        /\ ck'.done = mem.done /\ ck'.turn = mem.turn /\ ck'.perm = mem.perm
    BY <1>16, TerminateFields DEF Finish
  <2>2. QED
    BY <1>16, <2>1 DEF TypeOK, CheckpointsAgree, BatchInOrder, EffectsAreTraced,
        AtMostOnce, Terminal, Finish
<1>17. ASSUME RecoverBatch PROVE Goal
  <2>1. /\ mem' = ck' /\ status' = "running"
        /\ ck'.done = Recovered /\ ck'.turn = turn /\ ck'.perm = perm
    <3> DEFINE base == [mem EXCEPT !.turn = turn, !.asst = asm, !.done = Recovered]
    <3>1. Recovered \in [Calls -> Results]
      BY DEF TypeOK, Recovered, Checkpoints, NoResult, Results
    <3>2. base \in Checkpoints /\ base.done = Recovered /\ base.turn = turn
      BY <3>1 DEF TypeOK, Checkpoints
    <3>3. QED
      BY <1>17, <3>2, SaveFields DEF RecoverBatch
  <2>2. CheckpointsAgree'
    BY <1>17, <2>1 DEF CheckpointsAgree, Terminal, RecoverBatch
  <2>3. BatchInOrder'
    BY <1>17, <2>1 DEF TypeOK, CheckpointsAgree, BatchInOrder, RecoverBatch
  <2>4. EffectsAreTraced'
    BY <1>17, <2>1 DEF TypeOK, CheckpointsAgree, BatchInOrder, EffectsAreTraced,
        AtMostOnce, Terminal, Recovered, NoAnswer, RecoverBatch
  <2>5. AtMostOnce'
    BY <1>17 DEF TypeOK, EffectsAreTraced, AtMostOnce, RecoverBatch
  <2>6. QED
    BY <2>2, <2>3, <2>4, <2>5
<1>18. ASSUME AskPermission PROVE Goal
  <2>1. \/ /\ mem' = ck' /\ status' = "waiting_permission"
           /\ ck'.done = done /\ ck'.turn = turn /\ ck'.perm = perm
        \/ UNCHANGED <<mem, ck, status>>
    BY <1>18, SaveBatchFields DEF AskPermission, TypeOK
  <2>2. QED
    BY <1>18, <2>1 DEF TypeOK, CheckpointsAgree, BatchInOrder, EffectsAreTraced,
        AtMostOnce, Terminal, AskPermission
<1>19. ASSUME Resolved PROVE Goal
  BY <1>19 DEF TypeOK, CheckpointsAgree, BatchInOrder, EffectsAreTraced,
      AtMostOnce, Resolved
<1>20. ASSUME NEW c \in Calls, NEW a \in {"allow", "deny"}, Answer(c, a) PROVE Goal
  BY <1>20 DEF TypeOK, CheckpointsAgree, BatchInOrder, EffectsAreTraced,
      AtMostOnce, Answer
<1>21. ASSUME NEW c \in Calls, AnswerFails(c) PROVE Goal
  BY <1>21 DEF TypeOK, CheckpointsAgree, BatchInOrder, EffectsAreTraced,
      AtMostOnce, AnswerFails
<1>22. ASSUME NEW c \in Calls, StartTool(c) PROVE Goal
  <2>1. /\ mem' = ck' /\ status' = "running"
        /\ ck'.done = done' /\ ck'.turn = turn /\ ck'.perm = perm
        /\ done' = [done EXCEPT ![c] = IF @ = NoResult THEN Interrupted ELSE @]
        /\ done' \in [Calls -> Results]
    BY <1>22, SaveBatchFields DEF StartTool, TypeOK, Interrupted, Results
  <2>2. CheckpointsAgree'
    BY <1>22, <2>1 DEF CheckpointsAgree, Terminal, NoResult, Interrupted, StartTool
  <2>3. BatchInOrder'
    BY <1>22, <2>1 DEF TypeOK, CheckpointsAgree, BatchInOrder, StartTool
  <2>4. EffectsAreTraced'
    BY <1>22, <2>1 DEF TypeOK, CheckpointsAgree, BatchInOrder, EffectsAreTraced,
        AtMostOnce, Terminal, NoResult, Interrupted, StartTool
  <2>5. AtMostOnce'
    BY <1>22 DEF TypeOK, EffectsAreTraced, AtMostOnce, StartTool
  <2>6. QED
    BY <2>2, <2>3, <2>4, <2>5
<1>23. ASSUME NEW c \in Calls, BeginEffect(c) PROVE Goal
  BY <1>23 DEF TypeOK, CheckpointsAgree, BatchInOrder, EffectsAreTraced,
      AtMostOnce, BeginEffect
<1>24. ASSUME NEW c \in Calls, NEW v \in {"ok", "error"}, EndTool(c, v) PROVE Goal
  BY <1>24 DEF TypeOK, CheckpointsAgree, BatchInOrder, EffectsAreTraced,
      AtMostOnce, Result, NoResult, EndTool
<1>25. ASSUME NEW c \in Calls, SaveEnd(c) PROVE Goal
  <2>1. /\ mem' = ck' /\ status' = "running"
        /\ ck'.done = done' /\ ck'.turn = turn /\ ck'.perm = perm
        /\ done' = [done EXCEPT ![c] = ended[c]]
        /\ done' \in [Calls -> Results]
    BY <1>25, SaveBatchFields DEF SaveEnd, TypeOK
  <2>2. CheckpointsAgree'
    BY <1>25, <2>1 DEF CheckpointsAgree, Terminal, JustEnded, SaveEnd
  <2>3. BatchInOrder'
    BY <1>25, <2>1 DEF TypeOK, CheckpointsAgree, BatchInOrder, SaveEnd
  <2>4. EffectsAreTraced'
    BY <1>25, <2>1 DEF TypeOK, CheckpointsAgree, BatchInOrder, EffectsAreTraced,
        AtMostOnce, Terminal, JustEnded, SaveEnd
  <2>5. AtMostOnce'
    BY <1>25 DEF TypeOK, EffectsAreTraced, AtMostOnce, SaveEnd
  <2>6. QED
    BY <2>2, <2>3, <2>4, <2>5
<1>26. ASSUME BatchDone PROVE Goal
  BY <1>26 DEF TypeOK, CheckpointsAgree, BatchInOrder, EffectsAreTraced,
      AtMostOnce, BatchDone
<1>27. ASSUME AppendHint PROVE Goal
  BY <1>27 DEF TypeOK, CheckpointsAgree, BatchInOrder, EffectsAreTraced,
      AtMostOnce, AppendHint
<1>28. ASSUME AppendResults PROVE Goal
  BY <1>28 DEF TypeOK, CheckpointsAgree, BatchInOrder, EffectsAreTraced,
      AtMostOnce, AppendResults
<1>29. ASSUME SaveResults PROVE Goal
  <2>1. /\ mem' = ck' /\ status' = "running"
        /\ ck'.done = done /\ ck'.turn = turn /\ ck'.perm = perm
    BY <1>29, SaveBatchFields DEF SaveResults, TypeOK
  <2>2. QED
    BY <1>29, <2>1 DEF TypeOK, CheckpointsAgree, BatchInOrder, EffectsAreTraced,
        AtMostOnce, Terminal, SaveResults
<1>30. ASSUME GuardForcesFinal PROVE Goal
  BY <1>30 DEF TypeOK, CheckpointsAgree, BatchInOrder, EffectsAreTraced,
      AtMostOnce, GuardForcesFinal
<1>31. ASSUME GuardStops PROVE Goal
  <2>1. /\ mem' = ck' /\ pc' = "down"
        /\ ck'.done = mem.done /\ ck'.turn = mem.turn /\ ck'.perm = mem.perm
    BY <1>31, TerminateFields DEF GuardStops
  <2>2. QED
    BY <1>31, <2>1 DEF TypeOK, CheckpointsAgree, BatchInOrder, EffectsAreTraced,
        AtMostOnce, Terminal, GuardStops
<1>32. ASSUME EndTurn PROVE Goal
  <2>1. /\ mem' = ck' /\ status' = "running"
        /\ ck'.done = mem.done /\ ck'.turn = turn /\ ck'.perm = perm
    <3> DEFINE base == [mem EXCEPT !.turn = turn]
    <3>1. base \in Checkpoints /\ base.done = mem.done /\ base.turn = turn
      BY DEF TypeOK, Checkpoints
    <3>2. QED
      BY <1>32, <3>1, SaveFields DEF EndTurn
  <2>2. QED
    BY <1>32, <2>1 DEF TypeOK, CheckpointsAgree, BatchInOrder, EffectsAreTraced,
        AtMostOnce, Terminal, EndTurn
<1>33. ASSUME Abort PROVE Goal
  <2>1. /\ mem' = ck' /\ pc' = "down"
        /\ ck'.done = mem.done /\ ck'.turn = mem.turn /\ ck'.perm = mem.perm
    BY <1>33, TerminateFields DEF Abort
  <2>2. QED
    BY <1>33, <2>1 DEF TypeOK, CheckpointsAgree, BatchInOrder, EffectsAreTraced,
        AtMostOnce, Terminal, Abort
<1>34. ASSUME NEW c \in Calls, AbortCall(c) PROVE Goal
  BY <1>34 DEF TypeOK, CheckpointsAgree, BatchInOrder, EffectsAreTraced,
      AtMostOnce, Result, NoResult, AbortCall
<1>35. ASSUME AbortTurn PROVE Goal
  <2>1. /\ mem' = ck' /\ pc' = "down"
        /\ ck'.done = mem.done /\ ck'.turn = mem.turn /\ ck'.perm = mem.perm
    BY <1>35, TerminateFields DEF AbortTurn
  <2>2. QED
    BY <1>35, <2>1 DEF TypeOK, CheckpointsAgree, BatchInOrder, EffectsAreTraced,
        AtMostOnce, Terminal, AbortTurn
<1>36. ASSUME NEW w \in Workers, WorkerDone(w) PROVE Goal
  BY <1>36 DEF TypeOK, CheckpointsAgree, BatchInOrder, EffectsAreTraced,
      AtMostOnce, WorkerDone
<1>37. ASSUME Crash PROVE Goal
  BY <1>37 DEF TypeOK, CheckpointsAgree, BatchInOrder, EffectsAreTraced,
      AtMostOnce, Crash
<1>38. ASSUME Abandon PROVE Goal
  BY <1>38 DEF TypeOK, CheckpointsAgree, BatchInOrder, EffectsAreTraced,
      AtMostOnce, Abandon
<1>39. ASSUME UNCHANGED vars PROVE Goal
  BY <1>39 DEF CheckpointsAgree, BatchInOrder, EffectsAreTraced, AtMostOnce, vars
<1>40. QED
  BY <1>1, <1>2, <1>3, <1>4, <1>5, <1>6, <1>7, <1>8, <1>9, <1>10, <1>11, <1>12,
      <1>13, <1>14, <1>15, <1>16, <1>17, <1>18, <1>19, <1>20, <1>21, <1>22, <1>23,
      <1>24, <1>25, <1>26, <1>27, <1>28, <1>29, <1>30, <1>31, <1>32, <1>33, <1>34,
      <1>35, <1>36, <1>37, <1>38, <1>39 DEF Next, RunStep

(* They hold of a run that has done nothing.                               *)
LEMMA OnceInit == Init => OnceInv
<1> SUFFICES ASSUME Init PROVE OnceInv
  OBVIOUS
<1>1. TypeOK
  BY InitType
<1>2. CheckpointsAgree /\ BatchInOrder
  BY DEF Init, EmptyCheckpoint, CheckpointsAgree, BatchInOrder, BatchPCs, ToolPCs,
      Terminal
<1>3. EffectsAreTraced /\ AtMostOnce
  BY DEF Init, EffectsAreTraced, AtMostOnce
<1>4. QED
  BY <1>1, <1>2, <1>3 DEF OnceInv

(* So they hold throughout.                                                *)
LEMMA OnceInvariant == Spec => []OnceInv
<1>1. OnceInv /\ [Next]_vars => OnceInv'
  BY TypeStep, OnceStep DEF OnceInv
<1>2. QED
  BY OnceInit, <1>1, PTL DEF Spec

(* A tool call takes effect at most once, whatever the number of calls,     *)
(* workers, turns, crashes and resumes, and even if the provider reuses ids. *)
THEOREM EffectsAtMostOnce == Spec => []AtMostOnce
BY OnceInvariant, PTL DEF OnceInv

(* A run that has ended stays as it ended, whoever resumes it.              *)
THEOREM EndedRunsStay == Spec => TerminalIsFinal
<1>1. OnceInv /\ [Next]_vars => [(status \in Terminal) => UNCHANGED durable]_vars
  <2> SUFFICES ASSUME CheckpointsAgree, [Next]_vars, status \in Terminal
               PROVE  UNCHANGED durable
    BY DEF OnceInv
  <2>1. pc = "down"
    BY DEF CheckpointsAgree
  <2>2. QED
    BY <2>1 DEF Next, RunStep, vars, Resume, Crash, Abandon, WorkerDone, durable,
      SaveStarted, AppendPrompt, SavePrompt, QueueCrashed, Woken, MaxTurnsReached,
      TakeNotes, AppendNote, StartTurn, SaveRequest, ProviderReply, ProviderFails,
      AppendReply, SaveReply, Finish, RecoverBatch, AskPermission, Resolved, Answer,
      AnswerFails, StartTool, BeginEffect, EndTool, SaveEnd, BatchDone, AppendHint,
      AppendResults, SaveResults, GuardForcesFinal, GuardStops, EndTurn, Abort,
      AbortCall, AbortTurn
<1>2. QED
  BY OnceInvariant, <1>1, PTL DEF Spec, TerminalIsFinal

(* Only an approval and the opening of a batch write decisions, and the    *)
(* second clears them.                                                     *)
LEMMA DecisionsStep ==
  ASSUME TypeOK, CheckpointsAgree, DecisionsAreCurrent, [Next]_vars
  PROVE  DecisionsAreCurrent'
<1> USE DEF durable, batch, loopvars, acct, session, history, BatchPCs, ToolPCs
<1>1. CASE SaveStarted
  <2>1. /\ mem' = ck' /\ status' = "running"
        /\ ck'.done = mem.done /\ ck'.turn = mem.turn /\ ck'.perm = perm
    BY <1>1, SaveFields DEF SaveStarted, TypeOK
  <2>2. QED
    BY <1>1, <2>1 DEF TypeOK, CheckpointsAgree, DecisionsAreCurrent, Approved,
        SaveStarted
<1>2. CASE AppendPrompt
  BY <1>2 DEF TypeOK, CheckpointsAgree, DecisionsAreCurrent, Approved, AppendPrompt
<1>3. CASE SavePrompt
  <2>1. /\ mem' = ck' /\ status' = "running"
        /\ ck'.done = mem.done /\ ck'.turn = mem.turn /\ ck'.perm = perm
    BY <1>3, SaveFields DEF SavePrompt, TypeOK
  <2>2. QED
    BY <1>3, <2>1 DEF TypeOK, CheckpointsAgree, DecisionsAreCurrent, Approved,
        SavePrompt
<1>4. CASE Resume
  BY <1>4 DEF TypeOK, CheckpointsAgree, DecisionsAreCurrent, Resume
<1>5. ASSUME NEW w \in Workers, QueueCrashed(w) PROVE DecisionsAreCurrent'
  <2>1. mem'.done = mem.done /\ mem'.turn = mem.turn /\ mem'.perm = mem.perm
    BY <1>5 DEF QueueCrashed, TypeOK, Checkpoints
  <2>2. QED
    BY <1>5, <2>1 DEF TypeOK, CheckpointsAgree, DecisionsAreCurrent, QueueCrashed
<1>6. CASE Woken
  <2>1. /\ status' \in {status, "running"}
        /\ mem'.done = mem.done /\ ck'.done \in {ck.done, mem.done}
        /\ mem'.turn = mem.turn /\ ck'.turn \in {ck.turn, mem.turn}
        /\ mem'.perm \in {mem.perm, perm} /\ ck'.perm \in {ck.perm, perm}
        /\ mem' = ck' \/ UNCHANGED <<mem, ck, status>>
    BY <1>6, SaveFields DEF Woken, TypeOK
  <2>2. QED
    BY <1>6, <2>1 DEF TypeOK, CheckpointsAgree, DecisionsAreCurrent, Woken
<1>7. CASE MaxTurnsReached
  <2>1. /\ mem' = ck' /\ pc' = "down"
        /\ ck'.done = mem.done /\ ck'.turn = mem.turn /\ ck'.perm = mem.perm
    BY <1>7, TerminateFields DEF MaxTurnsReached
  <2>2. QED
    BY <1>7, <2>1 DEF TypeOK, CheckpointsAgree, DecisionsAreCurrent, Approved,
        MaxTurnsReached
<1>8. CASE TakeNotes
  BY <1>8 DEF TypeOK, CheckpointsAgree, DecisionsAreCurrent, Approved, TakeNotes
<1>9. CASE AppendNote
  BY <1>9 DEF TypeOK, CheckpointsAgree, DecisionsAreCurrent, Approved, AppendNote
<1>10. CASE StartTurn
  <2>1. mem'.done = mem.done /\ mem'.turn = mem.turn /\ mem'.perm = mem.perm
    BY <1>10 DEF StartTurn, TypeOK, Checkpoints
  <2>2. QED
    BY <1>10, <2>1 DEF TypeOK, CheckpointsAgree, DecisionsAreCurrent,
        TurnPermissions, NoAnswer, Approved, StartTurn
<1>11. CASE SaveRequest
  <2>1. /\ mem' = ck' /\ status' = "running"
        /\ ck'.done = mem.done /\ ck'.turn = turn /\ ck'.perm = perm
    <3> DEFINE base == [mem EXCEPT !.turn = turn]
    <3>1. base \in Checkpoints /\ base.done = mem.done /\ base.turn = turn
      BY DEF TypeOK, Checkpoints
    <3>2. QED
      BY <1>11, <3>1, SaveFields DEF SaveRequest
  <2>2. QED
    BY <1>11, <2>1 DEF TypeOK, CheckpointsAgree, DecisionsAreCurrent, Approved,
        SaveRequest
<1>12. ASSUME NEW S \in SUBSET Calls, ProviderReply(S) PROVE DecisionsAreCurrent'
  BY <1>12 DEF TypeOK, CheckpointsAgree, DecisionsAreCurrent, Approved, ProviderReply
<1>13. CASE ProviderFails
  <2>1. /\ mem' = ck' /\ pc' = "down"
        /\ ck'.done = mem.done /\ ck'.turn = mem.turn /\ ck'.perm = mem.perm
    BY <1>13, TerminateFields DEF ProviderFails
  <2>2. QED
    BY <1>13, <2>1 DEF TypeOK, CheckpointsAgree, DecisionsAreCurrent, Approved,
        ProviderFails
<1>14. CASE AppendReply
  BY <1>14 DEF TypeOK, CheckpointsAgree, DecisionsAreCurrent, Approved, AppendReply
<1>15. CASE SaveReply
  <2>1. /\ mem' = ck' /\ status' = "running"
        /\ ck'.done = mem.done /\ ck'.turn = turn /\ ck'.perm = perm
    <3> DEFINE base == [mem EXCEPT !.turn = turn, !.asst = asm]
    <3>1. base \in Checkpoints /\ base.done = mem.done /\ base.turn = turn
      BY DEF TypeOK, Checkpoints
    <3>2. QED
      BY <1>15, <3>1, SaveFields DEF SaveReply
  <2>2. QED
    BY <1>15, <2>1 DEF TypeOK, CheckpointsAgree, DecisionsAreCurrent, Approved,
        SaveReply
<1>16. CASE Finish
  <2>1. /\ mem' = ck' /\ pc' = "down"
        /\ ck'.done = mem.done /\ ck'.turn = mem.turn /\ ck'.perm = mem.perm
    BY <1>16, TerminateFields DEF Finish
  <2>2. QED
    BY <1>16, <2>1 DEF TypeOK, CheckpointsAgree, DecisionsAreCurrent, Approved, Finish
<1>17. CASE RecoverBatch
  <2>1. /\ mem' = ck' /\ status' = "running"
        /\ ck'.done = Recovered /\ ck'.turn = turn /\ ck'.perm = perm
    <3> DEFINE base == [mem EXCEPT !.turn = turn, !.asst = asm, !.done = Recovered]
    <3>1. Recovered \in [Calls -> Results]
      BY DEF TypeOK, Recovered, Checkpoints, NoResult, Results
    <3>2. base \in Checkpoints /\ base.done = Recovered /\ base.turn = turn
      BY <3>1 DEF TypeOK, Checkpoints
    <3>3. QED
      BY <1>17, <3>2, SaveFields DEF RecoverBatch
  <2>2. QED
    BY <1>17, <2>1 DEF TypeOK, CheckpointsAgree, DecisionsAreCurrent, NoAnswer,
        Approved, RecoverBatch
<1>18. CASE AskPermission
  <2>1. \/ /\ mem' = ck' /\ status' = "waiting_permission"
           /\ ck'.done = done /\ ck'.turn = turn /\ ck'.perm = perm
        \/ UNCHANGED <<mem, ck, status>>
    BY <1>18, SaveBatchFields DEF AskPermission, TypeOK
  <2>2. QED
    BY <1>18, <2>1, ConstantsAssumption DEF TypeOK, CheckpointsAgree,
        DecisionsAreCurrent, NoAnswer, Decision, Approved, AskPermission
<1>19. CASE Resolved
  BY <1>19 DEF TypeOK, CheckpointsAgree, DecisionsAreCurrent, Approved, Resolved
<1>20. ASSUME NEW c \in Calls, NEW a \in {"allow", "deny"}, Answer(c, a) PROVE DecisionsAreCurrent'
  BY <1>20, ConstantsAssumption DEF TypeOK, CheckpointsAgree, DecisionsAreCurrent,
      Approved, Answer
<1>21. ASSUME NEW c \in Calls, AnswerFails(c) PROVE DecisionsAreCurrent'
  BY <1>21 DEF TypeOK, CheckpointsAgree, DecisionsAreCurrent, Approved, AnswerFails
<1>22. ASSUME NEW c \in Calls, StartTool(c) PROVE DecisionsAreCurrent'
  <2>1. /\ mem' = ck' /\ status' = "running"
        /\ ck'.done = done' /\ ck'.turn = turn /\ ck'.perm = perm
        /\ done' = [done EXCEPT ![c] = IF @ = NoResult THEN Interrupted ELSE @]
        /\ done' \in [Calls -> Results]
    BY <1>22, SaveBatchFields DEF StartTool, TypeOK, Interrupted, Results
  <2>2. QED
    BY <1>22, <2>1 DEF TypeOK, CheckpointsAgree, DecisionsAreCurrent, Approved,
        StartTool
<1>23. ASSUME NEW c \in Calls, BeginEffect(c) PROVE DecisionsAreCurrent'
  BY <1>23 DEF TypeOK, CheckpointsAgree, DecisionsAreCurrent, Approved, BeginEffect
<1>24. ASSUME NEW c \in Calls, NEW v \in {"ok", "error"}, EndTool(c, v) PROVE DecisionsAreCurrent'
  BY <1>24 DEF TypeOK, CheckpointsAgree, DecisionsAreCurrent, Approved, EndTool
<1>25. ASSUME NEW c \in Calls, SaveEnd(c) PROVE DecisionsAreCurrent'
  <2>1. /\ mem' = ck' /\ status' = "running"
        /\ ck'.done = done' /\ ck'.turn = turn /\ ck'.perm = perm
        /\ done' = [done EXCEPT ![c] = ended[c]]
        /\ done' \in [Calls -> Results]
    BY <1>25, SaveBatchFields DEF SaveEnd, TypeOK
  <2>2. QED
    BY <1>25, <2>1 DEF TypeOK, CheckpointsAgree, DecisionsAreCurrent, Approved,
        SaveEnd
<1>26. CASE BatchDone
  BY <1>26 DEF TypeOK, CheckpointsAgree, DecisionsAreCurrent, Approved, BatchDone
<1>27. CASE AppendHint
  BY <1>27 DEF TypeOK, CheckpointsAgree, DecisionsAreCurrent, Approved, AppendHint
<1>28. CASE AppendResults
  BY <1>28 DEF TypeOK, CheckpointsAgree, DecisionsAreCurrent, Approved, AppendResults
<1>29. CASE SaveResults
  <2>1. /\ mem' = ck' /\ status' = "running"
        /\ ck'.done = done /\ ck'.turn = turn /\ ck'.perm = perm
    BY <1>29, SaveBatchFields DEF SaveResults, TypeOK
  <2>2. QED
    BY <1>29, <2>1 DEF TypeOK, CheckpointsAgree, DecisionsAreCurrent, Approved,
        SaveResults
<1>30. CASE GuardForcesFinal
  BY <1>30 DEF TypeOK, CheckpointsAgree, DecisionsAreCurrent, Approved,
      GuardForcesFinal
<1>31. CASE GuardStops
  <2>1. /\ mem' = ck' /\ pc' = "down"
        /\ ck'.done = mem.done /\ ck'.turn = mem.turn /\ ck'.perm = mem.perm
    BY <1>31, TerminateFields DEF GuardStops
  <2>2. QED
    BY <1>31, <2>1 DEF TypeOK, CheckpointsAgree, DecisionsAreCurrent, Approved,
        GuardStops
<1>32. CASE EndTurn
  <2>1. /\ mem' = ck' /\ status' = "running"
        /\ ck'.done = mem.done /\ ck'.turn = turn /\ ck'.perm = perm
    <3> DEFINE base == [mem EXCEPT !.turn = turn]
    <3>1. base \in Checkpoints /\ base.done = mem.done /\ base.turn = turn
      BY DEF TypeOK, Checkpoints
    <3>2. QED
      BY <1>32, <3>1, SaveFields DEF EndTurn
  <2>2. QED
    BY <1>32, <2>1 DEF TypeOK, CheckpointsAgree, DecisionsAreCurrent, Approved,
        EndTurn
<1>33. CASE Abort
  <2>1. /\ mem' = ck' /\ pc' = "down"
        /\ ck'.done = mem.done /\ ck'.turn = mem.turn /\ ck'.perm = mem.perm
    BY <1>33, TerminateFields DEF Abort
  <2>2. QED
    BY <1>33, <2>1 DEF TypeOK, CheckpointsAgree, DecisionsAreCurrent, Approved, Abort
<1>34. ASSUME NEW c \in Calls, AbortCall(c) PROVE DecisionsAreCurrent'
  BY <1>34 DEF TypeOK, CheckpointsAgree, DecisionsAreCurrent, Approved, AbortCall
<1>35. CASE AbortTurn
  <2>1. /\ mem' = ck' /\ pc' = "down"
        /\ ck'.done = mem.done /\ ck'.turn = mem.turn /\ ck'.perm = mem.perm
    BY <1>35, TerminateFields DEF AbortTurn
  <2>2. QED
    BY <1>35, <2>1 DEF TypeOK, CheckpointsAgree, DecisionsAreCurrent, Approved,
        AbortTurn
<1>36. ASSUME NEW w \in Workers, WorkerDone(w) PROVE DecisionsAreCurrent'
  BY <1>36 DEF TypeOK, CheckpointsAgree, DecisionsAreCurrent, Approved, WorkerDone
<1>37. CASE Crash
  BY <1>37 DEF TypeOK, CheckpointsAgree, DecisionsAreCurrent, Approved, Crash
<1>38. CASE Abandon
  BY <1>38 DEF TypeOK, CheckpointsAgree, DecisionsAreCurrent, Approved, Abandon
<1>39. CASE UNCHANGED vars
  BY <1>39 DEF DecisionsAreCurrent, Approved, vars
<1>40. QED
  BY <1>1, <1>2, <1>3, <1>4, <1>5, <1>6, <1>7, <1>8, <1>9, <1>10, <1>11, <1>12,
      <1>13, <1>14, <1>15, <1>16, <1>17, <1>18, <1>19, <1>20, <1>21, <1>22, <1>23,
      <1>24, <1>25, <1>26, <1>27, <1>28, <1>29, <1>30, <1>31, <1>32, <1>33, <1>34,
      <1>35, <1>36, <1>37, <1>38, <1>39 DEF Next, RunStep

(* A tool runs only on an approval given in its own turn: neither a resume  *)
(* nor the next turn replays an older one.                                  *)
THEOREM ApprovalIsOfTheTurn == Spec => ApprovedThisTurn
<1>1. Init => ApprovalInv
  BY OnceInit DEF ApprovalInv, DecisionsAreCurrent, Init, EmptyCheckpoint,
      NoAnswer, BatchPCs
<1>2. ApprovalInv /\ [Next]_vars => ApprovalInv'
  BY TypeStep, OnceStep, DecisionsStep DEF ApprovalInv, OnceInv
<1>3. ApprovalInv /\ [Next]_vars =>
        [\A c \in Calls : execs'[c] # execs[c] => Approved(c)]_vars
  <2> SUFFICES ASSUME ApprovalInv, Next, NEW c \in Calls, execs'[c] # execs[c]
               PROVE  Approved(c)
    BY DEF vars, history
  <2>1. PICK d \in Calls : BeginEffect(d)
    BY DEF Next, RunStep, history, Resume, Crash, Abandon, WorkerDone,
      SaveStarted, AppendPrompt, SavePrompt, QueueCrashed, Woken, MaxTurnsReached,
      TakeNotes, AppendNote, StartTurn, SaveRequest, ProviderReply, ProviderFails,
      AppendReply, SaveReply, Finish, RecoverBatch, AskPermission, Resolved, Answer,
      AnswerFails, StartTool, EndTool, SaveEnd, BatchDone, AppendHint,
      AppendResults, SaveResults, GuardForcesFinal, GuardStops, EndTurn, Abort,
      AbortCall, AbortTurn
  <2>2. verdict[c] = "allow" /\ pc = "tools"
    BY <2>1 DEF BeginEffect, ApprovalInv, OnceInv, TypeOK
  <2>3. QED
    BY <2>2 DEF ApprovalInv, DecisionsAreCurrent, BatchPCs
<1>4. QED
  BY <1>1, <1>2, <1>3, PTL DEF Spec, ApprovedThisTurn


-----------------------------------------------------------------------------
(* What the model is told about its calls *)

Answered(c) == \E i \in DOMAIN log : log[i].kind = "results" /\ c \in AnsweredBy(log[i])

(* What makes RecordedResultIsReported inductive: an answered call has left *)
(* a trace that keeps it from being started again, and in a batch a result  *)
(* that is recorded is the one in hand, but for the call that just ended.   *)
ReportsInv ==
  /\ RecordedResultIsReported
  /\ pc \in {"collect", "results"} => todo = {}
  /\ \A c \in Calls :
       /\ Answered(c) => ended[c] # NoResult \/ ck.done[c] # NoResult
       /\ Answered(c) /\ ~resumed /\ pc # "down" => ended[c] # NoResult
       /\ c \in todo \cup running => ~Answered(c)
       /\ pc \in BatchPCs /\ ended[c] # NoResult => done[c] = ended[c] \/ c \in running
       /\ pc \in BatchPCs /\ done[c] # NoResult =>
            ended[c] # NoResult \/ resumed \/ c \in running

(* The history with one more message.                                       *)
LEMMA Appended ==
  ASSUME TypeOK, NEW m \in Messages, log' = Append(log, m)
  PROVE  /\ DOMAIN log = 1..Len(log) /\ Len(log) \in Nat
         /\ DOMAIN log' = 1..(Len(log) + 1) /\ Len(log') = Len(log) + 1
         /\ \A i \in DOMAIN log : log'[i] = log[i]
         /\ log'[Len(log) + 1] = m
  BY DEF TypeOK

(* A message that answers nothing leaves what the model was told as it was. *)
LEMMA SameAnswers ==
  ASSUME TypeOK, NEW m \in Messages, m.kind # "results",
         log' \in {log, Append(log, m)}, ended' = ended
  PROVE  /\ \A c \in Calls : Answered(c)' <=> Answered(c)
         /\ RecordedResultIsReported => RecordedResultIsReported'
<1>1. CASE log' = log
  BY <1>1 DEF Answered, RecordedResultIsReported, AnswersFor
<1>2. CASE log' = Append(log, m)
  <2>1. \A i \in DOMAIN log' : log'[i].kind = "results" => i \in DOMAIN log /\ log'[i] = log[i]
    BY <1>2, Appended
  <2>2. \A i \in DOMAIN log : i \in DOMAIN log' /\ log'[i] = log[i]
    BY <1>2, Appended
  <2>3. QED
    BY <2>1, <2>2 DEF Answered, RecordedResultIsReported, AnswersFor
<1>3. QED
  BY <1>1, <1>2

(* A step that records nothing and answers nothing.                         *)
LEMMA NothingReported ==
  ASSUME TypeOK, BatchInOrder, ReportsInv,
         NEW m \in Messages, m.kind # "results", log' \in {log, Append(log, m)},
         ended' = ended, ck'.done = ck.done, todo' \subseteq todo, running' \subseteq running,
         pc' \notin BatchPCs \/ (pc \in BatchPCs /\ UNCHANGED <<done, running>>),
         pc' \in {"collect", "results"} => todo' = {},
         resumed' \/ pc' = "down" \/ (resumed' = resumed /\ pc # "down")
  PROVE  ReportsInv'
<1>1. \A c \in Calls : Answered(c)' <=> Answered(c)
  BY SameAnswers
<1>2. RecordedResultIsReported'
  BY SameAnswers DEF ReportsInv
<1>3. QED
  BY <1>1, <1>2 DEF ReportsInv, BatchPCs

(* Each step keeps what is reported beside what is recorded: a result is   *)
(* reported after the save, and a process that comes back reports from the *)
(* checkpoint.                                                             *)
LEMMA ReportsStep ==
  ASSUME OnceInv, ReportsInv, [Next]_vars
  PROVE  ReportsInv'
<1> USE DEF durable, batch, loopvars, acct, session, history
<1>0. TypeOK /\ CheckpointsAgree /\ BatchInOrder
  BY DEF OnceInv
<1>a. User \in Messages /\ User.kind # "results"
  BY DEF Messages, User
<1>1. CASE SaveStarted
  <2>1. ck'.done = ck.done
    BY <1>0, <1>1, SaveFields DEF SaveStarted, TypeOK, CheckpointsAgree
  <2>2. QED
    BY <1>0, <1>a, <1>1, <2>1, NothingReported DEF SaveStarted, BatchPCs
<1>2. CASE AppendPrompt
  BY <1>0, <1>a, <1>2, NothingReported DEF AppendPrompt, BatchPCs
<1>3. CASE SavePrompt
  <2>1. ck'.done = ck.done
    BY <1>0, <1>3, SaveFields DEF SavePrompt, TypeOK, CheckpointsAgree
  <2>2. QED
    BY <1>0, <1>a, <1>3, <2>1, NothingReported DEF SavePrompt, BatchPCs
<1>4. CASE Resume
  BY <1>0, <1>a, <1>4, NothingReported DEF Resume, BatchPCs
<1>5. ASSUME NEW w \in Workers, QueueCrashed(w) PROVE ReportsInv'
  BY <1>0, <1>a, <1>5, NothingReported DEF QueueCrashed, BatchPCs
<1>6. CASE Woken
  <2>1. ck'.done = ck.done
    BY <1>0, <1>6, SaveFields DEF Woken, TypeOK, CheckpointsAgree
  <2>2. QED
    BY <1>0, <1>a, <1>6, <2>1, NothingReported DEF Woken, BatchPCs
<1>7. CASE MaxTurnsReached
  <2>1. ck'.done = ck.done /\ pc' = "down"
    BY <1>0, <1>7, TerminateFields DEF MaxTurnsReached, CheckpointsAgree
  <2>2. QED
    BY <1>0, <1>a, <1>7, <2>1, NothingReported DEF MaxTurnsReached, BatchPCs
<1>8. CASE TakeNotes
  BY <1>0, <1>a, <1>8, NothingReported DEF TakeNotes, BatchPCs
<1>9. CASE AppendNote
  <2>1. Head(drain) \in Notes
    BY <1>0, <1>9 DEF TypeOK, AppendNote
  <2>2. Head(drain) \in Messages /\ Head(drain).kind # "results"
    BY <2>1 DEF Messages, Notes
  <2>3. QED
    BY <1>0, <1>9, <2>2, NothingReported DEF AppendNote, BatchPCs
<1>10. CASE StartTurn
  BY <1>0, <1>a, <1>10, NothingReported DEF StartTurn, BatchPCs
<1>11. CASE SaveRequest
  <2>1. ck'.done = ck.done
    <3> DEFINE base == [mem EXCEPT !.turn = turn]
    <3>1. base \in Checkpoints /\ base.done = mem.done
      BY <1>0 DEF TypeOK, Checkpoints
    <3>2. QED
      BY <1>0, <1>11, <3>1, SaveFields DEF SaveRequest, CheckpointsAgree
  <2>2. QED
    BY <1>0, <1>a, <1>11, <2>1, NothingReported DEF SaveRequest, BatchPCs
<1>12. ASSUME NEW S \in SUBSET Calls, ProviderReply(S) PROVE ReportsInv'
  BY <1>0, <1>a, <1>12, NothingReported DEF ProviderReply, BatchPCs
<1>13. CASE ProviderFails
  <2>1. ck'.done = ck.done /\ pc' = "down"
    BY <1>0, <1>13, TerminateFields DEF ProviderFails, CheckpointsAgree
  <2>2. QED
    BY <1>0, <1>a, <1>13, <2>1, NothingReported DEF ProviderFails, BatchPCs
<1>14. CASE AppendReply
  <2>1. asm \in Messages /\ asm.kind # "results"
    BY <1>0, <1>14 DEF TypeOK, AppendReply, Replies, Messages
  <2>2. QED
    BY <1>0, <1>14, <2>1, NothingReported DEF AppendReply, BatchPCs
<1>15. CASE SaveReply
  <2>1. ck'.done = ck.done
    <3> DEFINE base == [mem EXCEPT !.turn = turn, !.asst = asm]
    <3>1. base \in Checkpoints /\ base.done = mem.done
      BY <1>0 DEF TypeOK, Checkpoints
    <3>2. QED
      BY <1>0, <1>15, <3>1, SaveFields DEF SaveReply, CheckpointsAgree
  <2>2. QED
    BY <1>0, <1>a, <1>15, <2>1, NothingReported DEF SaveReply, BatchPCs
<1>16. CASE Finish
  <2>1. ck'.done = ck.done /\ pc' = "down"
    BY <1>0, <1>16, TerminateFields DEF Finish, CheckpointsAgree
  <2>2. QED
    BY <1>0, <1>a, <1>16, <2>1, NothingReported DEF Finish, BatchPCs
<1>17. CASE RecoverBatch
  <2>1. ck'.done = Recovered
    <3> DEFINE base == [mem EXCEPT !.turn = turn, !.asst = asm, !.done = Recovered]
    <3>1. Recovered \in [Calls -> Results]
      BY <1>0 DEF TypeOK, Recovered, Checkpoints, NoResult, Results
    <3>2. base \in Checkpoints /\ base.done = Recovered
      BY <1>0, <3>1 DEF TypeOK, Checkpoints
    <3>3. QED
      BY <1>17, <3>2, SaveFields DEF RecoverBatch
  <2>2. \A c \in Calls : Answered(c)' <=> Answered(c)
    BY <1>0, <1>a, <1>17, SameAnswers DEF RecoverBatch
  <2>3. RecordedResultIsReported'
    BY <1>0, <1>a, <1>17, SameAnswers DEF RecoverBatch, ReportsInv
  <2>4. /\ UNCHANGED <<resumed, ended>> /\ pc = "dispatch" /\ pc' = "permission"
        /\ done' = Recovered /\ running' = {} /\ mem.done = ck.done /\ turn = mem.turn
        /\ todo' \subseteq {c \in Calls : Recovered[c] = NoResult}
    BY <1>0, <1>17 DEF RecoverBatch, CheckpointsAgree, TypeOK, Replies, NoMsg
  <2>5. \A c \in Calls : /\ ended[c] # NoResult => Recovered[c] = ended[c]
                         /\ ended[c] = NoResult /\ resumed => Recovered[c] = ck.done[c]
                         /\ ended[c] = NoResult /\ ~resumed => Recovered[c] = NoResult
    BY <2>4 DEF Recovered
  <2>6. ASSUME NEW c \in Calls
        PROVE  /\ Answered(c) => Recovered[c] # NoResult
               /\ Recovered[c] # NoResult => ended[c] # NoResult \/ resumed
    BY <2>4, <2>5 DEF ReportsInv
  <2>7. QED
    BY <2>1, <2>2, <2>3, <2>4, <2>5, <2>6 DEF ReportsInv
<1>18. CASE AskPermission
  <2>1. ck'.done = ck.done
    BY <1>0, <1>18, SaveBatchFields DEF AskPermission, TypeOK, CheckpointsAgree, BatchPCs
  <2>2. QED
    BY <1>0, <1>a, <1>18, <2>1, NothingReported DEF AskPermission, BatchPCs
<1>19. CASE Resolved
  BY <1>0, <1>a, <1>19, NothingReported DEF Resolved, BatchPCs
<1>20. ASSUME NEW c \in Calls, NEW a \in {"allow", "deny"}, Answer(c, a) PROVE ReportsInv'
  BY <1>0, <1>a, <1>20, NothingReported DEF Answer, BatchPCs
<1>21. ASSUME NEW c \in Calls, AnswerFails(c) PROVE ReportsInv'
  BY <1>0, <1>a, <1>21, NothingReported DEF AnswerFails, BatchPCs
<1>22. ASSUME NEW c \in Calls, StartTool(c) PROVE ReportsInv'
  <2>1. done' \in [Calls -> Results]
    BY <1>0, <1>22 DEF StartTool, TypeOK, Interrupted, Results
  <2>2. ck'.done = done'
    BY <1>0, <1>22, <2>1, SaveBatchFields DEF StartTool, Interrupted, Results
  <2>3. \A e \in Calls : Answered(e)' <=> Answered(e)
    BY <1>0, <1>a, <1>22, SameAnswers DEF StartTool
  <2>4. RecordedResultIsReported'
    BY <1>0, <1>a, <1>22, SameAnswers DEF StartTool, ReportsInv
  <2>5. /\ UNCHANGED <<resumed, ended, pc>> /\ pc = "tools" /\ ck.done = done
        /\ running' = running \cup {c} /\ todo' = todo \ {c} /\ c \in todo
        /\ \A e \in Calls : e # c => done'[e] = done[e]
        /\ done[c] # NoResult => done'[c] = done[c]
    BY <1>0, <1>22 DEF StartTool, CheckpointsAgree, TypeOK, BatchPCs
  <2>6. QED
    BY <2>2, <2>3, <2>4, <2>5 DEF ReportsInv, BatchPCs
<1>23. ASSUME NEW c \in Calls, BeginEffect(c) PROVE ReportsInv'
  BY <1>0, <1>a, <1>23, NothingReported DEF BeginEffect, BatchPCs
<1>24. ASSUME NEW c \in running, NEW r \in Results, r # NoResult,
              ended' = [ended EXCEPT ![c] = r],
              pc \in BatchPCs, pc' \in BatchPCs \ {"collect", "results"},
              UNCHANGED <<log, ck, resumed, batch>>
       PROVE  ReportsInv'
  <2>1. \A e \in Calls : Answered(e)' <=> Answered(e)
    BY <1>24 DEF Answered
  <2>2. c \in Calls /\ ~Answered(c) /\ \A e \in Calls : e # c => ended'[e] = ended[e]
    BY <1>0, <1>24 DEF TypeOK, ReportsInv
  <2>3. RecordedResultIsReported'
    BY <1>24, <2>2 DEF RecordedResultIsReported, AnswersFor, Answered, ReportsInv
  <2>4. ended'[c] # NoResult
    BY <1>0, <1>24, <2>2 DEF TypeOK
  <2>5. QED
    BY <1>24, <2>1, <2>2, <2>3, <2>4 DEF ReportsInv, BatchPCs
<1>25. ASSUME NEW c \in Calls, SaveEnd(c) PROVE ReportsInv'
  <2>1. done' \in [Calls -> Results]
    BY <1>0, <1>25 DEF SaveEnd, TypeOK
  <2>2. ck'.done = done'
    BY <1>0, <1>25, <2>1, SaveBatchFields DEF SaveEnd
  <2>3. \A e \in Calls : Answered(e)' <=> Answered(e)
    BY <1>0, <1>a, <1>25, SameAnswers DEF SaveEnd
  <2>4. RecordedResultIsReported'
    BY <1>0, <1>a, <1>25, SameAnswers DEF SaveEnd, ReportsInv
  <2>5. /\ UNCHANGED <<resumed, ended, todo>> /\ pc \in BatchPCs /\ pc' \in {"tools", "aborting"}
        /\ ck.done = done /\ running' = running \ {c} /\ ended[c] # NoResult
        /\ \A e \in Calls : e # c => done'[e] = done[e]
        /\ done'[c] = ended[c]
    BY <1>0, <1>25 DEF SaveEnd, CheckpointsAgree, TypeOK, BatchPCs, JustEnded
  <2>6. QED
    BY <2>2, <2>3, <2>4, <2>5 DEF ReportsInv, BatchPCs
<1>26. CASE BatchDone
  BY <1>0, <1>a, <1>26, NothingReported DEF BatchDone, BatchPCs
<1>27. CASE AppendHint
  <2>1. Hint \in Messages /\ Hint.kind # "results"
    BY DEF Messages, Hint
  <2>2. QED
    BY <1>0, <1>27, <2>1, NothingReported DEF AppendHint, BatchPCs, ReportsInv
<1>28. CASE AppendResults
  <2> DEFINE f == [c \in Calls |-> IF c \in asm.calls THEN done[c] ELSE NoResult]
  <2>1. ToolResults(f) \in Messages /\ ToolResults(f).answers = f /\ ToolResults(f).kind = "results"
    BY <1>0 DEF TypeOK, NoResult, Results, ToolResults, Messages
  <2>2. /\ UNCHANGED <<resumed, ended, todo, running, ck, done>> /\ pc = "results"
        /\ pc' = "saveResults" /\ running = {} /\ ck.done = done
        /\ log' \in {log, Append(log, ToolResults(f))}
    BY <1>0, <1>28 DEF AppendResults, CheckpointsAgree, BatchInOrder, BatchPCs, ToolPCs
  <2>3. \A c \in Calls : f[c] # NoResult => f[c] = done[c]
    OBVIOUS
  <2> HIDE DEF f
  <2>4. CASE log' = log
    BY <1>0, <1>a, <2>2, <2>4, NothingReported DEF BatchPCs
  <2>5. CASE log' = Append(log, ToolResults(f))
    <3>1. \A i \in DOMAIN log' : \/ i \in DOMAIN log /\ log'[i] = log[i]
                                 \/ log'[i] = ToolResults(f)
      BY <1>0, <2>1, <2>5, Appended
    <3>2. \A c \in Calls : Answered(c)' => Answered(c) \/ done[c] # NoResult
      BY <2>1, <2>3, <3>1 DEF Answered, AnsweredBy
    <3>3. \A c \in Calls : ended[c] # NoResult => done[c] = ended[c]
      BY <2>2 DEF ReportsInv, BatchPCs
    <3>4. RecordedResultIsReported'
      BY <2>1, <2>2, <2>3, <3>1, <3>3 DEF RecordedResultIsReported, AnswersFor, AnsweredBy,
         ReportsInv
    <3>5. todo = {}
      BY <2>2 DEF ReportsInv
    <3>6. QED
      BY <2>2, <3>5, <3>2, <3>3, <3>4 DEF ReportsInv, BatchPCs
  <2>6. QED
    BY <2>2, <2>4, <2>5
<1>29. CASE SaveResults
  <2>1. ck'.done = ck.done
    BY <1>0, <1>29, SaveBatchFields DEF SaveResults, TypeOK, CheckpointsAgree, BatchPCs
  <2>2. QED
    BY <1>0, <1>a, <1>29, <2>1, NothingReported DEF SaveResults, BatchPCs
<1>30. CASE GuardForcesFinal
  <2>1. Reminder \in Messages /\ Reminder.kind # "results"
    BY DEF Messages, Reminder
  <2>2. QED
    BY <1>0, <1>30, <2>1, NothingReported DEF GuardForcesFinal, BatchPCs
<1>31. CASE GuardStops
  <2>1. ck'.done = ck.done /\ pc' = "down"
    BY <1>0, <1>31, TerminateFields DEF GuardStops, CheckpointsAgree
  <2>2. QED
    BY <1>0, <1>a, <1>31, <2>1, NothingReported DEF GuardStops, BatchPCs
<1>32. CASE EndTurn
  <2>1. ck'.done = ck.done
    <3> DEFINE base == [mem EXCEPT !.turn = turn]
    <3>1. base \in Checkpoints /\ base.done = mem.done
      BY <1>0 DEF TypeOK, Checkpoints
    <3>2. QED
      BY <1>0, <1>32, <3>1, SaveFields DEF EndTurn, CheckpointsAgree
  <2>2. QED
    BY <1>0, <1>a, <1>32, <2>1, NothingReported DEF EndTurn, BatchPCs
<1>33. CASE Abort
  <2>1. ck'.done = ck.done /\ pc' = "down"
    BY <1>0, <1>33, TerminateFields DEF Abort, CheckpointsAgree
  <2>2. QED
    BY <1>0, <1>a, <1>33, <2>1, NothingReported DEF Abort, BatchPCs
<1>35. CASE AbortTurn
  <2>1. ck'.done = ck.done /\ pc' = "down"
    BY <1>0, <1>35, TerminateFields DEF AbortTurn, CheckpointsAgree
  <2>2. QED
    BY <1>0, <1>a, <1>35, <2>1, NothingReported DEF AbortTurn, BatchPCs
<1>36. ASSUME NEW w \in Workers, WorkerDone(w) PROVE ReportsInv'
  BY <1>36 DEF WorkerDone, ReportsInv, RecordedResultIsReported, Answered, AnswersFor
<1>37. CASE Crash \/ Abandon
  BY <1>0, <1>a, <1>37, NothingReported DEF Crash, Abandon, BatchPCs
<1>39. CASE UNCHANGED vars
  BY <1>39 DEF vars, ReportsInv, RecordedResultIsReported, Answered, AnswersFor
<1>40. ASSUME NEW c \in Calls, AbortCall(c) \/ \E v \in {"ok", "error"} : EndTool(c, v)
       PROVE  ReportsInv'
  <2>1. PICK v \in {"ok", "error"} : ended' = [ended EXCEPT ![c] = Result(v, turn)]
    BY <1>40 DEF AbortCall, EndTool
  <2>2. Result(v, turn) \in Results /\ Result(v, turn) # NoResult
    BY <1>0 DEF Result, Results, NoResult, TypeOK
  <2>3. /\ c \in running /\ pc \in BatchPCs /\ pc' \in BatchPCs
        /\ UNCHANGED <<log, ck, resumed, batch>> /\ pc' \notin {"collect", "results"}
    BY <1>40 DEF AbortCall, EndTool, BatchPCs
  <2>4. QED
    BY <1>24, <2>1, <2>2, <2>3
<1>41. QED
  BY <1>1, <1>2, <1>3, <1>4, <1>5, <1>6, <1>7, <1>8, <1>9, <1>10, <1>11, <1>12,
     <1>13, <1>14, <1>15, <1>16, <1>17, <1>18, <1>19, <1>20, <1>21, <1>22, <1>23,
     <1>25, <1>26, <1>27, <1>28, <1>29, <1>30, <1>31, <1>32, <1>33,
     <1>35, <1>36, <1>37, <1>39, <1>40 DEF Next, RunStep

(* A call whose end is recorded is reported to the model with the result    *)
(* recorded, wherever a crash fell between the end, its save, the append of *)
(* the results and its save, and even if the provider reuses ids.           *)
THEOREM RecordedResultsAreReported == Spec => []RecordedResultIsReported
<1>1. Init => ReportsInv
  BY DEF Init, ReportsInv, RecordedResultIsReported, Answered, AnswersFor, BatchPCs
<1>2. OnceInv /\ ReportsInv /\ [Next]_vars => ReportsInv'
  BY ReportsStep
<1>3. ReportsInv => RecordedResultIsReported
  BY DEF ReportsInv
<1>4. QED
  BY <1>1, <1>2, <1>3, OnceInvariant, PTL DEF Spec

-----------------------------------------------------------------------------
(* One reply for each turn, in a run without background workers: a          *)
(* notification of a crashed one is drained behind a reply that was not     *)
(* saved, and the reply is then not recognised as the turn's.               *)

NReplies == Cardinality({i \in DOMAIN log : log[i].kind = "assistant"})
Early == {"none", "started", "user_appended"}

(* The reply that resume goes on with instead of asking the provider.       *)
SavedReply == ck.phase \in Redispatch /\ ck.asst # NoMsg
UnsavedReply == ck.phase = "provider_pending" /\ LastMsg.kind = "assistant"

(* What the checkpoint of a run that can be resumed says of the history.    *)
SavedTurn ==
  /\ ck.phase \notin Terminal
  /\ ck.phase \in Early => NReplies <= ck.turn
  /\ ck.phase = "provider_pending" => NReplies <= ck.turn \/ UnsavedReply
  /\ ck.phase \in Redispatch => SavedReply

(* What the place in the turn says of the checkpoint and the history.       *)
PlaceInTurn ==
  /\ pc \notin {"begin", "down", "dispatch"} => mem = ck
  /\ pc \in {"begin", "prompt", "savePrompt"} => ck.phase \in Early
  /\ pc \in {"wake", "top", "drain"} =>
       NReplies <= turn \/ (resumed /\ turn = ck.turn /\ (SavedReply \/ UnsavedReply))
  /\ pc \in {"request", "provider", "reply"} => NReplies <= turn
  /\ pc \in {"provider", "reply", "saveReply"} =>
       ck.phase = "provider_pending" /\ ck.turn = turn
  /\ pc = "saveReply" => UnsavedReply /\ LastMsg = asm
  /\ pc = "dispatch" => (SavedReply /\ asm = ck.asst) \/ (UnsavedReply /\ asm = LastMsg)
  /\ pc \in BatchPCs => SavedReply /\ ck.asst = asm
  /\ pc \in {"guard", "endTurn"} => ck.phase = "tool_results_appended"

(* What makes OneReplyPerTurn inductive.                                    *)
TurnInv ==
  /\ pending = <<>> /\ drain = <<>>
  /\ NReplies <= ck.turn + 1 /\ ck.turn <= turn
  /\ status \notin Terminal => SavedTurn
  /\ PlaceInTurn

(* What a save leaves of the turn.                                          *)
LEMMA SaveTurn ==
  ASSUME NEW base \in Checkpoints, NEW ph, NEW st, Save(base, ph, st)
  PROVE  /\ mem' = ck' /\ status' = st
         /\ ck'.phase = ph /\ ck'.turn = base.turn /\ ck'.asst = base.asst
BY DEF Save, Stamped, Checkpoints

(* What _save_batch saves of the turn the batch belongs to.                *)
LEMMA SaveBatchTurn ==
  ASSUME TypeOK, NEW d \in [Calls -> Results], NEW ph, NEW st, SaveBatch(d, ph, st)
  PROVE  /\ mem' = ck' /\ status' = st
         /\ ck'.phase = ph /\ ck'.turn = turn /\ ck'.asst = asm
<1> DEFINE base == [mem EXCEPT !.turn = turn, !.asst = asm, !.done = d]
<1>1. base \in Checkpoints /\ base.turn = turn /\ base.asst = asm
  BY DEF TypeOK, Checkpoints
<1>2. QED
  BY <1>1, SaveTurn DEF SaveBatch

(* Replies are counted by a natural number, and only a reply adds to it.    *)
LEMMA RepliesCounted ==
  ASSUME TypeOK
  PROVE  /\ NReplies \in Nat
         /\ log' = log => NReplies' = NReplies
         /\ \A m \in Messages : log' = Append(log, m) =>
              NReplies' = IF m.kind = "assistant" THEN NReplies + 1 ELSE NReplies
<1> DEFINE R == {i \in DOMAIN log : log[i].kind = "assistant"}
<1>1. IsFiniteSet(R)
  <2>1. DOMAIN log = 1..Len(log) /\ Len(log) \in Nat
    BY DEF TypeOK
  <2>2. IsFiniteSet(1..Len(log)) /\ R \subseteq 1..Len(log)
    BY <2>1, FS_Interval
  <2>3. QED
    BY <2>2, FS_Subset
<1>2. NReplies \in Nat
  BY <1>1, FS_CardinalityType DEF NReplies
<1>3. log' = log => NReplies' = NReplies
  BY DEF NReplies
<1>4. ASSUME NEW m \in Messages, log' = Append(log, m)
      PROVE  NReplies' = IF m.kind = "assistant" THEN NReplies + 1 ELSE NReplies
  <2> DEFINE n == Len(log) + 1
  <2>1. n \notin R
    BY <1>4, Appended
  <2>2. CASE m.kind = "assistant"
    <3>1. {i \in DOMAIN log' : log'[i].kind = "assistant"} = R \cup {n}
      BY <1>4, <2>2, Appended
    <3>2. Cardinality(R \cup {n}) = Cardinality(R) + 1
      <4> HIDE DEF R, n
      <4> QED
        BY <1>1, <2>1, FS_AddElement
    <3>3. QED
      BY <2>2, <3>1, <3>2 DEF NReplies
  <2>3. CASE m.kind # "assistant"
    <3>1. {i \in DOMAIN log' : log'[i].kind = "assistant"} = R
      BY <1>4, <2>3, Appended
    <3>2. QED
      BY <2>3, <3>1 DEF NReplies
  <2>4. QED
    BY <2>2, <2>3
<1>5. QED
  BY <1>2, <1>3, <1>4

(* A step of the batch in progress, with a save that stays in it or none.   *)
LEMMA BatchTurn ==
  ASSUME OnceInv, TurnInv, pc \in BatchPCs, pc' \in BatchPCs,
         UNCHANGED <<asm, turn, pending, drain>>,
         NEW m \in Messages, m.kind # "assistant", log' \in {log, Append(log, m)},
         \/ UNCHANGED <<mem, ck, status>>
         \/ /\ mem' = ck' /\ ck'.phase \in Redispatch /\ ck'.asst = asm /\ ck'.turn = turn
            /\ status' \notin Terminal
  PROVE  TurnInv'
<1>1. NReplies' = NReplies /\ NReplies \in Nat
  BY RepliesCounted DEF OnceInv
<1>2. ck.turn = turn /\ SavedReply /\ ck.asst = asm /\ mem = ck
  BY DEF TurnInv, PlaceInTurn, OnceInv, CheckpointsAgree, BatchPCs
<1>3. ck'.turn = turn /\ ck'.asst = asm /\ ck'.phase \in Redispatch /\ mem' = ck' /\ SavedReply'
  BY <1>2 DEF SavedReply
<1>4. ck'.phase \notin Terminal \cup Early \cup {"provider_pending"}
  BY <1>3 DEF Redispatch, Terminal, Early
<1>5. SavedTurn'
  BY <1>3, <1>4 DEF SavedTurn
<1>6. PlaceInTurn'
  BY <1>3 DEF PlaceInTurn, BatchPCs
<1>7. QED
  BY <1>1, <1>2, <1>3, <1>5, <1>6 DEF TurnInv

(* A step that ends the run, or the process.                                *)
LEMMA DownTurn ==
  ASSUME OnceInv, TurnInv, pc # "down", pc' = "down", log' = log, turn' = turn,
         pending' = <<>>, drain' = <<>>,
         UNCHANGED <<ck, status>> \/ \E st \in Terminal : Terminate(st)
  PROVE  TurnInv'
<1>1. NReplies' = NReplies
  BY RepliesCounted DEF OnceInv
<1>2. ck'.turn = ck.turn
  BY TerminateFields DEF OnceInv, CheckpointsAgree
<1>3. status' \notin Terminal => UNCHANGED <<ck, status>>
  BY DEF Terminate
<1>4. UNCHANGED <<ck, status>> /\ SavedTurn => SavedTurn'
  BY <1>1 DEF SavedTurn, SavedReply, UnsavedReply, LastMsg
<1>5. PlaceInTurn'
  BY DEF PlaceInTurn, BatchPCs
<1>6. QED
  BY <1>1, <1>2, <1>3, <1>4, <1>5 DEF TurnInv

(* Each step keeps a saved turn beside the reply it was saved with.        *)
LEMMA TurnStep ==
  ASSUME Workers = {}, OnceInv, TurnInv, [Next]_vars
  PROVE  TurnInv'
<1> USE DEF durable, batch, loopvars, acct, session, history
<1>0. /\ TypeOK /\ CheckpointsAgree /\ BatchInOrder
      /\ pending = <<>> /\ drain = <<>> /\ PlaceInTurn
      /\ NReplies \in Nat /\ turn \in Nat /\ ck.turn \in Nat
      /\ log' = log => NReplies' = NReplies /\ LastMsg' = LastMsg
  BY RepliesCounted DEF OnceInv, TurnInv, TypeOK, Checkpoints, LastMsg
<1>a. User \in Messages /\ User.kind # "assistant"
  BY DEF Messages, User
<1>b. pc # "down" => mem.turn = ck.turn /\ status \notin Terminal /\ SavedTurn
  BY <1>0 DEF CheckpointsAgree, TurnInv
<1>1. CASE SaveStarted
  <2>1. /\ mem' = ck' /\ status' = "running" /\ ck'.phase = "started" /\ ck'.turn = ck.turn
    BY <1>0, <1>1, <1>b, SaveTurn DEF SaveStarted, TypeOK
  <2>2. NReplies <= ck.turn
    BY <1>0, <1>1, <1>b DEF SaveStarted, PlaceInTurn, SavedTurn
  <2>3. QED
    BY <1>0, <1>1, <2>1, <2>2 DEF SaveStarted, TurnInv, SavedTurn, PlaceInTurn, Early, Terminal,
       Redispatch, BatchPCs
<1>2. CASE AppendPrompt
  <2>1. NReplies' = NReplies
    BY <1>0, <1>2, <1>a, RepliesCounted DEF AppendPrompt
  <2>2. ck.phase \in Early /\ mem = ck
    BY <1>0, <1>2 DEF AppendPrompt, PlaceInTurn
  <2>3. QED
    BY <1>0, <1>2, <1>b, <2>1, <2>2 DEF AppendPrompt, TurnInv, SavedTurn, PlaceInTurn, Early,
       Terminal, Redispatch, BatchPCs
<1>3. CASE SavePrompt
  <2>1. mem' = ck' /\ status' = "running" /\ ck'.phase = "user_appended" /\ ck'.turn = ck.turn
    BY <1>0, <1>3, <1>b, SaveTurn DEF SavePrompt, TypeOK
  <2>2. NReplies <= ck.turn /\ ck.turn <= turn
    BY <1>0, <1>3, <1>b DEF SavePrompt, PlaceInTurn, SavedTurn, TurnInv
  <2>3. QED
    BY <1>0, <1>3, <2>1, <2>2 DEF SavePrompt, TurnInv, SavedTurn, PlaceInTurn, Early, Terminal,
       Redispatch, BatchPCs
<1>4. CASE Resume
  <2>1. /\ UNCHANGED <<log, ck, status, pending, drain>> /\ mem' = ck /\ resumed' /\ SavedTurn
        /\ turn' = IF ck.phase \in NextTurnPhases THEN ck.turn + 1 ELSE ck.turn
        /\ pc' = IF ck.phase = "started" THEN "prompt" ELSE "wake"
        /\ NReplies <= ck.turn + 1
    BY <1>4 DEF Resume, TurnInv
  <2>2. NReplies' = NReplies /\ (SavedTurn' <=> SavedTurn) /\ (SavedReply' <=> SavedReply)
        /\ (UnsavedReply' <=> UnsavedReply)
    BY <1>0, <2>1 DEF SavedTurn, SavedReply, UnsavedReply
  <2>3. ck.phase \in Early \cup {"provider_pending"} \cup Redispatch \cup NextTurnPhases
    BY <1>0, <2>1 DEF TypeOK, Checkpoints, Phases, SavedTurn, Terminal, Early, Redispatch,
       NextTurnPhases
  <2>4. NReplies <= turn' \/ (turn' = ck.turn /\ (SavedReply \/ UnsavedReply))
    BY <1>0, <2>1, <2>3 DEF SavedTurn, Early, Redispatch, NextTurnPhases
  <2>5. PlaceInTurn'
    BY <2>1, <2>2, <2>4 DEF PlaceInTurn, Early, BatchPCs
  <2>6. QED
    BY <1>0, <2>1, <2>2, <2>5 DEF TurnInv
<1>6. CASE Woken
  <2>1. UNCHANGED <<log, mem, ck, status, turn, resumed, asm, pending, drain>> /\ pc' = "top"
        /\ pc = "wake"
    BY <1>6 DEF Woken
  <2>2. QED
    BY <1>0, <2>1 DEF TurnInv, SavedTurn, PlaceInTurn, SavedReply, UnsavedReply, BatchPCs
<1>7. CASE MaxTurnsReached \/ Finish \/ GuardStops \/ ProviderFails \/ Abort \/ AbortTurn
  BY <1>0, <1>7, DownTurn DEF MaxTurnsReached, Finish, GuardStops, ProviderFails, Abort, AbortTurn,
     Terminate, Terminal
<1>8. CASE TakeNotes
  <2>1. UNCHANGED <<log, mem, ck, status, turn, resumed, asm, pending, drain>> /\ pc' = "drain"
        /\ pc = "top"
    BY <1>0, <1>8 DEF TakeNotes
  <2>2. QED
    BY <1>0, <2>1 DEF TurnInv, SavedTurn, PlaceInTurn, SavedReply, UnsavedReply, BatchPCs
<1>10. CASE StartTurn
  <2>1. /\ UNCHANGED <<log, ck, status, turn, resumed, pending, drain>> /\ pc = "drain"
        /\ mem = ck
    BY <1>0, <1>10 DEF StartTurn, PlaceInTurn
  <2>2. NReplies' = NReplies /\ (SavedTurn' <=> SavedTurn) /\ (SavedReply' <=> SavedReply)
        /\ (UnsavedReply' <=> UnsavedReply) /\ LastMsg' = LastMsg
    BY <1>0, <2>1 DEF SavedTurn, SavedReply, UnsavedReply
  <2>3. CASE ResumedAssistant /\ asm' = mem.asst /\ pc' = "dispatch" /\ UNCHANGED mem
    <3>1. SavedReply
      BY <2>1, <2>3 DEF ResumedAssistant, SavedReply
    <3>2. QED
      BY <1>0, <2>1, <2>2, <2>3, <3>1 DEF TurnInv, PlaceInTurn, BatchPCs
  <2>4. CASE AdoptedAssistant /\ asm' = LastMsg /\ pc' = "dispatch"
    <3>1. UnsavedReply
      BY <2>1, <2>4 DEF AdoptedAssistant, UnsavedReply
    <3>2. QED
      BY <1>0, <2>1, <2>2, <2>4, <3>1 DEF TurnInv, PlaceInTurn, BatchPCs
  <2>5. CASE ~ResumedAssistant /\ ~AdoptedAssistant /\ pc' = "request" /\ UNCHANGED <<asm, mem>>
    <3>1. NReplies <= turn
      BY <1>0, <2>1, <2>5 DEF PlaceInTurn, ResumedAssistant, AdoptedAssistant, SavedReply,
         UnsavedReply
    <3>2. QED
      BY <1>0, <2>1, <2>2, <2>5, <3>1 DEF TurnInv, PlaceInTurn, BatchPCs
  <2>6. QED
    BY <1>10, <2>3, <2>4, <2>5 DEF StartTurn
<1>11. CASE SaveRequest
  <2>1. /\ mem' = ck' /\ status' = "running" /\ ck'.phase = "provider_pending"
        /\ ck'.turn = turn
    <3> DEFINE base == [mem EXCEPT !.turn = turn]
    <3>1. base \in Checkpoints /\ base.turn = turn
      BY <1>0 DEF TypeOK, Checkpoints
    <3>2. QED
      BY <1>11, <3>1, SaveTurn DEF SaveRequest
  <2>2. NReplies <= turn
    BY <1>0, <1>11 DEF SaveRequest, PlaceInTurn
  <2>3. QED
    BY <1>0, <1>11, <2>1, <2>2 DEF SaveRequest, TurnInv, SavedTurn, PlaceInTurn, Early, Terminal,
       Redispatch, BatchPCs
<1>12. ASSUME NEW S \in SUBSET Calls, ProviderReply(S) PROVE TurnInv'
  BY <1>0, <1>b, <1>12 DEF ProviderReply, TurnInv, SavedTurn, PlaceInTurn, SavedReply, UnsavedReply,
     BatchPCs
<1>14. CASE AppendReply
  <2>1. asm \in Messages /\ asm.kind = "assistant"
    BY <1>0, <1>14 DEF TypeOK, AppendReply, Replies, Messages
  <2>2. NReplies' = NReplies + 1
    BY <1>0, <1>14, <2>1, RepliesCounted DEF AppendReply
  <2>3. LastMsg' = asm
    <3>1. log' # <<>> /\ log'[Len(log')] = asm
      BY <1>0, <1>14, <2>1, Appended DEF AppendReply
    <3>2. QED
      BY <3>1 DEF LastMsg
  <2>4. /\ ck.phase = "provider_pending" /\ ck.turn = turn /\ mem = ck /\ NReplies <= turn
        /\ UNCHANGED <<mem, ck, status, asm, turn, pending, drain>> /\ pc' = "saveReply"
    BY <1>0, <1>14 DEF AppendReply, PlaceInTurn
  <2>5. UnsavedReply'
    BY <2>1, <2>3, <2>4 DEF UnsavedReply
  <2>6. SavedTurn'
    BY <2>4, <2>5 DEF SavedTurn, Terminal, Early, Redispatch
  <2>7. PlaceInTurn'
    BY <2>3, <2>4, <2>5 DEF PlaceInTurn, BatchPCs
  <2>8. QED
    BY <1>0, <2>2, <2>4, <2>6, <2>7 DEF TurnInv
<1>15. CASE SaveReply
  <2>1. /\ mem' = ck' /\ status' = "running" /\ ck'.phase = "assistant_appended"
        /\ ck'.turn = turn /\ ck'.asst = asm
    <3> DEFINE base == [mem EXCEPT !.turn = turn, !.asst = asm]
    <3>1. base \in Checkpoints /\ base.turn = turn /\ base.asst = asm
      BY <1>0 DEF TypeOK, Checkpoints
    <3>2. QED
      BY <1>15, <3>1, SaveTurn DEF SaveReply
  <2>2. asm # NoMsg /\ NReplies <= turn + 1
    BY <1>0, <1>15 DEF SaveReply, PlaceInTurn, UnsavedReply, NoMsg, TurnInv
  <2>3. QED
    BY <1>0, <1>15, <2>1, <2>2 DEF SaveReply, TurnInv, SavedTurn, PlaceInTurn, Early, Terminal,
       Redispatch, BatchPCs, SavedReply
<1>17. CASE RecoverBatch
  <2>1. /\ mem' = ck' /\ status' = "running" /\ ck'.phase = "tool_batch_pending"
        /\ ck'.turn = turn /\ ck'.asst = asm
    <3> DEFINE base == [mem EXCEPT !.turn = turn, !.asst = asm, !.done = Recovered]
    <3>1. Recovered \in [Calls -> Results]
      BY <1>0 DEF TypeOK, Recovered, Checkpoints, NoResult, Results
    <3>2. base \in Checkpoints /\ base.turn = turn /\ base.asst = asm
      BY <1>0, <3>1 DEF TypeOK, Checkpoints
    <3>3. QED
      BY <1>17, <3>2, SaveTurn DEF RecoverBatch
  <2>2. asm # NoMsg /\ NReplies <= turn + 1
    BY <1>0, <1>b, <1>17 DEF RecoverBatch, NoMsg, TurnInv, CheckpointsAgree
  <2>3. QED
    BY <1>0, <1>17, <2>1, <2>2 DEF RecoverBatch, TurnInv, SavedTurn, PlaceInTurn, Early, Terminal,
       Redispatch, BatchPCs, SavedReply
<1>18. CASE AskPermission
  <2>1. \/ UNCHANGED <<mem, ck, status>>
        \/ /\ mem' = ck' /\ ck'.phase = "permission_pending" /\ ck'.asst = asm
           /\ ck'.turn = turn /\ status' = "waiting_permission"
    <3>1. done \in [Calls -> Results]
      BY <1>0 DEF TypeOK
    <3>2. CASE asking' # {}
      BY <1>0, <1>18, <3>1, <3>2, SaveBatchTurn DEF AskPermission
    <3>3. CASE asking' = {}
      BY <1>18, <3>3 DEF AskPermission
    <3>4. QED
      BY <3>2, <3>3
  <2>2. pc \in BatchPCs /\ pc' \in BatchPCs /\ UNCHANGED <<log, asm, turn, pending, drain>>
    BY <1>18 DEF AskPermission, BatchPCs
  <2>3. QED
    BY <1>a, <2>1, <2>2, BatchTurn DEF Redispatch, Terminal
<1>19. CASE Resolved \/ BatchDone
  BY <1>a, <1>19, BatchTurn DEF Resolved, BatchDone, BatchPCs
<1>20. ASSUME NEW c \in Calls,
              \/ \E a \in {"allow", "deny"} : Answer(c, a)
              \/ AnswerFails(c) \/ BeginEffect(c) \/ AbortCall(c)
              \/ \E v \in {"ok", "error"} : EndTool(c, v)
       PROVE  TurnInv'
  BY <1>a, <1>20, BatchTurn DEF Answer, AnswerFails, BeginEffect, AbortCall, EndTool, BatchPCs
<1>22. ASSUME NEW c \in Calls, StartTool(c) PROVE TurnInv'
  <2>1. [done EXCEPT ![c] = IF @ = NoResult THEN Interrupted ELSE @] \in [Calls -> Results]
    BY <1>0 DEF TypeOK, Interrupted, Results
  <2>2. mem' = ck' /\ status' = "running" /\ ck'.phase = "tool_executing" /\ ck'.turn = turn
        /\ ck'.asst = asm
    BY <1>0, <1>22, <2>1, SaveBatchTurn DEF StartTool
  <2>3. QED
    BY <1>a, <1>22, <2>2, BatchTurn DEF StartTool, BatchPCs, Redispatch, Terminal
<1>25. ASSUME NEW c \in Calls, SaveEnd(c) PROVE TurnInv'
  <2>1. [done EXCEPT ![c] = ended[c]] \in [Calls -> Results]
    BY <1>0 DEF TypeOK
  <2>2. mem' = ck' /\ status' = "running" /\ ck'.phase = "tool_executing" /\ ck'.turn = turn
        /\ ck'.asst = asm
    BY <1>0, <1>25, <2>1, SaveBatchTurn DEF SaveEnd
  <2>3. QED
    BY <1>a, <1>25, <2>2, BatchTurn DEF SaveEnd, BatchPCs, Redispatch, Terminal
<1>27. CASE AppendHint
  <2>1. Hint \in Messages /\ Hint.kind # "assistant"
    BY DEF Messages, Hint
  <2>2. QED
    BY <1>27, <2>1, BatchTurn DEF AppendHint, BatchPCs
<1>28. CASE AppendResults
  <2> DEFINE f == [c \in Calls |-> IF c \in asm.calls THEN done[c] ELSE NoResult]
  <2>1. ToolResults(f) \in Messages /\ ToolResults(f).kind = "results"
    BY <1>0 DEF TypeOK, NoResult, Results, ToolResults, Messages
  <2>2. QED
    BY <1>28, <2>1, BatchTurn DEF AppendResults, BatchPCs
<1>29. CASE SaveResults
  <2>1. mem' = ck' /\ status' = "running" /\ ck'.phase = "tool_results_appended"
        /\ ck'.turn = turn
    BY <1>0, <1>29, SaveBatchTurn DEF SaveResults, TypeOK
  <2>2. NReplies <= turn + 1
    BY <1>0, <1>b, <1>29 DEF SaveResults, BatchPCs, TurnInv, CheckpointsAgree
  <2>3. QED
    BY <1>0, <1>29, <2>1, <2>2 DEF SaveResults, TurnInv, SavedTurn, PlaceInTurn, Early, Terminal,
       Redispatch, BatchPCs
<1>30. CASE GuardForcesFinal
  <2>1. Reminder \in Messages /\ Reminder.kind # "assistant"
    BY DEF Messages, Reminder
  <2>2. NReplies' = NReplies
    BY <1>0, <1>30, <2>1, RepliesCounted DEF GuardForcesFinal
  <2>3. ck.phase = "tool_results_appended" /\ mem = ck
    BY <1>0, <1>30 DEF GuardForcesFinal, PlaceInTurn
  <2>4. QED
    BY <1>0, <1>30, <2>2, <2>3 DEF GuardForcesFinal, TurnInv, SavedTurn, PlaceInTurn, Early,
       Terminal, Redispatch, BatchPCs
<1>32. CASE EndTurn
  <2>1. mem' = ck' /\ status' = "running" /\ ck'.phase = "turn_complete" /\ ck'.turn = turn
    <3> DEFINE base == [mem EXCEPT !.turn = turn]
    <3>1. base \in Checkpoints /\ base.turn = turn
      BY <1>0 DEF TypeOK, Checkpoints
    <3>2. QED
      BY <1>32, <3>1, SaveTurn DEF EndTurn
  <2>2. NReplies <= turn + 1
    BY <1>0, <1>b, <1>32 DEF EndTurn, BatchPCs, TurnInv, CheckpointsAgree
  <2>3. QED
    BY <1>0, <1>32, <2>1, <2>2 DEF EndTurn, TurnInv, SavedTurn, PlaceInTurn, Early, Terminal,
       Redispatch, BatchPCs
<1>37. CASE Crash \/ Abandon
  <2>1. pc # "down"
    BY <1>37 DEF Crash, Abandon
  <2>2. QED
    BY <1>0, <1>37, <2>1, DownTurn DEF Crash, Abandon
<1>39. CASE UNCHANGED vars
  BY <1>0, <1>39 DEF vars, TurnInv, SavedTurn, PlaceInTurn, SavedReply, UnsavedReply
<1>40. CASE AppendNote
  BY <1>0, <1>40 DEF AppendNote
<1>41. QED
  BY <1>1, <1>2, <1>3, <1>4, <1>6, <1>7, <1>8, <1>10, <1>11, <1>12, <1>14, <1>15, <1>17, <1>18,
     <1>19, <1>20, <1>22, <1>25, <1>27, <1>28, <1>29, <1>30, <1>32, <1>37, <1>39, <1>40
     DEF Next, RunStep

(* Nothing is replied and nothing is saved at first.                       *)
LEMMA TurnInit == Init => TurnInv
<1> SUFFICES ASSUME Init PROVE TurnInv
  OBVIOUS
<1>1. NReplies = 0
  <2>1. {i \in DOMAIN log : log[i].kind = "assistant"} = {}
    BY DEF Init
  <2>2. QED
    BY <2>1, FS_EmptySet DEF NReplies
<1>2. ck.phase = "none" /\ ck.turn = 0
  BY DEF Init, EmptyCheckpoint
<1>3. QED
  BY <1>1, <1>2 DEF Init, TurnInv, SavedTurn, PlaceInTurn, Early, Terminal, Redispatch, BatchPCs

(* So a run without workers is asked once for each turn.                   *)
LEMMA TurnInvariant == Workers = {} /\ Spec => []TurnInv
<1> SUFFICES ASSUME Workers = {} PROVE Spec => []TurnInv
  OBVIOUS
<1>1. OnceInv /\ TurnInv /\ [Next]_vars => TurnInv'
  BY TurnStep
<1>2. QED
  BY <1>1, TurnInit, OnceInvariant, PTL DEF Spec

(* Without background workers a turn has at most one reply in the history,  *)
(* wherever the process died between appending it and saving it.            *)
THEOREM RepliesAreNotRepeated == Workers = {} /\ Spec => []OneReplyPerTurn
<1> SUFFICES ASSUME Workers = {} PROVE Spec => []OneReplyPerTurn
  OBVIOUS
<1>1. TypeOK /\ TurnInv => OneReplyPerTurn
  <2> SUFFICES ASSUME TypeOK, TurnInv PROVE NReplies <= turn + 1
    BY DEF OneReplyPerTurn, NReplies
  <2>1. NReplies \in Nat /\ ck.turn \in Nat /\ turn \in Nat
    BY RepliesCounted DEF TypeOK, Checkpoints
  <2>2. QED
    BY <2>1 DEF TurnInv
<1>2. Spec => []TurnInv
  BY TurnInvariant
<1>3. QED
  BY <1>1, <1>2, TypeCorrect, PTL

-----------------------------------------------------------------------------
(* One answer for each call, when moreover the provider reuses no id.       *)

Requested(c) == \E i \in DOMAIN log : log[i].kind = "assistant" /\ c \in log[i].calls
Open(c) == Requested(c) /\ ~Answered(c)
JustAnswered(S) == LastMsg.kind = "results" /\ AnsweredBy(LastMsg) = S

(* The provider can be asked: nothing waits for an answer, or to be adopted. *)
Settled == LastMsg.kind # "assistant" /\ \A c \in Calls : ~Open(c)

(* What waits for an answer is in the reply that resume goes on with, and   *)
(* that reply waits as a whole or has just been answered as a whole.        *)
SavedAnswers ==
  /\ \A c \in Calls :
       Open(c) => (SavedReply /\ c \in ck.asst.calls) \/ (UnsavedReply /\ c \in LastMsg.calls)
  /\ SavedReply => (\A c \in ck.asst.calls : Open(c)) \/ JustAnswered(ck.asst.calls)
  /\ UnsavedReply => \A c \in LastMsg.calls : Open(c)
  /\ ck.phase \in Early \cup NextTurnPhases => LastMsg.kind # "assistant"

AnswersInTurn ==
  /\ pc \in {"wake", "top", "drain"} =>
       Settled \/ (resumed /\ turn = ck.turn /\ (SavedReply \/ UnsavedReply))
  /\ pc \in {"request", "provider", "reply"} => Settled
  /\ pc = "reply" => \A c \in asm.calls : c \in issued /\ ~Requested(c) /\ ~Answered(c)
  /\ pc \in {"dispatch"} \cup (BatchPCs \ {"saveResults"}) =>
       resumed \/ \A c \in asm.calls : Open(c)
  /\ pc \in BatchPCs \ {"saveResults"} =>
       /\ todo \cup running \subseteq asm.calls
       /\ \A c \in asm.calls \ todo : done[c] # NoResult
       /\ hinted => \E c \in asm.calls : ~Answered(c)
  /\ pc = "saveResults" => JustAnswered(asm.calls)

(* What makes CallsAnsweredOnce inductive.                                  *)
AnswersInv ==
  /\ \A c \in Calls : \A i, j \in AnswersFor(c) : i = j
  /\ \A c \in Calls : Requested(c) \/ Answered(c) => c \in issued
  /\ status \notin Terminal => SavedAnswers
  /\ AnswersInTurn

(* A message that is neither a reply nor the results of one.                *)
LEMMA SameOpen ==
  ASSUME TypeOK, NEW m \in Messages, m.kind \notin {"assistant", "results"},
         log' \in {log, Append(log, m)}
  PROVE  /\ \A c \in Calls : /\ Answered(c)' <=> Answered(c)
                             /\ Requested(c)' <=> Requested(c)
                             /\ Open(c)' <=> Open(c)
                             /\ AnswersFor(c)' = AnswersFor(c)
         /\ log' = Append(log, m) => LastMsg' = m
         /\ log' = log => LastMsg' = LastMsg
<1>1. CASE log' = log
  BY <1>1 DEF Answered, Requested, Open, AnswersFor, LastMsg
<1>2. CASE log' = Append(log, m)
  <2>1. \A i \in DOMAIN log' : (i \in DOMAIN log /\ log'[i] = log[i]) \/ log'[i] = m
    BY <1>2, Appended
  <2>2. \A i \in DOMAIN log : i \in DOMAIN log' /\ log'[i] = log[i]
    BY <1>2, Appended
  <2>3. LastMsg' = m
    BY <1>2, Appended DEF LastMsg
  <2>4. ASSUME NEW c \in Calls
        PROVE  /\ Answered(c)' <=> Answered(c)
               /\ Requested(c)' <=> Requested(c)
               /\ AnswersFor(c)' = AnswersFor(c)
    BY <2>1, <2>2 DEF Answered, Requested, AnswersFor
  <2>5. QED
    BY <2>3, <2>4, <1>2 DEF Open, LastMsg
<1>3. QED
  BY <1>1, <1>2

(* A call answered by the last message is answered.                         *)
LEMMA LastAnswers ==
  ASSUME TypeOK, NEW S, JustAnswered(S), NEW c \in S
  PROVE  Answered(c)
<1>1. log # <<>>
  BY DEF JustAnswered, LastMsg, NoMsg
<1>2. Len(log) \in DOMAIN log /\ LastMsg = log[Len(log)]
  BY <1>1 DEF TypeOK, LastMsg
<1>3. QED
  BY <1>2 DEF JustAnswered, Answered

(* A step of the batch in progress that leaves the history alone.           *)
LEMMA BatchAnswers ==
  ASSUME OnceInv, TurnInv, AnswersInv, TurnInv',
         pc \in BatchPCs \ {"saveResults"}, pc' \in BatchPCs \ {"saveResults"},
         UNCHANGED <<log, asm, resumed, issued>>,
         todo' \subseteq todo, running' \subseteq running \cup todo,
         \A c \in asm.calls :
           c \in todo' \/ c \in todo \/ done'[c] = done[c] \/ done'[c] # NoResult,
         \A c \in asm.calls : c \in todo /\ c \notin todo' => done'[c] # NoResult,
         hinted' => hinted \/ \E c \in asm.calls : ~Answered(c)
  PROVE  AnswersInv'
<1>1. /\ \A c : (Answered(c)' <=> Answered(c)) /\ (Requested(c)' <=> Requested(c))
                /\ (Open(c)' <=> Open(c)) /\ AnswersFor(c)' = AnswersFor(c)
      /\ LastMsg' = LastMsg
      /\ \A S : JustAnswered(S)' <=> JustAnswered(S)
  BY DEF Answered, Requested, Open, AnswersFor, LastMsg, JustAnswered
<1>2. SavedReply /\ ck.asst = asm /\ SavedReply' /\ ck'.asst = asm
  BY DEF TurnInv, PlaceInTurn
<1>3. status \notin Terminal /\ ~UnsavedReply /\ ~UnsavedReply'
  BY <1>2 DEF OnceInv, CheckpointsAgree, BatchPCs, SavedReply, UnsavedReply, Redispatch
<1>4. ck'.phase \notin Early \cup NextTurnPhases
  BY <1>2 DEF SavedReply, Redispatch, Early, NextTurnPhases
<1>5. SavedAnswers'
  BY <1>1, <1>2, <1>3, <1>4 DEF AnswersInv, SavedAnswers
<1>6. AnswersInTurn'
  BY <1>1 DEF AnswersInv, AnswersInTurn, BatchPCs
<1>7. QED
  BY <1>1, <1>5, <1>6 DEF AnswersInv

(* A step that ends the run, or the process.                                *)
LEMMA DownAnswers ==
  ASSUME AnswersInv, pc' = "down", UNCHANGED <<log, issued>>,
         UNCHANGED <<ck, status>> \/ \E st \in Terminal : Terminate(st)
  PROVE  AnswersInv'
<1>1. /\ \A c : (Answered(c)' <=> Answered(c)) /\ (Requested(c)' <=> Requested(c))
                /\ (Open(c)' <=> Open(c)) /\ AnswersFor(c)' = AnswersFor(c)
      /\ LastMsg' = LastMsg
      /\ \A S : JustAnswered(S)' <=> JustAnswered(S)
  BY DEF Answered, Requested, Open, AnswersFor, LastMsg, JustAnswered
<1>2. status' \notin Terminal => UNCHANGED <<ck, status>>
  BY DEF Terminate
<1>3. UNCHANGED <<ck, status>> /\ SavedAnswers => SavedAnswers'
  BY <1>1 DEF SavedAnswers, SavedReply, UnsavedReply
<1>4. AnswersInTurn'
  BY DEF AnswersInTurn, BatchPCs
<1>5. QED
  BY <1>1, <1>2, <1>3, <1>4 DEF AnswersInv

(* Each step keeps the batch of a turn answered at most once, whichever    *)
(* process finishes it.                                                    *)
LEMMA AnswersStep ==
  ASSUME Workers = {}, FreshIds, OnceInv, ReportsInv, TurnInv, TurnInv', AnswersInv, [Next]_vars
  PROVE  AnswersInv'
<1> USE DEF durable, batch, loopvars, acct, session, history
<1>0. /\ TypeOK /\ CheckpointsAgree /\ BatchInOrder
      /\ pending = <<>> /\ drain = <<>> /\ PlaceInTurn /\ PlaceInTurn'
      /\ turn \in Nat /\ ck.turn \in Nat
      /\ asm \in Replies /\ asm.calls \subseteq Calls
  <2>1. TypeOK /\ CheckpointsAgree /\ BatchInOrder
    BY DEF OnceInv
  <2>2. pending = <<>> /\ drain = <<>> /\ PlaceInTurn /\ PlaceInTurn'
    BY DEF TurnInv
  <2>3. turn \in Nat /\ ck \in Checkpoints /\ asm \in Replies
    BY <2>1 DEF TypeOK
  <2>4. ck.turn \in Nat
    BY <2>3 DEF Checkpoints
  <2>5. asm.calls \subseteq Calls
    BY <2>3 DEF Replies, NoMsg
  <2> QED
    BY <2>1, <2>2, <2>3, <2>4, <2>5
<1>a. User \in Messages /\ User.kind \notin {"assistant", "results"}
  BY DEF Messages, User
<1>b. pc # "down" => mem.turn = ck.turn /\ status \notin Terminal /\ SavedTurn /\ SavedAnswers
  BY <1>0 DEF CheckpointsAgree, TurnInv, AnswersInv
<1>c. ASSUME log' = log
      PROVE  /\ \A c : /\ Answered(c)' <=> Answered(c)
                       /\ Requested(c)' <=> Requested(c)
                       /\ Open(c)' <=> Open(c)
                       /\ AnswersFor(c)' = AnswersFor(c)
             /\ LastMsg' = LastMsg
             /\ \A S : JustAnswered(S)' <=> JustAnswered(S)
             /\ Settled' <=> Settled
  BY <1>c DEF Answered, Requested, Open, AnswersFor, LastMsg, JustAnswered, Settled
<1>d. ASSUME UNCHANGED <<log, issued>>, SavedAnswers', AnswersInTurn'
      PROVE  AnswersInv'
  BY <1>c, <1>d DEF AnswersInv
<1>e. pc # "down" /\ ck.phase \in Early \cup NextTurnPhases => Settled
  BY <1>b DEF SavedAnswers, Settled, SavedReply, UnsavedReply, Early, NextTurnPhases, Redispatch
<1>1. CASE SaveStarted
  <2>1. /\ mem' = ck' /\ ck'.phase = "started"
    BY <1>0, <1>1, SaveTurn DEF SaveStarted, TypeOK
  <2>2. UNCHANGED <<log, issued>> /\ Settled /\ pc' = "prompt"
    BY <1>0, <1>1, <1>e DEF SaveStarted, PlaceInTurn
  <2>3. SavedAnswers' /\ AnswersInTurn'
    BY <1>c, <2>1, <2>2 DEF SavedAnswers, AnswersInTurn, Settled, SavedReply, UnsavedReply,
       Redispatch, BatchPCs
  <2>4. QED
    BY <1>d, <2>2, <2>3
<1>2. CASE AppendPrompt
  <2>1. UNCHANGED <<ck, issued, status>> /\ log' \in {log, Append(log, User)} /\ pc' = "savePrompt"
        /\ ck.phase \in Early /\ Settled
    BY <1>0, <1>2, <1>e DEF AppendPrompt, PlaceInTurn
  <2>2. /\ \A c \in Calls : /\ Answered(c)' <=> Answered(c)
                            /\ Requested(c)' <=> Requested(c)
                            /\ Open(c)' <=> Open(c)
                            /\ AnswersFor(c)' = AnswersFor(c)
        /\ LastMsg'.kind # "assistant"
    BY <1>0, <1>a, <2>1, SameOpen DEF Settled
  <2>3. SavedAnswers' /\ AnswersInTurn'
    BY <2>1, <2>2 DEF SavedAnswers, AnswersInTurn, Settled, SavedReply, UnsavedReply, Early,
       Redispatch, BatchPCs
  <2>4. QED
    BY <2>1, <2>2, <2>3 DEF AnswersInv
<1>3. CASE SavePrompt
  <2>1. mem' = ck' /\ ck'.phase = "user_appended"
    BY <1>0, <1>3, SaveTurn DEF SavePrompt, TypeOK
  <2>2. UNCHANGED <<log, issued>> /\ Settled /\ pc' \in {"wake", "top"}
    BY <1>0, <1>3, <1>e DEF SavePrompt, PlaceInTurn
  <2>3. SavedAnswers' /\ AnswersInTurn'
    BY <1>c, <2>1, <2>2 DEF SavedAnswers, AnswersInTurn, Settled, SavedReply, UnsavedReply,
       Redispatch, BatchPCs
  <2>4. QED
    BY <1>d, <2>2, <2>3
<1>4. CASE Resume
  <2>1. /\ UNCHANGED <<log, ck, status, issued>> /\ mem' = ck /\ resumed'
        /\ turn' = IF ck.phase \in NextTurnPhases THEN ck.turn + 1 ELSE ck.turn
        /\ pc' = IF ck.phase = "started" THEN "prompt" ELSE "wake"
        /\ SavedTurn /\ SavedAnswers
    BY <1>4 DEF Resume, TurnInv, AnswersInv
  <2>2. (SavedReply' <=> SavedReply) /\ (UnsavedReply' <=> UnsavedReply)
    BY <1>c, <2>1 DEF SavedReply, UnsavedReply
  <2>3. ck.phase \in Early \cup {"provider_pending"} \cup Redispatch \cup NextTurnPhases
    BY <1>0, <2>1 DEF TypeOK, Checkpoints, Phases, SavedTurn, Terminal, Early, Redispatch,
       NextTurnPhases
  <2>4. SavedReply \/ UnsavedReply => ck.phase \notin NextTurnPhases \cup Early
    BY DEF SavedReply, UnsavedReply, Redispatch, NextTurnPhases, Early
  <2>5. SavedReply \/ UnsavedReply \/ Settled
    BY <2>1, <2>3, <2>4 DEF SavedTurn, SavedAnswers, Settled, UnsavedReply
  <2>6. AnswersInTurn'
    BY <1>c, <2>1, <2>2, <2>4, <2>5 DEF AnswersInTurn, BatchPCs
  <2>7. SavedAnswers'
    BY <1>c, <2>1, <2>2 DEF SavedAnswers
  <2>8. QED
    BY <1>d, <2>1, <2>6, <2>7
<1>6. CASE Woken \/ TakeNotes
  <2>1. /\ UNCHANGED <<log, mem, ck, status, turn, resumed, asm, issued>>
        /\ pc' \in {"top", "drain"} /\ pc \in {"wake", "top"}
    BY <1>6 DEF Woken, TakeNotes
  <2>2. (SavedReply' <=> SavedReply) /\ (UnsavedReply' <=> UnsavedReply)
    BY <1>c, <2>1 DEF SavedReply, UnsavedReply
  <2>3. AnswersInTurn'
    BY <1>c, <2>1, <2>2 DEF AnswersInv, AnswersInTurn, BatchPCs
  <2>4. SavedAnswers'
    BY <1>b, <1>c, <2>1, <2>2 DEF SavedAnswers
  <2>5. QED
    BY <1>d, <2>1, <2>3, <2>4
<1>7. CASE MaxTurnsReached \/ Finish \/ GuardStops \/ ProviderFails \/ Abort \/ AbortTurn
  BY <1>7, DownAnswers DEF MaxTurnsReached, Finish, GuardStops, ProviderFails, Abort, AbortTurn,
     Terminate, Terminal
<1>10. CASE StartTurn
  <2>1. UNCHANGED <<log, ck, status, turn, resumed, issued>> /\ pc = "drain" /\ mem = ck
    BY <1>0, <1>10 DEF StartTurn, PlaceInTurn
  <2>2. (SavedReply' <=> SavedReply) /\ (UnsavedReply' <=> UnsavedReply)
    BY <1>c, <2>1 DEF SavedReply, UnsavedReply
  <2>3. SavedAnswers'
    BY <1>b, <1>c, <2>1, <2>2 DEF SavedAnswers
  <2>4. CASE (ResumedAssistant \/ AdoptedAssistant) /\ pc' = "dispatch"
    BY <1>d, <2>1, <2>3, <2>4 DEF ResumedAssistant, AdoptedAssistant, AnswersInTurn, BatchPCs
  <2>5. CASE ~ResumedAssistant /\ ~AdoptedAssistant /\ pc' = "request"
    <3>1. Settled
      BY <1>0, <2>1, <2>5 DEF AnswersInv, AnswersInTurn, ResumedAssistant, AdoptedAssistant,
         SavedReply, UnsavedReply
    <3>2. QED
      BY <1>c, <1>d, <2>1, <2>3, <2>5, <3>1 DEF AnswersInTurn, BatchPCs
  <2>6. QED
    BY <1>10, <2>4, <2>5 DEF StartTurn
<1>11. CASE SaveRequest
  <2>1. mem' = ck' /\ ck'.phase = "provider_pending"
    <3> DEFINE base == [mem EXCEPT !.turn = turn]
    <3>1. base \in Checkpoints
      BY <1>0 DEF TypeOK, Checkpoints
    <3>2. QED
      BY <1>11, <3>1, SaveTurn DEF SaveRequest
  <2>2. Settled /\ UNCHANGED <<log, issued>> /\ pc' = "provider"
    BY <1>11 DEF SaveRequest, AnswersInv, AnswersInTurn
  <2>3. SavedAnswers' /\ AnswersInTurn'
    BY <1>c, <2>1, <2>2 DEF SavedAnswers, AnswersInTurn, Settled, SavedReply, UnsavedReply, Early,
       NextTurnPhases, Redispatch, BatchPCs
  <2>4. QED
    BY <1>d, <2>2, <2>3
<1>12. ASSUME NEW S \in SUBSET Calls, ProviderReply(S) PROVE AnswersInv'
  <2>1. /\ UNCHANGED <<log, ck, status>> /\ issued' = issued \cup S /\ S \cap issued = {}
        /\ asm'.calls = S /\ pc = "provider" /\ pc' = "reply" /\ Settled
    BY <1>12 DEF ProviderReply, Assistant, AnswersInv, AnswersInTurn
  <2>2. (SavedReply' <=> SavedReply) /\ (UnsavedReply' <=> UnsavedReply)
    BY <1>c, <2>1 DEF SavedReply, UnsavedReply
  <2>3. SavedAnswers'
    BY <1>b, <1>c, <2>1, <2>2 DEF SavedAnswers
  <2>4. AnswersInTurn'
    BY <1>c, <2>1 DEF AnswersInv, AnswersInTurn, BatchPCs
  <2>5. QED
    BY <1>c, <2>1, <2>3, <2>4 DEF AnswersInv
<1>14. CASE AppendReply
  <2>1. asm \in Messages /\ asm.kind = "assistant"
    BY <1>0, <1>14 DEF TypeOK, AppendReply, Replies, Messages
  <2>2. /\ UNCHANGED <<ck, status, asm, issued>> /\ pc' = "saveReply" /\ Settled
        /\ ck.phase = "provider_pending"
        /\ \A c \in asm.calls : c \in issued /\ ~Requested(c) /\ ~Answered(c)
    BY <1>0, <1>14 DEF AppendReply, AnswersInv, AnswersInTurn, PlaceInTurn
  <2>3. LastMsg' = asm
    <3>1. log' # <<>> /\ log'[Len(log')] = asm
      BY <1>0, <1>14, <2>1, Appended DEF AppendReply
    <3>2. QED
      BY <3>1 DEF LastMsg
  <2>4. \A i \in DOMAIN log' : (i \in DOMAIN log /\ log'[i] = log[i]) \/ log'[i] = asm
    BY <1>0, <1>14, <2>1, Appended DEF AppendReply
  <2>5. /\ \A i \in DOMAIN log : i \in DOMAIN log' /\ log'[i] = log[i]
        /\ \E i \in DOMAIN log' : log'[i] = asm
    BY <1>0, <1>14, <2>1, Appended DEF AppendReply
  <2>6. \A c \in Calls : /\ Answered(c)' <=> Answered(c)
                         /\ AnswersFor(c)' = AnswersFor(c)
                         /\ Requested(c)' <=> Requested(c) \/ c \in asm.calls
    BY <2>1, <2>4, <2>5 DEF Answered, Requested, AnswersFor
  <2>7. \A c \in Calls : Open(c)' <=> c \in asm.calls
    BY <2>2, <2>6 DEF Open, Settled
  <2>8. UnsavedReply' /\ ~SavedReply'
    BY <2>1, <2>2, <2>3 DEF UnsavedReply, SavedReply, Redispatch
  <2>9. SavedAnswers'
    BY <1>0, <2>2, <2>3, <2>7, <2>8 DEF SavedAnswers, Early, NextTurnPhases
  <2>10. AnswersInTurn'
    BY <2>2 DEF AnswersInTurn, BatchPCs
  <2>11. QED
    BY <2>2, <2>6, <2>9, <2>10 DEF AnswersInv
<1>15. CASE SaveReply
  <2>1. mem' = ck' /\ ck'.phase = "assistant_appended" /\ ck'.asst = asm
    <3> DEFINE base == [mem EXCEPT !.turn = turn, !.asst = asm]
    <3>1. base \in Checkpoints /\ base.asst = asm
      BY <1>0 DEF TypeOK, Checkpoints
    <3>2. QED
      BY <1>15, <3>1, SaveTurn DEF SaveReply
  <2>2. UNCHANGED <<log, issued, asm, resumed>> /\ UnsavedReply /\ LastMsg = asm /\ pc' = "dispatch"
    BY <1>0, <1>15 DEF SaveReply, PlaceInTurn
  <2>3. asm # NoMsg
    BY <2>2 DEF UnsavedReply, NoMsg
  <2>4. SavedReply' /\ ~UnsavedReply' /\ ~SavedReply
    BY <2>1, <2>2, <2>3 DEF SavedReply, UnsavedReply, Redispatch
  <2>5. \A c \in Calls : Open(c) <=> c \in asm.calls
    BY <1>b, <1>15, <2>2, <2>4, <1>0 DEF SaveReply, SavedAnswers
  <2>6. SavedAnswers' /\ AnswersInTurn'
    BY <1>0, <1>c, <2>1, <2>2, <2>4, <2>5 DEF SavedAnswers, AnswersInTurn, Early, NextTurnPhases,
       BatchPCs
  <2>7. QED
    BY <1>d, <2>2, <2>6
<1>17. CASE RecoverBatch
  <2>1. mem' = ck' /\ ck'.phase = "tool_batch_pending" /\ ck'.asst = asm
    <3> DEFINE base == [mem EXCEPT !.turn = turn, !.asst = asm, !.done = Recovered]
    <3>1. Recovered \in [Calls -> Results]
      BY <1>0 DEF TypeOK, Recovered, Checkpoints, NoResult, Results
    <3>2. base \in Checkpoints /\ base.asst = asm
      BY <1>0, <3>1 DEF TypeOK, Checkpoints
    <3>3. QED
      BY <1>17, <3>2, SaveTurn DEF RecoverBatch
  <2>2. /\ UNCHANGED <<log, issued, asm, resumed>> /\ pc = "dispatch" /\ pc' = "permission"
        /\ done' = Recovered /\ todo' = {c \in asm.calls : Recovered[c] = NoResult}
        /\ running' = {} /\ hinted' = FALSE
    BY <1>17 DEF RecoverBatch
  <2>3. \/ SavedReply /\ ~UnsavedReply /\ asm = ck.asst
        \/ UnsavedReply /\ ~SavedReply /\ asm = LastMsg
    BY <1>0, <2>2 DEF PlaceInTurn, SavedReply, UnsavedReply, Redispatch
  <2>4. SavedReply' /\ ~UnsavedReply'
    BY <1>17, <2>1 DEF RecoverBatch, NoMsg, SavedReply, UnsavedReply, Redispatch
  <2>5. /\ \A c \in Calls : Open(c) => c \in asm.calls
        /\ (\A c \in asm.calls : Open(c)) \/ JustAnswered(asm.calls)
    BY <1>b, <2>2, <2>3 DEF SavedAnswers
  <2>6. SavedAnswers'
    BY <1>0, <1>c, <2>1, <2>2, <2>4, <2>5 DEF SavedAnswers, Early, NextTurnPhases
  <2>7. AnswersInTurn'
    BY <1>c, <2>2 DEF AnswersInv, AnswersInTurn, BatchPCs
  <2>8. QED
    BY <1>d, <2>2, <2>6, <2>7
<1>18. CASE AskPermission \/ Resolved \/ BatchDone
  BY <1>18, BatchAnswers DEF AskPermission, Resolved, BatchDone, BatchPCs
<1>20. ASSUME NEW c \in Calls,
              \/ \E a \in {"allow", "deny"} : Answer(c, a)
              \/ AnswerFails(c) \/ BeginEffect(c) \/ AbortCall(c)
              \/ \E v \in {"ok", "error"} : EndTool(c, v)
       PROVE  AnswersInv'
  BY <1>20, BatchAnswers DEF Answer, AnswerFails, BeginEffect, AbortCall, EndTool, BatchPCs
<1>22. ASSUME NEW c \in Calls, StartTool(c) PROVE AnswersInv'
  <2>1. /\ done'[c] # NoResult /\ \A e \in Calls : e # c => done'[e] = done[e]
        /\ todo' = todo \ {c} /\ running' = running \cup {c} /\ c \in todo
    BY <1>0, <1>22 DEF StartTool, TypeOK, Interrupted, NoResult
  <2>2. \A e \in asm.calls : e \in Calls
    BY <1>0
  <2>3. QED
    BY <1>22, <2>1, <2>2, BatchAnswers DEF StartTool, BatchPCs
<1>25. ASSUME NEW c \in Calls, SaveEnd(c) PROVE AnswersInv'
  <2>1. /\ done'[c] # NoResult /\ \A e \in Calls : e # c => done'[e] = done[e]
        /\ c \in running /\ pc \in BatchPCs \ {"saveResults"}
        /\ pc' \in BatchPCs \ {"saveResults"}
    BY <1>0, <1>25 DEF SaveEnd, TypeOK, JustEnded, BatchPCs
  <2>2. c \in asm.calls /\ ~Answered(c)
    BY <2>1 DEF AnswersInv, AnswersInTurn, ReportsInv
  <2>3. \A e \in asm.calls : e \in Calls
    BY <1>0
  <2>4. QED
    BY <1>25, <2>1, <2>2, <2>3, BatchAnswers DEF SaveEnd
<1>27. CASE AppendHint
  <2>1. Hint \in Messages /\ Hint.kind \notin {"assistant", "results"}
    BY DEF Messages, Hint
  <2>2. /\ UNCHANGED <<ck, status, issued, asm, resumed, todo, running, done, hinted>>
        /\ pc = "collect" /\ pc' = "results" /\ log' \in {log, Append(log, Hint)}
        /\ log' # log => hinted
    BY <1>27 DEF AppendHint
  <2>3. \A c \in Calls : /\ Answered(c)' <=> Answered(c)
                         /\ Requested(c)' <=> Requested(c)
                         /\ Open(c)' <=> Open(c)
                         /\ AnswersFor(c)' = AnswersFor(c)
    BY <1>0, <2>1, <2>2, SameOpen
  <2>4. SavedReply /\ ck.asst = asm /\ SavedReply' /\ ~UnsavedReply /\ ~UnsavedReply'
    BY <1>0, <2>2 DEF PlaceInTurn, BatchPCs, SavedReply, UnsavedReply, Redispatch
  <2>5. (\A c \in asm.calls : Open(c)) \/ (JustAnswered(asm.calls) /\ log' = log)
    <3>1. CASE hinted
      <4>1. ~JustAnswered(asm.calls)
        BY <1>0, <2>2, <3>1, LastAnswers DEF AnswersInv, AnswersInTurn, BatchPCs
      <4>2. QED
        BY <1>b, <2>2, <2>4, <4>1 DEF SavedAnswers
    <3>2. CASE ~hinted
      BY <1>b, <2>2, <2>4, <3>2 DEF SavedAnswers
    <3>3. QED
      BY <3>1, <3>2
  <2>6. JustAnswered(asm.calls) /\ log' = log => JustAnswered(asm.calls)'
    BY <2>2 DEF JustAnswered, LastMsg
  <2>7. ck'.phase \notin Early \cup NextTurnPhases
    BY <2>4 DEF SavedReply, Redispatch, Early, NextTurnPhases
  <2>8. SavedAnswers'
    BY <1>0, <1>b, <2>2, <2>3, <2>4, <2>5, <2>6, <2>7 DEF SavedAnswers
  <2>9. AnswersInTurn'
    BY <1>0, <2>2, <2>3 DEF AnswersInv, AnswersInTurn, BatchPCs
  <2>10. QED
    BY <2>2, <2>3, <2>8, <2>9 DEF AnswersInv
<1>28. CASE AppendResults
  <2> DEFINE f == [c \in Calls |-> IF c \in asm.calls THEN done[c] ELSE NoResult]
             m == ToolResults(f)
  <2>1. m \in Messages /\ m.answers = f /\ m.kind = "results"
    BY <1>0 DEF TypeOK, NoResult, Results, ToolResults, Messages
  <2>2. /\ UNCHANGED <<ck, status, issued, asm>> /\ pc = "results" /\ pc' = "saveResults"
        /\ log' = IF AlreadyAppended THEN log ELSE Append(log, m)
    BY <1>28 DEF AppendResults
  <2>3. SavedReply /\ ck.asst = asm /\ SavedReply' /\ ~UnsavedReply /\ ~UnsavedReply'
    BY <1>0, <2>2 DEF PlaceInTurn, BatchPCs, SavedReply, UnsavedReply, Redispatch
  <2>4. ck'.phase \notin Early \cup NextTurnPhases
    BY <2>3 DEF SavedReply, Redispatch, Early, NextTurnPhases
  <2>5. AnsweredBy(m) = asm.calls
    <3>1. todo = {} /\ \A c \in asm.calls \ todo : done[c] # NoResult
      BY <2>2 DEF ReportsInv, AnswersInv, AnswersInTurn, BatchPCs
    <3>2. \A c \in Calls : f[c] # NoResult <=> c \in asm.calls
      BY <3>1
    <3>3. QED
      BY <1>0, <2>1, <3>2 DEF AnsweredBy
  <2> HIDE DEF f, m
  <2>6. CASE AlreadyAppended
    <3>1. log' = log /\ JustAnswered(asm.calls)
      BY <2>2, <2>6 DEF AlreadyAppended, JustAnswered
    <3>2. SavedAnswers'
      BY <1>b, <1>c, <2>2, <2>3, <2>4, <3>1 DEF SavedAnswers
    <3>3. AnswersInTurn'
      BY <1>c, <2>2, <3>1 DEF AnswersInTurn, BatchPCs
    <3>4. QED
      BY <1>d, <2>2, <3>1, <3>2, <3>3
  <2>7. CASE ~AlreadyAppended
    <3>1. log' = Append(log, m)
      BY <2>2, <2>7
    <3>2. \A c \in asm.calls : Open(c)
      <4>1. turn = mem.turn
        BY <1>0, <2>2 DEF CheckpointsAgree, BatchPCs
      <4>2. resumed => ~JustAnswered(asm.calls)
        BY <2>7, <4>1 DEF AlreadyAppended, JustAnswered
      <4>3. QED
        BY <1>b, <2>2, <2>3, <4>2 DEF SavedAnswers, AnswersInv, AnswersInTurn, BatchPCs
    <3>3. /\ \A i \in DOMAIN log' : \/ i \in DOMAIN log /\ log'[i] = log[i]
                                    \/ i = Len(log) + 1 /\ log'[i] = m
          /\ \A i \in DOMAIN log : i \in DOMAIN log' /\ log'[i] = log[i]
          /\ \E i \in DOMAIN log' : log'[i] = m
          /\ LastMsg' = m
      BY <1>0, <2>1, <3>1, Appended DEF LastMsg
    <3>4. \A c \in Calls : /\ Answered(c)' <=> Answered(c) \/ c \in asm.calls
                           /\ Requested(c)' <=> Requested(c)
      BY <2>1, <2>5, <3>3 DEF Answered, Requested
    <3>5. \A c \in Calls : \A i, j \in AnswersFor(c)' : i = j
      <4> SUFFICES ASSUME NEW c \in Calls, NEW i \in AnswersFor(c)', NEW j \in AnswersFor(c)'
                   PROVE  i = j
        OBVIOUS
      <4>1. \A k \in AnswersFor(c)' : \/ k \in AnswersFor(c) /\ Answered(c)
                                      \/ k = Len(log) + 1 /\ c \in asm.calls
        BY <2>1, <2>5, <3>3 DEF AnswersFor, Answered
      <4>2. c \in asm.calls => ~Answered(c)
        BY <3>2 DEF Open
      <4>3. QED
        BY <4>1, <4>2 DEF AnswersInv
    <3>6. \A c \in asm.calls : c \in issued
      BY <1>0, <3>2 DEF Open, AnswersInv
    <3>7. JustAnswered(asm.calls)'
      BY <2>1, <2>2, <2>5, <3>3 DEF JustAnswered, AnsweredBy
    <3>8. \A c \in Calls : ~Open(c)'
      BY <1>b, <2>2, <2>3, <3>4 DEF SavedAnswers, Open
    <3>9. SavedAnswers'
      BY <2>2, <2>3, <2>4, <3>7, <3>8 DEF SavedAnswers
    <3>10. AnswersInTurn'
      BY <2>2, <3>7 DEF AnswersInTurn, BatchPCs
    <3>11. QED
      BY <2>2, <3>4, <3>5, <3>6, <3>9, <3>10 DEF AnswersInv
  <2>8. QED
    BY <2>6, <2>7
<1>29. CASE SaveResults
  <2>1. ck'.phase = "tool_results_appended"
    BY <1>0, <1>29, SaveBatchTurn DEF SaveResults, TypeOK
  <2>2. UNCHANGED <<log, issued>> /\ pc = "saveResults" /\ pc' = "guard" /\ JustAnswered(asm.calls)
    BY <1>29 DEF SaveResults, AnswersInv, AnswersInTurn
  <2>3. SavedReply /\ ck.asst = asm /\ ~UnsavedReply
    BY <1>0, <2>2 DEF PlaceInTurn, BatchPCs, SavedReply, UnsavedReply, Redispatch
  <2>4. \A c \in Calls : ~Open(c)
    BY <1>0, <1>b, <2>2, <2>3, LastAnswers DEF SavedAnswers, Open
  <2>5. LastMsg.kind # "assistant"
    BY <2>2 DEF JustAnswered
  <2>6. SavedAnswers' /\ AnswersInTurn'
    BY <1>c, <2>1, <2>2, <2>4, <2>5 DEF SavedAnswers, AnswersInTurn, SavedReply, UnsavedReply,
       Redispatch, BatchPCs
  <2>7. QED
    BY <1>d, <2>2, <2>6
<1>30. CASE GuardForcesFinal
  <2>1. Reminder \in Messages /\ Reminder.kind \notin {"assistant", "results"}
    BY DEF Messages, Reminder
  <2>2. UNCHANGED <<ck, issued, status>> /\ log' = Append(log, Reminder) /\ pc' = "endTurn"
        /\ ck.phase = "tool_results_appended" /\ pc = "guard"
    BY <1>0, <1>30 DEF GuardForcesFinal, PlaceInTurn
  <2>3. /\ \A c \in Calls : /\ Answered(c)' <=> Answered(c)
                            /\ Requested(c)' <=> Requested(c)
                            /\ Open(c)' <=> Open(c)
                            /\ AnswersFor(c)' = AnswersFor(c)
        /\ LastMsg'.kind # "assistant"
    BY <1>0, <2>1, <2>2, SameOpen
  <2>4. Settled
    BY <1>e, <2>2 DEF NextTurnPhases
  <2>5. SavedAnswers' /\ AnswersInTurn'
    BY <2>2, <2>3, <2>4 DEF SavedAnswers, AnswersInTurn, Settled, SavedReply, UnsavedReply,
       Redispatch, BatchPCs
  <2>6. QED
    BY <2>2, <2>3, <2>5 DEF AnswersInv
<1>32. CASE EndTurn
  <2>1. ck'.phase = "turn_complete"
    <3> DEFINE base == [mem EXCEPT !.turn = turn]
    <3>1. base \in Checkpoints
      BY <1>0 DEF TypeOK, Checkpoints
    <3>2. QED
      BY <1>32, <3>1, SaveTurn DEF EndTurn
  <2>2. UNCHANGED <<log, issued>> /\ pc' = "top" /\ Settled
    BY <1>0, <1>32, <1>e DEF EndTurn, PlaceInTurn, NextTurnPhases
  <2>3. SavedAnswers' /\ AnswersInTurn'
    BY <1>c, <2>1, <2>2 DEF SavedAnswers, AnswersInTurn, Settled, SavedReply, UnsavedReply,
       Redispatch, BatchPCs
  <2>4. QED
    BY <1>d, <2>2, <2>3
<1>37. CASE Crash \/ Abandon
  BY <1>37, DownAnswers DEF Crash, Abandon
<1>39. CASE UNCHANGED vars
  <2>1. (SavedReply' <=> SavedReply) /\ (UnsavedReply' <=> UnsavedReply)
    BY <1>c, <1>39 DEF vars, SavedReply, UnsavedReply
  <2>2. (SavedAnswers' <=> SavedAnswers) /\ (AnswersInTurn' <=> AnswersInTurn)
    BY <1>c, <1>39, <2>1 DEF vars, SavedAnswers, AnswersInTurn
  <2>3. QED
    BY <1>c, <1>39, <2>2 DEF vars, AnswersInv
<1>40. CASE AppendNote
  BY <1>0, <1>40 DEF AppendNote
<1>41. QED
  BY <1>1, <1>2, <1>3, <1>4, <1>6, <1>7, <1>10, <1>11, <1>12, <1>14, <1>15, <1>17, <1>18,
     <1>20, <1>22, <1>25, <1>27, <1>28, <1>29, <1>30, <1>32, <1>37, <1>39, <1>40
     DEF Next, RunStep

(* No call is answered at first.                                           *)
LEMMA AnswersInit == Init => AnswersInv
<1> SUFFICES ASSUME Init PROVE AnswersInv
  OBVIOUS
<1>1. ck.phase = "none" /\ LastMsg = NoMsg /\ log = <<>> /\ pc = "begin"
  BY DEF Init, EmptyCheckpoint, LastMsg
<1>2. \A c \in Calls : ~Requested(c) /\ ~Answered(c) /\ AnswersFor(c) = {}
  BY <1>1 DEF Requested, Answered, AnswersFor
<1>3. QED
  BY <1>1, <1>2 DEF AnswersInv, SavedAnswers, AnswersInTurn, Open, SavedReply, UnsavedReply, NoMsg,
     Redispatch, BatchPCs

(* Whenever the provider is asked, every call in the history has been       *)
(* answered exactly once, wherever crashes fell around the append of the    *)
(* results: in a run without background workers, with fresh call ids.       *)
THEOREM EveryCallAnsweredOnce == FreshIds /\ Workers = {} /\ Spec => []CallsAnsweredOnce
<1> SUFFICES ASSUME FreshIds, Workers = {} PROVE Spec => []CallsAnsweredOnce
  OBVIOUS
<1>1. OnceInv /\ ReportsInv /\ TurnInv /\ TurnInv' /\ AnswersInv /\ [Next]_vars => AnswersInv'
  BY AnswersStep
<1>2. TypeOK /\ AnswersInv => CallsAnsweredOnce
  <2> SUFFICES ASSUME TypeOK, AnswersInv, pc = "provider", NEW i \in DOMAIN log,
                      log[i].kind = "assistant", NEW c \in log[i].calls
               PROVE  Cardinality(AnswersFor(c)) = 1
    BY DEF CallsAnsweredOnce
  <2>1. c \in Calls
    <3>1. log[i] \in Messages
      BY DEF TypeOK
    <3>2. QED
      BY <3>1 DEF Messages, Notes, User, Hint, Reminder
  <2>2. Answered(c)
    BY <2>1 DEF AnswersInv, AnswersInTurn, Settled, Open, Requested
  <2>3. PICK k \in AnswersFor(c) : TRUE
    BY <2>2 DEF Answered, AnswersFor
  <2>4. AnswersFor(c) = {k}
    BY <2>1, <2>3 DEF AnswersInv
  <2>5. Cardinality({k}) = 1
    BY FS_Singleton
  <2>6. QED
    BY <2>4, <2>5
<1>3. Init => ReportsInv
  BY DEF Init, ReportsInv, RecordedResultIsReported, Answered, AnswersFor, BatchPCs
<1>4. OnceInv /\ ReportsInv /\ [Next]_vars => ReportsInv'
  BY ReportsStep
<1>5. Spec => []TurnInv
  BY TurnInvariant
<1>6. QED
  BY <1>1, <1>2, <1>3, <1>4, <1>5, AnswersInit, OnceInvariant, TypeCorrect, PTL DEF Spec
===============================================================================

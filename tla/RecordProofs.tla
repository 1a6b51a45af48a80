---------------------------- MODULE RecordProofs ----------------------------
(***************************************************************************)
(* What a run leaves and is told: skills' grants, its spans, the files of  *)
(* an agents directory, its event log and its report.  A section is one    *)
(* component's argument, for every value of its constants.                 *)
(***************************************************************************)
EXTENDS Skills, Spans, Catalog, RunLog, SequenceTheorems, TLAPS

-----------------------------------------------------------------------------
(***************************************************************************)
(* What a skill grants is used in the turn after it, or in the first of a  *)
(* run that begins meanwhile, and in no other: for any skills, runs, turns *)
(* and calls, through aborts, dropped iterators, crashes and resumes.      *)
(***************************************************************************)

Granted == UNION {s.tools : s \in Merged}
Overlays == {NoOverlay} \cup [tools : SUBSET Granted, model : {s.model : s \in Merged}]
Stages == {"idle", "top", "asked", "batch"}
Phases == {"none", "user_appended", "provider_pending", "assistant_appended",
           "tool_executing", "turn_complete"}
Checkpoints == [phase : Phases, turn : Turns, overlay : Overlays, grant : SUBSET Granted]

SkillTypes ==
  /\ skills.loaded \subseteq Merged
  /\ stage \in Stages /\ skillTurn \in Turns
  /\ begun \in 0 .. LastRun /\ run \in 0 .. LastRun
  /\ stage # "idle" => run \in RunNos
  /\ running \in Merged \cup {NoOverlay}
  /\ overlay \in Overlays
  /\ turnGrant \in SUBSET Granted
  /\ saved \in [RunNos -> Checkpoints]
  /\ due \in [RunNos -> [0 .. LastTurn + 1 -> SUBSET Granted]]

WithReply == {"assistant_appended", "tool_executing"}

(* An overlay grants no more than was granted for turn t.                  *)
DueIn(o, granted, t) == o # NoOverlay => o.tools \subseteq granted[t]

(* What may run unasked in this turn is due in it.                         *)
GrantIsDue == stage \in {"asked", "batch"} => turnGrant \subseteq due[run][skillTurn]
(* An overlay is due in the turn that will take it; between runs it is     *)
(* due in the first turn of whichever begins next.                         *)
OverlayIsDue ==
  /\ stage = "top" => DueIn(overlay, due[run], skillTurn)
  /\ stage = "asked" => overlay = NoOverlay
  /\ stage = "batch" => DueIn(overlay, due[run], skillTurn + 1)
(* A checkpoint leads back to a turn of its run with what is due in it.    *)
LeadsBack(c, granted) ==
  /\ c.phase \in WithReply => c.grant \subseteq granted[c.turn]
  /\ c.phase = "turn_complete" => c.turn < LastTurn /\ DueIn(c.overlay, granted, c.turn + 1)
  /\ c.phase \in {"user_appended", "provider_pending"} => DueIn(c.overlay, granted, c.turn)
SavedIsDue == \A r \in RunNos : LeadsBack(saved[r], due[r])

SkillsInv == SkillTypes /\ GrantIsDue /\ OverlayIsDue /\ SavedIsDue

USE DEF Turns

(* The turn is a natural number, and so is the one after it.               *)
LEMMA TurnIsNat ==
  ASSUME SkillTypes
  PROVE  /\ skillTurn \in Nat /\ LastTurn \in Nat /\ skillTurn <= LastTurn
         /\ skillTurn \in 0 .. LastTurn + 1 /\ skillTurn + 1 \in 0 .. LastTurn + 1
BY SkillsAssumption DEF SkillTypes, SkillsAssumption

(* The checkpoint of the active run is replaced by one that leads back.    *)
LEMMA CheckpointSaved ==
  ASSUME SkillTypes, SavedIsDue, NEW r \in RunNos, NEW c \in Checkpoints,
         saved' = [saved EXCEPT ![r] = c],
         \A q \in RunNos \ {r} : due'[q] = due[q], LeadsBack(c, due'[r])
  PROVE  saved' \in [RunNos -> Checkpoints] /\ SavedIsDue'
<1>1. saved' \in [RunNos -> Checkpoints]
  BY DEF SkillTypes
<1>2. ASSUME NEW q \in RunNos PROVE LeadsBack(saved'[q], due'[q])
  <2>1. CASE q = r
    <3>1. saved'[q] = c
      BY <2>1 DEF SkillTypes
    <3> QED
      BY <2>1, <3>1 DEF LeadsBack, DueIn
  <2>2. CASE q # r
    <3>1. saved'[q] = saved[q] /\ due'[q] = due[q]
      BY <2>2 DEF SkillTypes
    <3>2. LeadsBack(saved[q], due[q])
      BY DEF SavedIsDue
    <3> QED
      BY <3>1, <3>2 DEF LeadsBack, DueIn
  <2> QED
    BY <2>1, <2>2
<1> QED
  BY <1>1, <1>2 DEF SavedIsDue

(* A new run begins at the top of its first turn, in which what is pending *)
(* is due, and saves it.                                                   *)
LEMMA StartsRun == ASSUME SkillsInv, NewRun PROVE SkillsInv'
<1> DEFINE c == [phase |-> "user_appended", turn |-> 0, overlay |-> overlay, grant |-> turnGrant]
<1>1. /\ begun < LastRun /\ begun' = begun + 1 /\ run' = begun + 1 /\ skillTurn' = 0
      /\ stage' = "top" /\ overlay' = overlay /\ turnGrant' = turnGrant
      /\ due' = [due EXCEPT ![run'][0] = Pending] /\ skills' = skills /\ running' = running
      /\ saved' = [saved EXCEPT ![run'] = c]
  BY DEF NewRun, Checkpointed
<1>2. run' \in RunNos /\ begun' \in 0 .. LastRun /\ 0 \in Turns /\ 0 \in 0 .. LastTurn + 1
  BY <1>1, SkillsAssumption DEF SkillsInv, SkillTypes, RunNos, SkillsAssumption
<1>3. Pending \in SUBSET Granted /\ (overlay # NoOverlay => overlay.tools = Pending)
  BY DEF SkillsInv, SkillTypes, Overlays, Pending
<1>4. /\ due' \in [RunNos -> [0 .. LastTurn + 1 -> SUBSET Granted]]
      /\ due'[run'][0] = Pending /\ \A q \in RunNos \ {run'} : due'[q] = due[q]
  BY <1>1, <1>2, <1>3 DEF SkillsInv, SkillTypes
<1>5. c \in Checkpoints /\ LeadsBack(c, due'[run'])
  <2>1. c \in Checkpoints
    BY <1>2 DEF SkillsInv, SkillTypes, Checkpoints, Phases
  <2>2. DueIn(overlay, due'[run'], 0)
    BY <1>1, <1>3, <1>4 DEF DueIn
  <2> QED
    BY <1>1, <2>1, <2>2 DEF LeadsBack, WithReply, DueIn
<1>6. saved' \in [RunNos -> Checkpoints] /\ SavedIsDue'
  <2> HIDE DEF c
  <2> QED
    BY <1>1, <1>2, <1>4, <1>5, CheckpointSaved DEF SkillsInv
<1>7. SkillTypes'
  BY <1>1, <1>2, <1>4, <1>6 DEF SkillsInv, SkillTypes, Stages, RunNos
<1>8. GrantIsDue' /\ OverlayIsDue'
  BY <1>1, <1>3, <1>4 DEF GrantIsDue, OverlayIsDue, DueIn
<1> QED
  BY <1>6, <1>7, <1>8 DEF SkillsInv

(* The turn takes the overlay, which was due in it.                        *)
LEMMA TakesTurn == ASSUME SkillsInv, TurnTop PROVE SkillsInv'
<1> DEFINE c == [phase |-> "provider_pending", turn |-> skillTurn, overlay |-> NoOverlay,
                 grant |-> turnGrant']
<1>1. /\ stage = "top" /\ stage' = "asked" /\ overlay' = NoOverlay
      /\ turnGrant' = GrantOf(overlay)
      /\ begun' = begun /\ run' = run /\ skillTurn' = skillTurn /\ due' = due
      /\ skills' = skills /\ running' = running
      /\ saved' = [saved EXCEPT ![run] = c]
  BY DEF TurnTop, Checkpointed
<1>2. turnGrant' \in SUBSET Granted /\ turnGrant' \subseteq due[run][skillTurn]
  BY <1>1 DEF SkillsInv, SkillTypes, OverlayIsDue, DueIn, Overlays, GrantOf
<1>3. c \in Checkpoints /\ LeadsBack(c, due'[run])
  BY <1>1, <1>2 DEF SkillsInv, SkillTypes, Checkpoints, Phases, Overlays, LeadsBack, DueIn, WithReply
<1>4. saved' \in [RunNos -> Checkpoints] /\ SavedIsDue'
  <2> HIDE DEF c
  <2> QED
    BY <1>1, <1>3, CheckpointSaved DEF SkillsInv, SkillTypes
<1>5. SkillTypes'
  BY <1>1, <1>2, <1>4 DEF SkillsInv, SkillTypes, Stages, Overlays
<1>6. GrantIsDue' /\ OverlayIsDue'
  BY <1>1, <1>2 DEF GrantIsDue, OverlayIsDue
<1> QED
  BY <1>4, <1>5, <1>6 DEF SkillsInv

(* The request is made again or answered, or a call starts: nothing is     *)
(* taken or granted.                                                       *)
LEMMA KeepsGrants ==
  ASSUME SkillsInv,
         \/ AskedAgain \/ Replied
         \/ (\E s \in skills.loaded : SkillCalled(s)) \/ (\E t \in ToolNames : GrantedCall(t))
  PROVE  SkillsInv'
<1>1. PICK phase \in {"provider_pending", "assistant_appended", "tool_executing"} :
      /\ stage \in {"asked", "batch"} /\ stage' \in {"asked", "batch"}
      /\ stage = "batch" => stage' = "batch"
      /\ phase = "provider_pending" => stage = "asked"
      /\ overlay' = overlay /\ turnGrant' = turnGrant /\ due' = due
      /\ begun' = begun /\ run' = run /\ skillTurn' = skillTurn
      /\ skills' = skills /\ running' \in Merged \cup {NoOverlay}
      /\ saved' = [saved EXCEPT ![run] =
           [phase |-> phase, turn |-> skillTurn, overlay |-> overlay, grant |-> turnGrant]]
  BY DEF AskedAgain, Replied, SkillCalled, GrantedCall, Checkpointed, SkillsInv, SkillTypes, progress
<1> DEFINE c == [phase |-> phase, turn |-> skillTurn, overlay |-> overlay, grant |-> turnGrant]
<1>2. turnGrant \subseteq due[run][skillTurn] /\ (stage = "asked" => overlay = NoOverlay)
  BY <1>1 DEF SkillsInv, GrantIsDue, OverlayIsDue
<1>3. c \in Checkpoints /\ LeadsBack(c, due'[run])
  BY <1>1, <1>2 DEF SkillsInv, SkillTypes, Checkpoints, Phases, LeadsBack, DueIn, WithReply
<1>4. saved' \in [RunNos -> Checkpoints] /\ SavedIsDue'
  <2>1. saved' = [saved EXCEPT ![run] = c] /\ run \in RunNos /\ due' = due
    BY <1>1 DEF SkillsInv, SkillTypes
  <2> HIDE DEF c
  <2> QED
    BY <1>1, <1>3, <2>1, CheckpointSaved DEF SkillsInv
<1>5. SkillTypes'
  BY <1>1, <1>4 DEF SkillsInv, SkillTypes, Stages
<1>6. GrantIsDue' /\ OverlayIsDue'
  BY <1>1, <1>2 DEF SkillsInv, GrantIsDue, OverlayIsDue, DueIn
<1> QED
  BY <1>4, <1>5, <1>6 DEF SkillsInv

(* A skill grants in its turn, for the one after: what is due in this turn *)
(* and in other runs stays as it is.                                       *)
LEMMA Grants == ASSUME SkillsInv, SkillRuns PROVE SkillsInv'
<1> DEFINE c == [phase |-> "tool_executing", turn |-> skillTurn, overlay |-> overlay',
                 grant |-> turnGrant]
           o == [tools |-> running.tools, model |-> running.model]
<1>1. /\ stage = "batch" /\ stage' = stage /\ running # NoOverlay /\ running' = NoOverlay
      /\ turnGrant' = turnGrant /\ begun' = begun /\ run' = run /\ skillTurn' = skillTurn
      /\ skills' = skills /\ saved' = [saved EXCEPT ![run] = c]
      /\ \/ overlay' = overlay /\ due' = due
         \/ overlay' = o /\ due' = [due EXCEPT ![run][skillTurn + 1] = running.tools]
  BY DEF SkillRuns, Checkpointed, progress
<1>2. /\ running \in Merged /\ running.tools \in SUBSET Granted /\ o \in Overlays
      /\ run \in RunNos /\ o.tools = running.tools
  BY <1>1 DEF SkillsInv, SkillTypes, Granted, Overlays
<1>3. /\ due' \in [RunNos -> [0 .. LastTurn + 1 -> SUBSET Granted]] /\ overlay' \in Overlays
      /\ \A q \in RunNos \ {run} : due'[q] = due[q]
      /\ due'[run][skillTurn] = due[run][skillTurn]
      /\ DueIn(overlay', due'[run], skillTurn + 1)
  <2>1. CASE overlay' = overlay /\ due' = due
    BY <1>1, <2>1 DEF SkillsInv, SkillTypes, OverlayIsDue, DueIn
  <2>2. CASE overlay' = o /\ due' = [due EXCEPT ![run][skillTurn + 1] = running.tools]
    <3>1. due'[run][skillTurn + 1] = running.tools
      BY <1>2, <2>2, TurnIsNat DEF SkillsInv, SkillTypes
    <3>2. due'[run][skillTurn] = due[run][skillTurn]
      BY <1>2, <2>2, TurnIsNat DEF SkillsInv, SkillTypes
    <3>3. /\ due' \in [RunNos -> [0 .. LastTurn + 1 -> SUBSET Granted]]
          /\ \A q \in RunNos \ {run} : due'[q] = due[q]
      BY <1>2, <2>2, TurnIsNat DEF SkillsInv, SkillTypes
    <3>4. DueIn(overlay', due'[run], skillTurn + 1)
      BY <1>1, <1>2, <2>2, <3>1 DEF DueIn
    <3> QED
      BY <1>2, <2>2, <3>2, <3>3, <3>4
  <2> QED
    BY <1>1, <2>1, <2>2
<1>4. turnGrant \subseteq due'[run][skillTurn]
  BY <1>1, <1>3 DEF SkillsInv, GrantIsDue
<1>5. c \in Checkpoints /\ LeadsBack(c, due'[run])
  BY <1>1, <1>3, <1>4 DEF SkillsInv, SkillTypes, Checkpoints, Phases, LeadsBack, WithReply
<1>6. saved' \in [RunNos -> Checkpoints] /\ SavedIsDue'
  <2> HIDE DEF c
  <2> QED
    BY <1>1, <1>2, <1>3, <1>5, CheckpointSaved DEF SkillsInv
<1>7. SkillTypes'
  BY <1>1, <1>3, <1>6 DEF SkillsInv, SkillTypes, Stages
<1>8. GrantIsDue' /\ OverlayIsDue'
  BY <1>1, <1>3, <1>4 DEF GrantIsDue, OverlayIsDue, DueIn
<1> QED
  BY <1>6, <1>7, <1>8 DEF SkillsInv

(* The turn is over: what was granted in it is due in the next.            *)
LEMMA SkillTurnOver == ASSUME SkillsInv, BatchEnds PROVE SkillsInv'
<1> DEFINE c == [phase |-> "turn_complete", turn |-> skillTurn, overlay |-> overlay,
                 grant |-> turnGrant]
<1>1. /\ stage = "batch" /\ stage' = "top" /\ skillTurn < LastTurn /\ skillTurn' = skillTurn + 1
      /\ overlay' = overlay /\ turnGrant' = turnGrant /\ due' = due /\ begun' = begun /\ run' = run
      /\ skills' = skills /\ running' = running /\ saved' = [saved EXCEPT ![run] = c]
  BY DEF BatchEnds
<1>2. skillTurn' \in Turns /\ DueIn(overlay, due[run], skillTurn + 1) /\ run \in RunNos
  BY <1>1, TurnIsNat DEF SkillsInv, SkillTypes, OverlayIsDue
<1>3. c \in Checkpoints /\ LeadsBack(c, due'[run])
  BY <1>1, <1>2 DEF SkillsInv, SkillTypes, Checkpoints, Phases, LeadsBack, DueIn, WithReply
<1>4. saved' \in [RunNos -> Checkpoints] /\ SavedIsDue'
  <2> HIDE DEF c
  <2> QED
    BY <1>1, <1>2, <1>3, CheckpointSaved DEF SkillsInv
<1>5. SkillTypes'
  BY <1>1, <1>2, <1>4 DEF SkillsInv, SkillTypes, Stages
<1>6. GrantIsDue' /\ OverlayIsDue'
  BY <1>1, <1>2 DEF GrantIsDue, OverlayIsDue, DueIn
<1> QED
  BY <1>4, <1>5, <1>6 DEF SkillsInv

(* A run that ends, is dropped or dies leaves its checkpoint or none.      *)
LEMMA LeavesRun == ASSUME SkillsInv, RunEnds \/ RunDropped \/ ProcessDies PROVE SkillsInv'
<1>1. /\ stage' = "idle" /\ skillTurn' = skillTurn /\ due' = due /\ begun' = begun /\ run' = run
      /\ skills' = skills /\ running' = NoOverlay
      /\ \/ overlay' = overlay /\ turnGrant' = turnGrant
         \/ overlay' = NoOverlay /\ turnGrant' = {}
      /\ \/ saved' = saved
         \/ run \in RunNos /\ saved' = [saved EXCEPT ![run] = NotSaved]
  BY DEF RunEnds, RunDropped, RunLeft, ProcessDies, SkillsInv, SkillTypes
<1>2. NotSaved \in Checkpoints /\ LeadsBack(NotSaved, due'[run])
  BY SkillsAssumption
  DEF SkillsAssumption, NotSaved, Checkpoints, Phases, Overlays, LeadsBack, WithReply
<1>3. saved' \in [RunNos -> Checkpoints] /\ SavedIsDue'
  <2>1. CASE saved' = saved
    BY <1>1, <2>1 DEF SkillsInv, SkillTypes, SavedIsDue, LeadsBack, DueIn
  <2>2. CASE run \in RunNos /\ saved' = [saved EXCEPT ![run] = NotSaved]
    BY <1>1, <1>2, <2>2, CheckpointSaved DEF SkillsInv
  <2> QED
    BY <1>1, <2>1, <2>2
<1>4. SkillTypes'
  BY <1>1, <1>3 DEF SkillsInv, SkillTypes, Stages, Overlays
<1>5. GrantIsDue' /\ OverlayIsDue'
  BY <1>1 DEF GrantIsDue, OverlayIsDue
<1> QED
  BY <1>3, <1>4, <1>5 DEF SkillsInv

(* Resuming is in the turn the checkpoint leads back to.                   *)
LEMMA ResumesRun == ASSUME SkillsInv, NEW r \in RunNos, RunResumes(r) PROVE SkillsInv'
<1>1. /\ saved[r].phase # "none" /\ run' = r
      /\ skillTurn' = saved[r].turn + (IF saved[r].phase = "turn_complete" THEN 1 ELSE 0)
      /\ stage' = IF saved[r].phase \in WithReply THEN "batch" ELSE "top"
      /\ overlay' = IF saved[r].phase \in WithReply THEN NoOverlay ELSE saved[r].overlay
      /\ turnGrant' = saved[r].grant
      /\ saved' = saved /\ due' = due /\ begun' = begun
      /\ skills' = skills /\ running' = running
  BY DEF RunResumes, WithReply
<1>2. saved[r] \in Checkpoints /\ LeadsBack(saved[r], due[r]) /\ saved[r].turn \in Nat
  BY SkillsAssumption
  DEF SkillsInv, SkillTypes, SavedIsDue, Checkpoints, SkillsAssumption
<1>3. skillTurn' \in Turns
  BY <1>1, <1>2, SkillsAssumption DEF Checkpoints, LeadsBack, SkillsAssumption
<1>4. SkillTypes'
  BY <1>1, <1>2, <1>3 DEF SkillsInv, SkillTypes, Stages, Checkpoints, Overlays, RunNos
<1>5. GrantIsDue' /\ OverlayIsDue'
  BY <1>1, <1>2 DEF LeadsBack, GrantIsDue, OverlayIsDue, DueIn, Checkpoints, Phases, WithReply
<1>6. SavedIsDue'
  BY <1>1 DEF SkillsInv, SavedIsDue, LeadsBack, DueIn
<1> QED
  BY <1>4, <1>5, <1>6 DEF SkillsInv

(* What a skill allows runs unasked in the turn after it, or in the first  *)
(* of a run that begins while it is pending, and in no other.              *)
THEOREM GrantsAreForTheNextTurn == SkillsSpec => []GrantForNextTurn
<1>1. SkillsInit => SkillsInv
  <2> SUFFICES ASSUME SkillsInit PROVE SkillsInv
    OBVIOUS
  <2>1. 0 \in Turns /\ 0 \in 0 .. LastRun /\ NotSaved \in Checkpoints
    BY SkillsAssumption DEF SkillsAssumption, NotSaved, Checkpoints, Phases, Overlays
  <2>2. SkillTypes
    BY <2>1 DEF SkillsInit, SkillTypes, Stages, Overlays
  <2>3. GrantIsDue /\ OverlayIsDue /\ SavedIsDue
    BY DEF SkillsInit, NotSaved, GrantIsDue, OverlayIsDue, SavedIsDue, LeadsBack, WithReply
  <2> QED
    BY <2>2, <2>3 DEF SkillsInv
<1>2. SkillsInv /\ [SkillsNext]_skillVars => SkillsInv'
  <2> SUFFICES ASSUME SkillsInv, [SkillsNext]_skillVars
               PROVE  SkillsInv'
    OBVIOUS
  <2>1. CASE UNCHANGED skillVars
    BY <2>1 DEF skillVars, progress, SkillsInv, SkillTypes, GrantIsDue, OverlayIsDue, SavedIsDue,
                LeadsBack, DueIn
  <2>2. CASE ConnectSkills
    BY <2>2 DEF ConnectSkills, progress, SkillsInv, SkillTypes, GrantIsDue, OverlayIsDue,
                SavedIsDue, LeadsBack, DueIn
  <2> QED
    BY <2>1, <2>2, StartsRun, TakesTurn, KeepsGrants, Grants, SkillTurnOver, LeavesRun, ResumesRun
    DEF SkillsNext
<1>3. SkillsInv => GrantForNextTurn
  BY DEF SkillsInv, GrantIsDue, GrantForNextTurn
<1> QED
  BY <1>1, <1>2, <1>3, PTL DEF SkillsSpec

-----------------------------------------------------------------------------
(***************************************************************************)
(* A traced run that is over has no span open, for any runs, turns, tools  *)
(* and any number of cancellations and failures.                           *)
(***************************************************************************)

Kinds == {"none", "run start", "run end", "turn start", "turn end",
          "call start", "call end", "tool start", "tool end"}
Events == [kind : Kinds, turn : Nat, tool : ToolIds \cup {0}]
Places == InTry \cup {"new", "prompt", "except", "finally", "over"}
Standings ==
  [at : Places, turn : Nat, open : Nat \cup {NoTurn}, calling : BOOLEAN,
   tool : ToolIds \cup {0}, event : Events, heard : BOOLEAN, next : Places]
TracerTypes == tracer \in [TracedRuns -> Standings]
OtelTypes ==
  otel \in [runs : SUBSET TracedRuns, over : SUBSET TracedRuns,
            turns : SUBSET (TracedRuns \X Nat), calls : SUBSET (TracedRuns \X Nat),
            tools : SUBSET (TracedRuns \X (ToolIds \cup {0}))]

(* The end of a run is told outside of its try, and nothing after it.      *)
EndIsLast ==
  \A r \in TracedRuns : tracer[r].event.kind = "run end" =>
    tracer[r].next = "over" /\ tracer[r].at \in {"prompt", "finally"}
(* A run whose end was traced has told nothing else since.                 *)
SilentAfterEnd ==
  \A r \in otel.over :
    \/ tracer[r].event.kind = "run end" /\ tracer[r].heard
    \/ tracer[r].event = NoEvent /\ tracer[r].at = "over"

(* Only what is told is heard.                                             *)
HeardIsTold == \A r \in TracedRuns : tracer[r].heard => tracer[r].event # NoEvent

SpansInv ==
  /\ TracerTypes /\ OtelTypes
  /\ EndIsLast /\ HeardIsTold /\ SilentAfterEnd /\ ClosedWithTheRun

(* What a run does by itself: it tells an event, or goes on.               *)
RunStep(r) ==
  \/ RunBegins(r) \/ PromptPasses(r) \/ PromptDenied(r) \/ LeftEarly(r)
  \/ TurnBegins(r) \/ CallBegins(r) \/ CallEnds(r) \/ ToolBegins(r) \/ ToolEnds(r)
  \/ TurnCloses(r) \/ RunReturns(r) \/ RunRaises(r) \/ Closes(r)

(* Such a step is taken by a run that is not over, changes that run alone, *)
(* and what it tells is not heard yet.                                     *)
Leads(s) ==
  /\ s \in Standings /\ ~s.heard
  /\ s.event.kind = "run end" => s.next = "over" /\ s.at \in {"prompt", "finally"}
Goes(r) ==
  /\ otel' = otel
  /\ tracer[r].event = NoEvent /\ tracer[r].at # "over"
  /\ \E s \in Standings : Leads(s) /\ tracer' = [tracer EXCEPT ![r] = s]

(* Telling an event is such a step, where the end of a run is told last.   *)
LEMMA Telling ==
  ASSUME TracerTypes, NEW r \in TracedRuns, NEW s \in Standings, NEW e \in Events,
         NEW then \in Places, tracer[r].event = NoEvent, tracer[r].at # "over",
         e.kind = "run end" => then = "over" /\ s.at \in {"prompt", "finally"},
         Tell(r, s, e, then)
  PROVE  Goes(r)
<1> DEFINE t == [s EXCEPT !.event = e, !.heard = FALSE, !.next = then]
<1>1. t \in Standings /\ ~t.heard /\ t.event = e /\ t.next = then /\ t.at = s.at
  BY DEF Standings
<1>2. tracer' = [tracer EXCEPT ![r] = t] /\ otel' = otel
  BY DEF Tell
<1> HIDE DEF t
<1> QED
  BY <1>1, <1>2 DEF Goes, Leads

(* So is going on to another place of the run without telling anything.    *)
LEMMA Proceeding ==
  ASSUME TracerTypes, HeardIsTold, NEW r \in TracedRuns, NEW place \in Places,
         tracer[r].event = NoEvent, tracer[r].at # "over", Proceeds(r, place)
  PROVE  Goes(r)
<1> DEFINE t == [tracer[r] EXCEPT !.at = place]
<1>1. tracer[r] \in Standings /\ ~tracer[r].heard
  BY DEF TracerTypes, HeardIsTold
<1>2. t \in Standings /\ ~t.heard /\ t.event = NoEvent
  BY <1>1 DEF Standings
<1>3. tracer' = [tracer EXCEPT ![r] = t] /\ otel' = otel
  BY DEF Proceeds
<1>4. NoEvent.kind # "run end"
  BY DEF NoEvent
<1> HIDE DEF t
<1> QED
  BY <1>2, <1>3, <1>4 DEF Goes, Leads

(* And every step a run takes by itself is of these two forms.             *)
LEMMA StepsGo ==
  ASSUME TracerTypes, HeardIsTold, NEW r \in TracedRuns, RunStep(r)
  PROVE  Goes(r)
<1>1. tracer[r] \in Standings
  BY DEF TracerTypes
<1>2. \A k \in Kinds : Event(k, r) \in Events /\ Event(k, r).kind = k
  BY <1>1 DEF Event, Events, Standings
<1>3. /\ Kinds = {"none", "run start", "run end", "turn start", "turn end",
                  "call start", "call end", "tool start", "tool end"}
      /\ Places = {"top", "turn", "call", "reply", "tool", "new", "prompt", "except",
                   "finally", "over"}
  BY DEF Kinds, Places, InTry
<1>4. \A id \in ToolIds :
        /\ [tracer[r] EXCEPT !.tool = id] \in Standings
        /\ [Event("tool start", r) EXCEPT !.tool = id] \in Events
        /\ [Event("tool start", r) EXCEPT !.tool = id].kind = "tool start"
  BY <1>1, <1>2, <1>3 DEF Standings, Event, Events
<1>5. /\ [tracer[r] EXCEPT !.calling = FALSE] \in Standings
      /\ [tracer[r] EXCEPT !.calling = FALSE].at = tracer[r].at
      /\ [tracer[r] EXCEPT !.open = NoTurn] \in Standings
      /\ [tracer[r] EXCEPT !.open = NoTurn].at = tracer[r].at
      /\ [tracer[r] EXCEPT !.open = NoTurn, !.turn = @ + 1] \in Standings
  <2>1. [tracer[r] EXCEPT !.calling = FALSE] \in Standings
    BY <1>1 DEF Standings
  <2>2. [tracer[r] EXCEPT !.open = NoTurn] \in Standings
    BY <1>1 DEF Standings
  <2>3. [tracer[r] EXCEPT !.open = NoTurn, !.turn = @ + 1] \in Standings
    <3>1. tracer[r].turn + 1 \in Nat
      BY <1>1 DEF Standings
    <3> QED
      BY <1>1, <3>1 DEF Standings
  <2>4. /\ [tracer[r] EXCEPT !.calling = FALSE].at = tracer[r].at
        /\ [tracer[r] EXCEPT !.open = NoTurn].at = tracer[r].at
    BY <1>1 DEF Standings
  <2> QED
    BY <2>1, <2>2, <2>3, <2>4
<1>6. CASE RunBegins(r)
  BY <1>1, <1>2, <1>3, <1>6, Telling DEF RunBegins, Stands
<1>7. CASE PromptPasses(r) \/ LeftEarly(r) \/ RunReturns(r)
  BY <1>3, <1>7, Proceeding DEF PromptPasses, LeftEarly, RunReturns, Stands
<1>8. CASE PromptDenied(r)
  BY <1>1, <1>2, <1>3, <1>8, Telling DEF PromptDenied, Stands
<1>9. CASE TurnBegins(r)
  BY <1>1, <1>2, <1>3, <1>9, Telling DEF TurnBegins, Stands
<1>10. CASE CallBegins(r)
  BY <1>1, <1>2, <1>3, <1>10, Telling DEF CallBegins, Stands
<1>11. CASE CallEnds(r)
  BY <1>2, <1>3, <1>5, <1>11, Telling DEF CallEnds, Stands
<1>12. CASE ToolBegins(r)
  <2>1. PICK id \in ToolIds :
          Tell(r, [tracer[r] EXCEPT !.tool = id], [Event("tool start", r) EXCEPT !.tool = id],
               "tool")
    BY <1>12 DEF ToolBegins
  <2>2. tracer[r].event = NoEvent /\ tracer[r].at = "reply"
    BY <1>12 DEF ToolBegins, Stands
  <2> QED
    BY <1>3, <1>4, <2>1, <2>2, Telling
<1>13. CASE ToolEnds(r)
  BY <1>1, <1>2, <1>3, <1>13, Telling DEF ToolEnds, Stands
<1>14. CASE TurnCloses(r)
  BY <1>2, <1>3, <1>5, <1>14, Telling DEF TurnCloses, Stands
<1>15. CASE RunRaises(r)
  BY <1>3, <1>15, Proceeding DEF RunRaises, Stands, InTry
<1>16. CASE Closes(r)
  <2>1. tracer[r].event = NoEvent /\ tracer[r].at \in {"except", "finally"}
    BY <1>16 DEF Closes, Stands
  <2>2. CASE Tell(r, [tracer[r] EXCEPT !.calling = FALSE], Event("call end", r), tracer[r].at)
    BY <1>2, <1>3, <1>5, <2>1, <2>2, Telling
  <2>3. CASE Tell(r, [tracer[r] EXCEPT !.open = NoTurn], Event("turn end", r), tracer[r].at)
    BY <1>2, <1>3, <1>5, <2>1, <2>3, Telling
  <2>4. CASE Proceeds(r, "finally")
    BY <1>3, <2>1, <2>4, Proceeding
  <2>5. CASE tracer[r].at # "except" /\ Tell(r, tracer[r], Event("run end", r), "over")
    BY <1>1, <1>2, <1>3, <2>1, <2>5, Telling
  <2> QED
    BY <1>16, <2>2, <2>3, <2>4, <2>5 DEF Closes
<1> QED
  BY <1>6, <1>7, <1>8, <1>9, <1>10, <1>11, <1>12, <1>13, <1>14, <1>15, <1>16 DEF RunStep

(* A step of that kind is of a run whose end was not traced: it keeps all. *)
LEMMA GoingOn ==
  ASSUME SpansInv, NEW r \in TracedRuns, Goes(r)
  PROVE  SpansInv'
<1>1. PICK s \in Standings : Leads(s) /\ tracer' = [tracer EXCEPT ![r] = s]
  BY DEF Goes
<1>2. otel' = otel /\ r \notin otel.over
  BY DEF Goes, SpansInv, SilentAfterEnd, HeardIsTold
<1>3. TracerTypes' /\ OtelTypes'
  BY <1>1, <1>2 DEF SpansInv, TracerTypes, OtelTypes
<1>4. EndIsLast' /\ HeardIsTold'
  BY <1>1 DEF SpansInv, TracerTypes, EndIsLast, HeardIsTold, Leads
<1>5. SilentAfterEnd'
  BY <1>1, <1>2 DEF SpansInv, TracerTypes, OtelTypes, SilentAfterEnd
<1>6. ClosedWithTheRun'
  BY <1>2 DEF SpansInv, ClosedWithTheRun
<1> QED
  BY <1>3, <1>4, <1>5, <1>6 DEF SpansInv

(* What the observer makes of an event of a run that is not over.          *)
LEMMA Tracing ==
  ASSUME OtelTypes, ClosedWithTheRun, NEW r \in TracedRuns, NEW e \in Events, r \notin otel.over,
         otel' = Traced(otel, r, e)
  PROVE  /\ OtelTypes' /\ ClosedWithTheRun'
         /\ otel'.over \subseteq otel.over \cup {r}
         /\ e.kind # "run end" => otel'.over = otel.over
<1>1. Span(r, e) \in TracedRuns \X Nat /\ Span(r, e)[1] = r
  BY DEF Span, Events
<1>2. CASE e.kind = "run start"
  BY <1>2 DEF Traced, OtelTypes, ClosedWithTheRun
<1>3. CASE e.kind = "run end"
  BY <1>3 DEF Traced, RunEnded, OfRun, OtelTypes, ClosedWithTheRun
<1>4. CASE e.kind = "turn start"
  BY <1>1, <1>4 DEF Traced, OtelTypes, ClosedWithTheRun
<1>5. CASE e.kind = "turn end"
  BY <1>5 DEF Traced, OtelTypes, ClosedWithTheRun
<1>6. CASE e.kind = "call start"
  BY <1>1, <1>6 DEF Traced, OtelTypes, ClosedWithTheRun
<1>7. CASE e.kind = "call end"
  BY <1>7 DEF Traced, OtelTypes, ClosedWithTheRun
<1>8. CASE e.kind \in {"none", "tool start", "tool end"}
  <2>1. e.tool \in ToolIds \cup {0} /\ <<r, e.tool>> \in TracedRuns \X (ToolIds \cup {0})
    BY DEF Events
  <2>2. PICK tools \in SUBSET (TracedRuns \X (ToolIds \cup {0})) :
          otel' = [otel EXCEPT !.tools = tools]
    <3>1. {x \in otel.tools : x[2] # e.tool} \in SUBSET (TracedRuns \X (ToolIds \cup {0}))
      BY DEF OtelTypes
    <3>2. CASE e.kind = "tool start"
      BY <2>1, <3>1, <3>2 DEF Traced
    <3>3. CASE e.kind \in {"none", "tool end"}
      BY <3>1, <3>3 DEF Traced
    <3> QED
      BY <1>8, <3>2, <3>3
  <2> QED
    BY <2>2 DEF OtelTypes, ClosedWithTheRun
<1> QED
  BY <1>2, <1>3, <1>4, <1>5, <1>6, <1>7, <1>8 DEF Events, Kinds

(* The observer takes the event of a run that is not over.                 *)
LEMMA Observing ==
  ASSUME SpansInv, NEW r \in TracedRuns, Observed(r)
  PROVE  SpansInv'
<1>1. /\ tracer[r].event # NoEvent /\ ~tracer[r].heard
      /\ tracer' = [tracer EXCEPT ![r].heard = TRUE]
      /\ otel' = Traced(otel, r, tracer[r].event) \/ otel' = otel
  BY DEF Observed
<1>2. r \notin otel.over
  BY <1>1 DEF SpansInv, SilentAfterEnd
<1>3. TracerTypes'
  BY <1>1 DEF SpansInv, TracerTypes, Standings
<1>4. /\ tracer'[r].event = tracer[r].event /\ tracer'[r].heard
      /\ tracer'[r].next = tracer[r].next /\ tracer'[r].at = tracer[r].at
      /\ \A q \in TracedRuns \ {r} : tracer'[q] = tracer[q]
  BY <1>1 DEF SpansInv, TracerTypes, Standings
<1>5. EndIsLast' /\ HeardIsTold'
  <2>1. ASSUME NEW q \in TracedRuns
        PROVE  /\ tracer'[q].event.kind = "run end" =>
                    tracer'[q].next = "over" /\ tracer'[q].at \in {"prompt", "finally"}
               /\ tracer'[q].heard => tracer'[q].event # NoEvent
    <3>1. CASE q = r
      <4>1. tracer[r].event.kind = "run end" =>
              tracer[r].next = "over" /\ tracer[r].at \in {"prompt", "finally"}
        BY DEF SpansInv, EndIsLast
      <4>2. tracer'[r].event # NoEvent
        BY <1>1, <1>4
      <4>3. tracer'[r].event.kind = "run end" =>
              tracer'[r].next = "over" /\ tracer'[r].at \in {"prompt", "finally"}
        BY <1>4, <4>1
      <4> QED
        BY <3>1, <4>2, <4>3
    <3>2. CASE q # r
      BY <1>4, <3>2 DEF SpansInv, EndIsLast, HeardIsTold
    <3> QED
      BY <3>1, <3>2
  <2> QED
    BY <2>1 DEF EndIsLast, HeardIsTold, NoEvent
<1>6. CASE otel' = otel
  <2>1. SilentAfterEnd'
    BY <1>2, <1>4, <1>6 DEF SpansInv, SilentAfterEnd, OtelTypes
  <2> QED
    BY <1>3, <1>5, <1>6, <2>1 DEF SpansInv, OtelTypes, ClosedWithTheRun
<1>7. CASE otel' = Traced(otel, r, tracer[r].event)
  <2>1. tracer[r].event \in Events
    BY DEF SpansInv, TracerTypes, Standings
  <2>2. /\ OtelTypes' /\ ClosedWithTheRun'
        /\ otel'.over \subseteq otel.over \cup {r}
        /\ tracer[r].event.kind # "run end" => otel'.over = otel.over
    BY <1>2, <1>7, <2>1, Tracing DEF SpansInv
  <2>3. SilentAfterEnd'
    <3> SUFFICES ASSUME NEW q \in otel'.over
                 PROVE  \/ tracer'[q].event.kind = "run end" /\ tracer'[q].heard
                        \/ tracer'[q].event = NoEvent /\ tracer'[q].at = "over"
      BY DEF SilentAfterEnd, NoEvent
    <3>1. CASE q = r
      BY <1>2, <1>4, <2>2, <3>1
    <3>2. CASE q # r
      <4>1. q \in otel.over /\ q \in TracedRuns
        BY <2>2, <3>2 DEF SpansInv, OtelTypes
      <4>2. tracer'[q] = tracer[q]
        BY <1>4, <3>2, <4>1
      <4> QED
        BY <4>1, <4>2 DEF SpansInv, SilentAfterEnd
    <3> QED
      BY <3>1, <3>2
  <2> QED
    BY <1>3, <1>5, <2>2, <2>3 DEF SpansInv
<1> QED
  BY <1>1, <1>6, <1>7

(* The run goes on once its event was taken, or is cancelled in between.   *)
LEMMA Returning ==
  ASSUME SpansInv, NEW r \in TracedRuns, Told(r) \/ Cancelled(r)
  PROVE  SpansInv'
<1>1. otel' = otel
  BY DEF Told, Cancelled
<1>2. tracer[r] \in Standings
  BY DEF SpansInv, TracerTypes
<1>3. NoEvent \in Events /\ NoEvent.kind = "none"
  BY DEF NoEvent, Events, Kinds
<1>4. /\ tracer' = [tracer EXCEPT ![r] = tracer'[r]]
      /\ tracer'[r] \in Standings
      /\ tracer'[r].event = NoEvent /\ ~tracer'[r].heard
      /\ tracer[r].event.kind = "run end" => tracer'[r].at = "over"
      /\ tracer[r].event # NoEvent
  <2>1. CASE Told(r)
    <3> DEFINE s == AfterTold(tracer[r])
    <3>1. s \in Standings
      BY <1>2 DEF AfterTold, Standings, Events
    <3>2. tracer' = [tracer EXCEPT ![r] = [s EXCEPT !.event = NoEvent, !.heard = FALSE,
                                                    !.at = tracer[r].next]]
      BY <2>1 DEF Told
    <3>3. tracer[r].event.kind = "run end" => tracer[r].next = "over"
      BY DEF SpansInv, EndIsLast
    <3> HIDE DEF s
    <3> DEFINE t == [s EXCEPT !.event = NoEvent, !.heard = FALSE, !.at = tracer[r].next]
    <3>4. /\ t \in Standings /\ t.event = NoEvent /\ ~t.heard /\ t.at = tracer[r].next
      BY <1>2, <1>3, <3>1 DEF Standings
    <3>5. tracer[r].event # NoEvent
      BY <2>1 DEF Told, SpansInv, HeardIsTold
    <3> HIDE DEF t
    <3> QED
      BY <3>2, <3>3, <3>4, <3>5 DEF SpansInv, TracerTypes, t
  <2>2. CASE Cancelled(r)
    <3>1. tracer[r].event.kind = "run end" => tracer[r].at \in {"prompt", "finally"}
      BY DEF SpansInv, EndIsLast
    <3> DEFINE place == Interrupted(tracer[r].at)
               t == [tracer[r] EXCEPT !.event = NoEvent, !.heard = FALSE, !.at = place]
    <3>2. place \in Places /\ (tracer[r].at \in {"prompt", "finally"} => place = "over")
      BY DEF Interrupted, Places, InTry
    <3>3. tracer' = [tracer EXCEPT ![r] = t]
      BY <2>2 DEF Cancelled
    <3>5. tracer[r].event # NoEvent
      BY <2>2 DEF Cancelled
    <3> HIDE DEF place
    <3>4. t \in Standings /\ t.event = NoEvent /\ ~t.heard /\ t.at = place
      BY <1>2, <1>3, <3>2 DEF Standings
    <3> HIDE DEF t
    <3> QED
      BY <3>1, <3>2, <3>3, <3>4, <3>5 DEF SpansInv, TracerTypes
  <2> QED
    BY <2>1, <2>2
<1>5. TracerTypes' /\ OtelTypes' /\ ClosedWithTheRun'
  BY <1>1, <1>4 DEF SpansInv, TracerTypes, OtelTypes, ClosedWithTheRun
<1>6. EndIsLast' /\ HeardIsTold'
  BY <1>3, <1>4 DEF SpansInv, TracerTypes, EndIsLast, HeardIsTold
<1>7. SilentAfterEnd'
  <2> SUFFICES ASSUME NEW q \in otel.over
               PROVE  \/ tracer'[q].event.kind = "run end" /\ tracer'[q].heard
                      \/ tracer'[q].event = NoEvent /\ tracer'[q].at = "over"
    BY <1>1 DEF SilentAfterEnd
  <2>1. CASE q # r
    BY <1>4, <2>1 DEF SpansInv, SilentAfterEnd, TracerTypes, OtelTypes
  <2>2. CASE q = r
    <3>1. tracer[r].event.kind = "run end" \/ (tracer[r].event = NoEvent /\ tracer[r].at = "over")
      BY <2>2 DEF SpansInv, SilentAfterEnd
    <3> QED
      BY <1>4, <2>2, <3>1
  <2> QED
    BY <2>1, <2>2
<1> QED
  BY <1>5, <1>6, <1>7 DEF SpansInv

(* A run whose end was traced has no turn and no provider call open.       *)
THEOREM EndedRunsAreClosed == SpansSpec => []ClosedWithTheRun
<1>1. SpansInit => SpansInv
  <2> SUFFICES ASSUME SpansInit PROVE SpansInv
    OBVIOUS
  <2>1. NoEvent \in Events /\ NoEvent.kind = "none" /\ "new" \in Places
    BY DEF NoEvent, Events, Kinds, Places
  <2>2. TracerTypes
    BY <2>1 DEF SpansInit, TracerTypes, Standings
  <2>3. EndIsLast /\ HeardIsTold
    BY <2>1 DEF SpansInit, EndIsLast, HeardIsTold
  <2>4. OtelTypes /\ SilentAfterEnd /\ ClosedWithTheRun
    BY DEF SpansInit, OtelTypes, SilentAfterEnd, ClosedWithTheRun
  <2> QED
    BY <2>2, <2>3, <2>4 DEF SpansInv
<1>2. SpansInv /\ [SpansNext]_spanVars => SpansInv'
  <2> SUFFICES ASSUME SpansInv, [SpansNext]_spanVars
               PROVE  SpansInv'
    OBVIOUS
  <2>1. CASE UNCHANGED spanVars
    BY <2>1 DEF spanVars, SpansInv, TracerTypes, OtelTypes, EndIsLast, HeardIsTold,
                SilentAfterEnd, ClosedWithTheRun
  <2>2. ASSUME NEW r \in TracedRuns, RunStep(r)
        PROVE  SpansInv'
    BY <2>2, StepsGo, GoingOn DEF SpansInv
  <2>3. ASSUME NEW r \in TracedRuns, Observed(r)
        PROVE  SpansInv'
    BY <2>3, Observing
  <2>4. ASSUME NEW r \in TracedRuns, Told(r) \/ Cancelled(r)
        PROVE  SpansInv'
    BY <2>4, Returning
  <2> QED
    BY <2>1, <2>2, <2>3, <2>4 DEF SpansNext, RunStep
<1>3. SpansInv => ClosedWithTheRun
  BY DEF SpansInv
<1> QED
  BY <1>1, <1>2, <1>3, PTL DEF SpansSpec

-----------------------------------------------------------------------------
(***************************************************************************)
(* The files of an agents directory stay as they are unless a generation   *)
(* was told to overwrite, for any files, names and generations at once.    *)
(***************************************************************************)

FileTypes ==
  [name : AgentNames \cup Spellings \cup {""}, by : Creators \cup {"host"}, fine : BOOLEAN]
    \cup {NoFile}
Directories == [Entries -> FileTypes]
Answers == {Serves(fs, n) : fs \in Directories, n \in AgentNames} \cup {0}
Generations ==
  [pc : {"new", "asked", "done", "failed"}, overwrite : BOOLEAN, taken : SUBSET AgentNames,
   gave : Entries \cup {0}, got : Answers]
CatalogTypes == agentFiles \in Directories /\ creator \in [Creators -> Generations]

(* A file changes that was not there, or for a generation whose answer is  *)
(* just in and which may overwrite.                                        *)
Overwritten ==
  \A i \in Entries : agentFiles[i] # NoFile /\ agentFiles'[i] # agentFiles[i] =>
    \E c \in Creators : creator[c].overwrite /\ creator[c].pc = "asked"
                       /\ creator'[c].pc # "asked"

(* Asking, and an answer that is refused, write nothing.                   *)
LEMMA Asking ==
  ASSUME CatalogTypes, NEW c \in Creators,
         (\E overwrite \in BOOLEAN : AskModel(c, overwrite)) \/ AnswerRefused(c)
  PROVE  CatalogTypes' /\ Overwritten
<1>1. creator[c] \in Generations /\ agentFiles' = agentFiles
  BY DEF CatalogTypes, AskModel, AnswerRefused
<1>2. \A o \in BOOLEAN : (IF o THEN {} ELSE Existing) \in SUBSET AgentNames
  BY DEF Existing
<1>3. CASE AnswerRefused(c)
  BY <1>1, <1>3 DEF AnswerRefused, CatalogTypes, Generations, Overwritten
<1>4. CASE \E overwrite \in BOOLEAN : AskModel(c, overwrite)
  <2>1. PICK overwrite \in BOOLEAN : AskModel(c, overwrite)
    BY <1>4
  <2> DEFINE names == IF overwrite THEN {} ELSE Existing
             g == [creator[c] EXCEPT !.pc = "asked", !.overwrite = overwrite, !.taken = names]
  <2>3. creator' = [creator EXCEPT ![c] = g]
    BY <2>1 DEF AskModel, CatalogTypes
  <2>4. names \in SUBSET AgentNames
    BY <1>2
  <2> HIDE DEF names
  <2>2. g \in Generations
    BY <1>1, <2>1, <2>4 DEF Generations
  <2> HIDE DEF g
  <2> QED
    BY <1>1, <2>2, <2>3 DEF CatalogTypes, Overwritten
<1> QED
  BY <1>3, <1>4

(* What is written goes to one file, that was free or may be overwritten.  *)
LEMMA Writing ==
  ASSUME CatalogTypes, NEW c \in Creators, NEW n \in AgentNames,
         AnswerWritten(c, n) \/ DiesWriting(c, n)
  PROVE  CatalogTypes' /\ Overwritten
<1>1. creator[c] \in Generations /\ creator[c].pc = "asked"
  BY DEF CatalogTypes, AnswerWritten, DiesWriting
<1>2. /\ Definition(n, c) \in FileTypes /\ Torn(c) \in FileTypes
  BY DEF Definition, Torn, FileTypes
<1>3. CASE AnswerWritten(c, n)
  <2>1. PICK i \in Entries :
          IF MayWrite(c, i)
          THEN /\ agentFiles' = [agentFiles EXCEPT ![i] = Definition(n, c)]
               /\ creator' = [creator EXCEPT ![c].pc = "done", ![c].gave = i,
                                             ![c].got = Serves(agentFiles', n)]
          ELSE creator' = [creator EXCEPT ![c].pc = "failed"] /\ agentFiles' = agentFiles
    BY <1>3 DEF AnswerWritten
  <2>2. CASE MayWrite(c, i)
    <3> DEFINE serves == Serves(agentFiles', n)
               g == [creator[c] EXCEPT !.pc = "done", !.gave = i, !.got = serves]
    <3>1. agentFiles' = [agentFiles EXCEPT ![i] = Definition(n, c)]
      BY <2>1, <2>2
    <3>2. agentFiles' \in Directories
      BY <1>2, <3>1 DEF CatalogTypes, Directories
    <3>3. creator' = [creator EXCEPT ![c] = g]
      BY <2>1, <2>2 DEF CatalogTypes
    <3>4. serves \in Answers
      BY <3>2 DEF Answers
    <3> HIDE DEF serves
    <3>7. g \in Generations /\ g.pc = "done"
      BY <1>1, <3>4 DEF Generations
    <3> HIDE DEF g
    <3>5. CatalogTypes' /\ creator'[c].pc # "asked"
      BY <3>2, <3>3, <3>7 DEF CatalogTypes
    <3>6. \A j \in Entries : agentFiles[j] # NoFile /\ agentFiles'[j] # agentFiles[j] =>
            creator[c].overwrite
      BY <2>2, <3>1 DEF CatalogTypes, Directories, MayWrite
    <3> QED
      BY <1>1, <3>5, <3>6 DEF Overwritten
  <2>3. CASE ~MayWrite(c, i)
    BY <1>1, <2>1, <2>3 DEF CatalogTypes, Generations, Overwritten
  <2> QED
    BY <2>2, <2>3
<1>4. CASE DiesWriting(c, n)
  <2>1. PICK i \in Entries :
          MayWrite(c, i) /\ agentFiles' = [agentFiles EXCEPT ![i] = Torn(c)]
    BY <1>4 DEF DiesWriting
  <2>2. \A d \in Creators : [creator[d] EXCEPT !.pc = "failed"] \in Generations
    BY DEF CatalogTypes, Generations
  <2>3. creator' = [d \in Creators |->
                      IF creator[d].pc = "asked" THEN [creator[d] EXCEPT !.pc = "failed"]
                      ELSE creator[d]]
    BY <1>4 DEF DiesWriting
  <2>4. CatalogTypes'
    BY <1>2, <2>1, <2>2, <2>3 DEF CatalogTypes, Directories
  <2>5. creator'[c].pc # "asked"
    BY <1>1, <2>3 DEF Generations
  <2>6. \A j \in Entries : agentFiles[j] # NoFile /\ agentFiles'[j] # agentFiles[j] =>
          creator[c].overwrite
    BY <2>1 DEF CatalogTypes, Directories, MayWrite
  <2> QED
    BY <1>1, <2>4, <2>5, <2>6 DEF Overwritten
<1> QED
  BY <1>3, <1>4

(* No file of the directory changes but for a generation that was told to  *)
(* overwrite, whatever was generated or added while the model was asked.   *)
THEOREM NothingIsOverwritten == CatalogSpec => WrittenStays
<1>1. CatalogInit => CatalogTypes
  BY DEF CatalogInit, CatalogTypes, Directories, FileTypes, Generations, Answers
<1>2. CatalogTypes /\ [CatalogNext]_catalogVars => CatalogTypes' /\ [Overwritten]_catalogVars
  <2> SUFFICES ASSUME CatalogTypes, [CatalogNext]_catalogVars
               PROVE  CatalogTypes' /\ [Overwritten]_catalogVars
    OBVIOUS
  <2>1. CASE UNCHANGED catalogVars
    BY <2>1 DEF catalogVars, CatalogTypes
  <2>2. CASE ConnectSubagents \/ ReloadSubagents
    BY <2>2 DEF ConnectSubagents, ReloadSubagents, CatalogTypes, Overwritten
  <2>3. CASE HostAdds
    <3>1. PICK i \in Entries, s \in Spellings \cup {""} :
            agentFiles[i] = NoFile /\ agentFiles' = [agentFiles EXCEPT ![i] = Definition(s, "host")]
      BY <2>3 DEF HostAdds
    <3>2. Definition(s, "host") \in FileTypes
      BY DEF Definition, FileTypes
    <3>3. creator' = creator
      BY <2>3 DEF HostAdds
    <3> QED
      BY <3>1, <3>2, <3>3 DEF CatalogTypes, Directories, Overwritten
  <2> QED
    BY <2>1, <2>2, <2>3, Asking, Writing DEF CatalogNext
<1>3. [Overwritten]_catalogVars =>
        [\A i \in Entries : agentFiles[i] # NoFile /\ agentFiles'[i] # agentFiles[i] =>
           \E c \in Creators : creator[c].overwrite /\ creator[c].pc = "asked"
                              /\ creator'[c].pc # "asked"]_catalogVars
  BY DEF Overwritten
<1> QED
  BY <1>1, <1>2, <1>3, PTL DEF CatalogSpec, WrittenStays

-----------------------------------------------------------------------------
(***************************************************************************)
(* The log of a run and what is reported of it.                            *)
(***************************************************************************)

PlainKinds == {"system", "user", "assistant", "error", "budget", "guard", "permission"}
ModestEvents == [kind : PlainKinds] \cup Context \cup Start \cup End
UsageEvents == [kind : {"usage"}, total : Nat, cost : Nat]
ResultEvents == [kind : {"result"}, subtype : {"success", "error", "aborted"}, total : Nat, cost : Nat]
LogPhases ==
  {"none", "started", "user_appended", "provider_pending", "assistant_appended",
   "permission_pending", "tool_batch_pending", "tool_executing", "tool_results_appended",
   "turn_complete"} \cup Terminals
LogStatuses == {"running", "waiting_permission"}
Accounts == [turn : Nat, total : Nat, cost : Nat, made : BOOLEAN]
Reports ==
  [final : {"none", "success", "error", "aborted"}, total : Nat, cost : Nat, calls : Nat,
   failed : Nat, trimmed : Nat]
Logged == [op : {"log"}, event : ModestEvents \cup UsageEvents \cup ResultEvents]
Saves == [op : {"save"}, phase : LogPhases, status : LogStatuses, spent : Accounts]
Marks == [op : {"mark"}, phase : Terminals, status : Terminals, spent : Accounts]
StoreOps == Logged \cup Saves \cup Marks

(* Ops which carry a total carry the one of the live process.              *)
Current(o, n) ==
  /\ o.op # "log" => o.spent.total = n
  /\ o.op = "log" /\ o.event.kind \in {"usage", "result"} => o.event.total = n
Modest(n) ==
  {o \in Logged \cup Saves : Current(o, n) /\ (o.op = "log" => o.event \in ModestEvents)}
Ends == {"ended", "left", "closing"}

RunLogTypes ==
  /\ spent \in Accounts
  /\ record \in [status : LogStatuses \cup Terminals, phase : LogPhases, turn : Nat,
                 total : Nat, made : BOOLEAN]
  /\ report \in Reports
  /\ pending \in Seq(StoreOps)
  /\ \A i \in DOMAIN pending : Current(pending[i], spent.total)
(* The record is marked last, and right after the result is logged.        *)
IsResultFor(o, status) ==
  o.op = "log" /\ o.event.kind = "result" /\ o.event.subtype = Closing(status)
MarkedLast ==
  \A i \in DOMAIN pending : pending[i].op = "mark" =>
    /\ i = Len(pending) /\ next \in Ends
    /\ i = 1 => report.final = Closing(pending[i].status)
    /\ i > 1 => IsResultFor(pending[i - 1], pending[i].status)
(* A usage is logged when the record holds it.                             *)
SavedFirst ==
  \A i \in DOMAIN pending : pending[i].op = "log" /\ pending[i].event.kind = "usage" =>
    record.total = spent.total \/ (i > 1 /\ pending[1].op = "save")
OverWhenMarked ==
  /\ record.status \in Terminals =>
       pending = <<>> /\ next \in Ends \cup {"down"} /\ report.final = Closing(record.status)
  /\ next = "down" => pending = <<>>
Accounted ==
  /\ record.total <= spent.total
  /\ report.final = "none" => report.total <= record.total
RunLogInv == RunLogTypes /\ MarkedLast /\ SavedFirst /\ OverWhenMarked /\ Accounted

-----------------------------------------------------------------------------
(* Store operations *)

(* An event that carries no usage is logged by an operation of the store   *)
(* that changes no account.                                                *)
LEMMA LoggedTyped ==
  ASSUME NEW e \in ModestEvents, NEW n
  PROVE  Persist(e) \in Modest(n) /\ Persist(e) \in StoreOps
<1>1. e.kind \notin {"usage", "result"}
  BY DEF ModestEvents, PlainKinds, Context, Start, End
<1> QED
  BY <1>1 DEF Persist, Modest, Logged, StoreOps, Current

(* The kinds that carry nothing are such events.                           *)
LEMMA PlainTyped ==
  ASSUME NEW k \in PlainKinds
  PROVE  Plain(k) \in ModestEvents
BY DEF Plain, ModestEvents

(* So are the saves of a checkpoint, with the account they save.           *)
LEMMA SavesTyped ==
  ASSUME NEW ph \in LogPhases, NEW s \in Accounts
  PROVE  Save(ph, s) \in Modest(s.total) /\ Waiting(s) \in Modest(s.total)
<1>1. Save(ph, s) \in Saves /\ Save(ph, s).op = "save" /\ Save(ph, s).spent = s
  BY DEF Save, Saves, LogStatuses
<1>2. Waiting(s) = [op |-> "save", phase |-> "permission_pending",
                    status |-> "waiting_permission", spent |-> s]
  BY DEF Waiting, Save
<1>3. Waiting(s) \in Saves /\ Waiting(s).op = "save" /\ Waiting(s).spent = s
  BY <1>2 DEF Saves, LogStatuses, LogPhases
<1> QED
  BY <1>1, <1>3 DEF Modest, Current

(* Operations of this sort leave the account where it is: none marks the   *)
(* run ended or logs usage.                                                *)
LEMMA ModestOps ==
  ASSUME NEW n
  PROVE  /\ Modest(n) \subseteq StoreOps
         /\ \A o \in Modest(n) :
              /\ Current(o, n) /\ o.op # "mark"
              /\ o.op = "log" => o.event.kind \notin {"usage", "result"}
BY DEF Modest, StoreOps, Logged, Saves, ModestEvents, PlainKinds, Context, Start, End

(* The handlers that log and save what is no end and no usage.             *)
LEMMA ModestPending ==
  ASSUME RunLogInv, NEW n, NEW ops \in Seq(Modest(n)), NEW to, Does(ops, to),
         spent' \in Accounts, spent'.total = n, record' = record, report' = report,
         record.status \notin Terminals, record.total <= n,
         to = "down" => ops = <<>>
  PROVE  RunLogInv'
<1>1. pending' = ops /\ next' = to
  BY DEF Does
<1>2. \A i \in DOMAIN ops :
        /\ ops[i] \in StoreOps /\ Current(ops[i], n) /\ ops[i].op # "mark"
        /\ ops[i].op = "log" => ops[i].event.kind \notin {"usage", "result"}
  BY ModestOps
<1>3. ops \in Seq(StoreOps)
  BY ModestOps
<1> QED
  BY <1>1, <1>2, <1>3
  DEF RunLogInv, RunLogTypes, MarkedLast, SavedFirst, OverWhenMarked, Accounted

(* The closing events of a run: whatever came first, the result, the mark. *)
LEMMA Ended ==
  ASSUME NEW events \in Seq(ModestEvents), NEW status \in Terminals, NEW s \in Accounts
  PROVE  /\ Ending(events, status, s) \in Seq(StoreOps)
         /\ Len(Ending(events, status, s)) = Len(events) + 2
         /\ \A i \in 1..Len(events) : Ending(events, status, s)[i] \in Modest(s.total)
         /\ IsResultFor(Ending(events, status, s)[Len(events) + 1], status)
         /\ Current(Ending(events, status, s)[Len(events) + 1], s.total)
         /\ Ending(events, status, s)[Len(events) + 2] = Mark(status, s)
<1> DEFINE result == ResultOf(Closing(status), s)
           all == Append(events, result)
           logs == PersistAll(all)
<1>1. result \in ResultEvents /\ result.total = s.total /\ result.kind = "result"
      /\ result.subtype = Closing(status)
  BY DEF ResultOf, ResultEvents, Closing, Terminals, Accounts
<1> HIDE DEF result
<1>2. /\ all \in Seq(ModestEvents \cup ResultEvents) /\ Len(all) = Len(events) + 1
      /\ all[Len(events) + 1] = result
      /\ \A i \in 1..Len(events) : all[i] = events[i] /\ events[i] \in ModestEvents
  BY <1>1
<1> HIDE DEF all
<1>3. \A e \in ModestEvents \cup ResultEvents : Persist(e) \in StoreOps
  BY DEF Persist, StoreOps, Logged
<1>4. logs = [i \in 1..Len(all) |-> Persist(all[i])]
  BY DEF PersistAll
<1>5. \A i \in 1..Len(all) : all[i] \in ModestEvents \cup ResultEvents
  BY <1>2
<1>6. logs \in Seq(StoreOps) /\ Len(logs) = Len(events) + 1
      /\ \A i \in 1..Len(all) : logs[i] = Persist(all[i])
  BY <1>2, <1>3, <1>4, <1>5
<1> HIDE DEF logs
<1>7. Mark(status, s) \in StoreOps
  BY DEF Mark, StoreOps, Marks
<1>8. Ending(events, status, s) = logs \o <<Mark(status, s)>>
  BY DEF Ending, logs, all, result
<1>9. /\ Ending(events, status, s) \in Seq(StoreOps)
      /\ Len(Ending(events, status, s)) = Len(events) + 2
      /\ \A i \in 1..Len(events) + 1 : Ending(events, status, s)[i] = logs[i]
      /\ Ending(events, status, s)[Len(events) + 2] = Mark(status, s)
  BY <1>6, <1>7, <1>8
<1>10. logs[Len(events) + 1] = Persist(result)
  BY <1>2, <1>6
<1>11. IsResultFor(Persist(result), status) /\ Current(Persist(result), s.total)
  BY <1>1 DEF IsResultFor, Current, Persist
<1>12. \A i \in 1..Len(events) : logs[i] \in Modest(s.total)
  BY <1>2, <1>6, LoggedTyped
<1> QED
  BY <1>9, <1>10, <1>11, <1>12

(* An end that may follow other operations of its handler.                 *)
LEMMA EndPending ==
  ASSUME RunLogInv, NEW first \in Seq(Modest(spent.total)), NEW events \in Seq(ModestEvents),
         NEW status \in Terminals, NEW to \in Ends,
         Does(first \o Ending(events, status, spent), to),
         spent' = spent, record' = record, report' = report, record.status \notin Terminals
  PROVE  RunLogInv'
<1> DEFINE e == Ending(events, status, spent)
           ops == first \o e
           k == Len(first) + Len(events)
<1>1. spent \in Accounts /\ first \in Seq(StoreOps)
  BY ModestOps DEF RunLogInv, RunLogTypes
<1>2. /\ e \in Seq(StoreOps) /\ Len(e) = Len(events) + 2
      /\ \A i \in 1..Len(events) : e[i] \in Modest(spent.total)
      /\ IsResultFor(e[Len(events) + 1], status)
      /\ Current(e[Len(events) + 1], spent.total)
      /\ e[Len(events) + 2] = Mark(status, spent)
  BY <1>1, Ended
<1> HIDE DEF e
<1>3. /\ k \in Nat /\ ops \in Seq(StoreOps) /\ Len(ops) = k + 2
      /\ \A i \in 1..Len(first) : ops[i] = first[i] /\ first[i] \in Modest(spent.total)
      /\ \A i \in 1..Len(events) + 2 : ops[Len(first) + i] = e[i]
  BY <1>1, <1>2
<1>4. ops[k + 1] = e[Len(events) + 1] /\ ops[k + 2] = Mark(status, spent)
  BY <1>2, <1>3
<1>5. \A i \in 1..k : ops[i] \in Modest(spent.total)
  <2> SUFFICES ASSUME NEW i \in 1..k PROVE ops[i] \in Modest(spent.total)
    OBVIOUS
  <2>1. CASE i \in 1..Len(first)
    BY <1>3, <2>1
  <2>2. CASE i \notin 1..Len(first)
    <3>1. PICK j \in 1..Len(events) : i = Len(first) + j
      <4>1. i - Len(first) \in 1..Len(events) /\ i = Len(first) + (i - Len(first))
        BY <2>2
      <4> QED
        BY <4>1
    <3>2. j \in 1..Len(events) + 2
      OBVIOUS
    <3>3. ops[i] = e[j]
      BY <1>3, <3>1, <3>2
    <3>4. e[j] \in Modest(spent.total)
      BY <1>2
    <3> QED
      BY <3>3, <3>4
  <2> QED
    BY <2>1, <2>2
<1>6. pending' = ops /\ next' = to
  BY DEF Does, e
<1> HIDE DEF ops, k
<1>7. Current(Mark(status, spent), spent.total) /\ Mark(status, spent).op = "mark"
      /\ Mark(status, spent).status = status
  BY DEF Current, Mark
<1>8. ASSUME NEW i \in DOMAIN ops
      PROVE  /\ Current(ops[i], spent.total)
             /\ ops[i].op = "mark" => i = k + 2 /\ ops[i].status = status
             /\ ops[i].op = "log" => ops[i].event.kind # "usage"
  <2>1. i \in 1..k \/ i = k + 1 \/ i = k + 2
    BY <1>3
  <2>2. CASE i \in 1..k
    BY <1>5, <2>2, ModestOps
  <2>3. CASE i = k + 1
    BY <1>2, <1>4, <2>3 DEF IsResultFor
  <2>4. CASE i = k + 2
    BY <1>4, <1>7, <2>4
  <2> QED
    BY <2>1, <2>2, <2>3, <2>4
<1>9. RunLogTypes'
  BY <1>3, <1>6, <1>8 DEF RunLogInv, RunLogTypes
<1>10. MarkedLast'
  BY <1>2, <1>3, <1>4, <1>6, <1>8 DEF MarkedLast
<1>11. SavedFirst' /\ OverWhenMarked' /\ Accounted'
  BY <1>6, <1>8 DEF RunLogInv, SavedFirst, OverWhenMarked, Accounted, Ends
<1> QED
  BY <1>9, <1>10, <1>11 DEF RunLogInv

(* The end of a run, told with an account nothing has changed since, keeps *)
(* the invariant.                                                          *)
LEMMA EndAlone ==
  ASSUME RunLogInv, NEW events \in Seq(ModestEvents), NEW status \in Terminals, NEW to \in Ends,
         Does(Ending(events, status, spent), to),
         spent' = spent, record' = record, report' = report, record.status \notin Terminals
  PROVE  RunLogInv'
<1>1. Ending(events, status, spent) \in Seq(StoreOps)
  BY Ended DEF RunLogInv, RunLogTypes
<1>2. <<>> \o Ending(events, status, spent) = Ending(events, status, spent)
  BY <1>1
<1>3. <<>> \in Seq(Modest(spent.total))
  OBVIOUS
<1> QED
  BY <1>2, <1>3, EndPending

(* Every way a run ends is such an end.                                    *)
LEMMA Tails ==
  ASSUME RunLogInv, NEW to \in Ends, spent' = spent, record' = record, report' = report,
         record.status \notin Terminals,
         \E ops \in {SuccessTail(spent), StopWhenTail(spent), ErrorTail(spent), BudgetTail(spent),
                     MaxTurnsTail(spent), RaisedTail(spent), AbortTail(spent)} : Does(ops, to)
  PROVE  RunLogInv'
<1>1. /\ <<>> \in Seq(ModestEvents) /\ <<Error>> \in Seq(ModestEvents)
      /\ <<Plain("budget"), Error>> \in Seq(ModestEvents)
      /\ <<Plain("guard"), Error>> \in Seq(ModestEvents)
  BY PlainTyped DEF PlainKinds, Error
<1> QED
  BY <1>1, EndAlone
  DEF SuccessTail, StopWhenTail, ErrorTail, BudgetTail, MaxTurnsTail, RaisedTail, AbortTail, Terminals

(* The reply: what is saved first, then its usage.                         *)
LEMMA ReplyPending ==
  ASSUME RunLogInv, ReplyArrives
  PROVE  RunLogInv'
<1>1. PICK u \in Usages, p \in Prices :
        LET s == [spent EXCEPT !.total = @ + u, !.cost = @ + u * p] IN
        spent' = s /\ Does(ReplyOps(s), "reply")
  BY DEF ReplyArrives
<1>2. u \in Nat /\ p \in Nat /\ spent \in Accounts
  BY RunLogAssumption DEF RunLogAssumption, RunLogInv, RunLogTypes
<1> DEFINE c == u * p
<1>3. c \in Nat
  BY <1>2
<1>4. spent' = [spent EXCEPT !.total = @ + u, !.cost = @ + c]
  BY <1>1
<1> HIDE DEF c
<1>5. spent' \in Accounts /\ spent.total <= spent'.total
  <2>1. spent' = [turn |-> spent.turn, total |-> spent.total + u, cost |-> spent.cost + c,
                  made |-> spent.made]
    BY <1>2, <1>4 DEF Accounts
  <2> QED
    BY <1>2, <1>3, <2>1 DEF Accounts
<1> DEFINE save == Save("assistant_appended", spent')
           log == Persist(Assistant)
           usage == Persist(UsageOf(spent'))
<1>6. /\ save \in Modest(spent'.total) /\ save.op = "save" /\ log \in Modest(spent'.total)
      /\ log.op = "log" /\ log.event.kind = "assistant"
  BY <1>5, SavesTyped, LoggedTyped, PlainTyped
  DEF LogPhases, PlainKinds, Assistant, Save, Persist, Plain
<1>7. usage \in StoreOps /\ Current(usage, spent'.total) /\ usage.op = "log"
      /\ usage.event.kind = "usage"
  BY <1>5 DEF UsageOf, Persist, StoreOps, Logged, UsageEvents, Accounts, Current
<1>8. pending' = <<save, log, usage>> /\ next' = "reply"
  BY <1>1 DEF Does, ReplyOps
<1> HIDE DEF save, log, usage
<1>9. pending = <<>> /\ next = "provider" /\ UNCHANGED <<record, report>>
  BY DEF ReplyArrives, Reached, Quiet
<1>10. RunLogTypes'
  <2>0. PICK n \in Nat : n = spent'.total
    BY <1>5 DEF Accounts
  <2>1. save \in StoreOps /\ log \in StoreOps /\ Current(save, n) /\ Current(log, n)
    <3>1. Modest(n) \subseteq StoreOps /\ \A o \in Modest(n) : Current(o, n)
      BY ModestOps
    <3>2. save \in Modest(n) /\ log \in Modest(n)
      BY <1>6, <2>0
    <3> QED
      BY <3>1, <3>2
  <2>2. pending' \in Seq(StoreOps)
    BY <1>7, <1>8, <2>1
  <2>3. \A i \in DOMAIN pending' : Current(pending'[i], n)
    <3>1. \A i \in DOMAIN pending' : pending'[i] \in {save, log, usage}
      BY <1>8
    <3> QED
      BY <1>7, <2>0, <2>1, <3>1
  <2>4. record' = record /\ report' = report /\ record \in [status : LogStatuses \cup Terminals,
           phase : LogPhases, turn : Nat, total : Nat, made : BOOLEAN] /\ report \in Reports
    BY <1>9 DEF RunLogInv, RunLogTypes
  <2> QED
    BY <1>5, <2>0, <2>2, <2>3, <2>4 DEF RunLogTypes
<1>11. MarkedLast' /\ SavedFirst'
  BY <1>6, <1>7, <1>8 DEF MarkedLast, SavedFirst
<1>12. OverWhenMarked'
  <2>1. record' = record /\ next \notin Ends \cup {"down"} /\ next' # "down"
    BY <1>8, <1>9 DEF Ends
  <2>2. record.status \notin Terminals
    BY <2>1 DEF RunLogInv, OverWhenMarked
  <2> QED
    BY <2>1, <2>2 DEF OverWhenMarked
<1>13. Accounted'
  <2>1. record' = record /\ report' = report /\ Accounted
    BY <1>9 DEF RunLogInv
  <2>2. record.total \in Nat /\ spent.total \in Nat /\ spent'.total \in Nat
    BY <1>2, <1>5 DEF RunLogInv, RunLogTypes, Accounts
  <2>3. record.total <= spent'.total
    BY <1>5, <2>1, <2>2 DEF Accounted
  <2> QED
    BY <2>1, <2>3 DEF Accounted
<1> QED
  BY <1>10, <1>11, <1>12, <1>13 DEF RunLogInv

(* What an event makes of the report.                                      *)
LEMMA ReportedTotals ==
  ASSUME NEW e \in ModestEvents \cup UsageEvents \cup ResultEvents, NEW r \in Reports
  PROVE  /\ Reported(r, e) \in Reports
         /\ Reported(r, e).final = (IF e.kind = "result" THEN e.subtype ELSE r.final)
         /\ Reported(r, e).total =
              (IF e.kind \in {"usage", "result"} THEN e.total ELSE r.total)
<1>1. CASE e \in UsageEvents
  BY <1>1 DEF UsageEvents, Reports, Reported
<1>2. CASE e \in ResultEvents
  BY <1>2 DEF ResultEvents, Reports, Reported
<1>3. CASE e \in End
  <2>1. Reported(r, e) = [r EXCEPT !.calls = @ + 1, !.failed = @ + One(e.failed)]
    BY <1>3 DEF End, Reported, Counted
  <2>2. One(e.failed) \in Nat
    BY DEF One
  <2>3. Reported(r, e) = [final |-> r.final, total |-> r.total, cost |-> r.cost,
                          calls |-> r.calls + 1, failed |-> r.failed + One(e.failed),
                          trimmed |-> r.trimmed]
    BY <2>1 DEF Reports
  <2> QED
    BY <1>3, <2>2, <2>3 DEF Reports, End
<1>4. CASE e \in Context
  <2>1. Reported(r, e) = [r EXCEPT !.trimmed = @ + One(e.trimmed)]
    BY <1>4 DEF Context, Reported, Counted
  <2>2. One(e.trimmed) \in Nat
    BY DEF One
  <2> QED
    BY <1>4, <2>1, <2>2 DEF Reports, Context
<1>5. CASE e \in [kind : PlainKinds] \cup Start
  <2>1. Reported(r, e) = r /\ e.kind \notin {"usage", "result"}
    BY <1>5 DEF PlainKinds, Start, Reported, Counted
  <2> QED
    BY <2>1
<1> QED
  BY <1>1, <1>2, <1>3, <1>4, <1>5 DEF ModestEvents

(* Every step of a process keeps the invariant, and a report that is not   *)
(* final only grows.                                                       *)
LEMMA StepKeeps ==
  ASSUME RunLogInv, Step
  PROVE  RunLogInv' /\ (report.final = "none" => report'.total >= report.total)
<1> DEFINE o == Head(pending)
<1>1. /\ o \in StoreOps /\ o = pending[1] /\ Current(o, spent.total) /\ Len(pending) \in Nat \ {0}
      /\ pending' \in Seq(StoreOps) /\ Len(pending') = Len(pending) - 1
      /\ \A i \in DOMAIN pending' : pending'[i] = pending[i + 1] /\ i + 1 \in DOMAIN pending
      /\ spent \in Accounts /\ report \in Reports
  BY DEF Step, RunLogInv, RunLogTypes
<1>2. record.status \notin Terminals
  BY DEF Step, RunLogInv, OverWhenMarked
<1>3. UNCHANGED <<spent, next>>
  BY DEF Step
<1>4. ASSUME o \in Logged
      PROVE  /\ report' = Reported(report, o.event) /\ record' = record /\ report' \in Reports
             /\ o.event.kind = "usage" => record.total = spent.total
             /\ o.event.kind = "result" => report'.final = o.event.subtype
             /\ o.event.kind # "result" => report'.final = report.final
             /\ o.event.kind = "result" => o.event.subtype # "none"
             /\ o.event.kind \in {"usage", "result"} => report'.total = spent.total
             /\ o.event.kind \notin {"usage", "result"} => report'.total = report.total
             /\ o.op = "log"
  <2>1. o.op = "log" /\ o.event \in ModestEvents \cup UsageEvents \cup ResultEvents
    BY <1>4 DEF Logged
  <2>2. report' = Reported(report, o.event) /\ record' = record
    BY <2>1 DEF Step
  <2>3. o.event.kind = "usage" => record.total = spent.total
    BY <1>1, <2>1 DEF RunLogInv, SavedFirst
  <2>4. o.event.kind = "result" => o.event.subtype # "none"
    BY <2>1 DEF ModestEvents, PlainKinds, Context, Start, End, UsageEvents, ResultEvents
  <2> QED
    BY <1>1, <2>1, <2>2, <2>3, <2>4, ReportedTotals DEF Current
<1>5. ASSUME o \notin Logged
      PROVE  /\ report' = report /\ record' = Applied(o) /\ o.op \in {"save", "mark"}
             /\ record'.total = spent.total /\ record'.status = o.status
             /\ o.op = "save" => o.status \notin Terminals
             /\ record' \in [status : LogStatuses \cup Terminals, phase : LogPhases, turn : Nat,
                             total : Nat, made : BOOLEAN]
  BY <1>1, <1>5 DEF Step, StoreOps, Saves, Marks, Applied, Accounts, Current, LogStatuses,
                   Terminals, LogPhases
<1> HIDE DEF o
<1>6. RunLogTypes'
  BY <1>1, <1>3, <1>4, <1>5 DEF RunLogInv, RunLogTypes
<1>7. MarkedLast'
  <2> SUFFICES ASSUME NEW i \in DOMAIN pending', pending'[i].op = "mark"
               PROVE  /\ i = Len(pending') /\ next' \in Ends
                      /\ i = 1 => report'.final = Closing(pending'[i].status)
                      /\ i > 1 => IsResultFor(pending'[i - 1], pending'[i].status)
    BY DEF MarkedLast
  <2>1. /\ i + 1 \in DOMAIN pending /\ pending'[i] = pending[i + 1] /\ i \in Nat \ {0}
        /\ i + 1 = Len(pending) /\ next \in Ends
        /\ IsResultFor(pending[i], pending[i + 1].status)
    BY <1>1 DEF RunLogInv, MarkedLast
  <2>4. i = Len(pending')
    BY <1>1, <2>1
  <2>2. CASE i = 1
    <3>1. IsResultFor(o, pending'[i].status)
      BY <1>1, <2>1, <2>2
    <3>2. o \in Logged
      BY <1>1, <3>1 DEF IsResultFor, StoreOps, Saves, Marks
    <3>3. report'.final = Closing(pending'[i].status)
      BY <1>4, <3>1, <3>2 DEF IsResultFor, Closing
    <3>4. next' \in Ends /\ ~(i > 1)
      BY <1>3, <2>1, <2>2
    <3> QED
      BY <2>4, <3>3, <3>4, Zenon
  <2>3. CASE i > 1
    <3>1. i - 1 \in DOMAIN pending' /\ pending'[i - 1] = pending[i]
      BY <1>1, <2>1, <2>3
    <3> QED
      BY <1>3, <2>1, <2>3, <2>4, <3>1
  <2> QED
    BY <2>1, <2>2, <2>3
<1>8. SavedFirst'
  <2> SUFFICES ASSUME NEW i \in DOMAIN pending', pending'[i].op = "log",
                      pending'[i].event.kind = "usage"
               PROVE  record'.total = spent'.total
    BY DEF SavedFirst
  <2>1. record.total = spent.total \/ o.op = "save"
    BY <1>1 DEF RunLogInv, SavedFirst
  <2> QED
    BY <1>3, <1>4, <1>5, <2>1
<1>9. OverWhenMarked' /\ Accounted'
  <2>1. next # "down" /\ next' # "down"
    BY <1>1, <1>3 DEF RunLogInv, OverWhenMarked
  <2>2. record.total \in Nat /\ spent.total \in Nat /\ report.total \in Nat
    BY DEF RunLogInv, RunLogTypes, Accounts, Reports
  <2>3. Accounted'
    <3>1. CASE o \in Logged
      <4>1. record'.total <= spent'.total
        BY <1>3, <1>4, <3>1 DEF RunLogInv, Accounted
      <4>2. CASE o.event.kind = "result"
        <5>1. report'.final # "none"
          BY <1>4, <3>1, <4>2
        <5> QED
          BY <4>1, <5>1 DEF Accounted
      <4>3. CASE o.event.kind = "usage"
        BY <1>4, <2>2, <3>1, <4>1, <4>3 DEF Accounted
      <4>4. CASE o.event.kind \notin {"usage", "result"}
        BY <1>4, <3>1, <4>1, <4>4 DEF RunLogInv, Accounted
      <4> QED
        BY <4>2, <4>3, <4>4
    <3>2. CASE o \notin Logged
      BY <1>3, <1>5, <2>2, <3>2 DEF RunLogInv, Accounted
    <3> QED
      BY <3>1, <3>2
  <2>4. record'.status \in Terminals =>
          pending' = <<>> /\ next' \in Ends /\ report'.final = Closing(record'.status)
    <3>1. CASE o \in Logged
      BY <1>2, <1>4, <3>1
    <3>2. CASE o \notin Logged
      <4> SUFFICES ASSUME o.op = "mark"
                   PROVE  pending' = <<>> /\ next' \in Ends /\ report'.final = Closing(record'.status)
        BY <1>5, <3>2
      <4>1. Len(pending) = 1 /\ next \in Ends /\ report.final = Closing(o.status)
        BY <1>1 DEF RunLogInv, MarkedLast
      <4>2. pending' = <<>>
        <5>1. Len(pending') = 0 /\ pending' \in Seq(StoreOps)
          <6>1. Len(pending') = Len(pending) - 1 /\ pending' \in Seq(StoreOps)
            BY <1>1
          <6> QED
            BY <4>1, <6>1
        <5> QED
          BY <5>1, EmptySeq
      <4>3. report'.final = Closing(record'.status)
        BY <1>5, <3>2, <4>1 DEF Closing
      <4> QED
        BY <1>3, <4>1, <4>2, <4>3
    <3> QED
      BY <3>1, <3>2
  <2> QED
    BY <2>1, <2>3, <2>4 DEF OverWhenMarked
<1>10. report.final = "none" => report'.total >= report.total
  <2>1. record.total <= spent.total /\ (report.final = "none" => report.total <= record.total)
        /\ record.total \in Nat /\ spent.total \in Nat /\ report.total \in Nat
    BY DEF RunLogInv, RunLogTypes, Accounted, Accounts, Reports
  <2> QED
    BY <1>4, <1>5, <2>1
<1> QED
  BY <1>6, <1>7, <1>8, <1>9, <1>10 DEF RunLogInv

(* So does every step, of a process, of the store or of a crash.           *)
LEMMA RunLogStep ==
  ASSUME RunLogInv, [RunLogNext]_logVars
  PROVE  RunLogInv' /\ (report.final = "none" => report'.total >= report.total)
<1> SUFFICES ASSUME ~Step PROVE RunLogInv' /\ report' = report
  <2>1. report.total \in Nat
    BY DEF RunLogInv, RunLogTypes, Reports
  <2> QED
    BY <2>1, StepKeeps
<1>1. report' = report /\ record' = record
  BY DEF RunLogNext, logVars, PromptRefused, PromptAppended, TurnEnds, TurnAsks, ReplyArrives,
         LoopRaises, AnswerEnds, Bounced, CallsMade, BatchJudged, Raises, Leave, Resumes, Quiet
<1>2. spent \in Accounts /\ record.total <= spent.total
  BY DEF RunLogInv, RunLogTypes, Accounted
<1>3. pending = <<>> /\ next # "down" => record.status \notin Terminals \/ next \in Ends
  BY DEF RunLogInv, OverWhenMarked
<1>4. /\ NextTurn \in Accounts /\ NextTurn.total = spent.total
      /\ [spent EXCEPT !.made = TRUE] \in Accounts /\ [spent EXCEPT !.made = TRUE].total = spent.total
  <2>1. spent.turn + 1 \in Nat /\ TRUE \in BOOLEAN /\ FALSE \in BOOLEAN
    BY <1>2 DEF Accounts
  <2>2. \A t \in Nat, m \in BOOLEAN :
          /\ [spent EXCEPT !.turn = t, !.made = m] \in Accounts
          /\ [spent EXCEPT !.turn = t, !.made = m].total = spent.total
          /\ [spent EXCEPT !.made = m] \in Accounts
          /\ [spent EXCEPT !.made = m].total = spent.total
    BY <1>2 DEF Accounts
  <2> QED
    BY <2>1, <2>2 DEF NextTurn
<1>5. CASE UNCHANGED logVars
  BY <1>5 DEF logVars, RunLogInv, RunLogTypes, MarkedLast, SavedFirst, OverWhenMarked, Accounted
<1>6. CASE PromptRefused
  BY <1>1, <1>3, <1>6, Tails DEF PromptRefused, Reached, Quiet, Ends
<1>7. CASE PromptAppended
  <2>1. <<Save("user_appended", spent), Persist(User)>> \in Seq(Modest(spent.total))
    BY <1>2, SavesTyped, LoggedTyped, PlainTyped DEF LogPhases, PlainKinds, User
  <2> QED
    BY <1>1, <1>2, <1>3, <1>7, <2>1, ModestPending DEF PromptAppended, Reached, Ends
<1>8. CASE TurnEnds
  BY <1>1, <1>3, <1>8, Tails DEF TurnEnds, Reached, Ends
<1>9. CASE LoopRaises
  BY <1>1, <1>3, <1>9, Tails DEF LoopRaises, InLoop, Reached, Ends
<1>10. CASE TurnAsks
  <2>1. PICK c \in {<<>>} \cup {<<Persist(e)>> : e \in Context} :
          Does(Append(c, Save("provider_pending", spent)), "provider")
    BY <1>10 DEF TurnAsks
  <2>2. c \in Seq(Modest(spent.total)) /\ Save("provider_pending", spent) \in Modest(spent.total)
    <3>1. \A o \in Modest(spent.total) : <<o>> \in Seq(Modest(spent.total))
      OBVIOUS
    <3>2. c \in Seq(Modest(spent.total))
      <4>1. \A e \in Context : <<Persist(e)>> \in Seq(Modest(spent.total))
        BY <3>1, LoggedTyped DEF ModestEvents
      <4>2. <<>> \in Seq(Modest(spent.total))
        OBVIOUS
      <4> QED
        BY <4>1, <4>2, Zenon
    <3>3. Save("provider_pending", spent) \in Modest(spent.total)
      BY <1>2, SavesTyped DEF LogPhases
    <3> QED
      BY <3>2, <3>3
  <2>3. Append(c, Save("provider_pending", spent)) \in Seq(Modest(spent.total))
    BY <2>2
  <2> QED
    BY <1>1, <1>2, <1>3, <1>10, <2>1, <2>3, ModestPending DEF TurnAsks, Reached, Ends
<1>11. CASE ReplyArrives
  BY <1>1, <1>11, ReplyPending
<1>12. CASE AnswerEnds
  BY <1>1, <1>3, <1>12, Tails DEF AnswerEnds, Reached, Ends
<1>13. CASE Bounced
  <2>1. <<Persist(User), Save("turn_complete", spent)>> \in Seq(Modest(spent.total))
    BY <1>2, SavesTyped, LoggedTyped, PlainTyped DEF LogPhases, PlainKinds, User
  <2> QED
    BY <1>1, <1>2, <1>3, <1>4, <1>13, <2>1, ModestPending DEF Bounced, Reached, Ends
<1>14. CASE CallsMade
  <2> DEFINE M == Modest(spent.total)
             made == [spent EXCEPT !.made = TRUE]
  <2>1. PICK asks \in BOOLEAN, start \in Start, end \in End :
          Does(<<Save("tool_batch_pending", spent)>>
                 \o (IF spent.made THEN <<>> ELSE CallOps(asks, start, end)), "results")
    BY <1>14 DEF CallsMade
  <2>2. start \in ModestEvents /\ end \in ModestEvents
    BY DEF ModestEvents
  <2>3. /\ Persist(start) \in M /\ Persist(end) \in M /\ Save("tool_executing", made) \in M
        /\ Persist(Plain("permission")) \in M /\ Waiting(spent) \in M
        /\ Save("tool_batch_pending", spent) \in M
    BY <1>2, <1>4, <2>2, SavesTyped, LoggedTyped, PlainTyped DEF LogPhases, PlainKinds
  <2> HIDE DEF M, made
  <2>4. CallOps(asks, start, end) \in Seq(M)
    <3>1. CASE asks
      BY <2>3, <3>1 DEF CallOps, made
    <3>2. CASE ~asks
      BY <2>3, <3>2 DEF CallOps, made
    <3> QED
      BY <3>1, <3>2
  <2>5. <<Save("tool_batch_pending", spent)>>
          \o (IF spent.made THEN <<>> ELSE CallOps(asks, start, end)) \in Seq(M)
    <3>1. (IF spent.made THEN <<>> ELSE CallOps(asks, start, end)) \in Seq(M)
      BY <2>4
    <3> QED
      BY <2>3, <3>1
  <2>6. /\ spent' = made /\ made.total = spent.total /\ made \in Accounts
        /\ pending = <<>> /\ next \in {"reply", "batch"}
    BY <1>4, <1>14 DEF CallsMade, Reached, made
  <2> QED
    BY <1>1, <1>2, <1>3, <2>1, <2>5, <2>6, ModestPending DEF M, Ends
<1>15. CASE BatchJudged
  <2> DEFINE M == Modest(spent.total)
             ops == <<Save("tool_results_appended", spent), Persist(User)>>
  <2>1. /\ Save("tool_results_appended", spent) \in M /\ Persist(User) \in M
        /\ Guard \in M /\ TurnOver \in M
    BY <1>2, SavesTyped, LoggedTyped, PlainTyped DEF LogPhases, PlainKinds, User, Guard, TurnOver
  <2>2. record.status \notin Terminals
    BY <1>3, <1>15 DEF BatchJudged, Reached, Ends
  <2> HIDE DEF M
  <2>3. CASE Does(Append(ops, TurnOver), "turn") /\ spent' = NextTurn
    <3>1. Append(ops, TurnOver) \in Seq(M)
      BY <2>1
    <3> QED
      BY <1>1, <1>2, <1>4, <2>2, <2>3, <3>1, ModestPending DEF M
  <2>4. CASE Does(ops \o <<Guard, TurnOver, Persist(User), TurnOver>>, "turn") /\ spent' = NextTurn
    <3>1. ops \o <<Guard, TurnOver, Persist(User), TurnOver>> \in Seq(M)
      BY <2>1
    <3> QED
      BY <1>1, <1>2, <1>4, <2>2, <2>4, <3>1, ModestPending DEF M
  <2>5. CASE Does(Append(ops, Guard) \o ErrorTail(spent), "ended") /\ spent' = spent
    <3>1. Append(ops, Guard) \in Seq(M) /\ <<>> \in Seq(ModestEvents)
      BY <2>1
    <3> QED
      BY <1>1, <2>2, <2>5, <3>1, EndPending DEF M, ErrorTail, Ends, Terminals
  <2> QED
    BY <1>15, <2>3, <2>4, <2>5 DEF BatchJudged
<1>16. CASE Raises
  <2>1. record.status \notin Terminals /\ spent' = spent
    BY <1>16 DEF Raises, RunLogInv, OverWhenMarked
  <2>2. CASE Does(<<>>, "down")
    <3>1. <<>> \in Seq(Modest(spent.total))
      OBVIOUS
    <3> QED
      BY <1>1, <1>2, <2>1, <2>2, <3>1, ModestPending
  <2>3. CASE Does(RaisedTail(spent), "closing")
    BY <1>1, <2>1, <2>3, Tails DEF Ends
  <2> QED
    BY <1>16, <2>2, <2>3 DEF Raises
<1>17. CASE Leave
  BY <1>17 DEF Leave, Does, RunLogInv, RunLogTypes, MarkedLast, SavedFirst, OverWhenMarked,
              Accounted, Ends
<1>18. CASE Resumes
  <2>1. Restored \in Accounts /\ Restored.total = record.total
    BY DEF Restored, One, Accounts, RunLogInv, RunLogTypes
  <2>2. PICK to \in {"prompt", "batch", "turn"} : Does(<<>>, to)
    BY <1>18 DEF Resumes
  <2>3. <<>> \in Seq(Modest(record.total)) /\ record.total <= record.total
    BY DEF RunLogInv, RunLogTypes
  <2> QED
    BY <1>1, <1>18, <2>1, <2>2, <2>3, ModestPending DEF Resumes
<1> QED
  BY <1>1, <1>5, <1>6, <1>7, <1>8, <1>9, <1>10, <1>11, <1>12, <1>13, <1>14, <1>15, <1>16, <1>17, <1>18
  DEF RunLogNext

(* A run begins with nothing spent and nothing reported.                   *)
LEMMA RunLogBegins == RunLogInit => RunLogInv
<1> SUFFICES ASSUME RunLogInit PROVE RunLogInv
  OBVIOUS
<1>1. spent \in Accounts /\ spent.total = 0
  BY DEF RunLogInit, Accounts
<1>2. Save("started", spent) \in Modest(0) /\ Persist(System) \in Modest(0)
  BY <1>1, SavesTyped, LoggedTyped, PlainTyped DEF LogPhases, PlainKinds, System
<1>3. pending \in Seq(Modest(0))
  BY <1>2 DEF RunLogInit
<1>4. \A i \in DOMAIN pending :
        /\ pending[i] \in StoreOps /\ Current(pending[i], 0) /\ pending[i].op # "mark"
        /\ pending[i].op = "log" => pending[i].event.kind \notin {"usage", "result"}
  BY <1>3, ModestOps
<1>5. pending \in Seq(StoreOps)
  BY <1>3, ModestOps
<1>6. record.status = "running" /\ record.total = 0 /\ next = "prompt" /\ report = NoReport
      /\ record \in [status : LogStatuses \cup Terminals, phase : LogPhases, turn : Nat,
                     total : Nat, made : BOOLEAN]
  BY DEF RunLogInit, LogStatuses, LogPhases
<1>7. report \in Reports /\ report.total = 0
  BY <1>6 DEF NoReport, Reports
<1> QED
  BY <1>1, <1>4, <1>5, <1>6, <1>7
  DEF RunLogInv, RunLogTypes, MarkedLast, SavedFirst, OverWhenMarked, Accounted, Terminals

(* A run that the record calls ended has been reported so, with the same   *)
(* verdict, however many operations of the store fail, processes die and   *)
(* resumes there are, for any turns, tokens and prices.                    *)
THEOREM RecordIsReported == RunLogSpec => []ReportAgreesWithRecord
<1>1. RunLogInv => ReportAgreesWithRecord
  BY DEF RunLogInv, OverWhenMarked, ReportAgreesWithRecord
<1>2. RunLogInv /\ [RunLogNext]_logVars => RunLogInv'
  BY RunLogStep
<1> QED
  BY RunLogBegins, <1>1, <1>2, PTL DEF RunLogSpec

(* Until an end is reported the usage that the events report never drops.  *)
THEOREM UsageIsKept == RunLogSpec => UsageNeverDrops
<1>1. RunLogInv /\ [RunLogNext]_logVars =>
        RunLogInv' /\ [report.final = "none" => report'.total >= report.total]_logVars
  BY RunLogStep
<1> QED
  BY RunLogBegins, <1>1, PTL DEF RunLogSpec, UsageNeverDrops
=============================================================================

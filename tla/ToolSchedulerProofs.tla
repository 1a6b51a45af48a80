------------------------- MODULE ToolSchedulerProofs -------------------------
(***************************************************************************)
(* Theorems about ToolScheduler, for every number of calls, every kind of  *)
(* call and every bound.                                                   *)
(***************************************************************************)
EXTENDS ToolScheduler, Positions, SequenceTheorems, TLAPS

-----------------------------------------------------------------------------
(* Batches *)

(* Calls are positions, and the cap is positive: the assumptions, by name. *)
LEMMA CallsAreNat == Calls \subseteq Nat /\ Cap \in Nat \ {0}
BY ConstantsAssumption DEF Calls

(* Any of the calls are finitely many.                                     *)
LEMMA CallsFinite == ASSUME NEW S \in SUBSET Calls
                     PROVE  IsFiniteSet(S) /\ Cardinality(S) \in Nat
<1>1. IsFiniteSet(Calls)
  BY FS_Interval, ConstantsAssumption DEF Calls
<1>2. QED
  BY <1>1, FS_Subset, FS_CardinalityType

(* A nonempty set of calls has a last one.                                 *)
LEMMA LastCall ==
  ASSUME NEW S \in SUBSET Calls, S # {}
  PROVE  \E m \in S : \A i \in S : i <= m
<1> DEFINE After(m) == {i \in S : i > m}
           Tails == {After(m) : m \in S}
<1>1. Tails \subseteq FiniteSubsetsOf(S)
  BY CallsFinite DEF FiniteSubsetsOf
<1>2. PICK T \in Tails : \A U \in Tails : ~(<<U, T>> \in StrictSubsetOrdering(S))
  <2>1. IsWellFoundedOn(StrictSubsetOrdering(S), FiniteSubsetsOf(S))
    BY FS_StrictSubsetOrderingWellFounded
  <2>2. Tails # {}
    OBVIOUS
  <2> HIDE DEF Tails
  <2>3. QED
    BY <1>1, <2>1, <2>2, WFMin
<1>3. PICK m \in S : T = After(m)
  BY <1>2
<1>4. ASSUME NEW i \in S PROVE i <= m
  <2> SUFFICES ASSUME i > m PROVE FALSE
    BY CallsAreNat
  <2>1. After(i) \subseteq After(m) /\ i \in After(m) /\ i \notin After(i)
    <3>1. S \subseteq Nat /\ i \in Nat /\ m \in Nat
      BY CallsAreNat
    <3>2. ASSUME NEW k \in After(i) PROVE k \in After(m)
      <4>1. k \in S /\ k > i /\ k \in Nat
        BY <3>1
      <4>2. QED
        BY <3>1, <4>1
    <3>3. i \in After(m) /\ i \notin After(i)
      BY <3>1
    <3>4. QED
      BY <3>2, <3>3
  <2>2. <<After(i), After(m)>> \in StrictSubsetOrdering(S)
    BY <2>1 DEF StrictSubsetOrdering
  <2>3. QED
    BY <2>2, <1>2, <1>3
<1>5. QED
  BY <1>4

(* A batch is a prefix of the calls that are left ...                      *)
LEMMA BatchIsPrefix ==
  ASSUME NEW S \in SUBSET Calls, NEW i \in S, NEW j \in FirstBatch(S), i < j
  PROVE  i \in FirstBatch(S)
<1>1. Upto(S, i) \subseteq Upto(S, j)
  <2>1. S \subseteq Nat /\ i \in Nat /\ j \in Nat
    BY CallsAreNat DEF FirstBatch
  <2>2. ASSUME NEW k \in S, k <= i PROVE k <= j
    BY <2>1, <2>2
  <2>3. QED
    BY <2>2 DEF Upto
<1>2. Cardinality(Upto(S, i)) <= Cardinality(Upto(S, j))
  BY <1>1, CallsFinite, FS_Subset DEF Upto
<1>3. Cardinality(Upto(S, i)) <= Cap
  BY <1>2, CallsFinite, CallsAreNat DEF FirstBatch, Fits, Upto
<1>4. QED
  BY <1>1, <1>3 DEF FirstBatch, Fits

(* ... whose calls may run together ...                                    *)
LEMMA BatchIsCompatible ==
  ASSUME NEW S \in SUBSET Calls,
         NEW i \in FirstBatch(S), NEW j \in FirstBatch(S), i < j
  PROVE  Compatible(i, j)
BY CallsAreNat DEF FirstBatch, Fits, Upto

(* ... and that is not larger than Cap.                                    *)
LEMMA BatchWithinCap ==
  ASSUME NEW S \in SUBSET Calls
  PROVE  Cardinality(FirstBatch(S)) <= Cap
<1>1. CASE FirstBatch(S) = {}
  BY <1>1, FS_EmptySet, CallsAreNat
<1>2. CASE FirstBatch(S) # {}
  <2>1. PICK m \in FirstBatch(S) : \A i \in FirstBatch(S) : i <= m
    BY <1>2, LastCall DEF FirstBatch
  <2>2. FirstBatch(S) \subseteq Upto(S, m)
    BY <2>1 DEF FirstBatch, Upto
  <2>3. Cardinality(FirstBatch(S)) <= Cardinality(Upto(S, m))
    BY <2>2, CallsFinite, FS_Subset DEF Upto
  <2>4. Cardinality(Upto(S, m)) <= Cap
    BY <2>1 DEF FirstBatch, Fits
  <2>5. QED
    <3>1. FirstBatch(S) \in SUBSET Calls /\ Upto(S, m) \in SUBSET Calls
      BY DEF FirstBatch, Upto
    <3>2. QED
      BY <2>3, <2>4, <3>1, CallsFinite, CallsAreNat
<1>3. QED
  BY <1>1, <1>2

-----------------------------------------------------------------------------
(* Types *)

Verdicts == Results \cup {"ack", "aborted"}

(* The events of a lane, in whatever order its calls end, are pairs of a   *)
(* call and a verdict.                                                     *)
LEMMA EventsType ==
  ASSUME NEW S \in SUBSET Calls, NEW s \in Orders(S), NEW v,
         \A i \in S : v[i] \in Verdicts
  PROVE  Events(s, v) \in Seq(Calls \X Verdicts)
<1>1. s \in [1..Cardinality(S) -> S] /\ Cardinality(S) \in Nat
  BY CallsFinite DEF Orders
<1>2. Events(s, v) \in [1..Cardinality(S) -> Calls \X Verdicts]
  BY <1>1 DEF Events
<1>3. QED
  BY <1>1, <1>2

(* A batch begins typed.                                                   *)
LEMMA InitType == Init => TypeOK
<1>1. Init => ends \in Seq(Calls \X (Results \cup {"ack", "aborted"}))
  BY DEF Init
<1>2. Init => task \in [Calls -> TaskStates] /\ attempts \in [Calls -> Nat]
  BY DEF Init, TaskStates
<1>3. Init => input \in [Calls -> Inputs] /\ aborted \in BOOLEAN
  BY DEF Init, Inputs
<1>4. QED
  BY <1>1, <1>2, <1>3 DEF Init, TypeOK, PCs

(* Each step keeps the types.                                              *)
LEMMA NextType == TypeOK /\ [Next]_vars => TypeOK'
<1> SUFFICES ASSUME TypeOK, [Next]_vars PROVE TypeOK'
  OBVIOUS
<1>1. CASE EvaluatePermissions
  <2>1. decision' \in [Calls -> {"allow", "deny", "ask"}]
    BY <1>1, ConstantsAssumption DEF EvaluatePermissions, TypeOK, KindRecords
  <2>2. QED
    BY <1>1, <2>1 DEF EvaluatePermissions, TypeOK, PCs, plan, lanes
<1>2. CASE ResolveAborts
  BY <1>2 DEF ResolveAborts, TypeOK, PCs, plan, lanes
<1>3. CASE Resolved
  BY <1>3 DEF Resolved, TypeOK, PCs, plan, lanes
<1>4. CASE PreToolUse
  <2>1. blocked' \subseteq Calls /\ input' \in [Calls -> Inputs]
    BY <1>4 DEF PreToolUse, TypeOK, Allowed, Inputs
  <2>2. QED
    BY <1>4, <2>1 DEF PreToolUse, TypeOK, PCs, lanes
<1>5. CASE Partition
  BY <1>5 DEF Partition, TypeOK, PCs, plan
<1>6. ASSUME NEW i \in Calls, ResolveAsk(i) PROVE TypeOK'
  <2>1. decision' \in [Calls -> {"allow", "deny", "ask"}] /\ input' \in [Calls -> Inputs]
    BY <1>6 DEF ResolveAsk, TypeOK
  <2>2. QED
    BY <1>6, <2>1 DEF ResolveAsk, TypeOK, lanes
<1>7. ASSUME NEW i \in Calls, Detach(i) PROVE TypeOK'
  <2>1. ends' \in Seq(Calls \X (Results \cup {"ack", "aborted"}))
    BY <1>7 DEF Detach, TypeOK
  <2>2. QED
    BY <1>7, <2>1 DEF Detach, TypeOK, plan, TaskStates, Active
<1>8. CASE StartBatch
  <2>1. batch' \subseteq Calls /\ rest' \subseteq Calls
    BY <1>8 DEF StartBatch, TypeOK, FirstBatch
  <2>2. QED
    BY <1>8, <2>1 DEF StartBatch, TypeOK, PCs, plan, TaskStates, Active
<1>9. CASE BatchesAborted
  BY <1>9 DEF BatchesAborted, TypeOK, PCs, plan, lanes
<1>10. CASE BatchesDone
  BY <1>10 DEF BatchesDone, TypeOK, PCs, plan, lanes
<1>11. CASE EndBatch
  <2>1. PICK s \in Orders(batch) : ends' = ends \o Events(s, task)
    BY <1>11 DEF EndBatch
  <2>2. Events(s, task) \in Seq(Calls \X Verdicts)
    BY <1>11, EventsType DEF EndBatch, TypeOK, Verdicts
  <2>3. ends' \in Seq(Calls \X (Results \cup {"ack", "aborted"}))
    BY <2>1, <2>2 DEF TypeOK, Verdicts
  <2>4. QED
    BY <1>11, <2>3 DEF EndBatch, TypeOK, PCs, plan
<1>12. CASE AbortBatch
  <2>1. PICK s \in Orders(Unfinished) :
          ends' = ends \o Events(s, [i \in Calls |-> "aborted"])
    BY <1>12 DEF AbortBatch
  <2>2. Events(s, [i \in Calls |-> "aborted"]) \in Seq(Calls \X Verdicts)
    <3>1. Unfinished \in SUBSET Calls
      BY DEF TypeOK, Unfinished
    <3>2. \A i \in Unfinished : [k \in Calls |-> "aborted"][i] \in Verdicts
      BY <3>1 DEF Verdicts
    <3>3. QED
      BY <2>1, <3>1, <3>2, EventsType
  <2>3. ends' \in Seq(Calls \X (Results \cup {"ack", "aborted"}))
    BY <2>1, <2>2 DEF TypeOK, Verdicts
  <2>4. QED
    BY <1>12, <2>3 DEF AbortBatch, TypeOK, PCs, plan, TaskStates
<1>13. ASSUME NEW i \in Calls, CallStep(i) PROVE TypeOK'
  <2>1. \A to \in TaskStates : [task EXCEPT ![i] = to] \in [Calls -> TaskStates]
    BY DEF TypeOK
  <2>2. /\ task' \in [Calls -> TaskStates] /\ attempts' \in [Calls -> Nat]
        /\ UNCHANGED <<kind, pc, plan, lanes, ends, aborted>>
    <3>1. CASE ExecuteAborted(i)
      BY <2>1, <3>1 DEF ExecuteAborted, Move, TypeOK, TaskStates
    <3>2. CASE Refuse(i)
      BY <2>1, <3>2 DEF Refuse, Move, TypeOK, TaskStates, Results
    <3>3. CASE Execute(i) \/ Retry(i)
      <4>1. Attempt(i)
        BY <3>3 DEF Execute, Retry
      <4>2. task' \in [Calls -> TaskStates]
        BY <2>1, <4>1 DEF Attempt, Move, TaskStates, Active
      <4>3. attempts' \in [Calls -> Nat]
        BY <4>1 DEF Attempt, TypeOK
      <4>4. QED
        BY <4>1, <4>2, <4>3 DEF Attempt
    <3>4. CASE Return(i)
      BY <2>1, <3>4 DEF Return, Move, TypeOK, TaskStates, Results
    <3>5. ASSUME NEW exc \in Failures, Fail(i, exc)
          PROVE  /\ task' \in [Calls -> TaskStates] /\ attempts' \in [Calls -> Nat]
                 /\ UNCHANGED <<kind, pc, plan, lanes, ends, aborted>>
      BY <2>1, <3>5 DEF Fail, Move, TypeOK, TaskStates, Results, Active
    <3>6. CASE RaiseAbort(i)
      BY <2>1, <3>6 DEF RaiseAbort, Move, TypeOK, TaskStates
    <3>7. QED
      BY <1>13, <3>1, <3>2, <3>3, <3>4, <3>5, <3>6 DEF CallStep
  <2>3. QED
    BY <2>2 DEF TypeOK, plan, lanes
<1>14. CASE Abort
  BY <1>14 DEF Abort, TypeOK, plan, lanes, TaskStates
<1>15. CASE UNCHANGED vars
  BY <1>15 DEF vars, TypeOK, plan, lanes
<1>16. QED
  BY <1>1, <1>2, <1>3, <1>4, <1>5, <1>6, <1>7, <1>8, <1>9, <1>10, <1>11, <1>12,
     <1>13, <1>14, <1>15 DEF Next, SchedulerStep

(* Every variable keeps its type, for every reply and every bound.         *)
THEOREM SchedulerTypes == Spec => []TypeOK
<1>1. QED
  BY InitType, NextType, PTL DEF Spec

-----------------------------------------------------------------------------
(* The lanes *)

(* Whether two calls may run together depends on what they are, not on how *)
(* far they have come.                                                     *)
LEMMA CompatibleStays ==
  ASSUME UNCHANGED <<kind, input>>, NEW i, NEW j
  PROVE  Compatible(i, j)' = Compatible(i, j)
BY DEF Compatible, ToolParallel, ResourcesConflict, ResourceAccesses

(* No lane is open at first.                                               *)
LEMMA InitLanes == Init => LanesInv /\ InOrder
<1> SUFFICES ASSUME Init PROVE LanesInv /\ InOrder
  OBVIOUS
<1>1. Cardinality(batch) <= Cap
  BY FS_EmptySet, CallsAreNat DEF Init
<1>2. QED
  BY <1>1 DEF Init, LanesInv, InOrder, Active, Foreground, Planning

(* A coroutine that is under way moves on or settles.                      *)
LEMMA CallMoves ==
  ASSUME TypeOK, NEW i \in Calls, CallStep(i)
  PROVE  /\ task[i] \in Active /\ task'[i] # "idle"
         /\ \A j \in Calls \ {i} : task'[j] = task[j]
         /\ UNCHANGED <<kind, pc, plan, lanes>>
BY DEF CallStep, ExecuteAborted, Refuse, Execute, Retry, Attempt, Return, Fail,
   RaiseAbort, Move, TypeOK, Active, Results

(* The steps that start nothing and drop nothing from the lanes.           *)
Quiet ==
  /\ UNCHANGED <<kind, plan, lanes>>
  /\ \A j \in Calls : \/ task'[j] = task[j]
                      \/ task[j] \in Active /\ task'[j] # "idle"

(* A step that touches no lane keeps the lanes.                            *)
LEMMA QuietSteps ==
  ASSUME TypeOK, LanesInv, InOrder, Quiet, pc' = pc
  PROVE  LanesInv' /\ InOrder'
<1> USE DEF Quiet
<1>1. \A i, j \in Calls : Compatible(i, j)' = Compatible(i, j)
  BY CompatibleStays DEF plan
<1>2. InOrder'
  BY <1>1 DEF InOrder, Foreground, Settled, Active, lanes, TypeOK
<1>3. LanesInv'
  BY <1>1 DEF LanesInv, Foreground, Active, lanes, TypeOK
<1>4. QED
  BY <1>2, <1>3

(* A lane that opens holds calls that follow the ones before; one that     *)
(* closes leaves all of them with a verdict.                               *)
LEMMA NextLanes ==
  TypeOK /\ LanesInv /\ InOrder /\ [Next]_vars => LanesInv' /\ InOrder'
<1> SUFFICES ASSUME TypeOK, LanesInv, InOrder, [Next]_vars
             PROVE  LanesInv' /\ InOrder'
  OBVIOUS
<1> DEFINE Goal == LanesInv' /\ InOrder'
<1>1. CASE EvaluatePermissions \/ ResolveAborts \/ Resolved \/ PreToolUse
  <2>1. /\ pc \in Planning /\ bg = {} /\ UNCHANGED <<lanes, task>>
        /\ pc' \in Planning \cup {"aborted"}
    BY <1>1 DEF EvaluatePermissions, ResolveAborts, Resolved, PreToolUse, LanesInv, Planning
  <2>2. batch = {} /\ rest = {} /\ \A i \in Calls : task[i] = "idle"
    BY <2>1 DEF LanesInv, Foreground, Planning
  <2>3. QED
    BY <2>1, <2>2 DEF LanesInv, InOrder, Foreground, lanes, Planning, Active
<1>6. ASSUME NEW i \in Calls, ResolveAsk(i) PROVE Goal
  <2>1. /\ pc = "resolve" /\ UNCHANGED <<lanes, task, pc>> /\ bg = {}
    BY <1>6 DEF ResolveAsk, LanesInv
  <2>2. batch = {} /\ rest = {} /\ \A j \in Calls : task[j] = "idle"
    BY <2>1 DEF LanesInv, Foreground, Planning
  <2>3. QED
    BY <2>1, <2>2 DEF LanesInv, InOrder, Foreground, lanes, Planning, Active
<1>5. CASE Partition
  <2>1. /\ pc = "detach" /\ pc' = "batch" /\ rest' = Foreground
        /\ UNCHANGED <<kind, plan, bg, batch, task>>
    BY <1>5 DEF Partition, Foreground
  <2>2. \A i, j \in Calls : Compatible(i, j)' = Compatible(i, j)
    BY <2>1, CompatibleStays DEF plan
  <2>3. batch = {} /\ \A j \in Foreground : task[j] = "idle"
    BY <2>1 DEF LanesInv, Planning
  <2>4. QED
    BY <2>1, <2>2, <2>3 DEF LanesInv, InOrder, Foreground, Planning, Active
<1>7. ASSUME NEW i \in Calls, Detach(i) PROVE Goal
  <2>1. /\ pc = "detach" /\ pc' = "detach" /\ bg' = bg \cup {i}
        /\ UNCHANGED <<kind, plan, rest, batch>>
        /\ \A j \in Calls \ {i} : task'[j] = task[j]
    BY <1>7 DEF Detach, TypeOK
  <2>2. batch = {} /\ rest = {} /\ \A j \in Foreground : task[j] = "idle"
    BY <2>1 DEF LanesInv, Planning
  <2>3. QED
    BY <2>1, <2>2 DEF LanesInv, InOrder, Foreground, Planning, Active
<1>8. CASE StartBatch
  <2>1. /\ pc = "batch" /\ pc' = "lane" /\ batch = {} /\ rest \subseteq Calls
        /\ batch' = FirstBatch(rest) /\ rest' = rest \ batch'
        /\ UNCHANGED <<kind, plan, bg>> /\ batch' \subseteq rest
        /\ \A i \in Calls : task'[i] = IF i \in batch' THEN "started" ELSE task[i]
    BY <1>8 DEF StartBatch, LanesInv, TypeOK, FirstBatch
  <2>2. \A i, j \in Calls : Compatible(i, j)' = Compatible(i, j)
    BY <2>1, CompatibleStays DEF plan
  <2>3. Foreground' = Foreground
    BY <2>1 DEF Foreground
  <2>4. InOrder'
    <3> SUFFICES ASSUME NEW i \in Foreground, NEW j \in Foreground, i < j,
                        task'[j] # "idle", ~Compatible(i, j)
                 PROVE  Settled(i)'
      BY <2>2, <2>3 DEF InOrder, Foreground
    <3>1. i \in Calls /\ j \in Calls
      BY DEF Foreground
    <3>2. CASE j \in batch'
      <4>1. i \notin rest
        BY <2>1, <3>2, BatchIsPrefix, BatchIsCompatible
      <4>2. task[i] # "idle" /\ task[i] \notin Active
        BY <2>1, <4>1 DEF LanesInv
      <4>3. QED
        BY <2>1, <4>1, <4>2, <3>1 DEF Settled
    <3>3. CASE j \notin batch'
      <4>1. Settled(i)
        BY <2>1, <3>1, <3>3 DEF InOrder
      <4>2. i \notin rest
        BY <4>1 DEF LanesInv, Settled
      <4>3. QED
        BY <2>1, <3>1, <4>1, <4>2 DEF Settled
    <3>4. QED
      BY <3>2, <3>3
  <2>5. \A i, j \in batch' : i < j => Compatible(i, j)'
    BY <2>1, <2>2, BatchIsCompatible
  <2>6. Cardinality(batch') <= Cap
    BY <2>1, BatchWithinCap
  <2>7. \A i \in Foreground : task'[i] \in Active => i \in batch'
    BY <2>1 DEF LanesInv, Foreground
  <2>8. \A i \in Foreground \ rest' : task'[i] # "idle"
    BY <2>1 DEF LanesInv, Foreground
  <2>9. /\ rest' \subseteq Foreground /\ batch' \subseteq Foreground
        /\ \A i \in rest' : task'[i] = "idle"
    BY <2>1 DEF LanesInv, Foreground
  <2>10. LanesInv'
    BY <2>1, <2>3, <2>5, <2>6, <2>7, <2>8, <2>9 DEF LanesInv, Planning
  <2>11. QED
    BY <2>4, <2>10
<1>9. CASE BatchesAborted \/ BatchesDone
  <2>1. /\ pc = "batch" /\ pc' \in {"aborted", "done"}
        /\ UNCHANGED <<kind, plan, lanes, task>>
    BY <1>9 DEF BatchesAborted, BatchesDone
  <2>2. \A i, j \in Calls : Compatible(i, j)' = Compatible(i, j)
    BY <2>1, CompatibleStays DEF plan
  <2>3. QED
    BY <2>1, <2>2 DEF LanesInv, InOrder, Foreground, Settled, lanes, Planning
<1>11. CASE EndBatch \/ AbortBatch
  <2>1. /\ pc = "lane" /\ pc' \in {"batch", "aborted"} /\ batch' = {}
        /\ UNCHANGED <<kind, plan, bg, rest>>
        /\ \A i \in batch : task'[i] \notin Active \cup {"idle"}
        /\ \A i \in Calls \ batch : task'[i] = task[i]
        /\ \A i \in Calls : task[i] \notin Active => task'[i] = task[i]
    <3>1. \A i \in batch : task[i] # "idle" /\ i \in Calls
      BY <1>11 DEF LanesInv, Foreground, EndBatch, AbortBatch, TypeOK
    <3>2. CASE EndBatch
      BY <3>1, <3>2 DEF EndBatch, Results, Active
    <3>3. CASE AbortBatch
      BY <3>1, <3>3 DEF AbortBatch, LanesInv, Active, Foreground
    <3>4. QED
      BY <1>11, <3>2, <3>3
  <2>2. \A i, j \in Calls : Compatible(i, j)' = Compatible(i, j)
    BY <2>1, CompatibleStays DEF plan
  <2>3. InOrder'
    BY <2>1, <2>2 DEF InOrder, Foreground, Settled, Active
  <2>4. Cardinality(batch') <= Cap
    BY <2>1, FS_EmptySet, CallsAreNat
  <2>5. LanesInv'
    BY <2>1, <2>2, <2>4 DEF LanesInv, Foreground, Planning, Active
  <2>6. QED
    BY <2>3, <2>5
<1>13. ASSUME NEW i \in Calls, CallStep(i) PROVE Goal
  BY <1>13, CallMoves, QuietSteps DEF Quiet
<1>14. CASE Abort
  BY <1>14, QuietSteps DEF Abort, Quiet, TypeOK
<1>15. CASE UNCHANGED vars
  BY <1>15, QuietSteps DEF vars, Quiet
<1>16. QED
  BY <1>1, <1>5, <1>6, <1>7, <1>8, <1>9, <1>11, <1>13, <1>14, <1>15
     DEF Next, SchedulerStep

(* So lanes are compatible and in order throughout.                        *)
LEMMA LanesHold == Spec => [](TypeOK /\ LanesInv /\ InOrder)
<1>1. QED
  BY InitType, NextType, InitLanes, NextLanes, PTL DEF Spec

(* Calls that may not overlap take effect in the provider's order, for any *)
(* reply, any resources and any abort.                                     *)
THEOREM ConflictsInOrder == Spec => []InOrder
BY LanesHold, PTL

(* The lanes never have more than Cap calls in progress.                   *)
THEOREM ConcurrencyWithinCap == Spec => []WithinCap
<1>1. TypeOK /\ LanesInv => WithinCap
  <2> SUFFICES ASSUME TypeOK, LanesInv PROVE WithinCap
    OBVIOUS
  <2> DEFINE Busy == {i \in Foreground : task[i] \in Active}
  <2>1. Busy \subseteq batch
    BY DEF LanesInv
  <2>2. IsFiniteSet(batch) /\ Cardinality(batch) \in Nat
    BY CallsFinite DEF TypeOK
  <2>3. Busy \in SUBSET Calls
    BY DEF Foreground
  <2>4. Cardinality(Busy) <= Cardinality(batch) /\ Cardinality(Busy) \in Nat
    BY <2>1, <2>2, <2>3, CallsFinite, FS_Subset
  <2>5. QED
    BY <2>2, <2>4, CallsAreNat DEF WithinCap, LanesInv
<1>2. QED
  BY <1>1, LanesHold, PTL

-----------------------------------------------------------------------------
(* The brackets *)

Ended(i) == \E p \in DOMAIN ends : ends[p][1] = i
EndedOnce == \A p, q \in DOMAIN ends : ends[p][1] = ends[q][1] => p = q

(* What makes BracketsClose inductive: an end is that of a detached call,  *)
(* or of one no batch is still to run; and whatever was run has one.       *)
BracketsInv ==
  /\ EndedOnce
  /\ \A i \in Calls : Ended(i) => i \in bg \/ (i \notin rest \cup batch /\ pc \notin Planning)
  /\ \A i \in bg : Ended(i)
  /\ pc \in {"batch", "lane", "done"} => \A i \in Foreground \ (rest \cup batch) : Ended(i)
  /\ pc = "aborted" =>
       \A i \in Foreground : task[i] # "idle" /\ ~Ended(i) => task[i] \in Results
  /\ pc = "done" => rest = {}

(* The order of a set of calls has each of them, once.                     *)
LEMMA OrderIsComplete ==
  ASSUME NEW S \in SUBSET Calls, NEW s \in Orders(S)
  PROVE  \A i \in S : \E p \in DOMAIN s : s[p] = i
<1> SUFFICES ASSUME NEW i \in S, \A p \in DOMAIN s : s[p] # i
             PROVE  FALSE
  OBVIOUS
<1>1. IsFiniteSet(S) /\ Cardinality(S) \in Nat
  BY CallsFinite
<1>2. IsFiniteSet(S \ {i}) /\ Cardinality(S \ {i}) = Cardinality(S) - 1
  BY <1>1, FS_RemoveElement
<1>3. IsFiniteSet(1..Cardinality(S)) /\ Cardinality(1..Cardinality(S)) = Cardinality(S)
  BY <1>1, FS_Interval
<1>4. s \in [1..Cardinality(S) -> S \ {i}]
  BY DEF Orders
<1>5. Cardinality(S \ {i}) < Cardinality(1..Cardinality(S))
  BY <1>1, <1>2, <1>3
<1> DEFINE D == 1..Cardinality(S)
           T == S \ {i}
<1>6. \E p, q \in D : p # q /\ s[p] = s[q]
  <2>1. IsFiniteSet(D) /\ IsFiniteSet(T) /\ Cardinality(T) < Cardinality(D) /\ s \in [D -> T]
    BY <1>2, <1>3, <1>4, <1>5
  <2> HIDE DEF D, T
  <2> QED
    BY <2>1, FS_PigeonHole
<1> QED
  BY <1>4, <1>6 DEF Orders

(* The ends of a set of calls that had none.                               *)
LEMMA EndsAppended ==
  ASSUME TypeOK, EndedOnce, NEW S \in SUBSET Calls, NEW s \in Orders(S), NEW v,
         \A i \in S : v[i] \in Verdicts /\ ~Ended(i), ends' = ends \o Events(s, v)
  PROVE  EndedOnce' /\ \A i \in Calls : Ended(i)' <=> Ended(i) \/ i \in S
<1> DEFINE e == Events(s, v)
           n == Cardinality(S)
<1>1. /\ n \in Nat /\ s \in [1..n -> S] /\ DOMAIN s = 1..n
      /\ \A p, q \in 1..n : s[p] = s[q] => p = q
  BY CallsFinite DEF Orders
<1>2. e \in Seq(Calls \X Verdicts) /\ ends \in Seq(Calls \X Verdicts)
  BY EventsType DEF TypeOK, Verdicts
<1>3. DOMAIN e = 1..n /\ \A p \in 1..n : e[p][1] = s[p]
  BY <1>1 DEF Events
<1>4. Len(e) = n
  BY <1>1, <1>2, <1>3
<1> HIDE DEF e, n
<1>5. /\ DOMAIN ends' = 1..(Len(ends) + n) /\ Len(ends) \in Nat /\ DOMAIN ends = 1..Len(ends)
      /\ \A p \in 1..Len(ends) : ends'[p] = ends[p]
      /\ \A p \in 1..n : ends'[Len(ends) + p] = e[p]
  <2>1. ends' = ends \o e
    BY DEF e
  <2>2. /\ Len(ends') = Len(ends) + Len(e) /\ Len(ends) \in Nat
        /\ \A k \in 1..Len(ends) + Len(e) :
             ends'[k] = IF k <= Len(ends) THEN ends[k] ELSE e[k - Len(ends)]
    BY <1>2, <2>1, ConcatProperties
  <2>3. DOMAIN ends' = 1..(Len(ends) + n) /\ DOMAIN ends = 1..Len(ends)
    BY <1>2, <1>4, <2>1, <2>2
  <2>4. \A p \in 1..n : Len(ends) + p \in 1..Len(ends) + Len(e) /\ ~(Len(ends) + p <= Len(ends))
                       /\ Len(ends) + p - Len(ends) = p
    BY <1>1, <1>4, <2>2
  <2>5. \A p \in 1..Len(ends) : p \in 1..Len(ends) + Len(e) /\ p <= Len(ends)
    BY <1>1, <1>4, <2>2
  <2>6. \A p \in 1..Len(ends) : ends'[p] = ends[p]
    BY <2>2, <2>5
  <2>7. \A p \in 1..n : ends'[Len(ends) + p] = e[p]
    BY <2>2, <2>4
  <2> QED
    BY <2>2, <2>3, <2>6, <2>7
<1>6. \A p \in DOMAIN ends' :
        \/ p \in DOMAIN ends /\ ends'[p] = ends[p]
        \/ \E q \in 1..n : p = Len(ends) + q /\ ends'[p][1] = s[q] /\ s[q] \in S
  <2> SUFFICES ASSUME NEW p \in DOMAIN ends', p \notin DOMAIN ends
               PROVE  \E q \in 1..n : p = Len(ends) + q /\ ends'[p][1] = s[q] /\ s[q] \in S
    BY <1>5
  <2>1. PICK q \in 1..n : p = Len(ends) + q
    <3>1. p - Len(ends) \in 1..n /\ p = Len(ends) + (p - Len(ends))
      BY <1>1, <1>5
    <3> QED
      BY <3>1
  <2>2. ends'[p] = e[q]
    BY <1>5, <2>1
  <2>3. e[q][1] = s[q] /\ s[q] \in S
    BY <1>1, <1>3
  <2> QED
    BY <2>1, <2>2, <2>3
<1>7. \A p \in DOMAIN ends : ends[p][1] \notin S
  BY DEF Ended
<1>8. EndedOnce'
  <2> SUFFICES ASSUME NEW p \in DOMAIN ends', NEW q \in DOMAIN ends', ends'[p][1] = ends'[q][1]
               PROVE  p = q
    BY DEF EndedOnce
  <2>1. CASE p \in DOMAIN ends /\ q \in DOMAIN ends
    BY <1>5, <2>1 DEF EndedOnce
  <2>2. CASE p \notin DOMAIN ends /\ q \notin DOMAIN ends
    <3>1. PICK k \in 1..n : p = Len(ends) + k /\ ends'[p][1] = s[k]
      BY <1>6, <2>2
    <3>2. PICK m \in 1..n : q = Len(ends) + m /\ ends'[q][1] = s[m]
      BY <1>6, <2>2
    <3>3. k = m
      BY <1>1, <3>1, <3>2
    <3> QED
      BY <3>1, <3>2, <3>3
  <2>3. \A k \in DOMAIN ends' : ends'[k][1] \notin S <=> k \in DOMAIN ends
    <3> SUFFICES ASSUME NEW k \in DOMAIN ends'
                 PROVE  ends'[k][1] \notin S <=> k \in DOMAIN ends
      OBVIOUS
    <3>1. ASSUME k \in DOMAIN ends
          PROVE  ends'[k][1] \notin S
      BY <1>5, <1>7, <3>1
    <3>2. ASSUME k \notin DOMAIN ends
          PROVE  ends'[k][1] \in S
      BY <1>6, <3>2
    <3> QED
      BY <3>1, <3>2
  <2> QED
    BY <2>1, <2>2, <2>3
<1>9. ASSUME NEW i \in Calls
      PROVE  Ended(i)' <=> Ended(i) \/ i \in S
  <2>1. Ended(i)' => Ended(i) \/ i \in S
    BY <1>6 DEF Ended
  <2>2. Ended(i) => Ended(i)'
    BY <1>5, <1>1 DEF Ended
  <2>3. ASSUME i \in S
        PROVE  Ended(i)'
    <3>1. PICK q \in 1..n : s[q] = i
      BY <1>1, <2>3, OrderIsComplete
    <3>2. Len(ends) + q \in DOMAIN ends' /\ ends'[Len(ends) + q][1] = i
      BY <1>1, <1>3, <1>5, <3>1
    <3> QED
      BY <3>2 DEF Ended
  <2> QED
    BY <2>1, <2>2, <2>3
<1> QED
  BY <1>8, <1>9

(* What opens a call in the stream and what closes it are one step each,   *)
(* and a lane that is given up closes what it opened.                      *)
LEMMA NextBrackets ==
  TypeOK /\ LanesInv /\ BracketsInv /\ [Next]_vars => BracketsInv'
<1> SUFFICES ASSUME TypeOK, LanesInv, BracketsInv, [Next]_vars
             PROVE  BracketsInv'
  OBVIOUS
<1>1. ASSUME UNCHANGED <<lanes, ends>>, pc' = pc,
             \A j \in Calls : task'[j] = task[j] \/ (task[j] \in Active /\ task'[j] # "idle")
      PROVE  BracketsInv'
  <2>1. \A i : Ended(i)' <=> Ended(i)
    BY <1>1 DEF Ended
  <2>2. EndedOnce'
    BY <1>1 DEF BracketsInv, EndedOnce
  <2>3. pc = "aborted" => \A i \in Foreground : task'[i] = task[i]
    BY <1>1 DEF LanesInv, Foreground
  <2> QED
    BY <1>1, <2>1, <2>2, <2>3 DEF BracketsInv, Foreground, lanes
<1>2. ASSUME UNCHANGED <<lanes, ends, task>>, pc \in Planning, pc' \in Planning \cup {"aborted"}
      PROVE  BracketsInv'
  <2>1. \A i : Ended(i)' <=> Ended(i)
    BY <1>2 DEF Ended
  <2>2. EndedOnce'
    BY <1>2 DEF BracketsInv, EndedOnce
  <2>3. \A i \in Foreground : task[i] = "idle" /\ ~Ended(i)
    BY <1>2 DEF BracketsInv, LanesInv, Foreground
  <2> QED
    BY <1>2, <2>1, <2>2, <2>3 DEF BracketsInv, Foreground, lanes, Planning
<1>3. CASE EvaluatePermissions \/ ResolveAborts \/ Resolved \/ PreToolUse
  BY <1>2, <1>3 DEF EvaluatePermissions, ResolveAborts, Resolved, PreToolUse, Planning
<1>4. ASSUME NEW i \in Calls, ResolveAsk(i)
      PROVE  BracketsInv'
  BY <1>2, <1>4 DEF ResolveAsk, Planning
<1>5. ASSUME NEW i \in Calls, Detach(i)
      PROVE  BracketsInv'
  <2>1. /\ pc = "detach" /\ pc' = "detach" /\ bg' = bg \cup {i} /\ i \notin bg
        /\ UNCHANGED <<rest, batch>> /\ ends' = Append(ends, <<i, "ack">>)
    BY <1>5 DEF Detach, IsFirst, Detachable
  <2>2. ~Ended(i)
    BY <2>1 DEF BracketsInv, Planning
  <2>3. /\ DOMAIN ends' = 1..(Len(ends) + 1) /\ Len(ends) \in Nat /\ DOMAIN ends = 1..Len(ends)
        /\ \A p \in DOMAIN ends : ends'[p] = ends[p]
        /\ ends'[Len(ends) + 1] = <<i, "ack">>
    BY <2>1 DEF TypeOK
  <2>4. \A j : Ended(j)' <=> Ended(j) \/ j = i
    BY <2>3 DEF Ended
  <2>5. EndedOnce'
    BY <2>2, <2>3 DEF BracketsInv, EndedOnce, Ended
  <2>6. Foreground' \subseteq Foreground
    BY <2>1 DEF Foreground
  <2> QED
    BY <2>1, <2>4, <2>5, <2>6 DEF BracketsInv, Planning
<1>6. CASE Partition \/ StartBatch \/ BatchesAborted \/ BatchesDone
  <2>1. (\A i : Ended(i)' <=> Ended(i)) /\ EndedOnce' /\ bg' = bg /\ Foreground' = Foreground
    BY <1>6 DEF Partition, StartBatch, BatchesAborted, BatchesDone, Ended, EndedOnce, BracketsInv,
                lanes, Foreground
  <2>2. CASE Partition
    <3>1. pc = "detach" /\ pc' = "batch" /\ rest' = Foreground /\ batch' = batch /\ batch = {}
      BY <2>2 DEF Partition, Foreground, LanesInv
    <3> QED
      BY <2>1, <3>1 DEF BracketsInv, Planning, Foreground
  <2>3. CASE StartBatch
    <3>1. /\ pc = "batch" /\ pc' = "lane" /\ batch = {} /\ batch' \subseteq rest
          /\ rest' = rest \ batch'
      BY <2>3 DEF StartBatch, LanesInv, FirstBatch
    <3> QED
      BY <2>1, <3>1 DEF BracketsInv, Planning
  <2>4. CASE BatchesAborted
    <3>1. /\ pc = "batch" /\ pc' = "aborted" /\ batch = {} /\ UNCHANGED <<rest, batch, task>>
          /\ \A i \in rest : task[i] = "idle"
      BY <2>4 DEF BatchesAborted, LanesInv, lanes
    <3> QED
      BY <2>1, <3>1 DEF BracketsInv, Planning
  <2>5. CASE BatchesDone
    <3>1. pc = "batch" /\ pc' = "done" /\ rest = {} /\ UNCHANGED <<rest, batch>>
      BY <2>5 DEF BatchesDone, lanes
    <3> QED
      BY <2>1, <3>1 DEF BracketsInv, Planning
  <2> QED
    BY <1>6, <2>2, <2>3, <2>4, <2>5
<1>7. batch \subseteq Calls /\ (pc = "lane" => \A i \in batch : ~Ended(i) /\ i \in Foreground)
  BY DEF BracketsInv, LanesInv, Foreground, TypeOK
<1>8. CASE EndBatch
  <2>1. /\ pc = "lane" /\ pc' = "batch" /\ batch' = {} /\ UNCHANGED <<bg, rest>>
        /\ \E s \in Orders(batch) : ends' = ends \o Events(s, task)
        /\ \A i \in batch : task[i] \in Verdicts
    BY <1>8 DEF EndBatch, Verdicts
  <2>2. EndedOnce' /\ \A i \in Calls : Ended(i)' <=> Ended(i) \/ i \in batch
    BY <1>7, <2>1, EndsAppended DEF BracketsInv
  <2>3. Foreground' = Foreground /\ Foreground \subseteq Calls /\ bg \subseteq Calls
    BY <2>1 DEF Foreground, TypeOK
  <2> QED
    BY <1>7, <2>1, <2>2, <2>3 DEF BracketsInv, Planning, LanesInv
<1>9. CASE AbortBatch
  <2> DEFINE v == [i \in Calls |-> "aborted"]
  <2>1. /\ pc = "lane" /\ pc' = "aborted" /\ batch' = {} /\ UNCHANGED <<bg, rest>>
        /\ \E s \in Orders(Unfinished) : ends' = ends \o Events(s, v)
        /\ \A i \in Calls : task'[i] = task[i] \/ (i \in batch /\ task[i] \in Active)
    BY <1>9 DEF AbortBatch
  <2>2. \A i \in Calls : v[i] \in Verdicts
    BY DEF Verdicts
  <2> HIDE DEF v
  <2>3. Unfinished \in SUBSET Calls /\ Unfinished \subseteq batch
    BY <1>7 DEF Unfinished
  <2>4. EndedOnce' /\ \A i \in Calls : Ended(i)' <=> Ended(i) \/ i \in Unfinished
    BY <1>7, <2>1, <2>2, <2>3, EndsAppended DEF BracketsInv
  <2>5. Foreground' = Foreground /\ Foreground \subseteq Calls /\ bg \subseteq Calls
    BY <2>1 DEF Foreground, TypeOK
  <2>6. ASSUME NEW i \in Foreground, task'[i] # "idle", ~Ended(i)'
        PROVE  task'[i] \in Results
    <3>1. i \notin Unfinished /\ ~Ended(i) /\ i \in rest \cup batch
      BY <2>1, <2>4, <2>5, <2>6 DEF BracketsInv
    <3>2. i \notin rest
      BY <2>1, <2>5, <2>6, <1>7 DEF LanesInv
    <3>3. task[i] \in Results
      BY <3>1, <3>2 DEF Unfinished
    <3> QED
      BY <2>1, <2>5, <3>3 DEF Results, Active
  <2> QED
    BY <1>7, <2>1, <2>3, <2>4, <2>5, <2>6 DEF BracketsInv, Planning, LanesInv
<1>10. ASSUME NEW i \in Calls, CallStep(i)
       PROVE  BracketsInv'
  <2>1. ends' = ends
    BY <1>10 DEF CallStep, ExecuteAborted, Refuse, Execute, Retry, Attempt, Return, Fail, RaiseAbort
  <2> QED
    BY <1>1, <1>10, <2>1, CallMoves
<1>11. CASE Abort
  BY <1>1, <1>11 DEF Abort, TypeOK
<1>12. CASE UNCHANGED vars
  BY <1>1, <1>12 DEF vars
<1> QED
  BY <1>3, <1>4, <1>5, <1>6, <1>8, <1>9, <1>10, <1>11, <1>12 DEF Next, SchedulerStep

(* Every ToolCallStart is closed once, and only calls that have a result   *)
(* stay open when a batch is aborted, for any reply and any order of the   *)
(* coroutines (execute_tool_calls).                                        *)
THEOREM EveryBracketCloses == Spec => []BracketsClose
<1>1. Init => BracketsInv
  BY DEF Init, BracketsInv, EndedOnce, Ended, Planning, Foreground
<1>2. TypeOK /\ LanesInv /\ BracketsInv => BracketsClose
  <2> SUFFICES ASSUME TypeOK, LanesInv, BracketsInv, NEW i \in Calls
               PROVE  /\ Cardinality(EndsOf(i)) <= 1
                      /\ pc = "done" => EndsOf(i) # {}
                      /\ pc = "aborted" /\ task[i] # "idle" /\ EndsOf(i) = {} => task[i] \in Results
    BY DEF BracketsClose
  <2>1. EndsOf(i) # {} <=> Ended(i)
    BY DEF EndsOf, Ended
  <2>2. EndsOf(i) = {} \/ \E p : EndsOf(i) = {p}
    <3>1. ASSUME NEW p \in EndsOf(i)
          PROVE  EndsOf(i) = {p}
      BY DEF EndsOf, BracketsInv, EndedOnce
    <3> QED
      BY <3>1
  <2>3. Cardinality(EndsOf(i)) <= 1
    <3>1. CASE EndsOf(i) = {}
      BY <3>1, FS_EmptySet
    <3>2. ASSUME NEW p, EndsOf(i) = {p}
          PROVE  Cardinality(EndsOf(i)) <= 1
      <4>1. Cardinality({p}) = 1
        BY FS_Singleton
      <4> QED
        BY <3>2, <4>1
    <3> QED
      BY <2>2, <3>1, <3>2
  <2>4. pc = "done" => Ended(i)
    BY DEF BracketsInv, LanesInv, Foreground
  <2>5. pc = "aborted" /\ task[i] # "idle" /\ ~Ended(i) => task[i] \in Results
    BY DEF BracketsInv, Foreground
  <2> QED
    BY <2>1, <2>3, <2>4, <2>5
<1> QED
  BY <1>1, <1>2, NextBrackets, LanesHold, PTL DEF Spec
-----------------------------------------------------------------------------
(* The partition is the one the code's loop makes. *)

(* The loop's count, as a function of how many calls it has seen.          *)
LoopOver(p, g, n) ==
  g = [k \in 0..n |-> IF k = 0 THEN 0
                      ELSE IF g[k - 1] = k - 1 /\ MayJoin(p, k) THEN k ELSE g[k - 1]]

(* The loop has a count for every list.                                    *)
LEMMA LoopExists ==
  ASSUME NEW p, NEW n \in Nat
  PROVE  \E g : LoopOver(p, g, n)
<1> DEFINE S == {k \in 0..n : \E g : LoopOver(p, g, k)}
<1>1. 0 \in S
  <2>1. LoopOver(p, [k \in 0..0 |-> 0], 0)
    BY DEF LoopOver
  <2> QED
    BY <2>1
<1>2. ASSUME NEW j \in 0..n, j \in S, j < n PROVE j + 1 \in S
  <2>1. PICK g : LoopOver(p, g, j)
    BY <1>2
  <2> DEFINE h == [k \in 0..(j + 1) |->
                     IF k = 0 THEN 0
                     ELSE IF g[k - 1] = k - 1 /\ MayJoin(p, k) THEN k ELSE g[k - 1]]
  <2>2. \A k \in 0..j : h[k] = g[k]
    BY <2>1 DEF LoopOver
  <2>3. \A k \in 0..(j + 1) : k # 0 => k - 1 \in 0..j
    OBVIOUS
  <2>4. LoopOver(p, h, j + 1)
    <3>1. \A k \in 0..(j + 1) : k # 0 => h[k - 1] = g[k - 1]
      BY <2>2, <2>3
    <3>2. h = [k \in 0..(j + 1) |->
                 IF k = 0 THEN 0
                 ELSE IF h[k - 1] = k - 1 /\ MayJoin(p, k) THEN k ELSE h[k - 1]]
      BY <3>1
    <3> QED
      BY <3>2 DEF LoopOver
  <2>5. j + 1 \in 0..n
    BY <1>2
  <2> HIDE DEF h
  <2> QED
    BY <2>4, <2>5
<1>3. n \in S
  <2> HIDE DEF S
  <2>1. \A k \in 0..n : k \in S
    BY <1>1, <1>2, Upwards
  <2> QED
    BY <2>1
<1> QED
  BY <1>3

(* What the loop has selected is as long as each call may join.            *)
LEMMA LoopSelects ==
  ASSUME NEW p, NEW n \in Nat, Len(p) = n
  PROVE  /\ Selected(p) \in 0..n
         /\ \A k \in 1..n : k <= Selected(p) <=> \A j \in 1..k : MayJoin(p, j)
<1>1. PICK g : LoopOver(p, g, n) /\ Selected(p) = g[n]
  <2> DEFINE u == CHOOSE f : LoopOver(p, f, n)
  <2>1. LoopOver(p, u, n)
    BY LoopExists
  <2>2. Selected(p) = u[n]
    BY DEF Selected, LoopOver
  <2> HIDE DEF u
  <2> QED
    BY <2>1, <2>2
<1> DEFINE J(k) == MayJoin(p, k)
           S == {m \in 0..n : /\ g[m] \in 0..m
                              /\ \A k \in 1..m : k <= g[m] <=> \A j \in 1..k : J(j)}
<1> HIDE DEF J
<1>2. /\ g[0] = 0
      /\ \A m \in 0..n : m < n => g[m + 1] = IF g[m] = m /\ J(m + 1) THEN m + 1 ELSE g[m]
  <2>1. \A m \in 0..n : m < n => m + 1 \in 0..n /\ m + 1 # 0 /\ (m + 1) - 1 = m
    OBVIOUS
  <2> QED
    BY <1>1, <2>1 DEF LoopOver, J
<1>3. 0 \in S
  BY <1>2
<1>4. ASSUME NEW m \in 0..n, m \in S, m < n PROVE m + 1 \in S
  <2>1. /\ g[m] \in 0..m /\ m + 1 \in 0..n
        /\ \A k \in 1..m : k <= g[m] <=> \A j \in 1..k : J(j)
    BY <1>4
  <2> HIDE DEF S
  <2>2. CASE g[m] = m /\ J(m + 1)
    <3>1. g[m + 1] = m + 1
      BY <1>2, <1>4, <2>2
    <3>2. \A j \in 1..(m + 1) : J(j)
      <4>1. \A j \in 1..m : J(j)
        <5>1. CASE m = 0
          BY <5>1
        <5>2. CASE m # 0
          <6>1. m \in 1..m /\ m <= g[m]
            BY <2>2, <5>2
          <6> QED
            BY <2>1, <6>1
        <5> QED
          BY <5>1, <5>2
      <4> QED
        BY <2>2, <4>1
    <3>3. \A k \in 1..(m + 1) : k <= g[m + 1] /\ \A j \in 1..k : J(j)
      BY <3>1, <3>2
    <3>4. g[m + 1] \in 0..(m + 1)
      BY <3>1
    <3> QED
      BY <2>1, <3>3, <3>4 DEF S
  <2>3. CASE ~(g[m] = m /\ J(m + 1))
    <3>1. g[m + 1] = g[m] /\ g[m] \in 0..(m + 1)
      BY <1>2, <1>4, <2>1, <2>3
    <3>2. ~(m + 1 <= g[m])
      BY <2>1
    <3>3. ~(\A j \in 1..(m + 1) : J(j))
      <4> SUFFICES ASSUME \A j \in 1..(m + 1) : J(j) PROVE FALSE
        OBVIOUS
      <4>1. J(m + 1) /\ \A j \in 1..m : J(j)
        OBVIOUS
      <4>2. g[m] = m
        <5>1. CASE m = 0
          BY <2>1, <5>1
        <5>2. CASE m # 0
          <6>1. m \in 1..m
            BY <5>2
          <6>2. m <= g[m]
            BY <2>1, <4>1, <6>1
          <6> QED
            BY <2>1, <6>2
        <5> QED
          BY <5>1, <5>2
      <4> QED
        BY <2>3, <4>1, <4>2
    <3>4. \A k \in 1..(m + 1) : k \in 1..m \/ k = m + 1
      OBVIOUS
    <3>5. \A k \in 1..(m + 1) : k <= g[m] <=> \A j \in 1..k : J(j)
      BY <2>1, <3>2, <3>3, <3>4
    <3> QED
      BY <2>1, <3>1, <3>5 DEF S
  <2> QED
    BY <2>2, <2>3
<1>5. n \in S
  <2> HIDE DEF S
  <2>1. \A m \in 0..n : m \in S
    BY <1>3, <1>4, Upwards
  <2> QED
    BY <2>1
<1> QED
  BY <1>1, <1>5 DEF J

(* The pending calls are those of the set in their order, and the calls up *)
(* to one of them are as many as its place says.                           *)
LEMMA PendingInOrder ==
  ASSUME NEW S \in SUBSET Calls, NEW p, p = Pending(S)
  PROVE  /\ Len(p) \in Nat /\ DOMAIN p = 1..Len(p)
         /\ \A k \in 1..Len(p) : p[k] \in S
         /\ \A k, l \in 1..Len(p) : k < l <=> p[k] < p[l]
         /\ \A i \in S : \E k \in 1..Len(p) : p[k] = i
         /\ \A k \in 1..Len(p) : Cardinality(Upto(S, p[k])) = k
<1>1. IsFiniteSet(S) /\ S \subseteq Nat
  BY CallsFinite, CallsAreNat
<1> DEFINE R == {x \in S \X S : x[1] < x[2]}
<1>2. \A x, y \in S : <<x, y>> \in R <=> x < y
  OBVIOUS
<1> HIDE DEF R
<1>3. /\ \A x \in S : <<x, x>> \notin R
      /\ \A x, y \in S : x # y => <<x, y>> \in R \/ <<y, x>> \in R
      /\ \A x, y, z \in S : <<x, y>> \in R /\ <<y, z>> \in R => <<x, z>> \in R
  BY <1>1, <1>2
<1>4. \A i \in S : Preceding(S, R, i) = {j \in S : j < i}
  BY <1>2 DEF Preceding
<1>5. Listing(S, R, p)
  <2>1. p = [k \in 1..Cardinality(S) |-> p[k]]
    <3> DEFINE e(k) == CHOOSE i \in S : Cardinality({j \in S : j < i}) = k - 1
    <3>1. p = [k \in 1..Cardinality(S) |-> e(k)]
      BY DEF Pending
    <3> HIDE DEF e
    <3> QED
      BY <3>1
  <2>2. ASSUME NEW k \in 1..Cardinality(S), NEW x \in S, Cardinality(Preceding(S, R, x)) = k - 1
        PROVE  p[k] \in S /\ Cardinality(Preceding(S, R, p[k])) = k - 1
    <3> DEFINE c(i) == Cardinality({j \in S : j < i})
    <3>1. p[k] = CHOOSE i \in S : c(i) = k - 1
      BY DEF Pending
    <3>2. c(x) = k - 1
      BY <1>4, <2>2
    <3> HIDE DEF c
    <3>3. p[k] \in S /\ c(p[k]) = k - 1
      BY <3>1, <3>2
    <3> QED
      BY <1>4, <3>3 DEF c
  <2> QED
    BY <2>1, <2>2 DEF Listing
<1>6. /\ Cardinality(S) \in Nat /\ p \in [1..Cardinality(S) -> S]
      /\ \A k, l \in 1..Cardinality(S) : k < l <=> <<p[k], p[l]>> \in R
      /\ \A x \in S : \E k \in 1..Cardinality(S) : p[k] = x
      /\ \A k \in 1..Cardinality(S) : Cardinality(Preceding(S, R, p[k])) = k - 1
  <2> QED
    BY <1>1, <1>3, <1>5, Listed, SMTT(30)
<1>7. Len(p) = Cardinality(S) /\ DOMAIN p = 1..Len(p)
  BY <1>6 DEF Pending
<1>8. ASSUME NEW k \in 1..Len(p) PROVE Cardinality(Upto(S, p[k])) = k
  <2>0. PICK i \in S : i = p[k]
    BY <1>6, <1>7
  <2>1. PICK P : P = {j \in S : j < i}
    OBVIOUS
  <2>2. Cardinality(P) = k - 1
    BY <1>4, <1>6, <1>7, <2>0, <2>1
  <2>3. IsFiniteSet(P) /\ i \notin P
    <3>1. P \in SUBSET S /\ i \notin P
      BY <1>1, <2>1
    <3> QED
      BY <1>1, <3>1, FS_Subset
  <2>4. Upto(S, i) = P \cup {i}
    <3>1. \A j \in S : j <= i <=> j < i \/ j = i
      BY <1>1
    <3> QED
      BY <2>1, <3>1 DEF Upto
  <2>5. Cardinality(P \cup {i}) = Cardinality(P) + 1
    BY <2>3, FS_AddElement
  <2> QED
    BY <2>0, <2>2, <2>4, <2>5
<1> QED
  BY <1>2, <1>6, <1>7, <1>8

(* The longest prefix that may run together is what the loop selects.      *)
LEMMA LoopIsPrefix ==
  ASSUME NEW S \in SUBSET Calls, S # {}
  PROVE  FirstBatch(S) = BatchAsCoded(Pending(S)) /\ FirstBatch(S) # {}
<1>1. PICK p : p = Pending(S)
  OBVIOUS
<1>2. PICK n \in Nat : n = Len(p)
  BY <1>1, PendingInOrder
<1>3. /\ \A k \in 1..n : p[k] \in S /\ Cardinality(Upto(S, p[k])) = k
      /\ \A k, l \in 1..n : k < l <=> p[k] < p[l]
      /\ \A i \in S : \E k \in 1..n : p[k] = i
  BY <1>1, <1>2, PendingInOrder
<1>4. 1 \in 1..n
  BY <1>3
<1>5. S \subseteq Nat /\ Cap \in Nat /\ Cap # 0
  BY CallsAreNat
<1> DEFINE Together(k) == k <= Cap /\ \A a, b \in 1..k : a < b => Compatible(p[a], p[b])
<1>6. ASSUME NEW k \in 1..n PROVE Fits(Upto(S, p[k])) <=> Together(k)
  <2>1. \A a \in 1..n : p[a] \in Upto(S, p[k]) <=> a \in 1..k
    <3> SUFFICES ASSUME NEW a \in 1..n PROVE p[a] \in Upto(S, p[k]) <=> a <= k
      OBVIOUS
    <3>1. p[a] <= p[k] <=> ~(p[k] < p[a])
      <4>1. PICK x \in Nat, y \in Nat : x = p[a] /\ y = p[k]
        BY <1>3, <1>5
      <4>2. x <= y <=> ~(y < x)
        OBVIOUS
      <4> QED
        BY <4>1, <4>2
    <3>2. a <= k <=> ~(k < a)
      OBVIOUS
    <3> QED
      BY <1>3, <3>1, <3>2 DEF Upto
  <2>2. 1..k \subseteq 1..n
    OBVIOUS
  <2>3. ASSUME Fits(Upto(S, p[k])), NEW a \in 1..k, NEW b \in 1..k, a < b
        PROVE  Compatible(p[a], p[b])
    <3>1. p[a] < p[b] /\ p[a] \in Upto(S, p[k]) /\ p[b] \in Upto(S, p[k])
      BY <1>3, <2>1, <2>2, <2>3
    <3> QED
      BY <2>3, <3>1 DEF Fits
  <2>4. ASSUME Together(k), NEW i \in Upto(S, p[k]), NEW j \in Upto(S, p[k]), i < j
        PROVE  Compatible(i, j)
    <3>1. PICK a \in 1..n : p[a] = i
      BY <1>3 DEF Upto
    <3>2. PICK b \in 1..n : p[b] = j
      BY <1>3 DEF Upto
    <3>3. a \in 1..k /\ b \in 1..k /\ a < b
      BY <1>3, <2>1, <2>4, <3>1, <3>2
    <3> QED
      BY <2>4, <3>1, <3>2, <3>3
  <2>5. Cardinality(Upto(S, p[k])) = k
    BY <1>3
  <2> QED
    BY <2>3, <2>4, <2>5 DEF Fits
<1>7. FirstBatch(S) = {p[k] : k \in {l \in 1..n : Together(l)}}
  <2> HIDE DEF Together
  <2>1. \A k \in 1..n : p[k] \in FirstBatch(S) <=> Together(k)
    BY <1>3, <1>6 DEF FirstBatch
  <2>2. FirstBatch(S) \subseteq S
    BY DEF FirstBatch
  <2> QED
    BY <1>3, <2>1, <2>2
<1>8. Together(1)
  BY <1>5
<1>9. CASE ToolParallel(p[1])
  <2>1. /\ Selected(p) \in 0..n
        /\ \A k \in 1..n : k <= Selected(p) <=> \A j \in 1..k : MayJoin(p, j)
    BY <1>2, LoopSelects
  <2>2. ASSUME NEW k \in 1..n PROVE (\A j \in 1..k : MayJoin(p, j)) <=> Together(k)
    <3>1. ASSUME \A j \in 1..k : MayJoin(p, j) PROVE Together(k)
      <4>1. k <= Cap
        BY <3>1 DEF MayJoin
      <4>2. ASSUME NEW a \in 1..k, NEW b \in 1..k, a < b PROVE Compatible(p[a], p[b])
        <5>1. MayJoin(p, a) /\ MayJoin(p, b) /\ a \in 1..(b - 1)
          BY <3>1, <4>2
        <5> QED
          BY <5>1 DEF MayJoin, Compatible
      <4> QED
        BY <4>1, <4>2
    <3>2. ASSUME Together(k), NEW j \in 1..k PROVE MayJoin(p, j)
      <4>1. j <= Cap
        BY <1>5, <3>2
      <4>2. ASSUME NEW a \in 1..(j - 1) PROVE ~ResourcesConflict(p[a], p[j])
        <5>1. a \in 1..k /\ a < j
          OBVIOUS
        <5> QED
          BY <3>2, <5>1 DEF Compatible
      <4>3. ToolParallel(p[j])
        <5>1. CASE j = 1
          BY <1>9, <5>1
        <5>2. CASE j # 1
          <6>1. 1 \in 1..k /\ 1 < j
            BY <5>2
          <6> QED
            BY <3>2, <6>1 DEF Compatible
        <5> QED
          BY <5>1, <5>2
      <4> QED
        BY <4>1, <4>2, <4>3 DEF MayJoin
    <3> QED
      BY <3>1, <3>2
  <2> HIDE DEF Together
  <2>3. {l \in 1..n : Together(l)} = 1..Selected(p)
    <3>1. \A l \in 1..n : Together(l) <=> l <= Selected(p)
      BY <2>1, <2>2
    <3> QED
      BY <2>1, <3>1
  <2>4. BatchAsCoded(p) = {p[k] : k \in 1..Selected(p)}
    BY <1>9 DEF BatchAsCoded
  <2> QED
    BY <1>1, <1>4, <1>7, <1>8, <2>3, <2>4
<1>10. CASE ~ToolParallel(p[1])
  <2>1. ASSUME NEW k \in 1..n, k # 1 PROVE ~Together(k)
    <3>1. 1 \in 1..k /\ k \in 1..k /\ 1 < k
      BY <2>1
    <3> QED
      BY <1>10, <3>1 DEF Compatible
  <2> HIDE DEF Together
  <2>2. {l \in 1..n : Together(l)} = {1}
    BY <1>4, <1>8, <2>1
  <2>3. BatchAsCoded(p) = {p[k] : k \in 1..1}
    BY <1>10 DEF BatchAsCoded
  <2>4. 1..1 = {1}
    OBVIOUS
  <2> QED
    BY <1>1, <1>7, <2>2, <2>3, <2>4
<1> QED
  BY <1>9, <1>10

(* Each batch that is cut from a reply is what the loop of                 *)
(* _partition_batches selects, and has a call in it.                       *)
THEOREM PartitionIsTheLoop == Spec => []PartitionAsCoded
<1>1. TypeOK => PartitionAsCoded
  BY LoopIsPrefix DEF TypeOK, PartitionAsCoded
<1> QED
  BY <1>1, SchedulerTypes, PTL
=============================================================================

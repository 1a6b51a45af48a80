------------------------------- MODULE Memory -------------------------------
(***************************************************************************)
(* Long-term memory shared by the runs of several sessions: a tiered store,*)
(* the search and upsert tools, the hook that extracts memories when a run *)
(* succeeds, and the gate of the consolidation it triggers.  A content is  *)
(* the set of its words; ids are ordered as the ranking orders them.       *)
(***************************************************************************)
EXTENDS Naturals, Sequences, FiniteSets, SequencesExt

CONSTANTS
  MemoryRuns,    \* runs, each of its own session, sharing hook and store
  MemoryIds,     \* a finite set of numbers
  Extractions,   \* lists of [id, words, tier] an extractor may propose
  Queries,       \* sets of words
  TierOrder,     \* the tiers in the order they are written and merged
  MinChanges,    \* ConsolidationGate min_changes
  Interval       \* min_interval_s is not 0

Candidates == UNION {{list[k] : k \in DOMAIN list} : list \in Extractions}
Nobody == "nobody"

ASSUME MemoryAssumption ==
  /\ MemoryIds \subseteq Nat /\ IsFiniteSet(MemoryIds)
  /\ MinChanges \in Nat \ {0} /\ Interval \in BOOLEAN
  /\ Extractions \subseteq Seq(Candidates)
  /\ Nobody \notin MemoryRuns
  /\ TierOrder = [k \in 1..Len(TierOrder) |-> TierOrder[k]] /\ Len(TierOrder) \in Nat
  /\ \A q \in Queries : IsFiniteSet(q)

Tiers == ToSet(TierOrder)

VARIABLES
  stored,      \* tier -> id -> words, {} for no item
  phase,       \* where each run is
  todo,        \* candidates the hook has still to look at, or tiers to write
  fresh,       \* candidates it keeps
  gate,        \* ConsolidationGate: changes, whether it has run, lock holder
  pass,        \* changes a consolidation started with, and those it covers
  missed       \* ghost: recorded changes no completed pass has covered

memoryVars == <<stored, phase, todo, fresh, gate, pass, missed>>

MemoryInit ==
  /\ stored = [t \in Tiers |-> [i \in MemoryIds |-> {}]]
  /\ phase = [r \in MemoryRuns |-> "turns"]
  /\ todo = [r \in MemoryRuns |-> <<>>] /\ fresh = [r \in MemoryRuns |-> <<>>]
  /\ gate = [changes |-> 0, ran |-> FALSE, holder |-> Nobody]
  /\ pass = [applied |-> 0, covers |-> {}] /\ missed = {}

-----------------------------------------------------------------------------
(* A store's search: the items that share a word with the query, best      *)
(* score first, then highest id.                                           *)
Score(q, words) == Cardinality(q \cap words)
Hit(i, words, q) == [id |-> i, words |-> words, score |-> Score(q, words)]
Before(x, y) == x.score > y.score \/ (x.score = y.score /\ x.id > y.id)
Ranked(hits) ==
  [k \in 1..Cardinality(hits) |->
     CHOOSE h \in hits : Cardinality({g \in hits : Before(g, h)}) = k - 1]
Best(hits, n) == SubSeq(Ranked(hits), 1, IF Cardinality(hits) < n THEN Cardinality(hits) ELSE n)

Hits(t, q) == {Hit(i, stored[t][i], q) : i \in {j \in MemoryIds : Score(q, stored[t][j]) > 0}}

(* Mutant: the first copy of an id is kept.                                *)
FirstCopies(seen, hits) == seen \cup {h \in hits : \A s \in seen : s.id # h.id}

(* TieredMemoryStore.search asks each tier for its best, keeps the better  *)
(* copy of an id (the earlier tier's when they tie) and ranks what is left.*)
BetterCopies(seen, hits) ==
  {s \in seen : \A h \in hits : h.id = s.id => s.score >= h.score}
    \cup {h \in hits : \A s \in seen : s.id = h.id => h.score > s.score}
Search(q, limit) ==
  LET seen[k \in 0..Len(TierOrder)] ==
        IF k = 0 THEN {}
        ELSE BetterCopies(seen[k - 1], ToSet(Best(Hits(TierOrder[k], q), limit)))
  IN Best(seen[Len(TierOrder)], limit)

-----------------------------------------------------------------------------
At(r, p) == phase[r] = p
Goes(r, p) == phase' = [phase EXCEPT ![r] = p]
Put(item) == stored' = [stored EXCEPT ![item.tier][item.id] = item.words]

(* UpsertMemory, called by the model in a turn.                            *)
ToolUpsert(r, item) ==
  /\ At(r, "turns") /\ Put(item)
  /\ UNCHANGED <<phase, todo, fresh, gate, pass, missed>>

(* MemoryExtractionHook.on_stop: a run that failed, or whose last messages *)
(* show a write of its own, is left alone; else candidates are extracted.  *)
SitsOut(r) ==
  /\ At(r, "turns") /\ Goes(r, "over")
  /\ UNCHANGED <<stored, todo, fresh, gate, pass, missed>>
Extract(r, list) ==
  /\ At(r, "turns") /\ Goes(r, "dedup")
  /\ todo' = [todo EXCEPT ![r] = list]
  /\ UNCHANGED <<stored, fresh, gate, pass, missed>>

(* _is_duplicate: something stored has (nearly) every word of it.          *)
Duplicate(item) ==
  \E k \in DOMAIN Search(item.words, 1) : Search(item.words, 1)[k].score = Cardinality(item.words)

Dedup(r) ==
  /\ At(r, "dedup") /\ todo[r] # <<>>
  /\ todo' = [todo EXCEPT ![r] = Tail(@)]
  /\ fresh' = [fresh EXCEPT ![r] = IF Duplicate(Head(todo[r])) THEN @ ELSE Append(@, Head(todo[r]))]
  /\ UNCHANGED <<stored, phase, gate, pass, missed>>
Deduped(r) ==
  /\ At(r, "dedup") /\ todo[r] = <<>>
  /\ IF fresh[r] = <<>> THEN Goes(r, "gate") /\ UNCHANGED todo
     ELSE Goes(r, "write") /\ todo' = [todo EXCEPT ![r] = TierOrder]
  /\ UNCHANGED <<stored, fresh, gate, pass, missed>>

(* TieredMemoryStore.upsert: the items of each tier, one tier after the    *)
(* other; the hook counts them when all are written.                       *)
WriteTier(r) ==
  /\ At(r, "write") /\ todo[r] # <<>>
  /\ stored' = FoldLeft(LAMBDA st, item :
         IF item.tier = Head(todo[r]) THEN [st EXCEPT ![item.tier][item.id] = item.words] ELSE st,
         stored, fresh[r])
  /\ todo' = [todo EXCEPT ![r] = Tail(@)]
  /\ UNCHANGED <<phase, fresh, gate, pass, missed>>
Record(r) ==
  /\ At(r, "write") /\ todo[r] = <<>>
  /\ gate' = [gate EXCEPT !.changes = @ + Len(fresh[r])]
  /\ missed' = missed \cup ({r} \X DOMAIN fresh[r])
  /\ Goes(r, "gate")
  /\ UNCHANGED <<stored, todo, fresh, pass>>

(* The extractor or the store raises: the dispatcher isolates the hook.    *)
HookFails(r) ==
  /\ phase[r] \in {"dedup", "write"} /\ todo[r] # <<>>
  /\ Goes(r, "over")
  /\ UNCHANGED <<stored, todo, fresh, gate, pass, missed>>

(* ConsolidationGate.run, one caller at a time.                            *)
GateCloses(r) ==
  /\ At(r, "gate") /\ gate.holder = Nobody
  /\ gate.changes < MinChanges \/ (gate.ran /\ Interval)
  /\ Goes(r, "over")
  /\ UNCHANGED <<stored, todo, fresh, gate, pass, missed>>
GateOpens(r) ==
  /\ At(r, "gate") /\ gate.holder = Nobody /\ gate.changes >= MinChanges
  /\ Goes(r, "consolidate")
  /\ gate' = [gate EXCEPT !.holder = r]
  /\ pass' = [applied |-> gate.changes, covers |-> missed]
  /\ UNCHANGED <<stored, todo, fresh, missed>>

(* Mutant: a consolidation resets the counter.                             *)
ForgetAll(changes, n) == 0

(* The changes recorded while it ran stay counted.                         *)
Remaining(changes, n) == IF changes > n THEN changes - n ELSE 0

Consolidated(r) ==
  /\ At(r, "consolidate") /\ Goes(r, "over")
  /\ gate' = [changes |-> Remaining(gate.changes, pass.applied), ran |-> TRUE, holder |-> Nobody]
  /\ missed' = missed \ pass.covers
  /\ UNCHANGED <<stored, todo, fresh, pass>>
ConsolidationFails(r) ==
  /\ At(r, "consolidate") /\ Goes(r, "over")
  /\ gate' = [gate EXCEPT !.holder = Nobody]
  /\ UNCHANGED <<stored, todo, fresh, pass, missed>>

MemoryNext == \E r \in MemoryRuns :
  \/ \E list \in Extractions : Extract(r, list) \/ ToolUpsert(r, list[1])
  \/ SitsOut(r) \/ Dedup(r) \/ Deduped(r) \/ WriteTier(r) \/ Record(r) \/ HookFails(r)
  \/ GateCloses(r) \/ GateOpens(r) \/ Consolidated(r) \/ ConsolidationFails(r)

MemorySpec == MemoryInit /\ [][MemoryNext]_memoryVars

-----------------------------------------------------------------------------
(* The merge of the tiers loses nothing: whatever was written, moved or is *)
(* in two tiers at once, a search returns the best items there are.        *)
SearchRanksGlobally == \A q \in Queries : \A n \in 1..2 :
  LET all == UNION {Hits(t, q) : t \in Tiers}
      scores == [i \in {h.id : h \in all} |->
                  CHOOSE s \in {h.score : h \in {g \in all : g.id = i}} :
                    \A h \in {g \in all : g.id = i} : h.score <= s]
      found == Search(q, n)
  IN /\ Len(found) = (IF Cardinality(DOMAIN scores) < n THEN Cardinality(DOMAIN scores) ELSE n)
     /\ \A k \in DOMAIN found :
          /\ found[k] \in all /\ found[k].score = scores[found[k].id]
          /\ \A i \in DOMAIN scores \ {found[j].id : j \in 1..k} :
               scores[i] < found[k].score \/ (scores[i] = found[k].score /\ i < found[k].id)

(* Memories recorded while a consolidation runs are not forgotten with     *)
(* those it covers: the next gate still counts them.                       *)
NoChangeForgotten == Cardinality(missed) <= gate.changes
=============================================================================

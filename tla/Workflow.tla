------------------------------ MODULE Workflow ------------------------------
(***************************************************************************)
(* run_workflow: a workflow function that hands its branches to            *)
(* wf.parallel or wf.pipeline, each branch a chain of wf.agent calls.  A   *)
(* branch holds one slot of the context's semaphore while it runs; its     *)
(* last step may hand further branches to the same context (a nested       *)
(* parallel), and it holds its slot while it waits for them.               *)
(*                                                                         *)
(* Results are journaled under (call key, occurrence) in memory and in the *)
(* run's event log.  The process may die, and the host may invoke the run  *)
(* again, also in the process where a branch failed: gather raises at the  *)
(* first failure and leaves the other branches running.  An invocation is  *)
(* a number; what a subagent does is in Workers.                           *)
(***************************************************************************)
EXTENDS Naturals, Sequences, FiniteSets

CONSTANTS
  Branches,     \* the branches of the workflow function
  Program,      \* the call keys of each branch's steps
  Outer,        \* the branch that starts it, or Fn
  Fn,
  Slots,        \* max_concurrency
  Invocations   \* calls of run_workflow (a bound of the model)

Keys == UNION {{Program[b][i] : i \in DOMAIN Program[b]} : b \in Branches}

ASSUME WorkflowAssumption ==
  /\ IsFiniteSet(Branches)
  /\ \A b \in Branches : Program[b] \in Seq(Keys)
  /\ Fn \notin Branches
  /\ Invocations \in Nat

VARIABLES
  invoked,  \* invocations so far; the last one is the current one
  outcome,  \* "running", "completed", "failed" of each, "dead" with its process
  status,   \* the run record
  log,      \* (key, occurrence) of the agent_end events in the event log
  journal,  \* WorkflowJournal._results of each invocation
  counter,  \* WorkflowJournal._counters
  at,       \* where each branch of each invocation stands
  step,     \* the step it is at
  occ,      \* the occurrence of its call
  loaded,   \* the journal an invocation starts with (history)
  runs      \* subagents run, for each invocation and key (history)

workflowVars ==
  <<invoked, outcome, status, log, journal, counter, at, step, occ, loaded, runs>>

Gens == 1..Invocations
Key(g, b) == Program[b][step[g][b]]
Inner(b) == {c \in Branches : Outer[c] = b}

WorkflowInit ==
  /\ invoked = 0
  /\ outcome = [g \in Gens |-> "none"]
  /\ status = "none"
  /\ log = {}
  /\ journal = [g \in Gens |-> {}]
  /\ counter = [g \in Gens |-> [k \in Keys |-> 0]]
  /\ at = [g \in Gens |-> [b \in Branches |-> "none"]]
  /\ step = [g \in Gens |-> [b \in Branches |-> 1]]
  /\ occ = [g \in Gens |-> [b \in Branches |-> 0]]
  /\ loaded = journal
  /\ runs = counter

Alive(g) == outcome[g] \in {"running", "failed", "completed"}
Moves(g, b, p) == at' = [at EXCEPT ![g][b] = p]

(* WorkflowJournal.from_stored_events.                                     *)
FromStoredEvents == log

(* run_workflow, up to the function's own call of parallel.                *)
Invoke ==
  /\ invoked < Invocations
  /\ invoked > 0 => outcome[invoked] # "running"
  /\ invoked' = invoked + 1
  /\ outcome' = [outcome EXCEPT ![invoked'] = "running"]
  /\ status' = IF status = "none" THEN "running" ELSE status
  /\ journal' = [journal EXCEPT ![invoked'] = FromStoredEvents]
  /\ at' = [at EXCEPT ![invoked'] =
              [b \in Branches |-> IF Outer[b] = Fn THEN "queued" ELSE "none"]]
  /\ loaded' = [loaded EXCEPT ![invoked'] = FromStoredEvents]
  /\ UNCHANGED <<log, counter, step, occ, runs>>

Holding(g) == {b \in Branches : at[g][b] \notin {"none", "queued", "done", "failed"}}

(* gated: async with the semaphore.                                        *)
Acquire(g, b) ==
  /\ Alive(g) /\ at[g][b] = "queued"
  /\ Cardinality(Holding(g)) < Slots
  /\ Moves(g, b, "call")
  /\ UNCHANGED <<invoked, outcome, status, log, journal, counter, step, occ, loaded, runs>>

(* Mutant: one counter for all keys.                                       *)
NextOccurrenceOfAny(g, k) ==
  counter' = [counter EXCEPT ![g] = [j \in Keys |-> counter[g][j] + 1]]

(* next_occurrence.                                                        *)
NextOccurrence(g, k) == counter' = [counter EXCEPT ![g][k] = @ + 1]

(* wf.agent: the occurrence is taken and looked up; the event of a start   *)
(* or of a replay is awaited before anything else.                         *)
Call(g, b) ==
  /\ Alive(g) /\ at[g][b] = "call" /\ step[g][b] <= Len(Program[b])
  /\ NextOccurrence(g, Key(g, b))
  /\ occ' = [occ EXCEPT ![g][b] = counter[g][Key(g, b)]]
  /\ LET hit == <<Key(g, b), counter[g][Key(g, b)]>> \in journal[g]
     IN  /\ Moves(g, b, IF hit THEN "replayed" ELSE "running")
         /\ runs' = IF hit THEN runs ELSE [runs EXCEPT ![g][Key(g, b)] = @ + 1]
  /\ UNCHANGED <<invoked, outcome, status, log, journal, step, loaded>>

Advance(g, b) == step' = [step EXCEPT ![g][b] = @ + 1]

Replayed(g, b) ==
  /\ Alive(g) /\ at[g][b] = "replayed"
  /\ Moves(g, b, "call") /\ Advance(g, b)
  /\ UNCHANGED <<invoked, outcome, status, log, journal, counter, occ, loaded, runs>>

(* run_subagent returns a text: record it, then emit agent_end.            *)
Record(g, b) ==
  /\ Alive(g) /\ at[g][b] = "running"
  /\ journal' = [journal EXCEPT ![g] = @ \cup {<<Key(g, b), occ[g][b]>>}]
  /\ Moves(g, b, "emit")
  /\ UNCHANGED <<invoked, outcome, status, log, counter, step, occ, loaded, runs>>

EmitEnd(g, b) ==
  /\ Alive(g) /\ at[g][b] = "emit"
  /\ log' = log \cup {<<Key(g, b), occ[g][b]>>}
  /\ Moves(g, b, "call") /\ Advance(g, b)
  /\ UNCHANGED <<invoked, outcome, status, journal, counter, occ, loaded, runs>>

(* The subagent errs: the branch raises, its gather and those around it    *)
(* raise, and the workflow is marked failed; the others run on.            *)
Fails(g, b) ==
  /\ Alive(g) /\ at[g][b] = "running"
  /\ Moves(g, b, "failed")
  /\ IF outcome[g] = "running"
     THEN /\ outcome' = [outcome EXCEPT ![g] = "failed"]
          /\ status' = "failed"
     ELSE UNCHANGED <<outcome, status>>
  /\ UNCHANGED <<invoked, log, journal, counter, step, occ, loaded, runs>>

(* Mutant: a finished branch keeps its slot.                               *)
FinishHolding(g, b) ==
  /\ Alive(g) /\ at[g][b] = "call" /\ step[g][b] > Len(Program[b])
  /\ Inner(b) = {}
  /\ Moves(g, b, "held")
  /\ UNCHANGED <<invoked, outcome, status, log, journal, counter, step, occ, loaded, runs>>

(* A branch without inner branches returns and leaves its slot.            *)
Finish(g, b) ==
  /\ Alive(g) /\ at[g][b] = "call" /\ step[g][b] > Len(Program[b])
  /\ Inner(b) = {}
  /\ Moves(g, b, "done")
  /\ UNCHANGED <<invoked, outcome, status, log, journal, counter, step, occ, loaded, runs>>

(* The nested parallel and its gather.                                     *)
StartInner(g, b) ==
  /\ Alive(g) /\ at[g][b] = "call" /\ step[g][b] > Len(Program[b])
  /\ Inner(b) # {}
  /\ at' = [at EXCEPT ![g] =
              [c \in Branches |-> IF c = b THEN "join"
                                  ELSE IF c \in Inner(b) THEN "queued" ELSE @[c]]]
  /\ UNCHANGED <<invoked, outcome, status, log, journal, counter, step, occ, loaded, runs>>

JoinInner(g, b) ==
  /\ Alive(g) /\ at[g][b] = "join"
  /\ \A c \in Inner(b) : at[g][c] = "done"
  /\ Moves(g, b, "done")
  /\ UNCHANGED <<invoked, outcome, status, log, journal, counter, step, occ, loaded, runs>>

(* The function returns: mark_completed.                                   *)
Return(g) ==
  /\ outcome[g] = "running"
  /\ \A b \in Inner(Fn) : at[g][b] = "done"
  /\ outcome' = [outcome EXCEPT ![g] = "completed"]
  /\ status' = "completed"
  /\ UNCHANGED <<invoked, log, journal, counter, at, step, occ, loaded, runs>>

Die ==
  /\ \E g \in Gens : Alive(g)
  /\ outcome' = [g \in Gens |-> IF Alive(g) THEN "dead" ELSE outcome[g]]
  /\ UNCHANGED <<invoked, status, log, journal, counter, at, step, occ, loaded, runs>>

BranchStep(g, b) ==
  \/ Acquire(g, b) \/ Call(g, b) \/ Replayed(g, b) \/ Record(g, b) \/ EmitEnd(g, b)
  \/ Finish(g, b) \/ StartInner(g, b) \/ JoinInner(g, b)

WorkflowStep(g) == Return(g) \/ \E b \in Branches : BranchStep(g, b)

WorkflowNext ==
  \/ Invoke \/ Die
  \/ \E g \in Gens : WorkflowStep(g) \/ \E b \in Branches : Fails(g, b)

WorkflowSpec == WorkflowInit /\ [][WorkflowNext]_workflowVars

-----------------------------------------------------------------------------
Sites(k) ==
  {s \in UNION {{b} \X DOMAIN Program[b] : b \in Branches} : Program[s[1]][s[2]] = k}
CallsOf(k) == Cardinality(Sites(k))

(* Results in the event log when a run is invoked again are all used: an   *)
(* invocation runs as many subagents as calls were left without one, also  *)
(* when branches reach identical calls in another order than before.       *)
JournaledCallsAreNotRerun ==
  \A g \in 1..invoked, k \in Keys :
    runs[g][k] + Cardinality({c \in loaded[g] : c[1] = k}) <= CallsOf(k)

(* A workflow whose subagents answer returns.                              *)
WorkflowReturns ==
  \A g \in Gens : (outcome[g] = "running") ~> (outcome[g] # "running")
=============================================================================

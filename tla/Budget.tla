------------------------------- MODULE Budget -------------------------------
(***************************************************************************)
(* One RunBudget shared by the runs of an agent tree.  A run looks at the  *)
(* budget at the top of a turn and charges the turn's usage after the      *)
(* reply is in the history; runs of children, in the background too, go on *)
(* in between.  Amounts are natural numbers, in tokens and in dollars; a   *)
(* model without a price costs 0.                                          *)
(***************************************************************************)
EXTENDS Integers, FiniteSets

CONSTANTS
  TreeRuns,       \* the runs of the tree
  Root,       \* the first of them
  Limit,      \* max_tokens and max_cost_usd; NoLimit if None
  WarnAt,     \* warn_ratio of each limit
  NoLimit,
  MaxCost,    \* the most one turn can use
  MaxTurns    \* max_turns of each run

Currencies == {"tokens", "usd"}

ASSUME BudgetAssumption ==
  /\ Root \in TreeRuns /\ IsFiniteSet(TreeRuns)
  /\ MaxCost \in Nat /\ MaxTurns \in Nat
  /\ NoLimit \notin Nat
  /\ Limit \in [Currencies -> Nat \cup {NoLimit}]
  /\ WarnAt \in [Currencies -> Nat]

VARIABLES
  standing,        \* where each run stands
  turns,      \* its turns
  spent,     \* spent_tokens, spent_usd
  warned,    \* _warn_emitted
  warnings   \* BudgetEvents of kind "warning" emitted (history)

budgetVars == <<standing, turns, spent, warned, warnings>>

BudgetInit ==
  /\ standing = [r \in TreeRuns |-> IF r = Root THEN "top" ELSE "none"]
  /\ turns = [r \in TreeRuns |-> 0]
  /\ spent = [c \in Currencies |-> 0]
  /\ warned = FALSE
  /\ warnings = 0

Limited(c) == Limit[c] # NoLimit

(* Mutant: a budget spent to the last unit still allows a call.            *)
ExceededLate == \E c \in Currencies : Limited(c) /\ spent[c] > Limit[c]

Exceeded == \E c \in Currencies : Limited(c) /\ spent[c] >= Limit[c]

(* The check before the turn; the drains and the request follow it.        *)
TurnBegins(r) ==
  /\ standing[r] = "top" /\ turns[r] < MaxTurns
  /\ standing' = [standing EXCEPT ![r] = IF Exceeded THEN "exhausted" ELSE "calling"]
  /\ turns' = IF Exceeded THEN turns ELSE [turns EXCEPT ![r] = @ + 1]
  /\ UNCHANGED <<spent, warned, warnings>>

(* The reply is appended and its usage charged.                            *)
Charge(r) ==
  /\ standing[r] = "calling"
  /\ \E usage \in [Currencies -> 0..MaxCost] :
       spent' = [c \in Currencies |-> spent[c] + usage[c]]
  /\ standing' = [standing EXCEPT ![r] = "replied"]
  /\ UNCHANGED <<turns, warned, warnings>>

(* The call fails, or the run ends otherwise in the middle of a turn.      *)
CallFails(r) ==
  /\ standing[r] = "calling"
  /\ standing' = [standing EXCEPT ![r] = "ended"]
  /\ UNCHANGED <<turns, spent, warned, warnings>>

(* take_warning.                                                           *)
TakeWarning ==
  LET over == ~warned /\ \E c \in Currencies : Limited(c) /\ spent[c] >= WarnAt[c]
  IN  /\ warned' = (warned \/ over)
      /\ warnings' = IF over THEN warnings + 1 ELSE warnings

(* After the events of the reply: the warning, then the tools or the end.  *)
Replied(r) ==
  /\ standing[r] = "replied"
  /\ TakeWarning
  /\ \E next \in {"tools", "ended"} : standing' = [standing EXCEPT ![r] = next]
  /\ UNCHANGED <<turns, spent>>

(* run_subagent: the child's run has the parent's budget object.           *)
SpawnRun(r, child) ==
  /\ standing[r] = "tools" /\ standing[child] = "none"
  /\ standing' = [standing EXCEPT ![child] = "top"]
  /\ UNCHANGED <<turns, spent, warned, warnings>>

ToolsDone(r) ==
  /\ standing[r] = "tools"
  /\ standing' = [standing EXCEPT ![r] = IF turns[r] < MaxTurns THEN "top" ELSE "ended"]
  /\ UNCHANGED <<turns, spent, warned, warnings>>

BudgetNext ==
  \E r \in TreeRuns : \/ TurnBegins(r) \/ Charge(r) \/ CallFails(r) \/ Replied(r) \/ ToolsDone(r)
                  \/ \E child \in TreeRuns : SpawnRun(r, child)

BudgetSpec == BudgetInit /\ [][BudgetNext]_budgetVars

-----------------------------------------------------------------------------
Calling == {r \in TreeRuns : standing[r] = "calling"}

(* However the turns of a tree interleave, it overshoots a limit by less   *)
(* than one turn of each of its runs: the last unit is spent by calls that *)
(* were checked before it was.                                             *)
OvershootIsBounded ==
  \A c \in Currencies :
    Limited(c) /\ Limit[c] > 0 =>
      spent[c] + MaxCost * Cardinality(Calling) < Limit[c] + MaxCost * Cardinality(TreeRuns)

(* A tree warns once, whichever of its runs comes to the ratio.            *)
WarnsOnce == warnings <= 1
=============================================================================

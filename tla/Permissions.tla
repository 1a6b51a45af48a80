----------------------------- MODULE Permissions -----------------------------
(***************************************************************************)
(* The permission engine: an optional stack of layers, the flat rules, the *)
(* mode's default, and the callback that answers what is left to ask.      *)
(*                                                                         *)
(* A rule covers a set of subjects: tools, paths, or segments of a command *)
(* (globbing and tokenising decide which, outside the model).  A call is   *)
(* of one tool; a Bash call has the segments of its composite command.     *)
(***************************************************************************)
EXTENDS Naturals, Sequences, FiniteSets, SequencesExt

CONSTANTS
  Segments,    \* command segments
  MaxRules     \* rules in the flat list and the layers together

VARIABLES
  rules,       \* PermissionEngine.rules
  layers,      \* PermissionRuleSet.layers
  mode,
  asking,      \* the PendingToolCall, NoCall before
  signal,      \* the run is aborted
  asked,       \* the callback: "no", "waiting", or how it ended
  decision     \* the PermissionDecision's, "none" before

permVars == <<rules, layers, mode, asking, signal, asked, decision>>

Modes4 == {"default", "acceptEdits", "skip-dangerous"}
RuleDecisions == {"allow", "deny", "ask", "passthrough"}
NoCall == [tool |-> "none", scope |-> "none", segments |-> <<>>]
CallsAsked ==
  {[tool |-> "Read", scope |-> "read", segments |-> <<>>],
   [tool |-> "Write", scope |-> "write", segments |-> <<>>]}
  \cup [tool : {"Bash"}, scope : {"exec"}, segments : {<<s>> : s \in Segments} \cup {SetToSeq(Segments)}]

Rules ==
  [kind : {"tool"}, covers : {{"Bash"}, {"Read", "Write", "Bash"}}, decision : RuleDecisions]
  \cup [kind : {"path"}, covers : {{"Write"}}, decision : RuleDecisions]
  \cup [kind : {"bash"}, covers : {{s} : s \in Segments}, decision : RuleDecisions]

PermissionsInit ==
  /\ rules = <<>> /\ layers = <<>> /\ mode \in Modes4
  /\ asking = NoCall /\ signal = FALSE /\ asked = "no" /\ decision = "none"

(* The embedder's configuration.                                           *)
AddRule(r) ==
  /\ asking = NoCall /\ Len(rules) + Len(layers) < MaxRules
  /\ rules' = Append(rules, r)
  /\ UNCHANGED <<layers, mode, asking, signal, asked, decision>>

AddLayer(r) ==
  /\ asking = NoCall /\ Len(rules) + Len(layers) < MaxRules
  /\ layers' = Append(layers, <<r>>)
  /\ UNCHANGED <<rules, mode, asking, signal, asked, decision>>

Propose(c) ==
  /\ asking = NoCall
  /\ asking' = c
  /\ UNCHANGED <<rules, layers, mode, signal, asked, decision>>

-----------------------------------------------------------------------------
(* The decision of the first rule that covers the segment, or "none".      *)
FirstMatch(rs, s) ==
  LET hits == SelectSeq(rs, LAMBDA r : s \in r.covers)
  IN  IF hits = <<>> THEN "none" ELSE hits[1].decision

(* Mutant: one allowed segment allows the command.                         *)
AnyPartDecides(rs, c) ==
  LET ds == {FirstMatch(rs, s) : s \in ToSet(c.segments)}
  IN  IF "deny" \in ds THEN "deny" ELSE IF "allow" \in ds THEN "allow" ELSE "none"

(* evaluate_bash_rules: a denied segment denies the command, and only a    *)
(* command of allowed segments is allowed.                                 *)
BashDecision(rs, c) ==
  LET ds == {FirstMatch(rs, s) : s \in ToSet(c.segments)}
  IN  IF "deny" \in ds THEN "deny" ELSE IF ds = {"allow"} THEN "allow" ELSE "none"

(* What the rule at i says of the call; a bash rule speaks for those after *)
(* it too.                                                                 *)
RuleSays(rs, i, c) ==
  IF rs[i].kind = "bash"
  THEN IF c.tool = "Bash"
       THEN BashDecision(SelectSeq(SubSeq(rs, i, Len(rs)), LAMBDA r : r.kind = "bash"), c)
       ELSE "none"
  ELSE IF c.tool \in rs[i].covers THEN rs[i].decision ELSE "none"

(* evaluate_rule_list: the first opinion, passing those that pass.         *)
RuleList(rs, c) ==
  LET speaks == {i \in DOMAIN rs : RuleSays(rs, i, c) \notin {"none", "passthrough"}}
  IN  IF speaks = {} THEN "none"
      ELSE RuleSays(rs, CHOOSE i \in speaks : \A j \in speaks : i <= j, c)

(* Layers: a deny of any is final, else the last opinion.                  *)
Layered(ls, c) ==
  LET opinions == {i \in DOMAIN ls : RuleList(ls[i], c) # "none"}
  IN  IF \E i \in DOMAIN ls : RuleList(ls[i], c) = "deny" THEN "deny"
      ELSE IF opinions = {} THEN "none"
      ELSE RuleList(ls[CHOOSE i \in opinions : \A j \in opinions : j <= i], c)

ModeDefault(c) ==
  IF \/ c.scope = "read" \/ mode = "skip-dangerous"
     \/ c.scope = "write" /\ mode = "acceptEdits"
  THEN "allow" ELSE "ask"

Evaluate(c) ==
  IF Layered(layers, c) # "none" THEN Layered(layers, c)
  ELSE IF RuleList(rules, c) # "none" THEN RuleList(rules, c)
  ELSE ModeDefault(c)

-----------------------------------------------------------------------------
(* resolve: the callback is asked only what is left to ask.  It and the    *)
(* watcher beside the callback look for an is_set of the signal, and the   *)
(* AbortContext the scheduler passes has none: neither sees an abort.      *)
Resolve(callback) ==
  /\ asking # NoCall /\ decision = "none" /\ asked = "no"
  /\ LET d == Evaluate(asking)
     IN  IF d = "ask" /\ callback THEN asked' = "waiting" /\ UNCHANGED decision
         ELSE decision' = (IF d = "ask" THEN "deny" ELSE d) /\ UNCHANGED asked
  /\ UNCHANGED <<rules, layers, mode, asking, signal>>

(* Its answer; a failure, or an answer that is not one, denies.            *)
CallbackAnswers(answer) ==
  /\ asked = "waiting"
  /\ asked' = answer
  /\ decision' = IF answer = "allowed" THEN "allow" ELSE "deny"
  /\ UNCHANGED <<rules, layers, mode, asking, signal>>

RunAborts ==
  /\ ~signal /\ asking # NoCall
  /\ signal' = TRUE
  /\ UNCHANGED <<rules, layers, mode, asking, asked, decision>>

PermissionsNext ==
  \/ \E r \in Rules : AddRule(r) \/ AddLayer(r)
  \/ \E c \in CallsAsked : Propose(c)
  \/ \E b \in BOOLEAN : Resolve(b)
  \/ \E a \in {"allowed", "denied", "failed"} : CallbackAnswers(a)
  \/ RunAborts

PermissionsSpec == PermissionsInit /\ [][PermissionsNext]_permVars

-----------------------------------------------------------------------------
(* What is allowed without asking is allowed part by part: each segment of *)
(* a composite command, alone, would have been allowed, so joining them    *)
(* passes nothing; and a layer that denies the call is obeyed.             *)
AllowedInEveryPart ==
  (decision = "allow" /\ asked = "no") =>
    /\ \A s \in ToSet(asking.segments) : Evaluate([asking EXCEPT !.segments = <<s>>]) = "allow"
    /\ \A l \in ToSet(layers) : RuleList(l, asking) # "deny"

(* An abort of the run ends the wait for the callback, which may take for  *)
(* ever (engine.py:266).                                                   *)
AbortEndsTheWait == (asked = "waiting" /\ signal) ~> (asked # "waiting")
=============================================================================

--------------------------- MODULE MCToolScheduler ---------------------------
(* The instance of ToolScheduler for TLC.                                   *)
EXTENDS ToolScheduler

Kind(scope, predicate, parallel, access) ==
  [valid |-> TRUE, scope |-> scope, predicate |-> predicate,
   parallel |-> [x \in Inputs |-> parallel], access |-> [x \in Inputs |-> access],
   retryable |-> FALSE, rule |-> "allow", background |-> FALSE]

Search == Kind("read", FALSE, TRUE, {<<"db", "read">>})
Index == Kind("write", TRUE, TRUE, {<<"db", "write">>})
Write == Kind("write", FALSE, TRUE, {})
Invalid == [Search EXCEPT !.valid = FALSE]
(* A tool whose updated input turns a reader into a writer.                 *)
Query == [Search EXCEPT !.predicate = TRUE, !.rule = "ask",
                        !.access["updated"] = {<<"db", "write">>}]
Denied == [Search EXCEPT !.rule = "deny"]
Detached == [Index EXCEPT !.background = TRUE, !.rule = "ask"]

LaneKinds == {Search, Index, Write, Query}
AskKinds == {Query, Denied, Invalid, Detached}
AllKinds == LaneKinds \union AskKinds

(* Replies of three calls that run, or of two that may not and one that is  *)
(* invalid.                                                                 *)
ReplyInit ==
  /\ Init
  /\ \/ \A i \in Calls : kind[i] \in LaneKinds
     \/ kind[N] = Invalid /\ \A i \in Calls : kind[i] \in AskKinds
ReplySpec ==
  /\ ReplyInit /\ [][Next]_vars
  /\ WF_vars(SchedulerStep) /\ \A i \in Calls : WF_vars(CallStep(i))

=============================================================================

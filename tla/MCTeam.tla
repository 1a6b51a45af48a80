------------------------------- MODULE MCTeam ---------------------------------
(***************************************************************************)
(* TLC instance of the components around a run, those with liveness: its   *)
(* subagents, its peers' mail, the budget of the tree, workflows, the      *)
(* executor of its stores, and its processes.  They share no state, so a   *)
(* behaviour is a behaviour of the one in focus, and the states to explore *)
(* are the sum of theirs.                                                  *)
(***************************************************************************)
EXTENDS Workers, Mailbox, Budget, Workflow, Executor, Shell, TLC

CONSTANTS w1, w2, b1, b2, b3, c1, c2, c3

VARIABLE focus
teamVars == <<focus, workerVars, mailVars, budgetVars, workflowVars,
              executorVars, shellVars>>

TeamInit ==
  /\ focus \in {"workers", "mail", "budget", "workflow", "executor", "shell"}
  /\ WorkersInit /\ MailboxInit /\ BudgetInit /\ WorkflowInit /\ ExecutorInit
  /\ ShellInit

TeamNext ==
  /\ UNCHANGED focus
  /\ \/ /\ focus = "workers" /\ WorkersNext
        /\ UNCHANGED <<mailVars, budgetVars, workflowVars, executorVars,
                        shellVars>>
     \/ /\ focus = "mail" /\ MailboxNext
        /\ UNCHANGED <<workerVars, budgetVars, workflowVars, executorVars,
                        shellVars>>
     \/ /\ focus = "budget" /\ BudgetNext
        /\ UNCHANGED <<workerVars, mailVars, workflowVars, executorVars,
                        shellVars>>
     \/ /\ focus = "workflow" /\ WorkflowNext
        /\ UNCHANGED <<workerVars, mailVars, budgetVars, executorVars,
                        shellVars>>
     \/ /\ focus = "executor" /\ ExecutorNext
        /\ UNCHANGED <<workerVars, mailVars, budgetVars, workflowVars,
                        shellVars>>
     \/ /\ focus = "shell" /\ ShellNext
        /\ UNCHANGED <<workerVars, mailVars, budgetVars, workflowVars,
                        executorVars>>

TeamSpec == TeamInit /\ [][TeamNext]_teamVars
TeamFairSpec ==
  /\ TeamSpec
  /\ \A g \in Gens : WF_workflowVars(WorkflowStep(g))
  /\ \A c \in Commands : WF_shellVars(ShellStep(c))

(* One worker in the background, one call that is a tool's or a workflow's.*)
MCModes == (w1 :> {"background"}) @@ (w2 :> {"foreground", "branch"})

MCLimit == [c \in Currencies |-> IF c = "tokens" THEN 3 ELSE NoLimit]
MCWarnAt == [c \in Currencies |-> 2]

(* Two branches with an identical call; the third is nested in the first.  *)
MCProgram == (b1 :> <<"k1", "k2">>) @@ (b2 :> <<"k2">>) @@ (b3 :> <<>>)
MCOuter == [b \in Branches |-> IF b = b3 THEN b1 ELSE Fn]

MCRunBy == (c1 :> "local") @@ (c2 :> "docker") @@ (c3 :> "rg")
===============================================================================

------------------------------- MODULE Shell -------------------------------
(***************************************************************************)
(* The processes behind Bash, by its two backends, and behind Grep and     *)
(* Glob when ripgrep is installed: a call waits for its process to end and *)
(* its pipes to close, until a deadline, an abort or a cancellation.       *)
(***************************************************************************)
EXTENDS Naturals

CONSTANTS
  Commands,   \* calls of the tools
  RunBy       \* command -> "local" (a shell in a session of its own),
              \* "docker" (the docker client) or "rg"

VARIABLES
  call,     \* command -> where its call stands
  ending,   \* command -> "done", "timeout" or "aborted", once it is known
  process,  \* command -> the process the call started
  child,    \* command -> what that process started: a command of the
            \* shell, or the container
  stop,     \* the signal of the run
  lost,     \* containers that docker rm did not remove
  orphaned  \* commands still running when their shell exited

shellVars == <<call, ending, process, child, stop, lost, orphaned>>

ShellInit ==
  /\ call = [c \in Commands |-> "none"]
  /\ ending = [c \in Commands |-> "none"]
  /\ process = [c \in Commands |-> "none"]
  /\ child = [c \in Commands |-> "none"]
  /\ stop = FALSE
  /\ lost = {}
  /\ orphaned = {}

(* A quiet child has sent its output elsewhere and holds no pipe.          *)
Living(c) == child[c] \in {"alive", "quiet"}

Goes(c, stage) == call' = [call EXCEPT ![c] = stage] /\ UNCHANGED ending

Returns(c, how) ==
  /\ call' = [call EXCEPT ![c] = "returned"]
  /\ ending' = [ending EXCEPT ![c] = how]

(* DockerBackend looks at the signal before it starts anything.  The await *)
(* of the process' creation is one step with the start.                    *)
Start(c) ==
  /\ call[c] = "none"
  /\ UNCHANGED <<stop, lost, orphaned>>
  /\ IF RunBy[c] = "docker" /\ stop
       THEN Returns(c, "aborted") /\ UNCHANGED <<process, child>>
       ELSE /\ Goes(c, "waiting")
            /\ process' = [process EXCEPT ![c] = "alive"]
            /\ child' = [child EXCEPT ![c] = IF RunBy[c] = "rg" THEN "none" ELSE "alive"]

(* The docker client waits for its container.  A shell waits for the       *)
(* command it runs, but not for one it runs in the background (cmd &),     *)
(* which stays in the shell's process group.                               *)
ProcessExits(c) ==
  /\ process[c] = "alive"
  /\ Living(c) => RunBy[c] = "local"
  /\ process' = [process EXCEPT ![c] = "gone"]
  /\ orphaned' = IF Living(c) THEN orphaned \cup {c} ELSE orphaned
  /\ UNCHANGED <<call, ending, child, stop, lost>>

ChildExits(c) ==
  /\ Living(c)
  /\ child' = [child EXCEPT ![c] = "gone"]
  /\ UNCHANGED <<call, ending, process, stop, lost, orphaned>>

(* cmd > file, with both of its streams.                                   *)
ChildRedirects(c) ==
  /\ RunBy[c] = "local" /\ child[c] = "alive"
  /\ child' = [child EXCEPT ![c] = "quiet"]
  /\ UNCHANGED <<call, ending, process, stop, lost, orphaned>>

Abort ==
  /\ ~stop /\ stop' = TRUE
  /\ UNCHANGED <<call, ending, process, child, lost, orphaned>>

(* communicate: the pipes close when the last process that holds them ends.*)
Communicate(c) ==
  /\ call[c] = "waiting" /\ process[c] = "gone"
  /\ RunBy[c] = "local" => child[c] # "alive"
  /\ Returns(c, "done")
  /\ UNCHANGED <<process, child, stop, lost, orphaned>>

---------------------------------------------------------------------------
(* The deadline passes, the abort is noticed, or the task is cancelled.    *)
GivenUp(c, how) ==
  /\ call[c] = "waiting"
  /\ how = "aborted" => stop
  /\ call' = [call EXCEPT ![c] = "killing"]
  /\ ending' = [ending EXCEPT ![c] = how]

(* Mutant: the signal goes to the process, not to its group.               *)
KillProcess(c, how) ==
  /\ RunBy[c] = "local" /\ GivenUp(c, how)
  /\ process' = [process EXCEPT ![c] = IF @ = "alive" THEN "killed" ELSE @]
  /\ UNCHANGED <<child, stop, lost, orphaned>>

(* _kill_process_group: nothing is sent once the shell's exit is known.    *)
KillGroup(c, how) ==
  /\ RunBy[c] = "local" /\ GivenUp(c, how)
  /\ IF process[c] = "alive"
       THEN /\ process' = [process EXCEPT ![c] = "killed"]
            /\ child' = [child EXCEPT ![c] = IF Living(c) THEN "killed" ELSE @]
       ELSE UNCHANGED <<process, child>>
  /\ UNCHANGED <<stop, lost, orphaned>>

KillClient(c, how) ==
  /\ RunBy[c] = "docker" /\ GivenUp(c, how)
  /\ process' = [process EXCEPT ![c] = IF @ = "alive" THEN "killed" ELSE @]
  /\ UNCHANGED <<child, stop, lost, orphaned>>

(* Grep and Glob wait for ripgrep with a deadline; nothing is killed, and  *)
(* the signal is not looked at.                                            *)
LeaveRipgrep(c) ==
  /\ RunBy[c] = "rg" /\ call[c] = "waiting"
  /\ Returns(c, "timeout")
  /\ UNCHANGED <<process, child, stop, lost, orphaned>>

Reap(c) ==
  /\ process[c] = "killed"
  /\ process' = [process EXCEPT ![c] = "gone"]
  /\ UNCHANGED <<call, ending, child, stop, lost, orphaned>>

(* Mutant: the call waits for the killed process without a deadline.       *)
WaitForever(c) ==
  /\ call[c] = "killing" /\ process[c] = "gone"
  /\ Goes(c, IF RunBy[c] = "docker" THEN "removing" ELSE "returned")
  /\ UNCHANGED <<process, child, stop, lost, orphaned>>

(* _wait_after_kill: the process is gone, or its second has passed.        *)
WaitAfterKill(c) ==
  /\ call[c] = "killing"
  /\ Goes(c, IF RunBy[c] = "docker" THEN "removing" ELSE "returned")
  /\ UNCHANGED <<process, child, stop, lost, orphaned>>

(* docker rm -f, for which the call waits two seconds at most.             *)
RemoveContainer(c) ==
  /\ call[c] = "removing"
  /\ Goes(c, "returned")
  /\ \/ child' = [child EXCEPT ![c] = "gone"] /\ UNCHANGED lost
     \/ lost' = lost \cup {c} /\ UNCHANGED child
  /\ UNCHANGED <<process, stop, orphaned>>

(* A second cancellation cuts the cleanup short.                           *)
CancelAgain(c) ==
  /\ call[c] \in {"killing", "removing"}
  /\ Returns(c, "aborted")
  /\ lost' = IF RunBy[c] = "docker" THEN lost \cup {c} ELSE lost
  /\ UNCHANGED <<process, child, stop, orphaned>>

GiveUp(c, how) == KillGroup(c, how) \/ KillClient(c, how)

(* What the code's own timers and callbacks bring about.                   *)
ShellStep(c) ==
  \/ Communicate(c) \/ GiveUp(c, "timeout") \/ LeaveRipgrep(c)
  \/ WaitAfterKill(c) \/ RemoveContainer(c)

ShellNext ==
  \/ Abort
  \/ \E c \in Commands :
       \/ Start(c) \/ ShellStep(c) \/ GiveUp(c, "aborted") \/ CancelAgain(c)
       \/ ProcessExits(c) \/ ChildExits(c) \/ ChildRedirects(c) \/ Reap(c)

ShellSpec == ShellInit /\ [][ShellNext]_shellVars

---------------------------------------------------------------------------
(* When Bash has answered, timed out or been aborted, its process does not *)
(* run, and neither does what that process started, but for a container    *)
(* that docker could not remove and a command whose shell had exited.      *)
LeftRunning(c) ==
  /\ call[c] = "returned"
  /\ process[c] = "alive" \/ (Living(c) /\ c \notin lost \cup orphaned)

NothingOutlivesItsCall == \A c \in Commands : RunBy[c] # "rg" => ~LeftRunning(c)

(* Violated.  docs/usage/tools.md says that an abort interrupts a command  *)
(* in flight rather than leaking a process that runs on: a call of Bash    *)
(* that an abort or the deadline has ended leaves no command of its shell. *)
(* A command in the background whose shell has exited gets no signal.      *)
AbortStopsTheCommand ==
  \A c \in Commands :
    RunBy[c] = "local" /\ call[c] = "returned" /\ ending[c] # "done" => ~Living(c)

(* Every call returns, whatever its process does and even if it cannot be  *)
(* killed.                                                                 *)
CallsReturn ==
  \A c \in Commands : (call[c] = "waiting") ~> (call[c] = "returned")
=============================================================================

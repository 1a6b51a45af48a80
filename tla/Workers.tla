------------------------------ MODULE Workers ------------------------------
(***************************************************************************)
(* Subagents of one parent session: run_subagent as a foreground call of   *)
(* the Subagent tool, as a background worker, or as a branch of a workflow *)
(* (the only one with an isolated directory); SubagentContinue; TaskStop;  *)
(* and the ends of the parent's runs.                                      *)
(*                                                                         *)
(* Everything runs on one event loop, so a step is what happens between    *)
(* two awaits.  A cancelled task takes no step but the one that raises     *)
(* CancelledError where it waits.  The tools are serial (scope "exec"), so *)
(* the parent has one call in progress at most.  Prompts, results, tool    *)
(* filters and the events of children are left out.                        *)
(***************************************************************************)
EXTENDS Naturals

CONSTANTS
  Workers,  \* calls of run_subagent, each with its child session
  Modes,    \* what each call may be: "foreground", "background", "branch"
  Hooked,   \* TRUE if hooks are registered: SUBAGENT_START and _STOP await
  Retain,   \* retain_subagents
  MaxRuns   \* runs of the parent session (a bound of the model)

ASSUME WorkersAssumption ==
  /\ "none" \notin Workers
  /\ Modes \in [Workers -> SUBSET {"foreground", "background", "branch"}]

VARIABLES
  parent,    \* the parent session: its run and that run's signal
  kind, stage,  \* what each run_subagent is called for, and where it stands
  result,    \* how it ends
  cancel,    \* tasks with a cancellation still to be raised
  mine,      \* calls made by the parent's current run
  signalled, \* calls whose args.signal is aborted
  watched,   \* calls whose merged signal has a watcher
  cwd,       \* the isolated directory of each call
  handle,    \* session.workers: the status of each handle
  live,      \* child sessions in agent._sessions
  active,    \* child sessions with an active run
  aborted,   \* child sessions whose current controller is aborted
  note,      \* pending_notifications, those delivered included
  cont,      \* the SubagentContinue call in progress
  stopped    \* background workers stopped while they ran (history)

callVars    == <<kind, mine, signalled>>
sessionVars == <<live, active, aborted>>
workerVars  == <<parent, callVars, stage, result, cancel, watched, cwd, handle,
                 sessionVars, note, cont, stopped>>

Outcomes == {"completed", "failed", "aborted"}  \* of RunSubagentResult
NoCall == [worker |-> "none", stage |-> "none", result |-> "none", doomed |-> FALSE]

WorkersInit ==
  /\ parent = [open |-> TRUE, signal |-> FALSE, runs |-> 1]
  /\ kind = [w \in Workers |-> "none"] /\ stage = kind /\ result = kind
  /\ cwd = kind /\ handle = kind /\ note = kind
  /\ cancel = {} /\ mine = {} /\ signalled = {} /\ watched = {}
  /\ live = {} /\ active = {} /\ aborted = {}
  /\ cont = NoCall
  /\ stopped = {}

InProgress == {w \in Workers : stage[w] \notin {"none", "done"}}
Background == {w \in InProgress : kind[w] = "background"}
Ready(w, p) == stage[w] = p /\ w \notin cancel
Idle ==
  /\ parent.open /\ cont = NoCall
  /\ \A w \in InProgress : kind[w] # "foreground"

-----------------------------------------------------------------------------
(* The parent's runs *)

(* _cancel_background_workers: every task that is not done.                *)
CancelWorkers == cancel' = cancel \cup Background

(* Session.abort cancels the workers at once; a host's opts.signal does    *)
(* not, the loop and the children see it when they look.                   *)
Signal(cancels) ==
  /\ parent.open /\ ~parent.signal
  /\ parent' = [parent EXCEPT !.signal = TRUE]
  /\ signalled' = signalled \cup mine
  /\ IF cancels THEN CancelWorkers ELSE UNCHANGED cancel
  /\ stopped' = IF cancels THEN stopped \cup Background ELSE stopped
  /\ UNCHANGED <<kind, mine, stage, result, watched, cwd, handle, sessionVars, note, cont>>

SessionAbort == Signal(TRUE)
HostAbort == Signal(FALSE)

(* A run that ends by an abort or an error cancels its workers; at any     *)
(* other terminal they go on.                                              *)
RunStops ==
  /\ Idle
  /\ parent' = [parent EXCEPT !.open = FALSE]
  /\ CancelWorkers
  /\ stopped' = stopped \cup Background
  /\ UNCHANGED <<callVars, stage, result, watched, cwd, handle, sessionVars, note, cont>>

RunFinishes ==
  /\ Idle /\ ~parent.signal
  /\ parent' = [parent EXCEPT !.open = FALSE]
  /\ UNCHANGED <<callVars, stage, result, cancel, watched, cwd, handle, sessionVars, note,
                 cont, stopped>>

RootRunsAgain ==
  /\ ~parent.open /\ parent.runs < MaxRuns
  /\ parent' = [open |-> TRUE, signal |-> FALSE, runs |-> parent.runs + 1]
  /\ mine' = {}
  /\ UNCHANGED <<kind, signalled, stage, result, cancel, watched, cwd, handle, sessionVars,
                 note, cont, stopped>>

-----------------------------------------------------------------------------
(* run_subagent *)

Spawn(w, k) ==
  /\ kind[w] = "none"
  /\ k # "branch" => Idle /\ ~parent.signal
  /\ kind' = [kind EXCEPT ![w] = k]
  /\ stage' = [stage EXCEPT ![w] = IF k = "background" THEN "ready" ELSE "create"]
  /\ mine' = IF k = "branch" THEN mine ELSE mine \cup {w}
  /\ handle' = IF k = "background" THEN [handle EXCEPT ![w] = "running"] ELSE handle
  /\ UNCHANGED <<parent, signalled, result, cancel, watched, cwd, sessionVars, note,
                 cont, stopped>>

(* The event loop starts the task of _bg_run.                              *)
TaskStarts(w) ==
  /\ Ready(w, "ready")
  /\ stage' = [stage EXCEPT ![w] = "create"]
  /\ UNCHANGED <<parent, callVars, result, cancel, watched, cwd, handle, sessionVars,
                 note, cont, stopped>>

(* Mutant: _bg_run does not raise the cancellation again.                  *)
ReportsAll(w, o) ==
  /\ note' = IF kind[w] = "background" THEN [note EXCEPT ![w] = o] ELSE note
  /\ UNCHANGED <<handle, live>>

(* What follows run_subagent in _bg_run and in SubagentTool.execute.  The  *)
(* session of a call that returns is forgotten unless it is retained; one  *)
(* that raises leaves its session, and _bg_run catches a cancellation only.*)
Reports(w, o) ==
  LET bg == kind[w] = "background"
      status == CASE o = "cancelled" -> "killed"
                  [] o = "failed" \/ (bg /\ o = "aborted") -> "failed"
                  [] OTHER -> "completed"
  IN  /\ handle' = IF \/ bg /\ o # "raised"
                      \/ kind[w] = "foreground" /\ Retain /\ o \in Outcomes
                   THEN [handle EXCEPT ![w] = status] ELSE handle
      /\ note' = IF bg /\ o \in Outcomes THEN [note EXCEPT ![w] = o] ELSE note
      /\ live' = IF o \in Outcomes /\ ~(bg \/ Retain) THEN live \ {w} ELSE live

Done(w, o) ==
  /\ stage' = [stage EXCEPT ![w] = "done"]
  /\ result' = [result EXCEPT ![w] = o]
  /\ Reports(w, o)

(* From p, with outcome o, on to the rest of the finally: the directory,   *)
(* the merged signal, the SUBAGENT_STOP hook.                              *)
Finally(w, p, o) ==
  \/ /\ p = "try" /\ cwd[w] = "held"
     /\ stage' = [stage EXCEPT ![w] = "release"]
     /\ result' = [result EXCEPT ![w] = o]
     /\ UNCHANGED <<watched, handle, note, live>>
  \/ /\ p = "try" => cwd[w] # "held"
     /\ watched' = watched \ {w}
     /\ IF Hooked
        THEN /\ stage' = [stage EXCEPT ![w] = "stop"]
             /\ result' = [result EXCEPT ![w] = o]
             /\ UNCHANGED <<handle, note, live>>
        ELSE Done(w, o)

Entered(w) == stage' = [stage EXCEPT ![w] = IF Hooked THEN "start" ELSE "drive"]

(* Mutant: run does not look whether another run is active.                *)
RunsUnchecked(w) == TRUE

(* Session.run raises ConfigError while a run is active.                   *)
Runs(w) == w \notin active

(* Session.run: the run has a controller of its own from the call on.      *)
Drives(w) ==
  /\ active' = active \cup {w}
  /\ aborted' = aborted \ {w}

(* store.create returns: the child is registered and its signal merged,    *)
(* unless args.signal is aborted already, and the try is entered.          *)
Registered(w) ==
  /\ Ready(w, "create")
  /\ live' = live \cup {w}
  /\ \/ /\ w \in signalled
        /\ stage' = [stage EXCEPT ![w] = "done"]
        /\ result' = [result EXCEPT ![w] = "raised"]
        /\ UNCHANGED <<watched, active, aborted>>
     \/ /\ w \notin signalled
        /\ watched' = watched \cup {w}
        /\ IF kind[w] = "branch" THEN stage' = [stage EXCEPT ![w] = "acquire"] ELSE Entered(w)
        /\ IF stage'[w] = "drive" THEN Drives(w) ELSE UNCHANGED <<active, aborted>>
        /\ UNCHANGED result
  /\ UNCHANGED <<parent, callVars, cancel, cwd, handle, note, cont, stopped>>

CreateFails(w) ==
  /\ Ready(w, "create")
  /\ Done(w, "raised")
  /\ UNCHANGED <<parent, callVars, cancel, watched, cwd, active, aborted, cont, stopped>>

Acquired(w) ==
  /\ Ready(w, "acquire")
  /\ cwd' = [cwd EXCEPT ![w] = "held"]
  /\ Entered(w)
  /\ IF Hooked THEN UNCHANGED <<active, aborted>> ELSE Drives(w)
  /\ UNCHANGED <<parent, callVars, result, cancel, watched, handle, live, note, cont,
                 stopped>>

AcquireFails(w) ==
  /\ Ready(w, "acquire")
  /\ Finally(w, "try", "raised")
  /\ UNCHANGED <<parent, callVars, cancel, cwd, active, aborted, cont, stopped>>

(* The start hooks ran: _drive_child, which makes a failure of             *)
(* Session.run the worker's result.                                        *)
StartHooksRan(w) ==
  /\ Ready(w, "start")
  /\ IF Runs(w)
     THEN /\ stage' = [stage EXCEPT ![w] = "drive"]
          /\ Drives(w)
          /\ UNCHANGED <<result, watched, handle, live, note>>
     ELSE /\ Finally(w, "try", "failed")
          /\ UNCHANGED <<active, aborted>>
  /\ UNCHANGED <<parent, callVars, cancel, cwd, cont, stopped>>

(* The child's run ends; it may see an abort of its own signals.           *)
ChildEnds(w) ==
  /\ Ready(w, "drive")
  /\ \E o \in Outcomes :
       /\ o = "aborted" => w \in signalled \cup aborted
       /\ Finally(w, "try", o)
  /\ active' = active \ {w}
  /\ UNCHANGED <<parent, callVars, cancel, cwd, aborted, cont, stopped>>

Released(w) ==
  /\ Ready(w, "release")
  /\ cwd' = [cwd EXCEPT ![w] = "released"]
  /\ Finally(w, "release", result[w])
  /\ UNCHANGED <<parent, callVars, cancel, active, aborted, cont, stopped>>

StopHooksRan(w) ==
  /\ Ready(w, "stop")
  /\ Done(w, result[w])
  /\ UNCHANGED <<parent, callVars, cancel, watched, cwd, active, aborted, cont, stopped>>

(* A host cancels its workflow, a tool's timeout the call.                 *)
CancelCall(w) ==
  /\ w \in InProgress /\ kind[w] # "background"
  /\ cancel' = cancel \cup {w}
  /\ UNCHANGED <<parent, callVars, stage, result, watched, cwd, handle, sessionVars, note,
                 cont, stopped>>

(* CancelledError is raised where the task waits: a task not started never *)
(* enters _bg_run, the thread of an acquire or a release goes on, and one  *)
(* raised in the finally leaves the rest of it undone.                     *)
Cancelled(w) ==
  /\ w \in cancel
  /\ cancel' = cancel \ {w}
  /\ active' = IF stage[w] = "drive" THEN active \ {w} ELSE active
  /\ cwd' = [cwd EXCEPT ![w] = CASE stage[w] = "acquire" -> "lost"
                                 [] stage[w] = "release" -> "released"
                                 [] OTHER -> @]
  /\ CASE stage[w] = "ready" ->
            /\ stage' = [stage EXCEPT ![w] = "done"]
            /\ result' = [result EXCEPT ![w] = "cancelled"]
            /\ UNCHANGED <<watched, handle, live, note>>
       [] stage[w] \in {"create", "release", "stop"} -> Done(w, "cancelled") /\ UNCHANGED watched
       [] OTHER -> Finally(w, "try", "cancelled")
  /\ UNCHANGED <<parent, callVars, aborted, cont, stopped>>

-----------------------------------------------------------------------------
(* SubagentContinue and TaskStop *)

(* Finding the child and no signal set; the controller merged is the one   *)
(* of the child's last run.                                                *)
Continue(w) ==
  /\ Idle /\ ~parent.signal
  /\ handle[w] # "none" /\ w \in live
  /\ cont' = [worker |-> w, result |-> "none", doomed |-> w \in aborted,
              stage |-> IF Hooked THEN "start" ELSE IF Runs(w) THEN "drive" ELSE "refused"]
  /\ IF cont'.stage = "drive" THEN Drives(w) ELSE UNCHANGED <<active, aborted>>
  /\ UNCHANGED <<parent, callVars, stage, result, cancel, watched, cwd, handle, live, note,
                 stopped>>

ContinueHooksRan ==
  /\ cont.stage = "start"
  /\ LET w == cont.worker
     IN  IF Runs(w) THEN cont' = [cont EXCEPT !.stage = "drive"] /\ Drives(w)
                    ELSE cont' = [cont EXCEPT !.stage = "refused"] /\ UNCHANGED <<active, aborted>>
  /\ UNCHANGED <<parent, callVars, stage, result, cancel, watched, cwd, handle, live, note,
                 stopped>>

(* handle.status after the call, whoever else drives the child.            *)
ContinueReturns(o) ==
  /\ cont.stage = "refused" => o = "failed"
  /\ cont.stage = "drive" /\ cont.doomed => o = "aborted"
  /\ o = "aborted" => cont.doomed \/ parent.signal
  /\ cont.stage \in {"drive", "refused"}
  /\ active' = IF cont.stage = "drive" THEN active \ {cont.worker} ELSE active
  /\ handle' = [handle EXCEPT ![cont.worker] = IF o = "failed" THEN "failed" ELSE "completed"]
  /\ cont' = NoCall
  /\ UNCHANGED <<parent, callVars, stage, result, cancel, watched, cwd, live, aborted, note,
                 stopped>>

(* A tool's timeout cancels the continuation.                              *)
ContinueCancelled ==
  /\ cont # NoCall
  /\ cont' = NoCall
  /\ active' = IF cont.stage = "drive" THEN active \ {cont.worker} ELSE active
  /\ UNCHANGED <<parent, callVars, stage, result, cancel, watched, cwd, handle, live,
                 aborted, note, stopped>>

(* TaskStop: cancel the task, abort the child, mark the handle.            *)
TaskStop(w) ==
  /\ Idle /\ handle[w] # "none"
  /\ cancel' = IF w \in Background THEN cancel \cup {w} ELSE cancel
  /\ aborted' = IF w \in live THEN aborted \cup {w} ELSE aborted
  /\ handle' = [handle EXCEPT ![w] = "killed"]
  /\ stopped' = IF w \in Background THEN stopped \cup {w} ELSE stopped
  /\ UNCHANGED <<parent, callVars, stage, result, watched, cwd, live, active, note, cont>>

WorkerStep(w) ==
  \/ TaskStarts(w) \/ Registered(w) \/ CreateFails(w) \/ Acquired(w) \/ AcquireFails(w)
  \/ StartHooksRan(w) \/ ChildEnds(w) \/ Released(w) \/ StopHooksRan(w) \/ Cancelled(w)

ContinueStep ==
  ContinueHooksRan \/ (\E o \in Outcomes : ContinueReturns(o))

WorkersNext ==
  \/ SessionAbort \/ HostAbort \/ RunStops \/ RunFinishes \/ RootRunsAgain
  \/ \E w \in Workers :
       \/ WorkerStep(w) \/ CancelCall(w) \/ Continue(w) \/ TaskStop(w)
       \/ \E k \in Modes[w] : Spawn(w, k)
  \/ ContinueStep \/ ContinueCancelled

WorkersSpec == WorkersInit /\ [][WorkersNext]_workerVars

-----------------------------------------------------------------------------
(* Properties *)

(* A worker whose task runs when it is stopped, by TaskStop, by            *)
(* Session.abort or by the end of an aborted or failed run, never reports  *)
(* into the session afterwards, at whatever await the cancellation finds   *)
(* it.                                                                     *)
StoppedStaysSilent == \A w \in stopped : note[w] = "none"

(* A child session is driven once at a time: a worker and a continuation   *)
(* of it never run its conversation together.                              *)
OneDriver ==
  \A w \in Workers : ~(stage[w] = "drive" /\ cont.worker = w /\ cont.stage = "drive")

(* Stopping a worker leaves it usable: a continuation does not start       *)
(* aborted while nobody aborts.                                            *)
ContinueReengages == cont.doomed => parent.signal

(* Whatever path run_subagent ends on, its directory was released and its  *)
(* merged signal closed.                                                   *)
CleanedUp ==
  \A w \in Workers : stage[w] = "done" => w \notin watched /\ cwd[w] \notin {"held", "lost"}

(* A background worker that was not cancelled notifies when it is over.    *)
NotifiedWhenOver ==
  \A w \in Workers :
    kind[w] = "background" /\ stage[w] = "done" /\ result[w] # "cancelled" => note[w] # "none"

=============================================================================

------------------------------- MODULE Spans -------------------------------
(***************************************************************************)
(* What observers are told of runs, from loop/runner.py (_SpanLifecycle),  *)
(* hooks/adapters.py (RunTelemetryHook), observability/otel.py and         *)
(* observability/reference.py.  Telling them is awaited: other hooks come  *)
(* first, a run may be cancelled before the observers have heard or after, *)
(* and what one of them raises is swallowed.                               *)
(***************************************************************************)
EXTENDS Naturals

CONSTANTS
  TracedRuns,  \* runs that share the observers
  SpanTurns,   \* max_turns
  ToolIds,     \* ids of tool calls, which providers choose
  SpanFaults,  \* cancellations and failures of the OpenTelemetry observer
  NoTurn

ASSUME SpansAssumption == SpanTurns \in Nat /\ SpanFaults \in Nat

VARIABLES
  tracer,     \* where each run is, its open turn and provider call
  otel,       \* open spans of OpenTelemetryObserver
  collector,  \* open starts and completed spans of SpanCollector
  upsets      \* cancellations and failures so far

spanVars == <<tracer, otel, collector, upsets>>

NoEvent == [kind |-> "none", turn |-> 0, tool |-> 0]
Event(k, r) == [kind |-> k, turn |-> tracer[r].turn, tool |-> tracer[r].tool]

SpansInit ==
  /\ tracer = [r \in TracedRuns |->
                 [at |-> "new", turn |-> 0, open |-> NoTurn, calling |-> FALSE, tool |-> 0,
                  event |-> NoEvent, heard |-> FALSE, next |-> "new"]]
  /\ otel = [runs |-> {}, turns |-> {}, calls |-> {}, tools |-> {}, over |-> {}]
  /\ collector = [open |-> {}, untimed |-> {}]
  /\ upsets = 0

-----------------------------------------------------------------------------
(* Telling: the event is dispatched, and the run goes on at next when all  *)
(* hooks have returned.                                                    *)
Tell(r, state, event, next) ==
  /\ tracer' = [tracer EXCEPT ![r] = [state EXCEPT !.event = event, !.heard = FALSE,
                                                   !.next = next]]
  /\ UNCHANGED <<otel, collector, upsets>>
Stands(r, where) == tracer[r].event = NoEvent /\ tracer[r].at = where
Proceeds(r, where) ==
  /\ tracer' = [tracer EXCEPT ![r].at = where]
  /\ UNCHANGED <<otel, collector, upsets>>

(* A turn or a provider call is the open one once its start was told, and  *)
(* is no longer when its end is about to be.                               *)
AfterTold(s) ==
  CASE s.event.kind = "turn start" -> [s EXCEPT !.open = s.turn]
    [] s.event.kind = "call start" -> [s EXCEPT !.calling = TRUE]
    [] OTHER -> s

RunBegins(r) == Stands(r, "new") /\ Tell(r, tracer[r], Event("run start", r), "prompt")

(* A prompt that is blocked ends the run before its try.                   *)
PromptPasses(r) == Stands(r, "prompt") /\ Proceeds(r, "top")
PromptDenied(r) == Stands(r, "prompt") /\ Tell(r, tracer[r], Event("run end", r), "over")

TurnBegins(r) ==
  /\ Stands(r, "top") /\ tracer[r].turn < SpanTurns
  /\ Tell(r, tracer[r], Event("turn start", r), "turn")

CallBegins(r) == Stands(r, "turn") /\ Tell(r, tracer[r], Event("call start", r), "call")

(* It is over, or is made again after a compaction or for another model.   *)
CallEnds(r) ==
  /\ Stands(r, "call")
  /\ \E next \in {"turn", "reply"} :
       Tell(r, [tracer[r] EXCEPT !.calling = FALSE], Event("call end", r), next)

ToolBegins(r) ==
  /\ Stands(r, "reply")
  /\ \E id \in ToolIds :
       Tell(r, [tracer[r] EXCEPT !.tool = id], [Event("tool start", r) EXCEPT !.tool = id], "tool")
ToolEnds(r) == Stands(r, "tool") /\ Tell(r, tracer[r], Event("tool end", r), "reply")

TurnCloses(r) ==
  /\ Stands(r, "reply") \/ Stands(r, "turn")
  /\ Tell(r, [tracer[r] EXCEPT !.open = NoTurn, !.turn = @ + 1], Event("turn end", r), "top")

(* The run returns, is aborted, raises, or its iterator is closed.         *)
InTry == {"top", "turn", "call", "reply", "tool"}
RunReturns(r) == Stands(r, "top") /\ Proceeds(r, "finally")
RunRaises(r) ==
  /\ \E place \in InTry : Stands(r, place)
  /\ \E handler \in {"except", "finally"} : Proceeds(r, handler)

(* close_active_observer_spans, in the handlers and in the finally, and    *)
(* the end of the run.                                                     *)
Closes(r) ==
  LET s == tracer[r] IN
  /\ Stands(r, "except") \/ Stands(r, "finally")
  /\ \/ s.calling /\ Tell(r, [s EXCEPT !.calling = FALSE], Event("call end", r), s.at)
     \/ /\ ~s.calling /\ s.open # NoTurn
        /\ Tell(r, [s EXCEPT !.open = NoTurn], Event("turn end", r), s.at)
     \/ /\ ~s.calling /\ s.open = NoTurn
        /\ IF s.at = "except" THEN Proceeds(r, "finally")
           ELSE Tell(r, s, Event("run end", r), "over")

-----------------------------------------------------------------------------
(* OpenTelemetryObserver: a tool's span is kept by its id alone.  The end  *)
(* of a run ends its turns' and provider calls' spans that are left.       *)
Span(r, e) == <<r, e.turn>>
OfRun(spans, r) == {x \in spans : x[1] = r}
(* Mutant: the end of a run ends its own span only.                        *)
RunSpanOnly(o, r) == [o EXCEPT !.runs = @ \ {r}, !.over = @ \cup {r}]
RunEnded(o, r) ==
  [o EXCEPT !.runs = @ \ {r}, !.over = @ \cup {r},
            !.turns = @ \ OfRun(@, r), !.calls = @ \ OfRun(@, r)]
Traced(o, r, e) ==
  CASE e.kind = "run start" -> [o EXCEPT !.runs = @ \cup {r}]
    [] e.kind = "run end" -> IF r \in o.runs THEN RunEnded(o, r) ELSE o
    [] e.kind = "turn start" -> [o EXCEPT !.turns = @ \cup {Span(r, e)}]
    [] e.kind = "turn end" -> [o EXCEPT !.turns = @ \ {Span(r, e)}]
    [] e.kind = "call start" -> [o EXCEPT !.calls = @ \cup {Span(r, e)}]
    [] e.kind = "call end" -> [o EXCEPT !.calls = @ \ {Span(r, e)}]
    [] e.kind = "tool start" ->
         [o EXCEPT !.tools = {x \in @ : x[2] # e.tool} \cup {<<r, e.tool>>}]
    [] OTHER -> [o EXCEPT !.tools = {x \in @ : x[2] # e.tool}]

(* SpanCollector: an end completes a span whether it had a start or not;   *)
(* without one it has lasted no time.  A run's and a call's span have      *)
(* their time from the event.                                              *)
Collected(c, r, e) ==
  CASE e.kind = "turn start" -> [c EXCEPT !.open = @ \cup {Span(r, e)}]
    [] e.kind = "turn end" ->
         [c EXCEPT !.open = @ \ {Span(r, e)},
                   !.untimed = IF Span(r, e) \in c.open THEN @ ELSE @ \cup {Span(r, e)}]
    [] OTHER -> c

Observed(r) ==
  /\ tracer[r].event # NoEvent /\ ~tracer[r].heard
  /\ tracer' = [tracer EXCEPT ![r].heard = TRUE]
  /\ collector' = Collected(collector, r, tracer[r].event)
  /\ \/ otel' = Traced(otel, r, tracer[r].event) /\ UNCHANGED upsets
     \/ UNCHANGED otel /\ upsets < SpanFaults /\ upsets' = upsets + 1

(* All hooks have returned.                                                *)
Told(r) ==
  /\ tracer[r].heard
  /\ tracer' = [tracer EXCEPT ![r] = [AfterTold(tracer[r]) EXCEPT
                  !.event = NoEvent, !.heard = FALSE, !.at = tracer[r].next]]
  /\ UNCHANGED <<otel, collector, upsets>>

(* The task is cancelled while hooks are awaited.  Before the try, and in  *)
(* the finally, nothing more is told.                                      *)
Interrupted(place) == IF place \in InTry \cup {"except"} THEN "finally" ELSE "over"
Cancelled(r) ==
  /\ tracer[r].event # NoEvent /\ upsets < SpanFaults
  /\ upsets' = upsets + 1
  /\ tracer' = [tracer EXCEPT ![r] = [tracer[r] EXCEPT
                  !.event = NoEvent, !.heard = FALSE, !.at = Interrupted(tracer[r].at)]]
  /\ UNCHANGED <<otel, collector>>

(* The iterator is dropped before the try of the loop.                     *)
LeftEarly(r) == Stands(r, "prompt") /\ Proceeds(r, "over")

SpansNext ==
  \E r \in TracedRuns :
    \/ RunBegins(r) \/ PromptPasses(r) \/ PromptDenied(r) \/ LeftEarly(r)
    \/ TurnBegins(r) \/ CallBegins(r) \/ CallEnds(r) \/ ToolBegins(r) \/ ToolEnds(r)
    \/ TurnCloses(r) \/ RunReturns(r) \/ RunRaises(r) \/ Closes(r)
    \/ Observed(r) \/ Told(r) \/ Cancelled(r)

SpansSpec == SpansInit /\ [][SpansNext]_spanVars

-----------------------------------------------------------------------------
(* A run whose end was traced has no turn and no provider call open, at    *)
(* whatever await it was cancelled, also when an end was never told        *)
(* ("Defensively close any still-open child spans", otel.py:118).          *)
ClosedWithTheRun ==
  \A x \in otel.turns \cup otel.calls : x[1] \notin otel.over

(* A turn whose end is told has been told to begin, so that its span has   *)
(* its time: the turn is open only once its start was told                 *)
(* (runner.py:266).                                                        *)
TurnSpansAreTimed == collector.untimed = {}

(* The same for the spans of tools.                                        *)
ToolSpansClosed == \A x \in otel.tools : x[1] \notin otel.over

(* A run that was told to begin is told to end, unless it was cancelled    *)
(* (runner.py:476).                                                        *)
EveryRunEnds == upsets = 0 => \A r \in otel.runs : ~Stands(r, "over")
=============================================================================

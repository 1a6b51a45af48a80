----------------------------- MODULE Schedules -----------------------------
(***************************************************************************)
(* Time triggers: the tools that create and cancel schedules, and the loop *)
(* that fires the due ones once per tick (src/linch/coordination/          *)
(* scheduling).  The store is SqliteScheduleStore; the tick lists it,      *)
(* fires, and writes every fired record back whole.  Each access to the    *)
(* store is one action, so creations, cancellations, the end of the loop   *)
(* and crashes fall between any two of them.                               *)
(***************************************************************************)
EXTENDS Integers

CONSTANTS
  Ids,        \* ids of schedules, fresh for every creation
  Period,     \* [Ids -> length of the interval, or of the cron expression's slot]
  Cron,       \* the schedules that have a cron expression
  None,       \* an absent record, no next run
  MaxClock,   \* bound: last reading of the clock
  MaxFaults   \* bound: ticks cut short, crashes

ASSUME ConstantsAssumption ==
  /\ Period \in [Ids -> Nat \ {0}]
  /\ Cron \subseteq Ids
  /\ None \notin Nat /\ None \notin Ids
  /\ None \notin [next : Nat \cup {None}, enabled : BOOLEAN]
  /\ MaxClock \in Nat /\ MaxFaults \in Nat

VARIABLES
  clock,      \* what time.time() returns
  store,      \* durable: id -> record or None
  pc,         \* where the tick is
  tickNow,    \* the tick's reading of the clock
  todo,       \* the tick's due records, as it listed them
  cur,        \* the schedule that fired and is not yet written back
  late,       \* writes of ended ticks that their threads have not done yet
  pending,    \* schedules with a notification in the session
  cancelled,  \* history: schedules whose cancellation was confirmed
  lastAt,     \* history: the tick of the last firing, or the creation
  untimely,   \* history: firings before the time that follows from lastAt
  faults      \* ticks cut short and crashes

loopVars == <<pc, tickNow, todo, cur>>
history  == <<cancelled, lastAt, untimely, faults>>
vars     == <<clock, store, loopVars, late, pending, history>>

Records == [next : Nat \cup {None}, enabled : BOOLEAN]
Nothing == [s \in Ids |-> None]

(* Mutant: the search for the next slot starts at t itself. *)
NextRunInclusive(s, t) ==
  IF s \in Cron THEN ((t + Period[s] - 1) \div Period[s]) * Period[s]
                ELSE t + Period[s]

(* Schedule.compute_next_run: strictly after t. *)
NextRun(s, t) ==
  IF s \in Cron THEN (t \div Period[s] + 1) * Period[s] ELSE t + Period[s]

IsDue(r, t) == r # None /\ r.enabled /\ r.next # None /\ r.next <= t

Init ==
  /\ clock = 0
  /\ store = Nothing
  /\ pc = "idle" /\ tickNow = 0 /\ todo = Nothing /\ cur = None
  /\ late = {}
  /\ pending = {}
  /\ cancelled = {} /\ lastAt = Nothing /\ untimely = 0 /\ faults = 0

---------------------------------------------------------------------------
(* The clock may also be set back. *)
Clock ==
  /\ \/ clock < MaxClock /\ clock' = clock + 1
     \/ clock' \in 0..(clock - 1)
  /\ UNCHANGED <<store, loopVars, late, pending, history>>

(* Mutant: ids derived from the payload, so that they come again. *)
PutKnownId(s, r) ==
  /\ store[s] = None
  /\ store' = [store EXCEPT ![s] = r]
  /\ lastAt' = [lastAt EXCEPT ![s] = clock]
  /\ UNCHANGED <<clock, loopVars, late, pending, cancelled, untimely, faults>>

Put(s, r) ==
  /\ lastAt[s] = None
  /\ store' = [store EXCEPT ![s] = r]
  /\ lastAt' = [lastAt EXCEPT ![s] = clock]
  /\ UNCHANGED <<clock, loopVars, late, pending, cancelled, untimely, faults>>

(* The CreateSchedule tool. *)
Create(s) == Put(s, [next |-> NextRun(s, clock), enabled |-> TRUE])

(* The embedder may add records that are disabled or have no next run. *)
Add(s) == Put(s, [next |-> None, enabled |-> TRUE])
          \/ Put(s, [next |-> NextRun(s, clock), enabled |-> FALSE])

(* The CancelSchedule tool: what it removes, it confirms. *)
Cancel(s) ==
  /\ store[s] # None
  /\ store' = [store EXCEPT ![s] = None]
  /\ cancelled' = cancelled \cup {s}
  /\ UNCHANGED <<clock, loopVars, late, pending, lastAt, untimely, faults>>

---------------------------------------------------------------------------
(* SchedulerLoop.tick. *)
StartTick ==
  /\ pc = "idle"
  /\ pc' = "list" /\ tickNow' = clock
  /\ UNCHANGED <<clock, store, todo, cur, late, pending, history>>

List ==
  /\ pc = "list"
  /\ todo' = [s \in Ids |-> IF IsDue(store[s], tickNow) THEN store[s] ELSE None]
  /\ pc' = "each"
  /\ UNCHANGED <<clock, store, tickNow, cur, late, pending, history>>

Fire(s) ==
  /\ pc = "each" /\ todo[s] # None
  /\ pending' = pending \cup {s}
  /\ pc' = "fired" /\ cur' = s
  /\ lastAt' = [lastAt EXCEPT ![s] = tickNow]
  /\ untimely' = untimely + (IF tickNow < NextRun(s, lastAt[s]) THEN 1 ELSE 0)
  /\ UNCHANGED <<clock, store, tickNow, todo, late, cancelled, faults>>

(* Mutant: the next run follows the time it was due, not the time it ran. *)
RescheduledFromDue(s) == [todo[s] EXCEPT !.next = NextRun(s, todo[s].next)]

Rescheduled(s) == [todo[s] EXCEPT !.next = NextRun(s, tickNow)]

(* The store upserts: a record that was removed meanwhile comes back. *)
Update ==
  /\ pc = "fired"
  /\ store' = [store EXCEPT ![cur] = Rescheduled(cur)]
  /\ todo' = [todo EXCEPT ![cur] = None]
  /\ pc' = "each" /\ cur' = None
  /\ UNCHANGED <<clock, tickNow, late, pending, history>>

EndTick ==
  /\ pc = "each" /\ todo = Nothing
  /\ pc' = "idle"
  /\ UNCHANGED <<clock, store, tickNow, todo, cur, late, pending, history>>

---------------------------------------------------------------------------
EndLoop ==
  /\ pc' = "idle" /\ todo' = Nothing /\ cur' = None
  /\ faults < MaxFaults /\ faults' = faults + 1
  /\ UNCHANGED <<clock, store, tickNow, cancelled, lastAt, untimely>>

(* The store or the sink raises, or stop() cancels the task: the tick ends *)
(* where it is and the loop ticks again.  A write of a cancelled task that *)
(* its thread had begun is still done, some time later.                    *)
TickFails ==
  /\ pc # "idle"
  /\ \/ late' = late
     \/ pc = "fired" /\ late' = late \cup {[id |-> cur, rec |-> Rescheduled(cur)]}
  /\ EndLoop
  /\ UNCHANGED pending

LateWrite ==
  \E w \in late :
    /\ store' = [store EXCEPT ![w.id] = w.rec]
    /\ late' = late \ {w}
    /\ UNCHANGED <<clock, loopVars, pending, history>>

(* The process dies with its threads and the session's notifications. *)
Crash ==
  /\ late' = {} /\ pending' = {}
  /\ EndLoop

(* The next turn of the session takes the notifications. *)
Drain ==
  /\ pending # {} /\ pending' = {}
  /\ UNCHANGED <<clock, store, loopVars, late, history>>

Tick == StartTick \/ List \/ (\E s \in Ids : Fire(s)) \/ Update \/ EndTick

Next ==
  \/ Clock
  \/ \E s \in Ids : Create(s) \/ Add(s) \/ Cancel(s)
  \/ Tick
  \/ TickFails \/ LateWrite \/ Crash
  \/ Drain

Spec == Init /\ [][Next]_vars

(* The event loop runs the tick's coroutine; nothing else has to happen. *)
FairSpec == Spec /\ WF_vars(Tick)

---------------------------------------------------------------------------
(* Types.  A tick holds a fired record exactly while it owes its write, and *)
(* lists, fires and writes only schedules that were created.                *)
TypeOK ==
  /\ clock \in Nat /\ tickNow \in Nat
  /\ store \in [Ids -> Records \cup {None}]
  /\ pc \in {"idle", "list", "each", "fired"}
  /\ todo \in [Ids -> [next : Nat, enabled : {TRUE}] \cup {None}]
  /\ cur \in Ids \cup {None}
  /\ late \subseteq [id : Ids, rec : [next : Nat, enabled : {TRUE}]]
  /\ pending \subseteq Ids /\ cancelled \subseteq Ids
  /\ lastAt \in [Ids -> Nat \cup {None}]
  /\ untimely \in Nat /\ faults \in Nat
  /\ IF pc = "fired" THEN cur # None /\ todo[cur] # None ELSE cur = None
  /\ pc \in {"idle", "list"} => todo = Nothing
  /\ \A s \in Ids :
       store[s] # None \/ todo[s] # None \/ s \in cancelled => lastAt[s] # None
  /\ \A w \in late : lastAt[w.id] # None

(* A schedule fires one interval, or one cron slot, after its creation or   *)
(* its last firing: every firing that comes too early is paid for by a tick *)
(* cut short, which costs at most two (the firing it did not record, and    *)
(* its own late write undoing a newer one).                                 *)
FiringsAreSpaced == untimely <= 2 * faults

Gone(s) ==
  /\ s \in cancelled /\ store[s] = None
  /\ todo[s] = None /\ \A w \in late : w.id # s

(* A cancelled schedule that no tick had listed before the cancellation, and *)
(* no late write carries, never comes back.                                  *)
GoneStaysGone == [][\A s \in Ids : Gone(s) => Gone(s)']_vars

(* A due schedule is not left due for ever: ticks that fail, schedules that *)
(* come first and late writes only delay it.                                *)
DueIsServed == \A s \in Ids : IsDue(store[s], clock) ~> ~IsDue(store[s], clock)

(* A schedule whose cancellation was confirmed is no longer in the store. *)
CancelledIsRemoved == \A s \in cancelled : store[s] = None

=============================================================================

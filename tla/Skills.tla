------------------------------- MODULE Skills -------------------------------
(***************************************************************************)
(* Skills, from skills/, tools/skill.py, agent.py (connect_skills) and     *)
(* loop/runner.py: what is loaded from disk, and the overlay a skill       *)
(* leaves for the next turn -- tools that run unasked, another model -- in *)
(* a session whose runs end, are left, crash and are resumed.              *)
(***************************************************************************)
EXTENDS Naturals, FiniteSets, SequencesExt

CONSTANTS
  SkillDirs,    \* the entries of the skills directory, in its order
  BuiltIns,     \* the skills the library brings
  Lower,        \* names to lower case
  ToolNames,    \* tools of the agent
  LastRun,      \* bound on the runs of the session
  LastTurn,     \* bound on the turns of a run
  TurnCalls,    \* bound on the calls of a turn, as it is begun or resumed
  NoOverlay

ASSUME SkillsAssumption ==
  LastRun \in Nat /\ LastTurn \in Nat /\ TurnCalls \in Nat \ {0}

VARIABLES
  skills,       \* agent.skills and whether they are connected
  begun,        \* runs begun in the session
  stage,        \* where its active run is; "idle" when there is none
  run,          \* the active run, or the last one
  skillTurn,    \* the turn of that run
  calls,        \* calls of this turn
  running,      \* the skill whose call has started
  overlay,      \* session.pending_skill_overlay
  turnGrant,    \* session.current_turn_allowed_tools
  turnModel,    \* model_override of this turn's request
  saved,        \* the checkpoints of the runs, "none" of one that ended
  invoked,      \* session.invoked_skills, and the stored copy
  due           \* run -> turn -> what was granted for it by the turn before, or
                \* was pending when the run began: read by the properties only

progress  == <<stage, begun, run, skillTurn>>
skillVars == <<skills, progress, calls, running, overlay, turnGrant, turnModel,
               saved, invoked, due>>

RunNos == 1 .. LastRun
Turns  == 0 .. LastTurn
Names(ss) == {s.name : s \in ToSet(ss)}

-----------------------------------------------------------------------------
(* Frontmatter that parses: described, of the right types, arguments that  *)
(* are distinct and not the reserved one; the name is that of the          *)
(* directory unless it is given.                                           *)
WellFormed(d) ==
  /\ d.described /\ d.typed
  /\ IsInjective(d.arguments) /\ "ARGUMENTS" \notin ToSet(d.arguments)
SkillOf(e) ==
  [name |-> IF e.doc.name = "" THEN e.dir ELSE e.doc.name,
   tools |-> e.doc.tools, model |-> e.doc.model, hidden |-> e.doc.hidden]

(* The first of a name wins; links, plain files, unreadable and malformed  *)
(* ones and those named as a tool are passed over.                         *)
Loadable(e) ==
  ~e.link /\ e.readable /\ WellFormed(e.doc) /\ SkillOf(e).name \notin ToolNames
FromDisk ==
  LET Take(acc, e) ==
        IF Loadable(e) /\ SkillOf(e).name \notin Names(acc) THEN Append(acc, SkillOf(e)) ELSE acc
  IN FoldLeft(Take, <<>>, SkillDirs)
Merged ==
  ToSet(FromDisk) \cup
  {b \in BuiltIns : Lower[b.name] \notin {Lower[n] : n \in Names(FromDisk)}}

(* Skills without an overlay are allowed by a rule; the others ask.        *)
PreApproved(s) == s.tools = {} /\ s.model = ""

NotSaved == [phase |-> "none", turn |-> 0, overlay |-> NoOverlay, grant |-> {}]

SkillsInit ==
  /\ skills = [loaded |-> {}, connected |-> FALSE]
  /\ stage = "idle" /\ begun = 0 /\ run = 0 /\ skillTurn = 0
  /\ calls = 0 /\ running = NoOverlay
  /\ overlay = NoOverlay /\ turnGrant = {} /\ turnModel = ""
  /\ saved = [r \in RunNos |-> NotSaved]
  /\ invoked = [live |-> {}, stored |-> {}]
  /\ due = [r \in RunNos |-> [t \in 0 .. LastTurn + 1 |-> {}]]

(* A tool that is called Skill already makes the registration raise; the   *)
(* next session tries again.                                               *)
ConnectSkills ==
  /\ ~skills.connected
  /\ skills' = [loaded |-> Merged, connected |-> Merged = {} \/ "Skill" \notin ToolNames]
  /\ UNCHANGED <<progress, calls, running, overlay, turnGrant, turnModel,
                 saved, invoked, due>>

-----------------------------------------------------------------------------
Checkpointed(phase) ==
  saved' = [saved EXCEPT ![run'] =
    [phase |-> phase, turn |-> skillTurn', overlay |-> overlay', grant |-> turnGrant']]

(* Mutant: a turn without an overlay keeps the grant of the one before.    *)
GrantKept(o) == IF o = NoOverlay THEN turnGrant ELSE o.tools
(* The top of a turn takes the overlay; without one the turn has no grant. *)
GrantOf(o) == IF o = NoOverlay THEN {} ELSE o.tools

Pending == IF overlay = NoOverlay THEN {} ELSE overlay.tools

(* What is pending in the session is saved with the run that begins.       *)
NewRun ==
  /\ skills.connected /\ stage = "idle" /\ begun < LastRun
  /\ stage' = "top" /\ begun' = begun + 1 /\ run' = begun + 1 /\ skillTurn' = 0
  /\ due' = [due EXCEPT ![begun + 1][0] = Pending]
  /\ UNCHANGED <<skills, calls, running, overlay, turnGrant, turnModel, invoked>>
  /\ Checkpointed("user_appended")

TurnTop ==
  /\ stage = "top"
  /\ overlay' = NoOverlay
  /\ turnModel' = IF overlay = NoOverlay THEN "" ELSE overlay.model
  /\ turnGrant' = GrantOf(overlay)
  /\ stage' = "asked" /\ calls' = 0
  /\ UNCHANGED <<skills, begun, run, skillTurn, running, invoked, due>>
  /\ Checkpointed("provider_pending")

(* The context was too long: after a compaction the request is built anew, *)
(* for the model of the session.                                           *)
AskedAgain ==
  /\ stage = "asked"
  /\ turnModel' = ""
  /\ UNCHANGED <<skills, progress, calls, running, overlay, turnGrant, invoked, due>>
  /\ Checkpointed("provider_pending")

Replied ==
  /\ stage = "asked"
  /\ stage' = "batch"
  /\ UNCHANGED <<skills, begun, run, skillTurn, calls, running, overlay, turnGrant, turnModel,
                 invoked, due>>
  /\ Checkpointed("assistant_appended")

(* A call starts, by a rule or the grant of the turn, or because the host  *)
(* allowed it.                                                             *)
SkillCalled(s) ==
  /\ stage = "batch" /\ running = NoOverlay /\ calls < TurnCalls
  /\ calls' = calls + 1
  /\ running' = s
  /\ UNCHANGED <<skills, progress, overlay, turnGrant, turnModel, invoked, due>>
  /\ Checkpointed("tool_executing")

(* SkillTool.execute: the skill is recorded, in the session and in its     *)
(* store as far as that works, and its overlay awaits the next turn.       *)
SkillRuns ==
  /\ stage = "batch" /\ running # NoOverlay
  /\ LET s == running
         live == invoked.live \cup {s.name}
         o == [tools |-> s.tools, model |-> s.model]
     IN IF s.hidden THEN UNCHANGED <<invoked, overlay, due>>
        ELSE /\ \E stored \in {live, invoked.stored} : invoked' = [live |-> live, stored |-> stored]
             /\ overlay' = IF PreApproved(s) THEN overlay ELSE o
             /\ due' = IF PreApproved(s) THEN due ELSE [due EXCEPT ![run][skillTurn + 1] = s.tools]
  /\ running' = NoOverlay
  /\ UNCHANGED <<skills, progress, calls, turnGrant, turnModel>>
  /\ Checkpointed("tool_executing")

(* Another tool of the agent is called and not asked about.                *)
GrantedCall(t) ==
  /\ stage = "batch" /\ running = NoOverlay /\ calls < TurnCalls
  /\ t \in turnGrant
  /\ calls' = calls + 1
  /\ UNCHANGED <<skills, progress, running, overlay, turnGrant, turnModel, invoked, due>>
  /\ Checkpointed("tool_executing")

BatchEnds ==
  /\ stage = "batch" /\ running = NoOverlay /\ skillTurn < LastTurn
  /\ stage' = "top" /\ skillTurn' = skillTurn + 1
  /\ UNCHANGED <<skills, begun, run, calls, running, overlay, turnGrant, turnModel, invoked, due>>
  /\ saved' = [saved EXCEPT ![run] =
       [phase |-> "turn_complete", turn |-> skillTurn, overlay |-> overlay, grant |-> turnGrant]]

(* The run ends anywhere, also by an abort, and is resumed no more; or its *)
(* iterator is dropped, and it may be.  The session lives on, and keeps    *)
(* its overlay.                                                            *)
RunLeft ==
  /\ stage # "idle" /\ stage' = "idle"
  /\ calls' = 0 /\ running' = NoOverlay /\ turnModel' = ""
  /\ UNCHANGED <<skills, begun, run, skillTurn, overlay, turnGrant, invoked, due>>
RunEnds    == RunLeft /\ saved' = [saved EXCEPT ![run] = NotSaved]
RunDropped == RunLeft /\ UNCHANGED saved

(* The process dies: the session that is opened after it is a fresh one.   *)
ProcessDies ==
  /\ stage' = "idle"
  /\ calls' = 0 /\ running' = NoOverlay /\ turnModel' = ""
  /\ overlay' = NoOverlay /\ turnGrant' = {}
  /\ invoked' = [invoked EXCEPT !.live = {}]
  /\ UNCHANGED <<skills, begun, run, skillTurn, saved, due>>

(* resume, in the session that ran the run or in a fresh one: the overlay  *)
(* and the grant come from the checkpoint.  The top of the resumed turn    *)
(* takes the overlay all the same, whichever turn it was meant for, and    *)
(* gives a turn with a reply its saved grant back.                         *)
RunResumes(r) ==
  /\ stage = "idle" /\ saved[r].phase # "none"
  /\ LET over == saved[r].phase = "turn_complete"
         replied == saved[r].phase \in {"assistant_appended", "tool_executing"}
     IN /\ run' = r
        /\ skillTurn' = saved[r].turn + (IF over THEN 1 ELSE 0)
        /\ stage' = IF replied THEN "batch" ELSE "top"
        /\ overlay' = IF replied THEN NoOverlay ELSE saved[r].overlay
        /\ turnGrant' = saved[r].grant
  /\ UNCHANGED <<skills, begun, calls, running, turnModel, saved, invoked, due>>

SkillsNext ==
  \/ ConnectSkills \/ NewRun \/ TurnTop \/ AskedAgain \/ Replied
  \/ \E s \in skills.loaded : SkillCalled(s)
  \/ SkillRuns
  \/ \E t \in ToolNames : GrantedCall(t)
  \/ BatchEnds \/ RunEnds \/ RunDropped \/ ProcessDies
  \/ \E r \in RunNos : RunResumes(r)

SkillsSpec == SkillsInit /\ [][SkillsNext]_skillVars

-----------------------------------------------------------------------------
(* What a skill allows runs unasked in the turn after the one it was       *)
(* invoked in, or in the first turn of a run that begins while the grant   *)
(* is pending in the session, and in no other turn of any run: through     *)
(* aborts, dropped iterators, new runs, crashes and resumes (runner.py:795,*)
(* checkpoint.py:120).                                                     *)
GrantForNextTurn == stage = "batch" => turnGrant \subseteq due[run][skillTurn]

(* A grant is not in two places.  It is: when an iterator is dropped, the  *)
(* next run takes what is pending in the session, and the one that was     *)
(* dropped takes it again from its checkpoint when it is resumed.          *)
TakenOnce ==
  [][stage = "top" /\ stage' = "asked" /\ overlay # NoOverlay =>
       \A r \in RunNos \ {run} : saved[r].phase \in {"user_appended", "turn_complete"} =>
         saved[r].overlay = NoOverlay]_skillVars

(* A grant whose call is in the checkpoint reaches the turn after: a run   *)
(* resumed within the batch takes it a turn too early (runner.py:795).     *)
GrantIsNotLost ==
  [][\A r \in RunNos : RunResumes(r) /\ saved[r].phase = "tool_executing" =>
       overlay' = saved[r].overlay]_skillVars

(* A skill that names a model has it for the whole of its turn, also when  *)
(* the request is made again (streaming.py:187).                           *)
ModelForTheTurn == [][stage = "asked" /\ stage' = "asked" => turnModel' = turnModel]_skillVars

(* The skills a session has invoked, which it must show again after a      *)
(* compaction, are not fewer after a restart (tools/skill.py:85).          *)
InvokedAreKept == [][invoked.stored \subseteq invoked'.stored]_skillVars
=============================================================================

------------------------------ MODULE AgentLife ------------------------------
(***************************************************************************)
(* An agent from the first session to its close: several tasks open        *)
(* sessions at once, of which the first connects the configured MCP        *)
(* servers, add servers while runs go on, and close the agent.  Everything *)
(* that does not await is one step.  Skills and subagents load without     *)
(* suspending, so only the MCP connection can be found half done.          *)
(***************************************************************************)
EXTENDS Naturals, Sequences, FiniteSets, SequencesExt

CONSTANTS
  Openers,       \* tasks that call the agent
  Configured,    \* Agent.mcp_servers: a sequence of servers
  Added,         \* the servers given to add_mcp_servers
  ToolsOf,       \* server -> names of its tools, in order
  Destructive,   \* the tools with a destructiveHint
  MaxOpens       \* bound: calls of one task

ASSUME AgentAssumption ==
  ToSet(Configured) \cup ToSet(Added) \subseteq DOMAIN ToolsOf /\ Configured # <<>>

VARIABLES
  opener,     \* what each task does: [at, todo, calls]
  connect,    \* _mcp_connect: no coroutine, one in flight, one used up
  held,       \* owners of _mcp_connection and _extra_mcp_connections
  live,       \* <<task, call, server>>: transports that are open
  registry,   \* tools registered
  asks        \* tools with an "ask" rule

agentVars == <<opener, connect, held, live, registry, asks>>

AgentInit ==
  /\ opener = [c \in Openers |-> [at |-> "idle", todo |-> <<>>, calls |-> 0]]
  /\ connect = "none" /\ held = {} /\ live = {}
  /\ registry = {} /\ asks = {}

Doing(c, what) == opener[c].at = what
Connecting(c) == opener[c].at \in {"connect", "add"}
Move(c, what, servers) == opener' = [opener EXCEPT ![c].at = what, ![c].todo = servers]
Begins(c, what, servers) ==
  opener' = [opener EXCEPT ![c] = [at |-> what, todo |-> servers, calls |-> @.calls + 1]]
MayCall(c) == opener[c].at \in {"idle", "raised"} /\ opener[c].calls < MaxOpens
Connected == "agent" \in {h[1] : h \in held}

(* session(): the connection is there; or nobody has made the coroutine of *)
(* connect_mcp yet; or there is one, which is awaited again - and a        *)
(* coroutine in flight or used up can only raise.                          *)
OpenSession(c) ==
  /\ MayCall(c)
  /\ \/ Connected /\ Begins(c, "store", <<>>) /\ UNCHANGED connect
     \/ ~Connected /\ connect = "none" /\ Begins(c, "connect", Configured) /\ connect' = "running"
     \/ ~Connected /\ connect # "none" /\ Begins(c, "raised", <<>>) /\ UNCHANGED connect
  /\ UNCHANGED <<held, live, registry, asks>>

AddServers(c) ==
  /\ MayCall(c) /\ Begins(c, "add", Added)
  /\ UNCHANGED <<connect, held, live, registry, asks>>

(* connect_mcp_servers: one server after the other.                        *)
ServerConnected(c) ==
  /\ Connecting(c) /\ opener[c].todo # <<>>
  /\ live' = live \cup {<<c, opener[c].calls, Head(opener[c].todo)>>}
  /\ Move(c, opener[c].at, Tail(opener[c].todo))
  /\ UNCHANGED <<connect, held, registry, asks>>

(* A server fails: the ones before it are closed and the next caller may   *)
(* try again.  A cancelled task closes nothing and leaves its coroutine.   *)
ConnectFails(c) ==
  /\ Connecting(c) /\ opener[c].todo # <<>>
  /\ live' = {l \in live : <<l[1], l[2]>> # <<c, opener[c].calls>>}
  /\ connect' = IF Doing(c, "connect") THEN "none" ELSE connect
  /\ Move(c, "raised", <<>>)
  /\ UNCHANGED <<held, registry, asks>>
ConnectCancelled(c) ==
  /\ Connecting(c) /\ opener[c].todo # <<>>
  /\ connect' = IF Doing(c, "connect") THEN "used" ELSE connect
  /\ Move(c, "raised", <<>>)
  /\ UNCHANGED <<held, live, registry, asks>>

(* _attach_mcp_tools: every tool, then the rules of the destructive ones.  *)
(* A name already taken raises in between: the connection is forgotten     *)
(* open, the tools before the name stay, and no rule is made.              *)
ServerTools(c) ==
  LET servers == IF Doing(c, "add") THEN Added ELSE Configured
  IN  FlattenSeq([k \in DOMAIN servers |-> ToolsOf[servers[k]]])
Fitting(names, n) ==
  \A k \in 1..n : names[k] \notin registry /\ \A j \in 1..(k - 1) : names[j] # names[k]
Owner(c) == IF Doing(c, "add") THEN <<"extra", c, opener[c].calls>> ELSE <<"agent", c, opener[c].calls>>

Attached(c) ==
  /\ Connecting(c) /\ opener[c].todo = <<>>
  /\ Fitting(ServerTools(c), Len(ServerTools(c)))
  /\ registry' = registry \cup ToSet(ServerTools(c))
  /\ asks' = asks \cup (ToSet(ServerTools(c)) \cap Destructive)
  /\ held' = held \cup {Owner(c)}
  /\ connect' = IF Doing(c, "connect") THEN "used" ELSE connect
  /\ Move(c, IF Doing(c, "connect") THEN "store" ELSE "idle", <<>>)
  /\ UNCHANGED live
AttachRaises(c) ==
  /\ Connecting(c) /\ opener[c].todo = <<>>
  /\ \E n \in 0..(Len(ServerTools(c)) - 1) :
       /\ Fitting(ServerTools(c), n) /\ ~Fitting(ServerTools(c), n + 1)
       /\ registry' = registry \cup {ServerTools(c)[k] : k \in 1..n}
  /\ connect' = IF Doing(c, "connect") THEN "none" ELSE connect
  /\ Move(c, "raised", <<>>)
  /\ UNCHANGED <<held, live, asks>>

(* store.create and load_messages, which await; then the session is there. *)
SessionOpened(c) ==
  /\ Doing(c, "store") /\ \E how \in {"opened", "raised"} : Move(c, how, <<>>)
  /\ UNCHANGED <<connect, held, live, registry, asks>>

(* close(): sessions are dropped, then what the agent holds is closed.     *)
(* Tools and the used coroutine stay.                                      *)
CloseAgent ==
  /\ \E c \in Openers : MayCall(c) /\ opener' = [d \in Openers |->
       IF d = c THEN [opener[c] EXCEPT !.calls = @ + 1]
       ELSE IF Doing(d, "opened") THEN [opener[d] EXCEPT !.at = "idle"] ELSE opener[d]]
  /\ live' = {l \in live : \A h \in held : <<h[2], h[3]>> # <<l[1], l[2]>>}
  /\ held' = {}
  /\ UNCHANGED <<connect, registry, asks>>

AgentStep(c) ==
  \/ OpenSession(c) \/ AddServers(c) \/ ServerConnected(c) \/ ConnectFails(c)
  \/ ConnectCancelled(c) \/ Attached(c) \/ AttachRaises(c) \/ SessionOpened(c)
AgentNext == CloseAgent \/ \E c \in Openers : AgentStep(c)
AgentSpec == AgentInit /\ [][AgentNext]_agentVars

---------------------------------------------------------------------------
(* A session never opens before the configured servers' tools are in the   *)
(* registry with the rules that make the destructive ones ask, whoever     *)
(* connected, failed or was cancelled before (agent.py connect_mcp).       *)
OpenedHasItsTools ==
  \A c \in Openers : opener[c].at \in {"store", "opened"} =>
    \A k \in DOMAIN Configured :
      /\ ToSet(ToolsOf[Configured[k]]) \subseteq registry
      /\ ToSet(ToolsOf[Configured[k]]) \cap Destructive \subseteq asks

(* "Agent mint many concurrent sessions safely": a session is only refused *)
(* by a server or a store that fails, never by another one being opened.   *)
ConcurrentOpens ==
  [][\A c \in Openers : connect = "running" /\ MayCall(c) => opener'[c].at # "raised"]_agentVars

(* A destructive tool is only registered with the rule that makes it ask   *)
(* (agent.py _attach_mcp_tools).                                           *)
DestructiveAsks == registry \cap Destructive \subseteq asks
=============================================================================

------------------------------ MODULE Context ------------------------------
(***************************************************************************)
(* What is added to one provider request, from context/builder.py, the     *)
(* ContextInjectionHooks of an agent (hooks/adapters.py), and              *)
(* loop/request.py: each builder contributes system blocks, messages, a    *)
(* choice of tools and a cap, each hook trims its own, and the union of    *)
(* the hooks is trimmed again.  A text stands for its length.              *)
(***************************************************************************)
EXTENDS Naturals, SequencesExt, FiniteSetsExt

CONSTANTS
  Injections,     \* the hooks, in their order, each with its builders
  Contributions,  \* what a builder may contribute to a turn
  Registered,     \* the tools of the session
  ContextTurns,   \* bound on the provider requests
  NoCap,
  EveryTool

Builders == UNION {ToSet(Injections[i]) : i \in DOMAIN Injections}
Additions ==
  [system : Seq(Nat), messages : Seq(Nat), cap : Nat \cup {NoCap}, used : Nat,
   tools : {c.tools : c \in Contributions} \cup {EveryTool}, trimmed : BOOLEAN]

ASSUME ContextAssumption ==
  /\ ContextTurns \in Nat
  /\ Injections \in Seq(Seq(Builders) \ {<<>>})
  /\ Contributions \subseteq Additions

VARIABLES
  merging,   \* the union of the hooks so far, and how many have been heard
  sent,      \* the additions of the request that was made last
  requests   \* requests so far

contextVars == <<merging, sent, requests>>

Empty == [system |-> <<>>, messages |-> <<>>, tools |-> EveryTool, cap |-> NoCap,
          used |-> 0, trimmed |-> FALSE]
NoUnion == [heard |-> 0, union |-> Empty]

-----------------------------------------------------------------------------
(* Four characters are a token and no text is none; the blocks of the      *)
(* system are counted as one text, a line each.                            *)
Tokens(length) == IF length = 0 THEN 0 ELSE Max({1, length \div 4})
Total(s) ==
  LET upto[n \in 0 .. Len(s)] == IF n = 0 THEN 0 ELSE upto[n - 1] + s[n]
  IN upto[Len(s)]
Joined(blocks) == IF blocks = <<>> THEN 0 ELSE Total(blocks) + Len(blocks) - 1
Used(blocks, messages) ==
  Tokens(Joined(blocks)) + Total([i \in DOMAIN messages |-> Tokens(messages[i])])

(* Messages are dropped, oldest first, until the rest fits, and only when  *)
(* none is left are blocks.                                                *)
Rest(s, k) == SubSeq(s, k + 1, Len(s))
Fewest(n, enough) == IF enough = {} THEN n ELSE Min(enough)
Budgeted(c) ==
  LET uncapped == c.cap = NoCap
      n == Len(c.messages)
      m == Rest(c.messages, Fewest(n,
             {k \in 0 .. n : uncapped \/ Used(c.system, Rest(c.messages, k)) <= c.cap}))
      p == Len(c.system)
      b == Rest(c.system, Fewest(p,
             {k \in 0 .. p : uncapped \/ Used(Rest(c.system, k), m) <= c.cap}))
  IN [c EXCEPT !.system = b, !.messages = m, !.used = Used(b, m),
               !.trimmed = @ \/ b # c.system \/ m # c.messages]

(* Contributions are joined in their order; the last choice of tools and   *)
(* the last cap count.                                                     *)
Join(a, c) ==
  [system |-> a.system \o c.system, messages |-> a.messages \o c.messages,
   tools |-> IF c.tools = EveryTool THEN a.tools ELSE c.tools,
   cap |-> IF c.cap = NoCap THEN a.cap ELSE c.cap,
   used |-> a.used + c.used, trimmed |-> a.trimmed \/ c.trimmed]
Chained(cs) ==
  LET upto[n \in 0 .. Len(cs)] == IF n = 0 THEN Empty ELSE Join(upto[n - 1], cs[n])
  IN upto[Len(cs)]

(* A memory builder contributes one message that lists its hits, if any.   *)
Remembered(hits, cap, tools) ==
  [Empty EXCEPT !.messages = IF hits = <<>> THEN <<>> ELSE <<Joined(hits)>>,
                !.cap = cap, !.tools = tools]

ContextInit == merging = NoUnion /\ sent = NoUnion.union /\ requests = 0

(* The builders of the next hook are awaited one after the other.          *)
HookBuilds ==
  /\ merging.heard < Len(Injections) /\ requests < ContextTurns
  /\ \E cs \in [1 .. Len(Injections[merging.heard + 1]) -> Contributions] :
       merging' = [heard |-> merging.heard + 1,
                   union |-> Join(merging.union, Budgeted(Chained(cs)))]
  /\ UNCHANGED <<sent, requests>>

(* Mutant: each hook has trimmed its own, and that is all.                 *)
UnionAsItIs(u) == u
(* The union is trimmed to its cap when it is the union of several hooks.  *)
UnionOf(u) == IF Len(Injections) > 1 /\ u.cap # NoCap THEN Budgeted(u) ELSE u

(* The request: the additions follow the system blocks and the view, and   *)
(* the tools that were chosen are offered.                                 *)
Offered(tools) == IF tools = EveryTool THEN Registered ELSE Registered \cap tools
RequestMade ==
  /\ merging.heard = Len(Injections) /\ requests < ContextTurns
  /\ sent' = [UnionOf(merging.union) EXCEPT !.tools = Offered(@)]
  /\ merging' = NoUnion
  /\ requests' = requests + 1

ContextNext == HookBuilds \/ RequestMade
ContextSpec == ContextInit /\ [][ContextNext]_contextVars

-----------------------------------------------------------------------------
(* What is added to a request takes no more than the last cap a builder    *)
(* gave, however many hooks and builders contributed to it, and is what    *)
(* the event reports of it (request.py:111).                               *)
WithinContextBudget ==
  sent.cap # NoCap =>
    Used(sent.system, sent.messages) <= sent.cap /\ sent.used = Used(sent.system, sent.messages)
=============================================================================

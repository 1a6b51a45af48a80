------------------------------- MODULE MCParts --------------------------------
(***************************************************************************)
(* TLC instance of the parts of an agent that are checked for safety: a    *)
(* turn and its history, the providers' wire, permissions, hooks, files,   *)
(* memory, the shared stores, the agent's own life, the log of a run,      *)
(* skills, definitions of subagents, observers and injected context.  They *)
(* share no state, so a behaviour is one of the part in focus, and what    *)
(* the others may start with is fixed.                                     *)
(***************************************************************************)
EXTENDS Turn, Wire, Permissions, Hooks, Files, Memory, Stores, AgentLife, RunLog, Skills, Catalog,
Spans, Context, TLC

CONSTANT Focused  \* the parts this run is about

VARIABLE focus
partsVars == <<focus, turnVars, wireVars, permVars, hookVars, fileVars,
               memoryVars, storeVars, agentVars, logVars, skillVars,
               catalogVars, spanVars, contextVars>>

PartsInit ==
  /\ focus \in Focused
  /\ TurnInit /\ WireInit /\ PermissionsInit /\ HooksInit /\ FilesInit
  /\ MemoryInit /\ StoresInit /\ AgentInit /\ RunLogInit /\ SkillsInit
  /\ CatalogInit /\ SpansInit /\ ContextInit
  /\ focus # "turn" => ~ladder
  /\ focus # "wire" => provider = "anthropic" /\ ~streaming
  /\ focus # "permissions" => mode = "default"
  /\ focus # "stores" => table = "messages"
  /\ focus # "runlog" => backend = "sqlite"

PartsNext ==
  /\ UNCHANGED focus
  /\ \/ /\ focus = "turn" /\ TurnNext
        /\ UNCHANGED <<wireVars, permVars, hookVars, fileVars, memoryVars,
                        storeVars, agentVars, logVars, skillVars, catalogVars,
                        spanVars, contextVars>>
     \/ /\ focus = "wire" /\ WireNext
        /\ UNCHANGED <<turnVars, permVars, hookVars, fileVars, memoryVars,
                        storeVars, agentVars, logVars, skillVars, catalogVars,
                        spanVars, contextVars>>
     \/ /\ focus = "permissions" /\ PermissionsNext
        /\ UNCHANGED <<turnVars, wireVars, hookVars, fileVars, memoryVars,
                        storeVars, agentVars, logVars, skillVars, catalogVars,
                        spanVars, contextVars>>
     \/ /\ focus = "hooks" /\ HooksNext
        /\ UNCHANGED <<turnVars, wireVars, permVars, fileVars, memoryVars,
                        storeVars, agentVars, logVars, skillVars, catalogVars,
                        spanVars, contextVars>>
     \/ /\ focus = "files" /\ FilesNext
        /\ UNCHANGED <<turnVars, wireVars, permVars, hookVars, memoryVars,
                        storeVars, agentVars, logVars, skillVars, catalogVars,
                        spanVars, contextVars>>
     \/ /\ focus = "memory" /\ MemoryNext
        /\ UNCHANGED <<turnVars, wireVars, permVars, hookVars, fileVars,
                        storeVars, agentVars, logVars, skillVars, catalogVars,
                        spanVars, contextVars>>
     \/ /\ focus = "stores" /\ StoresNext
        /\ UNCHANGED <<turnVars, wireVars, permVars, hookVars, fileVars,
                        memoryVars, agentVars, logVars, skillVars, catalogVars,
                        spanVars, contextVars>>
     \/ /\ focus = "agent" /\ AgentNext
        /\ UNCHANGED <<turnVars, wireVars, permVars, hookVars, fileVars,
                        memoryVars, storeVars, logVars, skillVars, catalogVars,
                        spanVars, contextVars>>
     \/ /\ focus = "runlog" /\ RunLogNext
        /\ UNCHANGED <<turnVars, wireVars, permVars, hookVars, fileVars,
                        memoryVars, storeVars, agentVars, skillVars,
                        catalogVars, spanVars, contextVars>>
     \/ /\ focus = "skills" /\ SkillsNext
        /\ UNCHANGED <<turnVars, wireVars, permVars, hookVars, fileVars,
                        memoryVars, storeVars, agentVars, logVars, catalogVars,
                        spanVars, contextVars>>
     \/ /\ focus = "catalog" /\ CatalogNext
        /\ UNCHANGED <<turnVars, wireVars, permVars, hookVars, fileVars,
                        memoryVars, storeVars, agentVars, logVars, skillVars,
                        spanVars, contextVars>>
     \/ /\ focus = "spans" /\ SpansNext
        /\ UNCHANGED <<turnVars, wireVars, permVars, hookVars, fileVars,
                        memoryVars, storeVars, agentVars, logVars, skillVars,
                        catalogVars, contextVars>>
     \/ /\ focus = "context" /\ ContextNext
        /\ UNCHANGED <<turnVars, wireVars, permVars, hookVars, fileVars,
                        memoryVars, storeVars, agentVars, logVars, skillVars,
                        catalogVars, spanVars>>

PartsSpec == PartsInit /\ [][PartsNext]_partsVars

AllParts ==
  {"turn", "wire", "permissions", "hooks", "files", "memory", "stores", "agent", "runlog",
   "skills", "catalog", "spans", "context"}

MCTexts == {<<"a", "a">>, <<"a", "b">>}

(* Each session has a virtual filesystem of its own.                       *)
MCBackendOf == [s \in FileUsers |-> s]

(* A middleware and two plain hooks before the verifier.                   *)
MCChain == <<"plain", "middleware", "plain", "verifier">>

(* What the model extracts from a run: ids and words that overlap.         *)
Memo(i, w, t) == [id |-> i, words |-> w, tier |-> t]
MCExtractions == {<<Memo(1, {"a"}, "working")>>,
                  <<Memo(1, {"a", "b"}, "semantic"), Memo(2, {"b"}, "working")>>,
                  <<Memo(2, {"a"}, "semantic"), Memo(1, {"b"}, "semantic")>>}
MCQueries == {{"a"}, {"a", "b"}}
MCTierOrder == <<"working", "semantic">>

MCConfigured == <<"mcp1">>
MCAdded == <<"mcp2">>
MCToolsOf == [mcp1 |-> <<"read", "wipe">>, mcp2 |-> <<"drop", "note">>]

(* Skills: one that grants tools, one that also names a model and covers a *)
(* built-in one, a link, one of a name that is taken, one with arguments   *)
(* that repeat, and one that is hidden from the model.                     *)
Document(n, ts, m, hidden, args) ==
  [name |-> n, tools |-> ts, model |-> m, hidden |-> hidden, arguments |-> args,
   described |-> TRUE, typed |-> TRUE]
Directory(d, link, doc) == [dir |-> d, link |-> link, readable |-> TRUE, doc |-> doc]
MCSkillDirs ==
  <<Directory("a", FALSE, Document("", {"Bash", "Skill"}, "", FALSE, <<"x">>)),
    Directory("b", FALSE, Document("Verify", {"Bash"}, "big", FALSE, <<>>)),
    Directory("c", TRUE, Document("", {}, "", FALSE, <<>>)),
    Directory("d", FALSE, Document("a", {}, "", FALSE, <<>>)),
    Directory("e", FALSE, Document("", {"Bash"}, "", FALSE, <<"x", "x">>)),
    Directory("f", FALSE, Document("", {}, "", TRUE, <<>>))>>
MCBuiltIns == {[name |-> "verify", tools |-> {}, model |-> "", hidden |-> FALSE]}
MCLower ==
  [n \in {"a", "b", "c", "d", "e", "f", "Verify", "verify"} |->
     IF n = "Verify" THEN "verify" ELSE n]

(* Files of agents, two of which differ only in case.                      *)
MCAgentFiles == <<"Reviewer.md", "a.md", "reviewer.md">>
MCBaseName ==
  ("Reviewer.md" :> "Reviewer") @@ ("a.md" :> "a") @@ ("reviewer.md" :> "reviewer")
MCSlug == ("Reviewer" :> "reviewer") @@ ("reviewer" :> "reviewer") @@ ("a" :> "a")

(* A hook with two builders and one with one; what they contribute has     *)
(* caps it exceeds alone, in a chain, or only in the union.                *)
MCInjections == <<<<"memory", "notes">>, <<"search">>>>
MCContributions ==
  {Empty, Remembered(<<4, 3>>, 2, {"Read"}), Remembered(<<8>>, NoCap, EveryTool),
   [Empty EXCEPT !.system = <<3, 6>>, !.messages = <<4>>, !.cap = 3],
   [Empty EXCEPT !.system = <<5>>]}
===============================================================================

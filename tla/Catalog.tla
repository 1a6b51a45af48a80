------------------------------ MODULE Catalog ------------------------------
(***************************************************************************)
(* The definitions of subagents, from subagents/loader.py, registry.py,    *)
(* generator.py and agent.py: files that a host puts in the agents         *)
(* directory and that agents generate, and the registry that is loaded     *)
(* from them.  Several generations run at once; only the model is awaited, *)
(* so what follows its answer is one step.                                 *)
(***************************************************************************)
EXTENDS Naturals, FiniteSetsExt, Sequences

CONSTANTS
  Creators,      \* calls of create_subagent_definition
  AgentFiles,    \* names of the files there may be, sorted
  BaseName,      \* the name a file gives its definition by itself
  Spellings,     \* names that frontmatter may give
  Slug,          \* a spelled name in lower case
  BuiltInAgents, \* built-in definitions, and the default that none replaces
  HostFiles,     \* bound on the files the host adds
  NoFile

ASSUME CatalogAssumption == Creators # {} /\ HostFiles \in Nat

VARIABLES
  agentFiles,  \* the agents directory
  agentTypes,  \* the registry: which file serves a name, once connected
  creator,     \* the state of each generation
  added        \* files the host has added

catalogVars == <<agentFiles, agentTypes, creator, added>>

Entries == 1 .. Len(AgentFiles)
AgentNames == {Slug[s] : s \in Spellings}

-----------------------------------------------------------------------------
(* A definition that is whole and described; what is not is skipped.       *)
Definition(name, by) == [name |-> name, by |-> by, fine |-> TRUE]
Torn(by) == [name |-> "", by |-> by, fine |-> FALSE]
Defines(fs, i, n) ==
  /\ fs[i] # NoFile /\ fs[i].fine
  /\ Slug[IF fs[i].name = "" THEN BaseName[AgentFiles[i]] ELSE fs[i].name] = n

(* Of the files that define a name the first is loaded; the definitions of *)
(* the disk are served before the built-in ones.                           *)
Loads(fs, n) == {i \in Entries : Defines(fs, i, n)}
Nothing == 0
BuiltIn == Len(AgentFiles) + 1
Serves(fs, n) ==
  IF Loads(fs, n) # {} THEN Min(Loads(fs, n))
  ELSE IF n \in BuiltInAgents THEN BuiltIn ELSE Nothing
Registry(fs) == [n \in AgentNames |-> Serves(fs, n)]
Unloaded == [n \in AgentNames |-> BuiltIn + 1]

CatalogInit ==
  /\ agentFiles = [i \in Entries |-> NoFile]
  /\ agentTypes = Unloaded
  /\ creator = [c \in Creators |-> [pc |-> "new", overwrite |-> FALSE, taken |-> {},
                                    gave |-> 0, got |-> 0]]
  /\ added = 0

(* connect_subagents and reload_subagents: both read the directory anew.   *)
ConnectSubagents ==
  /\ agentTypes = Unloaded
  /\ agentTypes' = Registry(agentFiles)
  /\ UNCHANGED <<agentFiles, creator, added>>

ReloadSubagents ==
  /\ agentTypes # Unloaded
  /\ agentTypes' = Registry(agentFiles)
  /\ UNCHANGED <<agentFiles, creator, added>>

HostAdds ==
  /\ added < HostFiles
  /\ \E i \in Entries, s \in Spellings \cup {""} :
       /\ agentFiles[i] = NoFile
       /\ agentFiles' = [agentFiles EXCEPT ![i] = Definition(s, "host")]
  /\ added' = added + 1
  /\ UNCHANGED <<agentTypes, creator>>

-----------------------------------------------------------------------------
(* The names that exist when the model is asked: those of the registry, or *)
(* of the directory where there is none; with overwrite none is taken.     *)
Existing ==
  LET known == IF agentTypes = Unloaded THEN Registry(agentFiles) ELSE agentTypes
  IN {n \in AgentNames : known[n] # Nothing}

AskModel(c, overwrite) ==
  /\ creator[c].pc = "new"
  /\ creator' = [creator EXCEPT ![c].pc = "asked", ![c].overwrite = overwrite,
                                ![c].taken = IF overwrite THEN {} ELSE Existing]
  /\ UNCHANGED <<agentFiles, agentTypes, added>>

(* The answer is not a definition, names an unknown tool, or a name that   *)
(* was taken.                                                              *)
AnswerRefused(c) ==
  /\ creator[c].pc = "asked"
  /\ creator' = [creator EXCEPT ![c].pc = "failed"]
  /\ UNCHANGED <<agentFiles, agentTypes, added>>

(* Mutant: only the names that were known when the model was asked count.  *)
MayAlwaysWrite(c, i) == TRUE

(* The definition is written to the file of its name unless there is one,  *)
(* the directory is loaded, and the agent reloads if asked to; what is     *)
(* loaded under the name is the answer.                                    *)
MayWrite(c, i) == agentFiles[i] = NoFile \/ creator[c].overwrite

AnswerWritten(c, n) ==
  /\ creator[c].pc = "asked" /\ n \notin creator[c].taken
  /\ \E i \in Entries :
       /\ BaseName[AgentFiles[i]] = n
       /\ IF MayWrite(c, i)
          THEN /\ agentFiles' = [agentFiles EXCEPT ![i] = Definition(n, c)]
               /\ agentTypes' \in {agentTypes, Registry(agentFiles')}
               /\ creator' = [creator EXCEPT ![c].pc = "done", ![c].gave = i,
                                             ![c].got = Serves(agentFiles', n)]
          ELSE /\ creator' = [creator EXCEPT ![c].pc = "failed"]
               /\ UNCHANGED <<agentFiles, agentTypes>>
  /\ UNCHANGED added

(* The process dies while it writes: what is in the file is not whole.     *)
DiesWriting(c, n) ==
  /\ creator[c].pc = "asked" /\ n \notin creator[c].taken
  /\ \E i \in Entries :
       /\ BaseName[AgentFiles[i]] = n /\ MayWrite(c, i)
       /\ agentFiles' = [agentFiles EXCEPT ![i] = Torn(c)]
  /\ agentTypes' = Unloaded
  /\ creator' = [d \in Creators |->
                   IF creator[d].pc = "asked" THEN [creator[d] EXCEPT !.pc = "failed"]
                   ELSE creator[d]]
  /\ UNCHANGED added

CatalogNext ==
  \/ ConnectSubagents \/ ReloadSubagents \/ HostAdds
  \/ \E c \in Creators :
       \/ \E overwrite \in BOOLEAN : AskModel(c, overwrite)
       \/ AnswerRefused(c)
       \/ \E n \in AgentNames : AnswerWritten(c, n) \/ DiesWriting(c, n)

CatalogSpec == CatalogInit /\ [][CatalogNext]_catalogVars

-----------------------------------------------------------------------------
(* No file of the directory changes but for a generation that was told to  *)
(* overwrite, whatever was generated or added while the model was asked    *)
(* (generator.py:163).                                                     *)
WrittenStays ==
  [][\A i \in Entries : agentFiles[i] # NoFile /\ agentFiles'[i] # agentFiles[i] =>
       \E c \in Creators : creator[c].overwrite /\ creator[c].pc = "asked"
                          /\ creator'[c].pc # "asked"]_catalogVars

(* "Generate, write, and optionally hot-reload a disk-backed subagent":    *)
(* what a generation returns is what it wrote (generator.py:188).          *)
ReturnsWhatItWrote == \A c \in Creators : creator[c].pc = "done" => creator[c].got = creator[c].gave
=============================================================================

------------------------------- MODULE Files -------------------------------
(***************************************************************************)
(* The files of a session.  Read, Write and Edit work on the workspace,    *)
(* Edit only on files the session has read.  The tools read_file,          *)
(* write_file and edit_file, and the scheduler's offload of large results, *)
(* work on the virtual filesystem: a path of StateFileBackend is served at *)
(* once; a call on any other is a job on a daemon thread, which goes on    *)
(* when the call that awaits it times out or is aborted.                   *)
(***************************************************************************)
EXTENDS Integers, Sequences, FiniteSets, Functions, SequencesExt

CONSTANTS
  FileUsers,     \* sessions whose tools share the backend
  Notes,         \* paths the model writes in the virtual filesystem
  Workspace,     \* files under the working directory
  OffloadPaths,  \* /offload/<tool>_<call id>.txt; providers repeat call ids
  BackendOf,     \* session -> its process's backend, which has one executor
  Ephemeral,     \* the paths CompositeFileBackend routes to StateFileBackend
  Disk,          \* those of DiskFileBackend; a job of SqliteFileBackend holds
                 \* (the rest) holds the lock of its executor
  Texts, Marks,  \* a text is a sequence of marks
  MaxFileCalls,  \* bound: calls of the backend
  Missing        \* no such file, no reference, no text

Paths  == Notes \cup OffloadPaths \cup Workspace
Inline == Ephemeral \cup Workspace

ASSUME FilesAssumption ==
  /\ OffloadPaths \cap (Notes \cup Workspace) = {} /\ Ephemeral \subseteq Paths
  /\ Missing \notin Paths \cup Texts
  \* A StateFileBackend belongs to one process.
  /\ Ephemeral # {} => \A s \in FileUsers, t \in FileUsers : BackendOf[s] = BackendOf[t]

VARIABLES
  files,     \* path -> text, or Missing
  written,   \* offload path -> its offloads, and what changed it, in order
  jobs,      \* calls whose threads have not finished
  calling,   \* session -> the job its tool awaits, or 0
  results,   \* session -> its result's path and call, and the text put there
  tracker,   \* session -> the workspace files it has read
  refs,      \* the references in a history, with the results they stand for
  fileCalls  \* calls made so far

fileVars == <<files, written, jobs, calling, results, tracker, refs, fileCalls>>

NoResult == [path |-> Missing, text |-> Missing, no |-> 0]

FilesInit ==
  /\ files = [p \in Paths |-> Missing]
  /\ written = [p \in OffloadPaths |-> <<>>]
  /\ jobs = {}
  /\ calling = [s \in FileUsers |-> 0]
  /\ results = [s \in FileUsers |-> NoResult]
  /\ tracker = [s \in FileUsers |-> {}]
  /\ refs = {}
  /\ fileCalls = 0

---------------------------------------------------------------------------
(* What a call makes of a text.                                            *)
Places(text, mark) == {i \in DOMAIN text : text[i] = mark}

Edited(text, c) ==
  LET places == Places(text, c.old)
      first == CHOOSE i \in places : \A j \in places : i <= j
  IN  [i \in DOMAIN text |->
         IF i \in places /\ (c.all \/ i = first) THEN c.new ELSE text[i]]

EditFails(text, c) ==
  IF text = Missing THEN TRUE
  ELSE LET count == Cardinality(Places(text, c.old))
       IN  count = 0 \/ (count > 1 /\ ~c.all)

Fails(text, c) == c.kind = "edit" /\ EditFails(text, c)

After(text, c) ==
  CASE c.kind \in {"write", "offload"} -> c.text
    [] c.kind = "read"                 -> text
    [] c.kind = "delete"               -> Missing
    [] c.kind = "edit" -> IF EditFails(text, c) THEN text ELSE Edited(text, c)

(* What the tools, and for delete an embedder or a command, ask of a path. *)
Call(kind, p, text, old, new, all) ==
  [kind |-> kind, path |-> p, text |-> text, old |-> old, new |-> new, all |-> all]

Changes(p) ==
  {Call("write", p, t, Missing, Missing, FALSE) : t \in Texts}
  \cup {Call("edit", p, Missing, m[1], m[2], a) :
          m \in {x \in Marks \X Marks : x[1] # x[2]}, a \in BOOLEAN}
  \cup {Call("delete", p, Missing, Missing, Missing, FALSE)}

Requests ==
  {Call("read", p, Missing, Missing, Missing, FALSE) : p \in Paths}
  \cup UNION {Changes(p) : p \in Paths}

---------------------------------------------------------------------------
(* A call's text is put in the file.                                       *)
PutText(no, c, text) ==
  /\ files' = [files EXCEPT ![c.path] = text]
  /\ written' = [p \in OffloadPaths |->
                   IF p = c.path /\ (c.kind = "offload" \/ text # files[p])
                     THEN Append(written[p], [no |-> no, kind |-> c.kind, text |-> text])
                     ELSE written[p]]

Submit(s, c) ==
  /\ calling[s] = 0 /\ fileCalls < MaxFileCalls
  /\ fileCalls' = fileCalls + 1
  /\ UNCHANGED refs
  /\ \/ /\ c.path \in Inline
        /\ PutText(fileCalls', c, After(files[c.path], c))
        /\ UNCHANGED <<jobs, calling>>
     \/ /\ c.path \notin Inline
        /\ jobs' = jobs \cup {[no |-> fileCalls', by |-> s, call |-> c,
                               phase |-> "new", seen |-> Missing]}
        /\ calling' = [calling EXCEPT ![s] = fileCalls']
        /\ UNCHANGED <<files, written>>

CallTool(s, c) ==
  /\ results[s].path = Missing
  /\ (c.kind = "edit" /\ c.path \in Workspace) => c.path \in tracker[s]
  /\ Submit(s, c)
  /\ tracker' = [tracker EXCEPT ![s] =
                   IF c.kind = "read" /\ c.path \in Workspace /\ files[c.path] # Missing
                     THEN @ \cup {c.path} ELSE @]
  /\ UNCHANGED results

(* A compaction takes what was read out of the model's sight.              *)
CompactHistory(s) ==
  /\ calling[s] = 0 /\ tracker[s] # {}
  /\ tracker' = [tracker EXCEPT ![s] = {}]
  /\ UNCHANGED <<files, written, jobs, calling, results, refs, fileCalls>>

(* A large result, or the one a PostToolUse hook puts in its place: the    *)
(* path is that of the call, and of every other call with its id.          *)
Offload(s, p, text) ==
  /\ results[s].path \in {Missing, p}
  /\ results' = [results EXCEPT ![s] =
                   [path |-> p, text |-> IF p \in Inline THEN text ELSE Missing,
                    no |-> fileCalls + 1]]
  /\ Submit(s, Call("offload", p, text, Missing, Missing, FALSE))
  /\ UNCHANGED tracker

(* The tool result enters the history, with a reference or, where nothing  *)
(* was put or a hook has put one in its place that needs none, without.    *)
AppendResult(s) ==
  /\ calling[s] = 0 /\ results[s].path # Missing
  /\ \/ UNCHANGED refs
     \/ results[s].text # Missing /\ refs' = refs \cup {results[s]}
  /\ results' = [results EXCEPT ![s] = NoResult]
  /\ UNCHANGED <<files, written, jobs, calling, tracker, fileCalls>>

---------------------------------------------------------------------------
(* The scheduler swaps the result for a reference when the write returns.  *)
Returned(s, c) ==
  IF c.kind = "offload" THEN results' = [results EXCEPT ![s].text = c.text]
                        ELSE UNCHANGED results

Finish(j) ==
  /\ jobs' = jobs \ {j}
  /\ IF calling[j.by] = j.no
       THEN calling' = [calling EXCEPT ![j.by] = 0] /\ Returned(j.by, j.call)
       ELSE UNCHANGED <<calling, results>>
  /\ UNCHANGED <<tracker, refs, fileCalls>>

(* A thread may begin: on disk at any time, in SQLite when no other thread *)
(* of its backend is between a SELECT and its UPDATE.                      *)
MayBegin(j) ==
  /\ j.phase = "new"
  /\ j.call.path \notin Disk =>
       \A i \in jobs : i.phase = "read" /\ i.call.path \notin Disk =>
         BackendOf[i.by] # BackendOf[j.by]

(* The calls whose text is put apart from its reading: on disk what is     *)
(* written, in SQLite an edit.                                             *)
Apart(c) == c.kind = "edit" \/ (c.path \in Disk /\ c.kind \in {"write", "offload"})

RunWhole(j) ==
  /\ MayBegin(j)
  /\ ~Apart(j.call) \/ Fails(files[j.call.path], j.call)
  /\ PutText(j.no, j.call, After(files[j.call.path], j.call))
  /\ Finish(j)

(* The text is read first.  On disk nothing keeps other threads out until  *)
(* it is written; in SQLite nothing keeps other processes out.             *)
ReadText(j) ==
  /\ MayBegin(j)
  /\ Apart(j.call) /\ ~Fails(files[j.call.path], j.call)
  /\ jobs' = (jobs \ {j}) \cup {[j EXCEPT !.phase = "read", !.seen = files[j.call.path]]}
  /\ UNCHANGED <<files, written, calling, results, tracker, refs, fileCalls>>

(* An UPDATE of a row that is gone changes nothing.                        *)
WriteText(j) ==
  /\ j.phase = "read"
  /\ PutText(j.no, j.call, IF j.call.path \notin Disk /\ files[j.call.path] = Missing
                         THEN Missing ELSE After(j.seen, j.call))
  /\ Finish(j)

(* Mutant: a write that fails is taken for one that was made.              *)
FailUnseen(j) ==
  /\ j.call.kind # "read"
  /\ Finish(j)
  /\ UNCHANGED <<files, written>>

(* The write fails, without a part of it in the file: the tool answers     *)
(* with an error, and an offload leaves the result as it was.              *)
Fail(j) ==
  /\ j.call.kind # "read"
  /\ jobs' = jobs \ {j}
  /\ calling' = [s \in FileUsers |-> IF calling[s] = j.no THEN 0 ELSE calling[s]]
  /\ UNCHANGED <<files, written, results, tracker, refs, fileCalls>>

(* A deadline or an abort: the awaiting coroutine is gone, and with it the *)
(* call's result.                                                          *)
Abandon(s) ==
  /\ calling[s] # 0
  /\ calling' = [calling EXCEPT ![s] = 0]
  /\ results' = [results EXCEPT ![s] = NoResult]
  /\ UNCHANGED <<files, written, jobs, tracker, refs, fileCalls>>

(* A process dies; its sessions are opened again from their histories.     *)
Restart(b) ==
  /\ files' = [p \in Paths |-> IF p \in Ephemeral THEN Missing ELSE files[p]]
  /\ tracker' = [s \in FileUsers |-> IF BackendOf[s] = b THEN {} ELSE tracker[s]]
  /\ jobs' = {j \in jobs : BackendOf[j.by] # b}
  /\ calling' = [s \in FileUsers |-> IF BackendOf[s] = b THEN 0 ELSE calling[s]]
  /\ results' = [s \in FileUsers |-> IF BackendOf[s] = b THEN NoResult ELSE results[s]]
  /\ UNCHANGED <<written, refs, fileCalls>>

FilesNext ==
  \/ \E s \in FileUsers :
       \/ AppendResult(s) \/ Abandon(s) \/ CompactHistory(s)
       \/ \E c \in Requests : CallTool(s, c)
       \/ \E p \in OffloadPaths, t \in Texts : Offload(s, p, t)
  \/ \E j \in jobs : RunWhole(j) \/ ReadText(j) \/ WriteText(j) \/ Fail(j)
  \/ \E s \in FileUsers : Restart(BackendOf[s])

FilesSpec == FilesInit /\ [][FilesNext]_fileVars

---------------------------------------------------------------------------
(* A reference stands for a result that its call has put in the file, all  *)
(* of it: however calls fail, are abandoned and come late, hooks replace   *)
(* the result and processes restart, the path reads it back until another  *)
(* call changes the path.                                                  *)
OffloadIsWritten ==
  \A r \in refs : r.path \notin Ephemeral =>
    \E i \in DOMAIN written[r.path] :
      /\ written[r.path][i].no = r.no
      /\ written[r.path][i].text = r.text
      /\ i = Len(written[r.path]) => files[r.path] = r.text

(* Violated.  filesystem/offload.py says the model pulls back what it needs*)
(* of a result with read_file: its path reads back the result for as long  *)
(* as only results are put there.  A result of another call with the same  *)
(* id, in this session or one that shares the backend, is put over it.     *)
OffloadedResultReadable ==
  \A r \in refs :
    (r.path \notin Ephemeral /\ \A w \in ToSet(written[r.path]) : w.kind = "offload") =>
      files[r.path] = r.text

(* Violated.  filesystem/backend.py says an edit replaces old by new in the*)
(* file: what other calls put there until it is done stays.  On disk, and  *)
(* in SQLite where two processes share the file, it writes all of the text *)
(* it has read before.  Under one executor's lock it holds.                *)
EditsKeepOthers ==
  [][\A j \in jobs :
       (j.call.kind = "edit" /\ j \notin jobs' /\ files'[j.call.path] # files[j.call.path])
         => files'[j.call.path] = After(files[j.call.path], j.call)]_fileVars
=============================================================================
